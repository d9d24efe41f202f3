CONSTANTS
  Auths = {a1}
  Workers = {w1}
  Callers = {c1, c2}
  NoAuth = NoAuth
  NoTime = NoTime
  Lifetimes = {0, 1}
  Pending = 2
  Backoff = 2
  Ineffective = 1
  JobsCap = 1
  MaxLag = 1
SYMMETRY Symmetry
SPECIFICATION Spec
INVARIANTS TypeOK NoneForgotten OneRefreshAtATime TimerInTime
