CONSTANTS
  Auths = {a1}
  Workers = {w1}
  Callers = {c1}
  NoAuth = NoAuth
  NoTime = NoTime
  Lifetimes = {0, 2}
  Pending = 1
  Backoff = 2
  Ineffective = 1
  JobsCap = 1
  MaxLag = 0
SPECIFICATION FairSpec
PROPERTIES MarksAreApplied DueIsRefreshed
