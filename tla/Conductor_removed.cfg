CONSTANTS
  Auths = {a1}
  Models = {m1}
  Procs = {p1, p2}
  Cooldowns = {0, 1}
  MaxTime = 2
  Operations = {"request", "pipeline", "removal"}
  NoAuth = NoAuth
SPECIFICATION Spec
INVARIANT RemovedIsForgotten
