CONSTANTS
  Auths = {a1}
  Models = {m1}
  Procs = {p1, p2}
  Cooldowns = {0, 1}
  MaxTime = 2
  Operations = {"selector", "request", "update", "pipeline", "removal", "management"}
  NoAuth = NoAuth
SPECIFICATION Spec
SYMMETRY Symmetry
INVARIANTS TypeOK MirrorAgrees HeldIsCurrent SupportAgrees
PROPERTIES PickIsUsable
