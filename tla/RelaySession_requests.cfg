CONSTANTS
  Requests = {r1}
  Buffer = 2
  MaxChunks = 3
  NoRequest = NoRequest
SPECIFICATION Spec
INVARIANTS TypeOK OpenIsPending SuccessIsWhole
PROPERTY CallersReturn
CHECK_DEADLOCK FALSE
