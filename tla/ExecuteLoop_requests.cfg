CONSTANTS
  a = a
  b = b
  m = m
  u = u
  v = v
  p = p
  q = q
  Kinds <- MCKinds
  Auths = {a, b}
  Provider <- MCProvider
  Models = {m, u, v}
  Pool <- MCPool
  Preparing = {a}
  CreditAuths = {a}
  Cooling = {a, b}
  Retry <- MCRetry
  MaxWait = 1
  Cooldowns = {1, 2}
  NoAuth = NoAuth
SPECIFICATION Spec
INVARIANTS EachCallReported CallsBounded
PROPERTIES InvalidIsFinal RequestEnds
