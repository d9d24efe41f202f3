CONSTANTS
  Auths = {1, 2, 3}
  Providers = {1, 2}
  Setups <- MCSetups
  Eligible <- MCEligible
  MaxServed = 3
  NoAuth = NoAuth
  NoParent = NoParent
  NoTime = NoTime
SPECIFICATION SchedulerSpec
INVARIANTS IndexAgrees PicksAreRight RotationIsEven
