CONSTANTS
  Models = {m1, m2}
  NoTime = NoTime
  NoHint = NoHint
  Hints = {0}
  QuotaBase = 1
  QuotaMax = 2
  ChallengeMin = 2
  Transient = 1
  Denied = 2
  Missing = 2
  CoolingOff = {TRUE, FALSE}
  Direct = TRUE
  MaxInFlight = 2
SPECIFICATION FairSpec
INVARIANTS TypeOK AggregateExact StatusHonest LevelsBounded
PROPERTIES BlocksEnd
