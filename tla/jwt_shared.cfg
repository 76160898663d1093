CONSTANTS
  t1 = t1
  t2 = t2
  Threads <- TwoThreads
  MaxCalls = 1
SPECIFICATION FairSpec
INVARIANTS
  TypeOK
  RenewsOnce
  CarriedOutOnce
  ReauthIsEarnedAlone
PROPERTIES
  ServesCalls
  CallsEnd
CHECK_DEADLOCK FALSE
