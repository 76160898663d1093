CONSTANTS
  t1 = t1
  t2 = t2
  Threads <- TwoThreads
  MaxCalls = 1
SPECIFICATION Spec
INVARIANT ReauthIsEarned
CHECK_DEADLOCK FALSE
