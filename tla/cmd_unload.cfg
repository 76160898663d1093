CONSTANTS
  c1 = c1
  c2 = c2
  switch = switch
  External = External
  NoCall = NoCall
  Entities <- OneEntity
  Calls <- TwoCalls
  EntityOf <- BothOnSwitch
  MaxPolls = 2
SPECIFICATION Spec
INVARIANTS
  NoTaskOutlivesEntry
CHECK_DEADLOCK FALSE
