CONSTANTS
  c1 = c1
  c2 = c2
  switch = switch
  External = External
  NoCall = NoCall
  Entities <- OneEntity
  Calls <- TwoCalls
  EntityOf <- BothOnSwitch
  MaxPolls = 2
SPECIFICATION FairSpec
INVARIANTS
  TypeOK
  OneConfirmation
  VerdictIsOwn
  AccountedFor
  ReadingDue
  EventsAreRefusals
PROPERTIES
  KeepsPromise
  ConfirmationEnds
  OptimisticGives
  SettlesOnPod
CHECK_DEADLOCK FALSE
