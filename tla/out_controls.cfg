CONSTANTS
  Equipments <- AllOuts
  Others = TRUE
  MaxWrites = 1
SPECIFICATION Spec
INVARIANTS
  TypeOK
  WritesPermitted
  AccessKept
PROPERTIES
  ModeChangeKeepsOutput
  CommandLands
  SwitchKeepsMode
  ResumesSeenSpeed
CHECK_DEADLOCK FALSE
