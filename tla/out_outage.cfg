CONSTANTS
  Equipments <- VariablePump
  Others = TRUE
  MaxWrites = 1
SPECIFICATION Spec
PROPERTY RemembersAcrossRestarts
CHECK_DEADLOCK FALSE
