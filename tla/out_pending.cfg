CONSTANTS
  Equipments <- VariablePump
  Others = FALSE
  MaxWrites = 2
SPECIFICATION Spec
PROPERTY PendingWriteSurvives
CHECK_DEADLOCK FALSE
