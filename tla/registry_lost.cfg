CONSTANTS
  None = None
  Junk = Junk
  Raises = Raises
  NoKey <- NoItem
  Platforms <- SensorAndSwitch
  Payloads <- GarbledOnce
  Content <- Pools
  Build <- BuildOf
SPECIFICATION Spec
INVARIANTS
  EquipmentAppears
