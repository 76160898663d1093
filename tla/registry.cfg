CONSTANTS
  None = None
  Junk = Junk
  Raises = Raises
  NoKey <- NoItem
  Platforms <- AllPlatforms
  Payloads <- PoolNames
  Content <- Pools
  Build <- BuildOf
SPECIFICATION FairSpec
INVARIANTS
  TypeOK
  NoEntityTwice
  ItemsHaveEntities
  EntitiesCurrent
  VolumeIsDosed
PROPERTIES
  NewItemsAppear
