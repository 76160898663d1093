CONSTANTS
  one = one
  another = another
  third = third
  spa = spa
  garden = garden
  a = a
  b = b
  c = c
  None = None
  Flows <- ThreeFlows
  Pools <- TwoPools
  Slots <- ThreeSlots
SPECIFICATION Spec
INVARIANTS
  TypeOK
  OneEntryPerPool
  NamedAfterItsPool
PROPERTIES
  NothingReplaced
SYMMETRY Renamings
