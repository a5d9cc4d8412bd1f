SPECIFICATION Spec
CONSTANTS
  NumSlots = 2
  Names = {A, B}
  NoName = NoName
  MaxPlay = 1
  MaxLeft = 1
INVARIANTS
  TypeOK
  FileIntact
  TempsExplained
  NoGameHidden
  OwnSlot
PROPERTY
  SaveStores
