SPECIFICATION Spec
CONSTANTS
  Word = 32
  PageSize = 4
  MmapTop = 24
  HeapBase = 8
  HeapSize = 5
  MapBases = {0, 2, 4, 18}
  MapSizes = {5, 20}
  MapKinds = {"Stack"}
  SegSizes = {1}
  DataLens = {0, 6}
  MmapSizes = {1, 5}
  AllocSizes = {0, 3, 31}
  Aligns = {1, 4}
  Prots = {{"r"}}
INVARIANTS TypeOK RegionsDisjoint LookupFindsOwner AccessSound GrantsBacked AnonTilesArena
PROPERTY ImplementsAddressSpace
