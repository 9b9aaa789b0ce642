SPECIFICATION Spec
CONSTANTS
  Word = 32
  PageSize = 4
  MmapTop = 28
  HeapBase = 4
  HeapSize = 9
  Names = {"NSObject", "App"}
  Header = 2
  Align = 2
  BlockSizes = {0, 3}
  Strays = {20}
  MaxCount = 2
INVARIANTS HeadersOwned ClassTablesAgree IsaIsClass
PROPERTIES NilRegistersNothing
