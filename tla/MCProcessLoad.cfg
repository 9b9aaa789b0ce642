SPECIFICATION Spec
CONSTANTS
  Word = 64
  PageSize = 2
  MmapTop = 8
  HeapBase = 2
  HeapSize = 4
  Images <- GoodImages
  OsBases = {4, 8, 20, 32, 44}
  StackSize = 4
  TrampReserve = 4
  Stride = 1
CHECK_DEADLOCK FALSE
INVARIANTS WriteXorExecute ImagePublished PointersFinal StubsPublished CopiesStayInReservation
PROPERTY LoadTerminates
