SPECIFICATION Spec
CONSTANTS
  Symbols = {a, b}
  NoSymbol = NoSymbol
  Segments = {0, 1, 2}
  SegRuntime <- MCSegRuntime
  Writable <- MCWritable
  Offsets = {0, 4, 127}
  Addends = {0, 3}
  Steps = {127}
  Counts = {0, 2}
  OffsetWord = 128
  Ptr = 2
  StubBase = 40
  Stride = 16
  MaxEager = 4
  MaxLazy = 8
CHECK_DEADLOCK FALSE
INVARIANTS StubTableExact SlotsHoldStubs LazyTableExact
