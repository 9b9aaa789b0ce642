SPECIFICATION Spec
CONSTANTS
  Slots <- ThreeSlots
  SymbolOf <- SlotSymbols
  OffsetOf <- SlotOffsets
  KnownOffsets = {0, 1}
  ReadOnlySlots = {"q"}
  StackTop = 2
  Args = {1}
  Codes = {0, 1}
  MaxRuns = 2
  Mirrored = TRUE
CHECK_DEADLOCK FALSE
PROPERTY BindKeepsGuestStores
