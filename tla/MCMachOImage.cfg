SPECIFICATION Spec
CONSTANTS
  FileLens = {1, 13, 32, 60, 100}
  SlicePlaces <- Places
  ArchCounts = {0, 2}
  CmdCounts = {1, 3}
  CmdSizes = {0, 6}
  SectCounts = {0, 2}
  NameOffs = {30}
CHECK_DEADLOCK FALSE
INVARIANTS ImageExact WorkBounded
