SPECIFICATION Spec
CONSTANTS
  Word = 16
  PageSize = 4
  MmapTop = 12
  HeapBase = 4
  HeapSize = 4
  Paths <- Trees
  OpenFlags <- AppendFlags
  Buffers = {0, 4}
  Counts = {1}
  IoVecs <- Vecs
  SeekOffsets <- Seeks
  MmapSizes = {1, 9}
  Prots = {{"r"}, {"r", "w"}}
  Fds = {0, 1, 3, 4}
  MaxFd = 5
  MaxLen = 2
CHECK_DEADLOCK FALSE
PROPERTY SystemImageUnchanged
