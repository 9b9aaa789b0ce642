SPECIFICATION Spec
CONSTANTS
  Launches = {t1, t2}
  IpaPaths = {p1, p2}
  NoArchive = NoArchive
  MaxDepth = 1
  Trimmed <- MCTrimmed
  Numerals <- MCNumerals
  Base64 <- MCBase64
  Archives <- MCArchives
  Directories <- MCDirectories
  AppNames <- MCAppNames
  SortKey <- MCSortKey
  Padded <- MCPadded
  NulNames = {"nul"}
  GuestPaths <- MCGuestPaths
  Parsed <- MCParsed
  HostData <- MCHostData
  BitXor <- MCXor
  SavePaths <- MCSavePaths
  Clock = {0}
  Pid = 1
  UuidWord = 8
  UuidOdd = 5
  MaxChanges = 1
CHECK_DEADLOCK FALSE
INVARIANTS TranslateExact ContainersIsolated BundleComplete ScanListsSteady PlistExact
PROPERTY LaunchAnswers
