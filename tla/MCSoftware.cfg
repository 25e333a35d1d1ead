SPECIFICATION SoftwareSpec
CONSTANTS
  MaxProcesses = 3
  NumPages = 0
  MaxCowPages = 0
  Values = {}
  MaxPid = 4
  MaxPageId = 0
  TimeSlice = 2
  MaxTasks = 3
  MaxVruntime = 2
  Policies = {"FCFS", "CFS_LITE"}
  MaxFds = 5
  MaxNodes = 2
  MaxPipes = 2
  FileSize = 2
  PipeSize = 2
  MaxLeft = 1
  Names = {"/d", "/d/a", "/l"}
  LowerNames = {"/l"}
  ParentOf <- Parents
  NumCells = 2
  DbtEntries = 2
  PageMaps <- CellMaps
  NumBytes = 2
  MaxQueued = 3
  MaxSeq = 3
INVARIANTS
  OneRuns
  LinuxFilesSound
  TranslatorSound
  LoadsInOrder
PROPERTIES
  TicksWellSpent
CHECK_DEADLOCK FALSE
