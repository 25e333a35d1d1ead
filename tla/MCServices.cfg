SPECIFICATION ServicesSpec
CONSTANTS
  MaxProcesses = 3
  NumPages = 1
  MaxCowPages = 2
  Values = {a, b}
  MaxPid = 4
  MaxPageId = 3
  InitialValues = {0, 1}
  MaxPosts = 2
  MaxSlips = 1
  MaxRequests = 5
  MaxSessions = 3
  MaxActions = 2
  MaxText = 1
  NumFrames = 11
  NumVmPages = 8
  PagesPerTable = 4
  DevicePage = 5
  NumSpaces = 2
  NumTasks = 2
  NumRegions = 10
  NumObjects = 8
  Contents = {0, 1, 2}
  Unmapped = {3, 5}
  TlbEntries = 1
  NumSlots = 4
  HeapPage = 2
  MmapPage = 4
  Breaks = {0, 1, 3}
  Accessed = {2, 4, 5}
  Places = {0, 5}
  MaxStarts = 5
INVARIANTS
  PagesAccounted
  NobodyWaitsInVain
  NoCreditForged
  WaitersServed
  RepliesMatched
  ServerSound
  VmSound
  
PROPERTIES
  KeptUntilReaped
  ImplementsPrivateMemory
  ServedInOrder
CHECK_DEADLOCK FALSE
