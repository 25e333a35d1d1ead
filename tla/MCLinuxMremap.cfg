SPECIFICATION LinuxVmSpec
CONSTANTS
  NumFrames = 11
  NumVmPages = 8
  PagesPerTable = 4
  DevicePage = 5
  NumSpaces = 2
  NumTasks = 2
  NumRegions = 10
  NumObjects = 8
  Contents = {0, 1, 2}
  Unmapped = {3, 5}
  TlbEntries = 1
  NumSlots = 4
  HeapPage = 2
  MmapPage = 4
  Breaks = {0, 1, 3}
  Accessed = {2, 4, 5}
  Places = {0, 5}
PROPERTY MremapGrows
CHECK_DEADLOCK FALSE
