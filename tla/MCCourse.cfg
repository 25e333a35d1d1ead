SPECIFICATION CourseSpec
CONSTANTS
  NumNodes = 3
  LeafCapacity = 1
  MaxData = 2
  MaxOpen = 4
  MaxCwd = 0
  FilePaths <- P
  Bytes = {1}
PROPERTIES
  ImplementsFileTree
  
CHECK_DEADLOCK FALSE
