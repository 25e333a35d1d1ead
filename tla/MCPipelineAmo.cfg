SPECIFICATION Spec
CONSTANTS
  NumArch = 3
  CodeLen = 5
  TrapVector = 4
  SyscallReg = 2
  ExitCode = 3
  NumPhys = 7
  TableSize = 2
  RobBound = 4
  LsqBound = 3
  Starts <- AtomicStarts
PROPERTIES
  ImplementsReference
CHECK_DEADLOCK FALSE
