SPECIFICATION LiveSpec
CONSTANTS
  MaxProcesses = 3
  NumPages = 0
  MaxCowPages = 0
  Values = {}
  MaxPid = 3
  MaxPageId = 0
  TimeSlice = 2
  MaxTasks = 3
  MaxVruntime = 0
  Policies = {"RR"}
  NumSources = 2
  MaxPriority = 1
  RxSize = 2
  MaxLine = 1
  MaxBytes = 4
  EnterBytes = {2}
PROPERTIES
  NoIdleBesideReady
  ReadyIsServed
  UrgentIsDelivered
  
  PipelineServes
CHECK_DEADLOCK FALSE
