SPECIFICATION SchedulerSpec
CONSTANTS
  MaxProcesses = 3
  NumPages = 0
  MaxCowPages = 0
  Values = {}
  MaxPid = 4
  MaxPageId = 0
  TimeSlice = 2
  MaxTasks = 3
  MaxVruntime = 3
  Policies = {"RR"}
INVARIANT
  RunningIsCurrent
