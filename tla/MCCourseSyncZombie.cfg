SPECIFICATION ShellSpec
CONSTANTS
  MaxProcesses = 3
  NumPages = 0
  MaxCowPages = 0
  Values = {}
  MaxPid = 4
  MaxPageId = 0
  InitialValues = {0, 1}
  MaxPosts = 2
  MaxSlips = 1
PROPERTY
  ExitedStaysExited
