SPECIFICATION DevicesSpec
CONSTANTS
  NumSources = 2
  MaxPriority = 2
  Wired = {"SEI"}
  MaxNesting = 2
  Pages = {"p1", "p2"}
  Frames = {"f1", "f2"}
  Words = {0, 1}
  SoftPtes <- SomePtes
  TlbSize = 1
  L1Lines = 1
  QueueSize = 3
  IndexSpan = 6
  RxSize = 2
  MaxLine = 1
  MaxBytes = 6
  EnterBytes = {3, 5}
  AiEntries = 2
  AiSpan = 6
  AiSubmissions = 6
  NumArch = 4
  MaxInFlight = 3
INVARIANTS
  DeliveredOnce
  
  MemoryCoherent
  RequestsAnswered
  
  
  CommittedPartition
  SpeculativePartition
  SourceIsYoungestProducer
  RecordedMappingIsRecycled
  RegisterFileBounded
PROPERTIES
  ClaimTakesMostUrgent
  TrapsNest
CHECK_DEADLOCK FALSE
