SPECIFICATION FairSpec
CONSTANTS
  Tid = {0,1,2,3,4,11,12,13,14}
  Capacity = 4
  NumCores = 3
  InjectionCapacity = 2
  ReadBandwidth <- OneByte
  WriteBandwidth <- OneByte
  Programs <- WatchdogPrograms
  NodeOf <- SameNode
  MemoryNodes <- NoMemoryNode
  NocLatency = {1,2}
  DramLatency = {2,16}
  CheckPeriod = 2
  CheckThreshold = 12
  AbortThreshold = 14
  MaxResolutions = 3
INVARIANTS SramAccounting SramWithinCapacity
PROPERTIES OwnStepsInDataflowOrder Ends
