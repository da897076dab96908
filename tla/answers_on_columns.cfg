SPECIFICATION FairSpec
CONSTANTS
  Tid = {0,1,2,3,4,11,12,13,14}
  Capacity = 8
  NumCores = 2
  InjectionCapacity = 2
  ReadBandwidth <- OneByte
  WriteBandwidth <- OneByte
  Programs <- PairPrograms
  NodeOf <- ShiftedNode
  MemoryNodes <- MemoryAround
  NocLatency = {1,2}
  DramLatency = {1,3}
  CheckPeriod = 1
  CheckThreshold = 40
  AbortThreshold = 50
  MaxResolutions = 10
INVARIANTS AnswersReachConsumer
