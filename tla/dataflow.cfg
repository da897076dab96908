SPECIFICATION FairSpec
CONSTANTS
  Tid = {0,1,2,3,4,11,12,13,14}
  Capacity = 16
  NumCores = 2
  InjectionCapacity = 1
  ReadBandwidth <- PeFaster
  WriteBandwidth <- PeLimited
  Programs <- FeasiblePrograms
  NodeOf <- SameNode
  MemoryNodes <- NoMemoryNode
  NocLatency = {1,2}
  DramLatency = {1,3}
  CheckPeriod = 1
  CheckThreshold = 40
  AbortThreshold = 50
  MaxResolutions = 10
INVARIANTS TypeOK SramAccounting OneTokenPerLoad OneTokenPerWriteback ExactRemoteRefs ConsumersKeepData NeverForced
PROPERTIES ImplementsDataflow NoOutputLost Completes
