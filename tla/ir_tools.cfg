SPECIFICATION Spec
CONSTANTS
  Tid = {0,1,2,3,4,5,11,12,13,14,15,21,22,23,24,25}
  NumCores = 6
  Layer <- MCLayer
  MaxSlices = 1
  SetIRs <- MCSetIRs
  GeminiIRs <- MCGeminiIRs
INVARIANTS TypeOK DramEntriesNameWorkloads SliceIsClosure SortedByDependencies SourcesNameProducers DramReadsHaveNoProducer
CHECK_DEADLOCK FALSE
