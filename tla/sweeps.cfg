SPECIFICATION FairSpec
CONSTANTS
  Proc = {p1}
  MaxStarts = 3
  Experiments <- MCExperiments
  DSEJob <- MCDSEJobs
  ZebuConfigs <- MCZebuConfigs
  Bottlenecks <- MCBottlenecks
  Scheduled <- MCScheduled
  Trace <- MCTrace
  StudyJob <- MCStudyJobs
INVARIANTS ResultsMatchConfig ResultsOfSameIR TableOfOwnRuns
PROPERTIES EveryMeasurementCompared ExperimentsEnd
CHECK_DEADLOCK FALSE
