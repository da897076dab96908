SPECIFICATION FairSpec
CONSTANTS
  Proc = {p1, p2}
  MaxStarts = 2
  MaxClock = 2
  BuiltMesh <- DefaultMesh
  SetIRJob <- MCSetIRJobs
  GeminiJob <- MCGeminiJobs
  InitialSource = "patched"
  InitialBinary = "none"
INVARIANTS SimulatesOwnNetwork ComparesNewIR
PROPERTIES SetIRJobsEnd
CHECK_DEADLOCK FALSE
