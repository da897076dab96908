SPECIFICATION Spec
CONSTANTS
  Proc = {p1}
  MaxStarts = 2
  MaxClock = 2
  BuiltMesh <- DefaultMesh
  SetIRJob <- MCSetIRJobs
  GeminiJob <- NoJobs
  InitialSource = "plain"
  InitialBinary = "plain"
INVARIANTS PatchedSetIRMapsMesh
CHECK_DEADLOCK FALSE
