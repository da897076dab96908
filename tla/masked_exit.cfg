SPECIFICATION Spec
CONSTANTS
  Proc = {p1}
  MaxStarts = 2
  MaxClock = 2
  BuiltMesh <- DefaultMesh
  SetIRJob <- MCSetIRJobs
  GeminiJob <- MCGeminiJobs
  InitialSource = "patched"
  InitialBinary = "none"
INVARIANTS EndsWellIfSimulated
CHECK_DEADLOCK FALSE
