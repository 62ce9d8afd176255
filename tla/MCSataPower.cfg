CONSTANTS
  c1 = c1
  c2 = c2
  Callers = {c1, c2}
  Workloads <- MixedWorkloads
  Leading <- MCLeading
  SatLayers <- Layers
  Zeroed = Zeroed
SPECIFICATION Spec
SYMMETRY Symmetry
INVARIANTS TypeOK InvalidNeverSent
PROPERTIES ReportedModeWasHeld NilMeansDone NoFalseAlarm
