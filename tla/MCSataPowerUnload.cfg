CONSTANTS
  c1 = c1
  c2 = c2
  Callers = {c1}
  Workloads <- UnloadWorkload
  Leading <- MCLeading
  SatLayers <- Plain
  Zeroed = Zeroed
SPECIFICATION Spec
INVARIANT UnloadNamesItsLba
