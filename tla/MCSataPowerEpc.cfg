CONSTANTS
  c1 = c1
  c2 = c2
  Callers = {c1}
  Workloads <- EpcWorkload
  Leading <- MCLeading
  SatLayers <- Plain
  Zeroed = Zeroed
SPECIFICATION Spec
PROPERTY SetPowerModeTransitions
