CONSTANTS
  c1 = c1
  c2 = c2
  Callers = {c1, c2}
  Paths = {"/dev/nvme0n1", "/dev/sda"}
  NvmePaths = {"/dev/nvme0n1"}
  Devices <- MCDevices
  BadModels = {}
  FDs = {3, 4}
  NoFile = NoFile
  Zeroed = Zeroed
  Entries = {"Open"}
  MaxReplacements = 1
  Faults <- MCFaults
  Serves <- OpenServes
SPECIFICATION Spec
SYMMETRY Symmetry
INVARIANTS TypeOK FdsAccounted UsbBridgesSurvive OnlyComplaintsMislead HealthyOpens
PROPERTIES ImplementsHandle
