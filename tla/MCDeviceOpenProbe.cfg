CONSTANTS
  c1 = c1
  c2 = c2
  Callers = {c1}
  Paths = {"/dev/nvme0n1", "/dev/sda"}
  NvmePaths = {"/dev/nvme0n1"}
  Devices <- MCDevices
  BadModels = {}
  FDs = {3, 4}
  NoFile = NoFile
  Zeroed = Zeroed
  Entries = {"Open"}
  Faults = {{}}
  MaxReplacements = 0
  Serves <- OpenServes
SPECIFICATION Spec
INVARIANT SataAnsweredIdentify
