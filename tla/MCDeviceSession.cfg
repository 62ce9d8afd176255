CONSTANTS
  c1 = c1
  c2 = c2
  Callers = {c1, c2}
  Paths = {"/dev/nvme0n1"}
  NvmePaths = {"/dev/nvme0n1"}
  Devices <- MCDevices
  BadModels <- MCBad
  FDs = {3}
  NoFile = NoFile
  Zeroed = Zeroed
  Entries = {"Open", "OpenNVMe", "OpenSata"}
  MaxReplacements = 1
  MaxMisuses = 1
  Faults = {{}, {"transport", "device"}}
  Serves <- MCServes
SPECIFICATION FairSessionSpec
INVARIANTS OwnAnswers FailureExplained
PROPERTIES SessionsImplementHandle OpenReturns
