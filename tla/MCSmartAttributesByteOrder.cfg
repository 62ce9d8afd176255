SPECIFICATION MCSpec
CONSTANTS
  Zeroed = Zeroed
  Malformed = Malformed  NoFirmware = NoFirmware  NoPresets = NoPresets
  Garbage = Garbage  Missing = Missing  NotANumber = NotANumber
  Compiled <- MCCompiled
  Drives <- SparesDrives
  Slots = 2
  Entries <- SparesEntries
  Thresholds <- MCThresholds
  Damage = {1, 255}
  Upstreams = {}  Models = {}  Firmwares = {}
  Mangled = {}
  MaxRuns = 0
INVARIANT ByteOrderKept
