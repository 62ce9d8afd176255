SPECIFICATION MCSpec
CONSTANTS
  Zeroed = Zeroed
  Malformed = Malformed  NoFirmware = NoFirmware  NoPresets = NoPresets
  Garbage = Garbage  Missing = Missing  NotANumber = NotANumber
  Compiled <- MCCompiled
  Drives <- X10Drives
  Slots = 3
  Entries <- X10Entries
  Thresholds <- MCThresholds
  Damage = {1, 255}
  Upstreams = {}  Models = {}  Firmwares = {}
  Mangled = {}
  MaxRuns = 0
INVARIANT TemperatureReported
