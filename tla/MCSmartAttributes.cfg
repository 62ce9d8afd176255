SPECIFICATION MCSpec
CONSTANTS
  Zeroed = Zeroed
  Malformed = Malformed  NoFirmware = NoFirmware  NoPresets = NoPresets
  Garbage = Garbage  Missing = Missing  NotANumber = NotANumber
  Compiled <- MCCompiled
  Drives <- MCDrives
  Slots = 3
  Entries <- MCEntries
  Thresholds <- MCThresholds
  Damage = {1, 255}
  Upstreams <- MCUpstreams
  Models = {"SV0412H", "SSD", "WD", "unknown"}
  Firmwares = {"SK100-01", "other"}
  Mangled <- MCMangled
  MaxRuns = 2
INVARIANTS TypeOK TableDecoded ThresholdsIntact GenericAnswers FailsInAnyOrder RangesPlausible
  SuccessMeansWritten LibraryServes
