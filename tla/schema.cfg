CONSTANTS
  EventTypes = {"created", "renamed"}
  DataModels <- SoundModels
  Strings = {"x", "y", "z"}
  EnforceType = TRUE
  MaxReleases = 3
SPECIFICATION Spec
INVARIANTS AlwaysReadable BaselinesReadable
PROPERTIES RollingReadable NoSilentChange
