CONSTANTS
  EventTypes = {"created"}
  DataModels <- UnionModels
  Strings = {"x", "y", "z"}
  EnforceType = TRUE
  MaxReleases = 1
SPECIFICATION Spec
INVARIANT AlwaysReadable
