SPECIFICATION MCSpec
CONSTANTS
  MaxLines = 4
  Names = {"A", "B"}
  Admitted = {"A"}
  MaxEvents = 4
  Texts <- MCTexts
  MaxText = 4
  MaxAround = 2
  MaxCgEvents = 3
  MaxHeaderPragmas = 2
  MaxMainPragmas = 1
  PackTexts <- MCPackTexts
INVARIANTS
  RemovalInvisible
  SdkRemovalInvisible
  AvailabilityKept
  ProjectionFaithful
  PragmasProven
  PackedLayoutKept
CHECK_DEADLOCK FALSE
