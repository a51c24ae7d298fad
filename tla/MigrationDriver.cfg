CONSTANTS
  a = a
  b = b
  c = c
  Sources <- ThreeSources
  Requests <- WithDirectory
  Bare <- BareTwo
  Bases <- OwnOrSame
  MaxEdits = 2
  PrepareFails = TRUE
  WriteFails = TRUE
SPECIFICATION Spec
INVARIANTS  NoMixedVersions
CHECK_DEADLOCK FALSE
