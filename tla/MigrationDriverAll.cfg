CONSTANTS
  a = a
  b = b
  c = c
  Sources <- ThreeSources
  Requests <- WithDirectory
  Bare <- BareTwo
  Bases <- OwnOrSame
  MaxEdits = 0
  PrepareFails = FALSE
  WriteFails = FALSE
SPECIFICATION Spec
INVARIANT AllRequestedConverted
CHECK_DEADLOCK FALSE
