CONSTANTS
  a = a
  b = b
  c = c
  Sources <- TwoSources
  Requests <- OneOrTwo
  Bare <- BareNone
  Bases <- SameOrNot
  MaxEdits = 0
  PrepareFails = TRUE
  WriteFails = FALSE
SPECIFICATION Spec
INVARIANT InputsNotCorrupted
CHECK_DEADLOCK FALSE
