SPECIFICATION Spec
CONSTANTS
  NumSpots = 2
  Inputs <- SomeInputs
  MaxWork = 2
INVARIANTS PublishedWhole ClaimsExclusive ClosureAudited HelperKeptOnlyIfFree NoCompatCollision
