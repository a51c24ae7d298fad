SPECIFICATION MCSpec
CONSTANTS
  Parts = {"reduction", "groups", "admission", "scratch", "dynamic"}
  WarpSize = 4
  BlockWarps = 4
  Calls <- ThreeCalls
  Width = 4
  IntBits = 3
  Inputs <- Operands
  Branches = {{0, 1, 3}, {1, 2}, {3}}
  LaneLabels = {1, 2, 3}
  MaxDepth = 2
  WarpLanes = 4
  TileLanes = 2
  MaxBlock = 8
  Kernels <- AllKernels
  Helpers <- SomeHelpers
  Launches <- SomeLaunches
  Units <- SomeUnits
  ScratchRanks = {0, 31, 32, 63}
  DynamicSources <- SomeDynamicSources
  MaxActivations = 3
INVARIANTS
  ReduceExact
  GroupResultExact
  AdmissionSound
  ReductionsInStep
  GroupsFresh
PROPERTY ReductionsReturn
