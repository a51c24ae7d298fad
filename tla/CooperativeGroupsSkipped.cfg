SPECIFICATION MCSpec
CONSTANTS
  Parts = {"admission"}
  WarpSize = 4
  BlockWarps = 4
  Calls <- ThreeCalls
  Width = 4
  IntBits = 3
  Inputs <- Operands
  Branches = {{0, 1, 3}, {1, 2}, {3}}
  LaneLabels = {1, 2, 3}
  MaxDepth = 2
  WarpLanes = 4
  TileLanes = 2
  MaxBlock = 8
  Kernels <- SkippingKernels
  Helpers <- SomeHelpers
  Launches <- OneLaunch
  Units <- SomeUnits
  ScratchRanks = {0, 31, 32, 63}
  DynamicSources <- SomeDynamicSources
  MaxActivations = 3
INVARIANT CollectivesTogether
