SPECIFICATION MCSpec
CONSTANTS
  t1 = t1
  t2 = t2
  d0 = d0
  d1 = d1
  Threads <- TwoThreads
  Main = t1
  Devices <- TwoDevices
  First = d0
  Capacity = 1
  MaxCalls = 3
  Embedded = TRUE
  kWarpSize = 2
  Blocks = {0, 1, 2}
  Calls = 3
  Uses <- ContractLoops
  Inputs <- Powers
  kVectorElements = 2
  kMaxThreadsPerBlock = 4
  kCacheColumns = 16
  kBlockRowMinColumns = 8
  kBlockRowMaxRows = 2
  BlockRowWidths = {4}
  kDefaultBlockRowThreads = 4
  kDefaultBlockRowAffineThreads = 4
  kTargetBlocksPerAiv = 1
  VectorCores = 1
  GridPerCore = 2
  SmnCacheColumns = 8
  SmnWarpBase = 1
  SmnWarpPerLoop = 1
  SmnWork = 16
  SmnFloorThreads = 2
  SmnRowsPerWarp = 1
  Spread = 2
  Requests <- Launches
  MaxAddress = 15
  MaxExtent = 8
  IntMax = 2
  HalfBytes = 1
  FloatBytes = 2
  VectorAlign = 2
  VectorColumns = 2
  SoftmaxMin = 2
  SoftmaxMax = 8
  RmsCachedMax = 8
  RowBatchMax = 4
  LayerNormMax = 4
  SimtMax = 4
  WrapperCalls <- Wrappers
INVARIANTS
  BindingsTracked
  TeardownWhileSdkLive
  ProfilerUnwinds
  CallExact
  RowsExact
  RowsOrderFree
  OneOwner
