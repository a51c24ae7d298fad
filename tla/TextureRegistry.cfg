SPECIFICATION Spec
CONSTANTS
  t1 = t1
  t2 = t2
  a1 = a1
  a2 = a2
  x1 = x1
  x2 = x2
  c1 = c1
  c2 = c2
  Threads <- TwoThreads
  Bindings <- OneOrTwoContexts
  Addresses <- TwoAddresses
  Descriptors <- TwoDescriptors
  Owners = 1
  Records = 2
  Handles = 2
  MaxCalls = 5
SYMMETRY Interchangeable
INVARIANTS NoRetarget TablesAgree ProvenanceCurrent
