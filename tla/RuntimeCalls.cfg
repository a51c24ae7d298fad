SPECIFICATION MCSpec
CONSTANTS
  w1 = w1
  w2 = w2
  stream = stream
  mark = mark
  symbol = symbol
  Threads <- MCThreads
  Observed <- MCObserved
  Named <- MCNamed
  Events <- MCEvents
  Tokens <- MCTokens
  Questions <- MCQuestions
  SymbolBytes = 2
  MaxWork = 3
  IntMax = 12
  MaxSteps = 3
  Beta = TRUE
  Parts = {"calls", "bounds"}
  BoundSources <- MCBoundSources
  DefaultBound = 4
  LargestBound = 8
INVARIANTS CopyOrdered SyncHonest QueryExact PublishedBoundTrue
