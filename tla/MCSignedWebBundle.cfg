CONSTANTS
  k1 = k1
  k2 = k2
  Keys = {k1, k2}
  Ids = {idA, noId}
  EmptyId = noId
  Callers = {c1, c2}
  StrategyLists <- MCStrategyLists
  MaxPushes = 2
  MaxOverrides = 1
SYMMETRY Symmetry
SPECIFICATION Spec
INVARIANTS TypeOK ValidUnlessOverridden ResolvedMeansPresent SavedBytesLoad
