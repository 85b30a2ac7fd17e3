SPECIFICATION Spec
CONSTANTS
  Paths <- MCPaths
  FileOf <- MCFileOf
  Bundles <- MCBundles
  Strategies <- MCStrategies
  Extras <- TwoExtras
  MaxLength = 3
  MaxSignatures = 2
  MaxRuns = 2
CHECK_DEADLOCK FALSE
INVARIANTS
  OnlyBundlesAreSigned
  NoNestedBlocks
  OutputVerifies
