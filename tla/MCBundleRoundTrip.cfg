CONSTANTS
  MaxNumVariantsForSingleURL = 3
  MaxExchanges = 3
  Bundles <- MCBundles
SPECIFICATION Spec
INVARIANTS TypeOK CountIsRight ReadsBack TruncationLosesOnlyTheTail
CHECK_DEADLOCK FALSE
