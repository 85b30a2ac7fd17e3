SPECIFICATION Spec
CONSTANTS
  MaxPieces = 0
  MaxCalls = 0
  MaxCerts = 0
  MaxScts = 0
  OctetRange = 4
  HeaderLength = 3
  MaxNumber = 99
  MaxLexemes = 0
  MaxFields = 2
  MaxEntries = 0
  MaxNumVariantsForSingleURL = 5
  MaxGenerated = 0
INVARIANTS
  RepeatedHeadersAreRefused
CHECK_DEADLOCK FALSE
