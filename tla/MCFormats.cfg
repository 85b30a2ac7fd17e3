SPECIFICATION Spec
CONSTANTS
  MaxPieces = 4
  MaxCalls = 3
  MaxCerts = 2
  MaxScts = 3
  OctetRange = 4
  HeaderLength = 3
  MaxNumber = 99
  MaxLexemes = 4
  MaxFields = 2
  MaxEntries = 3
  MaxNumVariantsForSingleURL = 5
  MaxGenerated = 3
INVARIANTS
  IndexedInRowMajorOrder
  ChecksAreExact
  EncodedReadsBack
  CertChainsReadBack
  SctListsReadBack
  StructuredHeadersReadBack
  ResponsesReadBack
  GeneratesWhatIsOffered
CHECK_DEADLOCK FALSE
