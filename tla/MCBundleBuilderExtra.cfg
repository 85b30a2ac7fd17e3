CONSTANTS
  MaxNumVariantsForSingleURL = 3
  ExtraSections = {"critical"}
  Exchanges <- MCExchanges
  MaxCalls = 3
SPECIFICATION Spec
INVARIANT UnknownSectionsAreIgnored
CHECK_DEADLOCK FALSE
