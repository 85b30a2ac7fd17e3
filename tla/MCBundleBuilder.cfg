CONSTANTS
  MaxNumVariantsForSingleURL = 3
  ExtraSections = {"a name of 8192 octets"}
  Exchanges <- MCExchanges
  MaxCalls = 5
SPECIFICATION Spec
INVARIANTS GoReadsBack JsReadsBack
PROPERTY OneBundle
CHECK_DEADLOCK FALSE
