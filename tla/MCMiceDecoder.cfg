CONSTANTS
  Zero = Zero
  One = One
  a = a
  b = b
  HashSize = 2
  RecordSize = 2
  Symbol <- MCSymbol
  Contents <- MCContents
  Inputs <- MCInputs
  MaxRecordSize = 3
  MaxDst = 2
  MaxFaults = 1
SPECIFICATION FairSpec
INVARIANTS TypeOK OnlyAuthenticOctets EndMeansComplete NoFalseAlarm
PROPERTIES ImplementsReader HonestStreamEnds
CHECK_DEADLOCK FALSE
