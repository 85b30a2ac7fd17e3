SPECIFICATION Spec
CONSTANTS
  Field2 = 6
  Field3 = 12
  MaxSigLength = 6
  MaxHeaderLength = 6
  SignatureLength = 1
  MaxMIRecordSize = 1
  SevenDays = 2
  Workloads <- MCWorkloads
  MaxTime = 1
CHECK_DEADLOCK FALSE
INVARIANTS
  AcceptedAsSigned
  GenuineIsAccepted
  ReadsBack
