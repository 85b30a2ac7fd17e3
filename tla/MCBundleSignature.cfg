SPECIFICATION Spec
CONSTANTS
  Originals <- MCOriginals
  HostOf <- MCHostOf
  Signers <- MCSigners
  RecordSizes = {4, 5}
  KeyOf <- MCKeyOf
  HostsOf <- MCHostsOf
  SupportedKeys <- MCSupported
  MaxMIRecordSize = 4
  SevenDays = 3
  Times = {0, 2, 4}
  Versions = {"b1", "b2"}
  MaxSigners = 3
CHECK_DEADLOCK FALSE
INVARIANTS
  TypeOK
  VerifiedMeansSigned
  RefusedForACause
  VerdictsMatchHistory
  SignsAllOfItsHosts
PROPERTIES
  EarlierSigningsKept
