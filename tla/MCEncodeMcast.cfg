CONSTANTS
  Tlvs <- MCTlvs
  Runs <- McastRuns
  NoFile = NoFile
  Md5Byte <- Md5Of
  HmacByte <- HmacOf
  Sha1Byte <- Sha1Of
  ListingStops <- StopsOn
SPECIFICATION Spec
INVARIANTS CmtsMicCoversListed
\* The program ends.
CHECK_DEADLOCK FALSE
