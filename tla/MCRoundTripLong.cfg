CONSTANTS
  Tlvs <- MCTlvs
  Runs <- LongModemRuns
  NoFile = NoFile
  NoPlan = NoPlan
  Symbols <- Table
  Md5Byte <- Md5Of
  HmacByte <- HmacOf
  Sha1Byte <- Sha1Of
  ListingStops <- NeverStops
SPECIFICATION RTSpec
INVARIANTS DecodedReencodes
\* The program ends.
CHECK_DEADLOCK FALSE
