CONSTANTS
  Tlvs <- MCTlvs
  Runs <- AllRuns
  NoFile = NoFile
  NoPlan = NoPlan
  Symbols <- Table
  Md5Byte <- Md5Of
  HmacByte <- HmacOf
  Sha1Byte <- Sha1Of
  ListingStops <- NeverStops
SPECIFICATION RTSpec
INVARIANTS FaithfulReencodes
\* The program ends.
CHECK_DEADLOCK FALSE
