CONSTANTS
  Tlvs <- MCTlvs
  Runs <- AllRuns
  NoFile = NoFile
  Md5Byte <- Md5Of
  HmacByte <- HmacOf
  Sha1Byte <- Sha1Of
  ListingStops <- StopsOn
SPECIFICATION FairSpec
INVARIANTS TypeOK WalkOnSettings NoLongFormInBlocks CmtsMicCoversPlain FileShape
           ExtensionsParse HashCoversFile
PROPERTIES Terminates MakesConfigFile
\* The program ends.
CHECK_DEADLOCK FALSE
