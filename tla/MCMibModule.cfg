SPECIFICATION FairSpec
CONSTANTS
  Systems <- MCSystems
  NoPath = NoPath
  Standard <- MCStandard
  Unreadable = Unreadable
  TcLimit = 10
  TypeDepth = 2
  U32 = 64
CHECK_DEADLOCK FALSE
INVARIANTS ReadsWhatIsWritten DamageStaysLocal TypesFollowed
PROPERTY Terminates
