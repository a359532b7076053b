SPECIFICATION Spec
CONSTANTS
  Systems <- MCUnclosed
  NoPath = NoPath
  Standard <- MCStandard
  Unreadable = Unreadable
  TcLimit = 10
  TypeDepth = 2
  U32 = 64
CHECK_DEADLOCK FALSE
PROPERTY ConventionStops
