CONSTANTS
  DefLists <- AllOrders
  Labels <- MCLabels
  NoLabel = ""
  ccitt = "ccitt"
  iso = "iso"
  jointIsoCcitt = "joint"
SPECIFICATION FairSpec
INVARIANTS TypeOK TreeSound NoDefLost FirstAttachedSticks LeadingNamesSuffice
PROPERTY Terminates
\* Installing ends.
CHECK_DEADLOCK FALSE
