CONSTANTS
  DefLists <- AllOrders
  Labels <- MCLabels
  NoLabel = ""
  ccitt = "ccitt"
  iso = "iso"
  jointIsoCcitt = "joint"
SPECIFICATION Spec
INVARIANTS FirstReadWins
\* Installing ends.
CHECK_DEADLOCK FALSE
