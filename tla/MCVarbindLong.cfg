SPECIFICATION Spec
CONSTANTS
  MaxArc = 2147483647
  Objects <- Addresses
  Values <- LongValues
CHECK_DEADLOCK FALSE
INVARIANT Reencodes
