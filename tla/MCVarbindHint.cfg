SPECIFICATION Spec
CONSTANTS
  MaxArc = 2147483647
  Objects <- Hinted
  Values <- HintedValues
CHECK_DEADLOCK FALSE
INVARIANT Reencodes
