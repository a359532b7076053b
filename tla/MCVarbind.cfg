SPECIFICATION Spec
CONSTANTS
  MaxArc = 2147483647
  Objects <- MCObjects
  Values <- MCValues
CHECK_DEADLOCK FALSE
INVARIANTS SettingSurvives FramesExact
