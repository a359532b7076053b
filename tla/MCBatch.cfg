CONSTANTS
  Commands <- MCCommands
  PlaceOf <- MCPlaceOf
  Unwritable <- ReadOnly
SPECIFICATION Spec
INVARIANTS BatchIsSingles StatusTellsAll FailureLeavesNothing TrailingWordsApart
\* The program ends.
CHECK_DEADLOCK FALSE
