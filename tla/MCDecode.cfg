CONSTANTS
  Files <- MCFiles
  Symbols <- Table
  NoPlan = NoPlan
SPECIFICATION FairSpec
INVARIANTS TypeOK VendorScope
PROPERTY DecodeTerminates
\* The program ends.
CHECK_DEADLOCK FALSE
