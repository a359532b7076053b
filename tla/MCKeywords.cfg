SPECIFICATION Spec
CONSTANT Table <- MCTable
CHECK_DEADLOCK FALSE
INVARIANTS KeepsSetting ReadableListing KeepsLimits
