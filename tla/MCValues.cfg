SPECIFICATION Spec
CONSTANTS
  Limits <- MCLimits
  Texts <- MCTexts
  Files <- MCFiles
CHECK_DEADLOCK FALSE
INVARIANTS ListsWhatWasSaid SurvivesExactly Settles
