SPECIFICATION Spec
CONSTANTS
  Inputs <- MCInputs
  Code <- MCCode
  ValueBytes <- MCValueBytes
  ObjectBytes <- MCObjectBytes
  BindingBytes <- MCBindingBytes
  FileBytes <- MCFileBytes
  ChunkSize = 2
  MaxDialplan = 6
CHECK_DEADLOCK FALSE
INVARIANTS ReadsTheGrammar TreeIsText
PROPERTY CertificateWhole
