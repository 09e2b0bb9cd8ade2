CONSTANTS
  LineBufferLength = 4
  StatusDigitCount = 2
  MaxSeq = 5
SPECIFICATION Spec
INVARIANTS
  TypeOK
  AliasInOrder
  SeqGivenOnce
