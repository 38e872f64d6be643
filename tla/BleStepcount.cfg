SPECIFICATION Spec
CONSTANTS
  Changes = 4
  Chan <- MCChan
  MaxGen <- MCMaxGen
  TxBufs = 2
  Modulus = 3
  WriteVals = {0, 2}
INVARIANTS
  TypeOK
  NothingSkipped
  FlagMatchesCcc
  PacketsInOrder
PROPERTIES
  ImplementsTelling
  KeepsTelling
CHECK_DEADLOCK FALSE
