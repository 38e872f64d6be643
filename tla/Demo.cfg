SPECIFICATION Spec
CONSTANTS
  StepChanges = 1
  AChanges = 1
  BChanges = 2
  Chan <- MCChan
  MaxGen <- MCMaxGen
  TxBufs = 1
  MaxChanges = 2
  Modulus = 2
  WriteVals = {1}
INVARIANTS
  FlagsMatchCcc
  ButtonsNothingSkipped
PROPERTIES
  ImplementsTelling
  ButtonsKeepTelling
CHECK_DEADLOCK FALSE
