SPECIFICATION Spec
CONSTANTS
  StepChanges = 2
  AChanges = 0
  BChanges = 0
  Chan <- MCChan
  MaxGen <- MCMaxGen
  TxBufs = 1
  MaxChanges = 2
  Modulus = 4
  WriteVals = {}
PROPERTY StepKeepsTelling
CHECK_DEADLOCK FALSE
