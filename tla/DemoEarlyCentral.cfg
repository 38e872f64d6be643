SPECIFICATION Safety
CONSTANTS
  StepChanges = 0
  AChanges = 1
  BChanges = 1
  Chan <- MCChan
  MaxGen <- MCMaxGen
  TxBufs = 1
  MaxChanges = 2
  Modulus = 2
  WriteVals = {}
INVARIANT ReferenceKept
CHECK_DEADLOCK FALSE
