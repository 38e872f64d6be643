SPECIFICATION Safety
CONSTANTS
  Programs = {"minimal370"}
  Changes = 3
  Chan <- MCChan
  MaxGen <- MCMaxGen
  TxBufs = 1
  Modulus = 3
  WriteVals = {0, 2}
PROPERTY CountsOnFromMemory
CHECK_DEADLOCK FALSE
