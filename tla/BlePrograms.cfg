SPECIFICATION Spec
CONSTANTS
  Programs = {"minimal260", "minimal310", "minimal370", "stepcount260", "stepcount310", "accel370"}
  Changes = 3
  Chan <- MCChan
  MaxGen <- MCMaxGen
  TxBufs = 1
  Modulus = 3
  WriteVals = {0, 2}
INVARIANTS
  FlagMatchesCcc
PROPERTIES
  ImplementsTelling
  KeepsTelling
CHECK_DEADLOCK FALSE
