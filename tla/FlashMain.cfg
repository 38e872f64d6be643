SPECIFICATION MainSpec
CONSTANTS
  Bits <- TwoBits
  PageSize = 4
  SectorSize = 8
  BlockSize = 8
  Size = 8
  AddressSize = 16
  Initially <- Used
  Address = 1
  Data <- TwoBytes
  Requests <- MainCalls
  MaxCuts = 2
  MaxResets = 2
INVARIANTS
  OnlyAsked
  ReadsBack
PROPERTY SurvivesPowerCuts
