SPECIFICATION Spec
CONSTANTS
  Bits <- Bit
  PageSize = 2
  SectorSize = 4
  BlockSize = 8
  Size = 16
  AddressSize = 32
  Initially <- MCInitially
  Requests <- MCRequests
  MaxCuts = 1
INVARIANTS
  WaitsForChip
PROPERTIES
  ImplementsArray
  CallsReturn
