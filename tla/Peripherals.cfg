SPECIFICATION PeripheralsSpec
CONSTANTS
  MaxEdges = 3
  MaxRestarts = 2
  Explored <- MCAll
  Voltages <- MCVoltages
  Width = 31
  Turns = 2
  MaxDrawn = 40
INVARIANTS
  NoPhantomSteps
  AnswersHold
  ReadingsWhole
  ShowsWhatItRead
  PulseInProportion
  MaximumLength
PROPERTIES
  StepsAreCounted
  MonitorGoesOn
  LampsAnswer
CHECK_DEADLOCK FALSE
