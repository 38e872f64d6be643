SPECIFICATION PeripheralsSpec
CONSTANTS
  MaxEdges = 0
  MaxRestarts = 0
  Explored <- MCAnalog
  Voltages <- MCVoltages
  Width = 31
  Turns = 2
  MaxDrawn = 40
INVARIANT InProportion
CHECK_DEADLOCK FALSE
