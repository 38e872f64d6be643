SPECIFICATION Spec
CONSTANT N = 4
INVARIANTS
  OneLedAtRest
  NoGhostInRow
  LampFollowsState
  LedsShowValue
PROPERTIES
  EveryLedShown
  SettlesOnPosition
  PressesToggle
