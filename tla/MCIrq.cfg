SPECIFICATION IrqFairSpec
CONSTANTS
  ArgRegisters = 2
  MaxNesting = 3
  StackTop = 6
  MaxInterrupts = 3
INVARIANTS
  ReturnsWhole
  DeviceReleased
  CallsAreGood
PROPERTIES
  EventsServed
CHECK_DEADLOCK FALSE
