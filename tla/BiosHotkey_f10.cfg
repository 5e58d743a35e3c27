SPECIFICATION Spec
CONSTANTS
  Delay = 1
  UartKeys = {}
  UsbKeys = {"F10"}
  MaxPresses = 1
INVARIANTS
  F10Enters
CHECK_DEADLOCK FALSE
