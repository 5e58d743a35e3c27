SPECIFICATION EntrySpec
CONSTANTS
  Features = {"BOOT_MENU", "HW_MENU", "SECURITY", "FASTBOOT", "ROCKUSB"}
  Faults = TRUE
  Delay = 1
  UartKeys = {"B", "Down", "F8", "F9"}
  UsbKeys = {"F10", "B", "Enter"}
  MaxPresses = 2
INVARIANTS
  SelectionOnPage
  CleanMenuIsStored
  EnvIsStored
  BEnters
PROPERTIES
  SavedAsShown
  NoFalseHotkey
  WindowCloses
CHECK_DEADLOCK FALSE
