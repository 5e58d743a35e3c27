SPECIFICATION Spec
CONSTANTS
  Features = {"BOOT_MENU", "HW_MENU", "SECURITY", "FASTBOOT", "ROCKUSB"}
  Faults = FALSE
PROPERTIES
  RecoveryOnce
CHECK_DEADLOCK FALSE
