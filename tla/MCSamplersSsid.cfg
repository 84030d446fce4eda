SPECIFICATION Spec
CONSTANTS
  APs <- MCAPs
  AuthModes = {0, 1}
  Addresses = {1}
  MaxEvents = 4
  Rssi <- MCRssi
  Threshold <- MCThreshold
  MaxWifiEvents = 5
  HeapSize = 2
  MaxHeapCalls = 4
INVARIANTS
  SsidTold
CHECK_DEADLOCK FALSE
