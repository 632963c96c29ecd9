CONSTANTS
  Root = Root
  Ext = Ext
  Pads = {pad}
  RootPorts <- MCRootPorts
  ExtPorts <- MCExtPorts
  NoPort = NoPort
  None = None
  MAX_ADDRESS = 5
  DEBOUNCE_SAMPLES = 3
  DEBOUNCE_STABLE = 1
  RESET_TRIES = 3
  PROBE_TRIES = 2
  SET_ADDRESS_RETRYS = 2
  NEW_DEVICE_RETRYS = 2
  MaxMoves = 2
  MaxFaults = 2
SPECIFICATION Spec
INVARIANTS AddressesExact
PROPERTIES Settles
