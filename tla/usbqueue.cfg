SPECIFICATION Spec
CONSTANTS
  pad = pad
  kbd = kbd
  ctl = ctl
  None = None
  IntUrb <- MCInt
  Ctl = ctl
  Interval <- MCInterval
  Eager <- MCEager
  Unbindable <- MCUnbindable
  NUM_INTS = 2
  Polls = 2
  CtlTds = 2
  MaxDrift = 0
INVARIANTS NoLostUrb FreedIsReturned TreeSound
PROPERTY WaitsEnd
CHECK_DEADLOCK FALSE
