SPECIFICATION Spec
CONSTANTS
  NRx = 2
  Redirects = {1, 2}
  Ops = {"setRXListen", "setRXOn", "setRXOff", "setSquelchSt", "setNewBuflen", "unknown"}
  MaxLog = 2
INVARIANTS ActiveCount PlainReplayRestores
