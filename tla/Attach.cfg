SPECIFICATION FairStreamSpec
CONSTANTS
  None = None
  Sandbox = {s1}
  Conn = {c1, c2}
  ReplayCap = 1
  MaxOut = 2
  MaxStop = 1
  MaxExit = 1
  Mortal = {s1}
  MaxLaunch = 1
  Typing = {c1}
INVARIANTS NothingMissed OneSession SlotBacked
PROPERTIES AttachServed
