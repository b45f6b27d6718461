SPECIFICATION FairSpec
CONSTANTS
  None = None
  Sandbox = {s1, s2}
  Conn = {c1, c2}
  ReplayCap = 1
  MaxOut = 0
  MaxStop = 0
  MaxExit = 1
  Mortal = {s1}
  MaxLaunch = 1
  Typing = {c1}
INVARIANTS HoldsOne ShowsRequested
PROPERTIES CatchesUp
