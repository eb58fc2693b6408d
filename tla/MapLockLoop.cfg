CONSTANTS
  Threads = {t1}
  Streams = {s1, s2}
  MapCount = 2
  NoLoop = NoLoop
SPECIFICATION Spec
INVARIANT LoopNeverWaitsForItself
