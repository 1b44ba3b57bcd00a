CONSTANTS
  Handles = {h1}
  Sources = {}
  Signals = {}
  Threads = {}
  Ssock = ssock_r
  Loop = loop
  Nobody = nobody
  Never = never
  GIL = TRUE
  Delays = {1}
  CounterMod = 4
  SkipWindow = 1
  MaxReady = 2
  MaxTime = 2
  MaxEdges = 0
  MaxSignals = 0
  MaxRuns = 1
SPECIFICATION Spec
CHECK_DEADLOCK FALSE
INVARIANTS TimeoutFromSchedule
