CONSTANTS
  Handles = {h1, h2}
  Sources = {}
  Signals = {g1}
  Threads = {t1}
  Ssock = ssock_r
  Loop = loop
  Nobody = nobody
  Never = never
  GIL = TRUE
  Delays = {1}
  CounterMod = 4
  SkipWindow = 1
  MaxReady = 3
  MaxTime = 1
  MaxEdges = 0
  MaxSignals = 2
  MaxRuns = 1
SPECIFICATION Spec
CHECK_DEADLOCK FALSE
PROPERTIES SignalsRead ScheduledRuns
