CONSTANTS
  Handles = {h1, h2, h3}
  Sources = {}
  Signals = {}
  Threads = {t1}
  Ssock = ssock_r
  Loop = loop
  Nobody = nobody
  Never = never
  GIL = TRUE
  Delays = {1, 2}
  CounterMod = 8
  SkipWindow = 1
  MaxReady = 3
  MaxTime = 2
  MaxEdges = 0
  MaxSignals = 0
  MaxRuns = 2
SPECIFICATION Spec
CHECK_DEADLOCK FALSE
SYMMETRY Symmetry
INVARIANTS NoLostWakeup PollBounded TimerOrder StopNeverPolls
