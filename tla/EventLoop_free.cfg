CONSTANTS
  Handles = {h1, h2}
  Sources = {s1}
  Signals = {g1}
  Threads = {t1, t2}
  Ssock = ssock_r
  Loop = loop
  Nobody = nobody
  Never = never
  GIL = FALSE
  Delays = {1}
  CounterMod = 4
  SkipWindow = 1
  MaxReady = 3
  MaxTime = 1
  MaxEdges = 2
  MaxSignals = 1
  MaxRuns = 1
SPECIFICATION Spec
CHECK_DEADLOCK FALSE
SYMMETRY Symmetry
INVARIANTS EdgeAccounting TypeOK CounterAccounts ReadyFifo
