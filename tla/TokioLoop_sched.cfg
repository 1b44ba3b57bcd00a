CONSTANTS
  Handles = {h1, h2, h3}
  Fds = {f1}
  SigNums = {}
  Termination = {}
  Soon = soon
  NoHandle = none
  Delays = {1}
  MaxTime = 1
  MaxSignals = 0
  MaxRuns = 2
SPECIFICATION Spec
CHECK_DEADLOCK FALSE
SYMMETRY Symmetry
INVARIANTS TypeOK SoonFifo TimersKept
