CONSTANTS
  Handles = {h1, h2}
  Fds = {}
  SigNums = {sigint, sigterm}
  Termination = {sigint, sigterm}
  Soon = soon
  NoHandle = none
  Delays = {1}
  MaxTime = 1
  MaxSignals = 1
  MaxRuns = 1
SPECIFICATION Spec
CHECK_DEADLOCK FALSE
PROPERTIES ScheduledRuns StopEnds SignalStops
