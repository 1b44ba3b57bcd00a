CONSTANTS
  FDs = {f1, f2, f3}
  Servers = {s1}
  NoFd = nofd
  MaxListens = 2
  MaxBacklog = 2
SPECIFICATION Spec
CHECK_DEADLOCK FALSE
SYMMETRY Symmetry
INVARIANTS TypeOK PolledAsRecorded StreamsTracked ServerEnds BacklogAnnounced
