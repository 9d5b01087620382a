CONSTANTS
  p1 = p1  p2 = p2  p3 = p3
  Processes = {p1, p2, p3}
  NoProcess = NoProcess
  TTL = 3
  Beat = 1
  MaxTime = 8
  Overlap = FALSE
  Timely = TRUE
SPECIFICATION Spec
SYMMETRY Symmetry
INVARIANTS TypeOK SchedulerOwnsLock NoStartupFails
