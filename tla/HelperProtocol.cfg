SPECIFICATION MCSpec
CONSTANTS
  Layers = {"protocol", "client"}
  MaxTasks = 2
  MaxInstances = 2
  Visible = 1
  Lease = 2
  Heartbeat = 1
  Startup = 1
  LeaseRead = 1
  Writers = {w1, w2}
  Readers = {r}
  Deadline = 3
  Interval = 2
  MaxDelay = 2
  Attempts = 3
INVARIANTS
  ExecutesOnce
  AcceptsOwnResults
  ExitsServed
  OrphanStops
  WritersTakeTurns
  PauseRespected
