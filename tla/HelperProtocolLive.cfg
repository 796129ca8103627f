SPECIFICATION MCFairSpec
CONSTANTS
  Layers = {"protocol"}
  MaxTasks = 1
  MaxInstances = 1
  Visible = 1
  Lease = 2
  Heartbeat = 1
  Startup = 1
  LeaseRead = 1
  Writers = {w}
  Readers = {}
  Deadline = 1
  Interval = 1
  MaxDelay = 1
  Attempts = 1
PROPERTIES TaskEnds HelperEnds
