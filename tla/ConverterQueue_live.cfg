\* Liveness.
CONSTANTS
  Items = {i1, i2}
  Contested = {}
  Workers = {w1}
  NoWorker = NoWorker
  Concurrency = 1
  MaxFaults = 0
  MaxRestarts = 0
SPECIFICATION QueueSpec
PROPERTIES QueueIsServed
CHECK_DEADLOCK FALSE
