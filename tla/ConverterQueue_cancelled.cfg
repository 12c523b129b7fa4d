\* A queue cancelled and resumed.
CONSTANTS
  Items = {i1, i2}
  Contested = {}
  Workers = {w1, w2}
  NoWorker = NoWorker
  Concurrency = 2
  MaxFaults = 0
  MaxRestarts = 0
SPECIFICATION QueueSpec
PROPERTIES CancelledIsNotConverted
CHECK_DEADLOCK FALSE
