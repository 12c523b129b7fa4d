\* Any order of pausing, cancelling and resuming, one restart, one failing update.
CONSTANTS
  Items = {i1, i2}
  Contested = {i1, i2}
  Workers = {w1, w2}
  NoWorker = NoWorker
  Concurrency = 1
  MaxFaults = 1
  MaxRestarts = 1
SPECIFICATION QueueSpec
INVARIANTS WorkersAreAccountedFor ConvertedHasOutput
PROPERTIES ForeignIsKept
SYMMETRY Symmetry
CHECK_DEADLOCK FALSE
