\* Files of five versions, one over the limit of this build's stacks; any two plays or damages.
SPECIFICATION Spec
CONSTANTS
  Event = {rain, raid}
  Future = {new}
  MaxStacked = 1
  MaxChanges = 2
  Versions = {1, 5, 8, 9, 10}
INVARIANTS WrittenIsRead
