\* The sidecar's stock is spoiled, and the storage beside it is not.
SPECIFICATION Spec
CONSTANTS
  Event = {rain}
  Future = {new}
  MaxStacked = 1
  MaxChanges = 1
  Versions = {9}
INVARIANTS PaidForIsKept
