\* Two deletions, restores in between, two storage faults anywhere.
CONSTANTS
  MaxRun = 3
  MaxProgress = 1
  MaxFaults = 2
SPECIFICATION SessionSpec
INVARIANTS OneFaultCostsOneAutosave DeletedRunStaysDeleted KeptMeansRestorable
PROPERTIES ProgressIsSaved WipeIsCarriedOut
CHECK_DEADLOCK FALSE
