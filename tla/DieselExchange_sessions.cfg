\* Several launches, a deletion and its undoing; mints overlap, and WinForge writes whenever it likes.
CONSTANTS
  Calls = {c1, c2}
  Litres = {0, 1, 2, 3}
  MaxInFlight = 2
  WinForgeOverlaps = TRUE
  TankCapacity = 2
  MaxMade = 3
  MaxLaunches = 3
SPECIFICATION ExchangeSpec
INVARIANTS LedgerIsSound LitresAreConserved GrowthIsMintedOnce
 
SYMMETRY Symmetry
CHECK_DEADLOCK FALSE
