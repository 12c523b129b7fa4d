\* The game is closed and started again.
CONSTANTS
  Calls = {c1, c2}
  Litres = {0, 1, 2, 3}
  MaxInFlight = 1
  WinForgeOverlaps = FALSE
  TankCapacity = 2
  MaxMade = 1
  MaxLaunches = 2
SPECIFICATION ExchangeSpec
INVARIANTS LedgerOnlyCarriesShipments
SYMMETRY Symmetry
CHECK_DEADLOCK FALSE
