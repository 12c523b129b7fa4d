SPECIFICATION Spec
CONSTANTS
  Rate = 1
  MinigamesFrom = 100
  RaidsFrom = 60
  Milestones = {2, 101}
  MaxClock = 10
  GoldenWindow = 2
  GoldenDelays = {5}
  MissPenalty = 1
  Challenges <- MCChallenges
  FrenzyFor = 4
  BoostFor = 6
  Windfall = 1
  Pool = {"cookie_rain", "oven_hiccup", "lucky_crumb", "market_day", "combo_window", "delivery_rush", "taste_test", "flour_shortage"}
  Unit = 15000
  MaxTargets = 2
  PoolDelays = {0}
  PoolCooldown = 1
  PoolGrace = 1
  RaidDelays = {2}
  RaidGrace = 3
  RaidMinCookies = 5
  RaidStealPercent = 80
  MouseCounts = {3, 4}
  FatHps = {2, 3}
  EventPay = 1
  ConsumableBase = 13
  StorageTiers <- MCTiers
  MinigameIds = {breakout, klondike, minesweeper}
  GameDelays = {3}
  Grade = 1
  DayLength = 4
  Rewards = {"cookie_bundle_small", "raid_supplies", "timed_boost"}
  BundleSmall = 1
  BundleLarge = 2
  Saves <- MCSaves
  Steps = {1, 2}
  Absences = {3}
  MaxBaked = 0
  MaxAwards = 4
  Scenes = {"golden", "pool", "raid", "board", "chain"}
SYMMETRY Boards
INVARIANTS StackIsLegal TargetsAreCountedOnce StockIsPaidFor 
PROPERTIES NothingStartsOverAnything StageRests TheftIsFair EveryWinIsPaid
CHECK_DEADLOCK FALSE
