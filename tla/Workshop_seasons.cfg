SPECIFICATION Spec
CONSTANTS
  Rate = 1
  MinigamesFrom = 0
  RaidsFrom = 0
  Milestones = {}
  MaxClock = 0
  Rebates = {0, 50}
  Generators <- MCGenerators
  Ratio = 2
  Upgrades <- MCUpgrades
  Tools <- MCTools
  MaxOwned = 3
  MaxMade = 20010
  MaxClicks = 6
  Rooms <- MCRooms
  Furniture <- MCFurniture
  ExtensionCost = 2
  ExtensionRatio = 2
  ExtensionTime = 3
  ExtensionStep = 1
  ExtensionMaxTime = 4
  Extension = Extension
  NoSite = NoSite
  MaxExtensions = 2
  Grain = 2
  Equipment <- MCEquipment
  EquipmentRatio = 2
  FactoryUpgrades <- MCFactoryUpgrades
  BaseTank = 2
  BaseYard = 4
  CrudePerGrain = 2
  MaxEquipment = 2
  MaxLifted = 5
  Sold = {"maximize", "stepper", "look"}
  GrantAbove = 1000
  Trillion = 2000
  StartCookies <- MCStart
  MaxPoints = 20
  Runs <- MCRuns
  Steps = {1, 2}
  Crews = {1, 2}
  Scenes = {"shop", "house", "plant", "tree", "doors"}
INVARIANTS HouseIsSound PlantIsSound LadderHasNoHoles PinnedIsOwned
PROPERTIES   SiteIsFinished
CHECK_DEADLOCK FALSE
