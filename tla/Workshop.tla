----------------------------- MODULE Workshop ------------------------------
(***************************************************************************)
(* Everything a run's cookies are put into, over one jar: the shelf, the   *)
(* house, the refinery and the controls, driven by the player's purchases  *)
(* and by the tick, and what an ascension or an update of the program      *)
(* leaves of it.                                                           *)
(***************************************************************************)
EXTENDS HomeConstruction, DieselFactory, ControlUnlocks, Ascension

CONSTANTS
  Runs,          \* the saves a play may start from
  Steps,         \* how much time a tick may cover
  Crews          \* how many times over a tick may build: an overtime crew

(* what an ascension and the migrations may have left: see TreeIsClosed and LadderHasNoHoles *)
ASSUME WorkshopAssumption ==
  /\ Steps \subseteq Nat /\ Crews \subseteq Nat
  /\ \A run \in Runs :
       /\ {run.cookies, run.baked, run.lifetime, run.clicks, run.points, run.count} \subseteq Nat
       /\ run.baked <= MaxMade /\ run.generators \in 0..MaxOwned
       /\ DOMAIN run.shelf \subseteq DOMAIN Upgrades
       /\ \A u \in DOMAIN run.shelf : run.shelf[u] \in [at : Nat, nth : Nat]
       /\ run.nodes \subseteq DOMAIN RebornNodes /\ \A n \in run.nodes : RebornNodes[n].needs \subseteq run.nodes
       /\ run.version \in 5..Latest /\ run.rungs \subseteq RungsOf(DOMAIN Ladders)
       /\ \A rung \in run.rungs : rung[2] > 1 => <<rung[1], rung[2] - 1>> \in run.rungs

vars == <<shopVars, home, plant, depot, rungs, version, prestige>>

Init ==
  \E run \in Runs :
    /\ clock = 0
    /\ jar = [cookies |-> run.cookies, baked |-> run.baked] /\ lifetime = run.lifetime
    /\ achieved = Reached(jar)
    /\ wallet = [balance |-> 0, awards |-> {}, claimed |-> {}, draws |-> 0]
    /\ clicks = run.clicks /\ generators = [g \in DOMAIN Generators |-> run.generators]
    /\ shelf = run.shelf
    /\ tools = {} /\ progression = TRUE
    /\ home = [blueprints |-> {}, rooms |-> {}, furniture |-> {}, site |-> NoSite,
               elapsed |-> 0, required |-> 0, level |-> 0, invested |-> 0]
    /\ plant = [crude |-> 0, litres |-> 0, lifeCrude |-> 0, lifeLitres |-> 0, stalled |-> FALSE,
                units |-> [e \in DOMAIN Equipment |-> 0], upgrades |-> {}, invested |-> 0, autoShip |-> FALSE]
    /\ depot = [litres |-> 0, vouchers |-> 0, spent |-> 0]
    /\ rungs = run.rungs /\ version = run.version
    /\ prestige = [points |-> run.points, count |-> run.count, pinned |-> {}, nodes |-> run.nodes]

(* handleTick: the generators, then the refinery and its shipment, then the site *)
Tick(seconds) ==
  /\ version = Latest
  /\ Bake(Production * seconds)
  /\ FactoryTick(seconds)
  /\ \E crew \in Crews : home' = Built(home, seconds * crew)
  /\ WithAchievements(wallet, jar')
  /\ UNCHANGED <<clock, clicks, generators, shelf, tools, progression, rungs, version, prestige>>

Next ==
  \/ \E seconds \in Steps : Tick(seconds)
  \/ ShopNext /\ version = Latest /\ UNCHANGED <<home, plant, depot, rungs, version, prestige>>
  \/ HomeNext /\ version = Latest /\ UNCHANGED <<plant, depot, rungs, version, prestige>>
  \/ FactoryNext /\ version = Latest /\ UNCHANGED <<home, rungs, version, prestige>>
  \/ ControlsNext /\ UNCHANGED <<home, plant, depot, prestige>>
  \/ AscensionNext /\ UNCHANGED <<home, plant, depot, rungs, version>>

(* The tick is a timer of the store and goes on whatever the player does; of its steps, fairness is   *)
(* only asked of those that get a site on.                                                           *)
Work == home.site # NoSite /\ \E seconds \in Steps, crew \in Crews : home' = Built(home, seconds * crew)
Spec == Init /\ [][Next]_vars /\ WF_home(Work)

-----------------------------------------------------------------------------
TypeOK ==
  /\ jar \in Jar /\ lifetime \in Nat /\ clicks \in Nat
  /\ generators \in [DOMAIN Generators -> 0..MaxOwned]
  /\ OwnedUpgrades \subseteq DOMAIN Upgrades /\ tools \subseteq DOMAIN Tools /\ progression \in BOOLEAN
  /\ home.blueprints \subseteq DOMAIN Rooms /\ home.rooms \subseteq DOMAIN Rooms
  /\ home.furniture \subseteq DOMAIN Furniture /\ home.site \in DOMAIN Rooms \cup {Extension, NoSite}
  /\ home.elapsed \in Nat /\ home.elapsed <= home.required /\ home.level \in Nat
  /\ plant.units \in [DOMAIN Equipment -> 0..MaxEquipment] /\ plant.upgrades \subseteq DOMAIN FactoryUpgrades
  /\ depot.litres \in Nat /\ depot.vouchers \in Nat /\ depot.vouchers <= depot.litres
  /\ rungs \subseteq RungsOf(DOMAIN Ladders) /\ version \in 5..Latest
  /\ prestige.points \in Nat /\ prestige.nodes \subseteq DOMAIN RebornNodes

(* A site that was started is finished, and stays one site until it is: not even an ascension that *)
(* takes the deed away stops the crew.                                                              *)
SiteIsFinished == \A r \in DOMAIN Rooms : home.site = r ~> r \in home.rooms

(* "As many as the jar affords" means it: after buying the most, at the price the discount leaves   *)
(* and before any rebate, one more of them could not have been paid for.                            *)
MaxIsTheMost ==
  [][\A g \in DOMAIN Generators :
       BuyMax(g) => LET q == generators'[g] - generators[g]
                    IN \/ generators'[g] = MaxOwned
                       \/ CostOfBulk(g, generators[g], q + 1) * Payable > jar.cookies * 100]_generators

=============================================================================
