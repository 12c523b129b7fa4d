--------------------------- MODULE DieselFactory ---------------------------
(***************************************************************************)
(* The refinery: crude is lifted into the yard, refined into diesel, kept  *)
(* in tanks that may be full, and shipped to the depot by hand or by the   *)
(* tick itself.  Amounts are whole grains, Grain of them to a litre.       *)
(***************************************************************************)
EXTENDS Shop

CONSTANTS
  Grain,         \* grains in a litre
  Equipment,     \* [line -> [cost, crude, refine, tank, yard, boost]]: boost in percent
  EquipmentRatio,
  FactoryUpgrades, \* [upgrade -> [cost, kind, by, line, atLeast, after, made]]
  BaseTank, BaseYard,
  CrudePerGrain, \* crude a grain of diesel takes
  MaxEquipment,  \* bound on the units of a line
  MaxLifted      \* bound on the crude ever lifted

(* the factors and shares of the upgrades of a kind, and what is left of an amount of crude *)
Times(us) == Product([u \in us |-> FactoryUpgrades[u].by])
Leaner(us) == Scaled(CrudePerGrain, [u \in us |-> FactoryUpgrades[u].by])

(* amounts are fine enough for no efficiency to round to nothing *)
ASSUME FactoryAssumption ==
  /\ Grain \in Nat \ {0} /\ CrudePerGrain \in Nat \ {0} /\ BaseTank \in Nat \ {0} /\ BaseYard \in Nat
  /\ EquipmentRatio \in Nat /\ EquipmentRatio > 1 /\ MaxEquipment \in Nat /\ MaxLifted \in Nat
  /\ IsFiniteSet(DOMAIN Equipment)
  /\ \A e \in DOMAIN Equipment, column \in {"cost", "crude", "refine", "tank", "yard", "boost"} : Equipment[e][column] \in Nat
  /\ IsFiniteSet(DOMAIN FactoryUpgrades)
  /\ \A u \in DOMAIN FactoryUpgrades :
       LET def == FactoryUpgrades[u]
       IN {def.cost, def.atLeast, def.made} \subseteq Nat /\ def.by \in Nat \ {0} /\ def.line \in DOMAIN Equipment
  /\ \A us \in SUBSET {u \in DOMAIN FactoryUpgrades : FactoryUpgrades[u].kind = "efficiency"} : Leaner(us) > 0

VARIABLES
  plant,         \* crude, litres, both ever made, units, upgrades, invested, autoShip, stalled
  depot          \* litres and vouchers minted, cookies attributed to them

FactoryOffered == "contract" \in OwnedUpgrades

Of(p, kind) == {u \in p.upgrades : FactoryUpgrades[u].kind = kind}
Total(p, column) == Sum([e \in DOMAIN Equipment |-> p.units[e] * Equipment[e][column]])

(* computeRatings *)
TankCapacity(p) == (BaseTank + Total(p, "tank")) * Times(Of(p, "capacity"))
YardCapacity(p) == (BaseYard + Total(p, "yard")) * Times(Of(p, "capacity"))
CrudeRate(p) ==
  Sum([e \in DOMAIN Equipment |->
         p.units[e] * Equipment[e].crude * Times({u \in Of(p, "intake") : FactoryUpgrades[u].line = e})])
  + Sum([u \in Of(p, "flatCrude") |-> FactoryUpgrades[u].by])
RefiningRate(p) ==
  (Total(p, "refine") * Times(Of(p, "refining"))
   * (100 + Total(p, "boost"))) \div 100
BarrelsPerGrain(p) == Leaner(Of(p, "efficiency"))
AutoShipAt(p) == {FactoryUpgrades[u].by : u \in Of(p, "autoShip")}    \* fill percentages, the least one counts

(* tickFactory: the yard fills first, then what it holds is refined into what the tanks have room for *)
Refined(p, seconds) ==
  LET lifted == Min({CrudeRate(p) * seconds, Max({0, YardCapacity(p) - p.crude})})
      wanted == Min({RefiningRate(p) * seconds, (p.crude + lifted) \div BarrelsPerGrain(p)})
      room == Max({0, TankCapacity(p) - p.litres})
      made == Min({wanted, room})
  IN [p EXCEPT !.crude = @ + lifted - made * BarrelsPerGrain(p), !.litres = Min({TankCapacity(p), @ + made}),
               !.lifeCrude = @ + lifted, !.lifeLitres = @ + made, !.stalled = @ \/ wanted > room]

Shippable(p) == p.litres \div Grain

(* autoShipQuantity *)
AutoShipQuantity(p) ==
  IF p.autoShip /\ AutoShipAt(p) # {} /\ p.litres * 100 >= Min(AutoShipAt(p)) * TankCapacity(p)
  THEN Shippable(p) ELSE 0

(* shipFromTanks: what it leaves in the tanks, and the depot with its receipt *)
CanShip(p, litres) == FactoryOffered /\ litres > 0 /\ Shippable(p) >= litres
Receipt(p, litres) == (p.invested * litres * Grain) \div p.lifeLitres
Withdrawn_Lifetime(p, litres) ==
  [p EXCEPT !.litres = @ - litres * Grain, !.lifeLitres = @ - litres * Grain]
Withdrawn(p, litres) == [p EXCEPT !.litres = @ - litres * Grain]
Minted(p, litres) ==
  [depot EXCEPT !.litres = @ + litres, !.vouchers = @ + 1, !.spent = @ + Receipt(p, litres)]

(* handleTick's part of the factory *)
FactoryTick_Untimely(seconds) ==
  \E p \in {Refined(plant, seconds)} : \E litres \in {AutoShipQuantity(p)} :
    /\ p.lifeCrude <= MaxLifted
    /\ plant' = IF CanShip(p, litres) THEN Withdrawn(plant, litres) ELSE p
    /\ depot' = IF CanShip(p, litres) THEN Minted(p, litres) ELSE depot

FactoryTick(seconds) ==
  \E p \in {Refined(plant, seconds)} : \E litres \in {AutoShipQuantity(p)} :
    /\ p.lifeCrude <= MaxLifted
    /\ plant' = IF CanShip(p, litres) THEN Withdrawn(p, litres) ELSE p
    /\ depot' = IF CanShip(p, litres) THEN Minted(p, litres) ELSE depot

MintDiesel(litres) ==
  /\ CanShip(plant, litres)
  /\ plant' = Withdrawn(plant, litres)
  /\ depot' = Minted(plant, litres)
  /\ WithAchievements(wallet, jar)
  /\ UNCHANGED <<clock, jar, lifetime, clicks, generators, shelf, tools, progression>>

EquipmentBulkCost(e, owned, q) ==
  (Equipment[e].cost * Power(EquipmentRatio, owned) * (Power(EquipmentRatio, q) - 1)) \div (EquipmentRatio - 1)

PayForPlant(price) ==
  FactoryOffered /\ Pay(price) /\ UNCHANGED <<clock, clicks, generators, shelf, tools, progression, depot>>

BuyFactoryEquipment(e, q) ==
  LET cost == EquipmentBulkCost(e, plant.units[e], q)
  IN /\ plant.units[e] + q <= MaxEquipment
     /\ PayForPlant(cost)
     /\ plant' = [plant EXCEPT !.units[e] = @ + q, !.invested = @ + cost]

(* isFactoryUpgradeOffered: enough units of a line, an upgrade before it, enough litres ever made *)
UpgradeOffered(p, u) ==
  LET def == FactoryUpgrades[u]
  IN /\ def.atLeast > 0 => p.units[def.line] >= def.atLeast
     /\ def.after \subseteq p.upgrades
     /\ p.lifeLitres >= def.made * Grain

BuyFactoryUpgrade(u) ==
  /\ u \notin plant.upgrades /\ UpgradeOffered(plant, u)
  /\ PayForPlant(FactoryUpgrades[u].cost)
  /\ plant' = [plant EXCEPT !.upgrades = @ \cup {u}, !.invested = @ + FactoryUpgrades[u].cost]

SetFactoryAutoShip ==
  /\ plant' = [plant EXCEPT !.autoShip = ~@]
  /\ UNCHANGED <<shopVars, depot>>

FactoryNext ==
  \/ \E e \in DOMAIN Equipment, q \in 1..MaxEquipment : BuyFactoryEquipment(e, q)
  \/ \E u \in DOMAIN FactoryUpgrades : BuyFactoryUpgrade(u)
  \/ \E litres \in 1..Shippable(plant) : MintDiesel(litres)
  \/ SetFactoryAutoShip

-----------------------------------------------------------------------------
(* Every litre ever made is in the tanks or on a voucher, and the tanks hold what they can: an    *)
(* overfull tank, a double shipment or a shipment of what is not there would show.                *)
LitresAreAccounted ==
  /\ plant.litres + depot.litres * Grain = plant.lifeLitres
  /\ plant.litres >= 0 /\ plant.litres <= TankCapacity(plant)
  /\ plant.crude >= 0 /\ plant.crude <= YardCapacity(plant)

(* The plant is what was paid for it, however the purchases were grouped: buying three units at   *)
(* once costs what buying them one by one does.                                                   *)
PlantIsPaidFor ==
  plant.invested =
    Sum([e \in DOMAIN Equipment |-> EquipmentBulkCost(e, 0, plant.units[e])])
    + Sum([u \in plant.upgrades |-> FactoryUpgrades[u].cost])

(* What was earned stays earned: an upgrade of the plant still meets the condition it was offered *)
(* under, because units, upgrades and litres ever made outlive shipments and ascensions.           *)
EarnedStaysEarned == \A u \in plant.upgrades : UpgradeOffered(plant, u)

(* Neither litres nor cookies leak from the plant, and nothing earned in it is lost, through       *)
(* ticks, shipments and ascensions (diesel-factory.ts's tickFactory, purchases and shipments).     *)
PlantIsSound == LitresAreAccounted /\ PlantIsPaidFor /\ EarnedStaysEarned

=============================================================================
