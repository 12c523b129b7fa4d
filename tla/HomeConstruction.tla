-------------------------- MODULE HomeConstruction --------------------------
(***************************************************************************)
(* The house: a blueprint, then a site, then a room, then its furniture;   *)
(* one site at a time, worked on by the tick.  When every room stands, the *)
(* house is extended, again and again, each time dearer.                   *)
(***************************************************************************)
EXTENDS Shop

CONSTANTS
  Rooms,         \* [room -> [blueprint, cost, time, needs]]: needs a set of rooms
  Furniture,     \* [piece -> [room, cost, speed]]: speed a percentage off building
  ExtensionCost, ExtensionRatio, ExtensionTime, ExtensionStep, ExtensionMaxTime,
  Extension,     \* the site of an extension
  NoSite,        \* no site
  MaxExtensions  \* bound on the extensions

ASSUME HouseAssumption ==
  /\ Extension \notin DOMAIN Rooms /\ NoSite \notin DOMAIN Rooms \cup {Extension}
  /\ IsFiniteSet(DOMAIN Rooms) /\ \A r \in DOMAIN Rooms : {Rooms[r].blueprint, Rooms[r].cost, Rooms[r].time} \subseteq Nat
  /\ IsFiniteSet(DOMAIN Furniture) /\ \A f \in DOMAIN Furniture : {Furniture[f].cost, Furniture[f].speed} \subseteq Nat
  /\ {ExtensionCost, ExtensionTime, ExtensionStep, ExtensionMaxTime, MaxExtensions} \subseteq Nat
  /\ ExtensionRatio \in Nat /\ ExtensionRatio > 1

VARIABLE
  home           \* blueprints, rooms, furniture, site, elapsed, required, level, invested

HomeOffered == "deed" \in OwnedUpgrades

BuildSpeed == Min({60, Sum([f \in home.furniture |-> Furniture[f].speed])})

(* a printed time, less what the furniture saves, rounded *)
Worked(time) == (time * (100 - BuildSpeed) + 50) \div 100

ExtensionMs == Worked(Min({ExtensionMaxTime, ExtensionTime + home.level * ExtensionStep}))

Stands(room) == Rooms[room].needs \subseteq home.rooms

BlueprintOffered(room) ==
  room \notin home.blueprints /\ room \notin home.rooms /\ Stands(room)

CanStart_Anytime(room) == room \in home.blueprints /\ room \notin home.rooms /\ Stands(room)

CanStart(room) ==
  home.site = NoSite /\ room \in home.blueprints /\ room \notin home.rooms /\ Stands(room)

CanExtend == home.site = NoSite /\ DOMAIN Rooms \subseteq home.rooms

CanFurnish(f) == Furniture[f].room \in home.rooms /\ f \notin home.furniture

PayForHome(price) ==
  HomeOffered /\ Pay(price) /\ UNCHANGED <<clock, clicks, generators, shelf, tools, progression>>

BuyBlueprint(room) ==
  /\ BlueprintOffered(room) /\ PayForHome(Rooms[room].blueprint)
  /\ home' = [home EXCEPT !.blueprints = @ \cup {room}, !.invested = @ + Rooms[room].blueprint]

StartConstruction(room) ==
  /\ CanStart(room) /\ PayForHome(Rooms[room].cost)
  /\ home' = [home EXCEPT !.site = room, !.elapsed = 0, !.required = Worked(Rooms[room].time),
                          !.invested = @ + Rooms[room].cost]

StartExtension ==
  LET cost == ExtensionCost * Power(ExtensionRatio, home.level)
  IN /\ CanExtend /\ home.level < MaxExtensions /\ PayForHome(cost)
     /\ home' = [home EXCEPT !.site = Extension, !.elapsed = 0, !.required = ExtensionMs, !.invested = @ + cost]

BuyFurniture(f) ==
  /\ CanFurnish(f) /\ PayForHome(Furniture[f].cost)
  /\ home' = [home EXCEPT !.furniture = @ \cup {f}, !.invested = @ + Furniture[f].cost]

HomeNext ==
  \/ \E room \in DOMAIN Rooms : BuyBlueprint(room) \/ StartConstruction(room)
  \/ StartExtension
  \/ \E f \in DOMAIN Furniture : BuyFurniture(f)

(* tickHome: the house after so much work *)
Completed(h) ==
  IF h.site = Extension
  THEN [h EXCEPT !.site = NoSite, !.elapsed = 0, !.required = 0, !.level = @ + 1]
  ELSE [h EXCEPT !.site = NoSite, !.elapsed = 0, !.required = 0, !.rooms = @ \cup {h.site}]

Built_WithDeed(h, work) ==
  IF h.site = NoSite \/ ~HomeOffered THEN h
  ELSE IF h.elapsed + work < h.required THEN [h EXCEPT !.elapsed = @ + work] ELSE Completed(h)

Built(h, work) ==
  IF h.site = NoSite THEN h
  ELSE IF h.elapsed + work < h.required THEN [h EXCEPT !.elapsed = @ + work] ELSE Completed(h)

-----------------------------------------------------------------------------
(* The house is what was paid for it: blueprints, rooms that stand or are being built, furniture *)
(* and extensions add up to the cookies invested in it, across ascensions and saves.             *)
HouseIsPaidFor ==
  LET sites == home.rooms \cup (DOMAIN Rooms \cap {home.site})
      levels == home.level + (IF home.site = Extension THEN 1 ELSE 0)
  IN home.invested =
       Sum([r \in home.blueprints |-> Rooms[r].blueprint])
       + Sum([r \in sites |-> Rooms[r].cost])
       + Sum([f \in home.furniture |-> Furniture[f].cost])
       + (ExtensionCost * (Power(ExtensionRatio, levels) - 1)) \div (ExtensionRatio - 1)

(* No room hangs in the air: what stands or is being built has its blueprint and the rooms it    *)
(* leans on, a room being built does not stand already, furniture has a room around it, and only *)
(* a whole house is extended.                                                                    *)
HouseStands ==
  LET sites == home.rooms \cup (DOMAIN Rooms \cap {home.site})
  IN /\ sites \subseteq home.blueprints
     /\ home.site \notin home.rooms
     /\ \A r \in home.blueprints : Rooms[r].needs \subseteq home.rooms
     /\ \A f \in home.furniture : Furniture[f].room \in home.rooms
     /\ (home.site = Extension \/ home.level > 0) => home.rooms = DOMAIN Rooms

(* The house is sound in both senses, whatever was bought, built and reset in between              *)
(* (home-construction.ts's purchases and tickHome).                                                *)
HouseIsSound == HouseIsPaidFor /\ HouseStands

=============================================================================
