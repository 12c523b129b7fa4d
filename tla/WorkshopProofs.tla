--------------------------- MODULE WorkshopProofs ---------------------------
(***************************************************************************)
(* What holds of a run's purchases for any catalogue, any order of ticks,  *)
(* purchases, shipments, ascensions and migrations: the house and the      *)
(* plant are what was paid for them, no litre leaks, no rung hangs in the  *)
(* air, pins survive and points are kept.                                  *)
(***************************************************************************)
EXTENDS Workshop, SumTheorems

(* Prices that grow by a ratio, bought q at once when n are owned.         *)
Grown(c, r, n, q) == (c * Power(r, n) * (Power(r, q) - 1)) \div (r - 1)

LEMMA GrownIsWhole ==
  ASSUME NEW c \in Nat, NEW r \in Nat, r > 1, NEW n \in Nat, NEW q \in Nat
  PROVE  /\ Grown(c, r, n, q) \in Nat
         /\ (r - 1) * Grown(c, r, n, q) = c * Power(r, n) * (Power(r, q) - 1)
<1>1. r \in Positive /\ r - 1 \in Nat \ {0}
  BY DEF Positive
<1>2. PICK k \in Nat : Power(r, q) - 1 = (r - 1) * k
  BY <1>1, SeriesIsWhole
<1> DEFINE d == r - 1
           a == c * Power(r, n)
           x == a * k
<1>3. a \in Nat
  <2>1. Power(r, n) \in Nat
    BY <1>1, PowerIsTyped DEF Positive
  <2> QED BY <2>1
<1>4. x \in Nat
  <2> HIDE DEF a
  <2> QED BY <1>3
<1>5. c * Power(r, n) * (Power(r, q) - 1) = d * x
  <2>1. a * (d * k) = d * (a * k)
    <3> HIDE DEF a, d
    <3>1. d \in Nat /\ k \in Nat
      BY <1>1, <1>2 DEF d
    <3> QED BY ONLY <1>3, <3>1
  <2> QED BY <1>2, <2>1
<1>6. Grown(c, r, n, q) = (d * x) \div d
  BY <1>5 DEF Grown
<1> HIDE DEF d, x
<1>7. (d * x) \div d = x
  <2>1. d \in Nat \ {0}
    BY <1>1 DEF d
  <2> QED BY ONLY <1>4, <2>1
<1> QED BY <1>4, <1>5, <1>6, <1>7 DEF d

LEMMA GrownOfNone ==
  ASSUME NEW c \in Nat, NEW r \in Nat, r > 1, NEW n \in Nat
  PROVE  Grown(c, r, n, 0) = 0
<1> DEFINE a == c * Power(r, n)
<1>1. a \in Nat
  <2>1. Power(r, n) \in Nat
    BY PowerIsTyped DEF Positive
  <2> QED BY <2>1
<1> HIDE DEF a
<1>2. a * (1 - 1) = 0 /\ 0 \div (r - 1) = 0
  BY <1>1
<1> QED BY <1>2, PowerZero DEF Grown, a

(* However purchases are grouped they cost the same.                       *)
LEMMA GrownAdds ==
  ASSUME NEW c \in Nat, NEW r \in Nat, r > 1, NEW n \in Nat, NEW q \in Nat
  PROVE  Grown(c, r, 0, n + q) = Grown(c, r, 0, n) + Grown(c, r, n, q)
<1> DEFINE d == r - 1
           x == Grown(c, r, 0, n)
           y == Grown(c, r, n, q)
           z == Grown(c, r, 0, n + q)
           p == Power(r, n)
           s == Power(r, q)
<1>1. r \in Positive /\ d \in Nat \ {0} /\ n + q \in Nat
  BY DEF Positive
<1>2. p \in Nat /\ s \in Nat /\ Power(r, n + q) = p * s /\ Power(r, 0) = 1
  BY <1>1, PowerIsTyped, PowerAdds, PowerZero DEF Positive
<1>3. x \in Nat /\ y \in Nat /\ z \in Nat
  BY <1>1, GrownIsWhole
<1>4. d * x = c * 1 * (p - 1) /\ d * y = c * p * (s - 1) /\ d * z = c * 1 * (p * s - 1)
  <2>1. d * x = c * Power(r, 0) * (Power(r, n) - 1)
    BY GrownIsWhole
  <2>2. d * y = c * Power(r, n) * (Power(r, q) - 1)
    BY GrownIsWhole
  <2>3. d * z = c * Power(r, 0) * (Power(r, n + q) - 1)
    BY <1>1, GrownIsWhole
  <2> QED BY <1>2, <2>1, <2>2, <2>3
<1> HIDE DEF d, x, y, z, p, s
<1>5. c * 1 * (p * s - 1) = c * 1 * (p - 1) + c * p * (s - 1)
  <2> DEFINE t == p * s
  <2>1. c * p * (s - 1) = c * t - c * p
    <3>1. c * p * (s - 1) = c * p * s - c * p /\ c * p * s = c * (p * s)
      BY <1>2
    <3> QED BY <3>1
  <2>2. t \in Nat
    BY <1>2
  <2> HIDE DEF t
  <2>3. c * 1 * (t - 1) = c * t - c /\ c * 1 * (p - 1) = c * p - c
    BY <1>2, <2>2
  <2>4. c * t \in Nat /\ c * p \in Nat
    BY <1>2, <2>2
  <2> DEFINE u == c * t
             v == c * p
  <2>5. u \in Nat /\ v \in Nat
    BY <2>4
  <2> HIDE DEF u, v
  <2>6. u - c = (v - c) + (u - v)
    BY <2>5
  <2> QED BY <2>1, <2>3, <2>6 DEF t, u, v
<1>6. d * z = d * x + d * y
  BY <1>4, <1>5
<1>7. d * x + d * y = d * (x + y)
  BY <1>1, <1>3
<1>8. z = x + y
  <2>1. d * z = d * (x + y) /\ x + y \in Nat
    BY <1>3, <1>6, <1>7
  <2> DEFINE w == x + y
  <2> HIDE DEF w
  <2>2. w \in Nat /\ d * z = d * w
    BY <2>1 DEF w
  <2>3. (d * z) \div d = z /\ (d * w) \div d = w
    BY ONLY <1>1, <1>3, <2>2
  <2> QED BY <2>2, <2>3 DEF w
<1> QED BY <1>8 DEF x, y, z


-----------------------------------------------------------------------------
(* The jar and the shelf.                                                  *)
JarFits == jar \in Jar /\ jar.baked <= MaxMade /\ lifetime \in Nat

ShelfFits ==
  /\ clicks \in Nat /\ generators \in [DOMAIN Generators -> 0..MaxOwned]
  /\ OwnedUpgrades \subseteq DOMAIN Upgrades /\ \A u \in OwnedUpgrades : shelf[u] \in [at : Nat, nth : Nat]
  /\ tools \subseteq DOMAIN Tools /\ progression \in BOOLEAN

LEMMA BakeFits ==
  ASSUME JarFits, NEW n \in Nat, Bake(n)
  PROVE  JarFits'
<1> DEFINE baked == Min({n, MaxMade - jar.baked})
<1>1. jar.cookies \in Nat /\ jar.baked \in Nat /\ lifetime \in Nat /\ MaxMade \in Nat /\ jar.baked <= MaxMade
  BY ShopAssumption DEF JarFits, Jar
<1>2. baked \in Nat /\ baked <= MaxMade - jar.baked
  BY <1>1, MinOfTwo
<1>3. jar' = Earned(jar, baked) /\ lifetime' = lifetime + baked
  BY DEF Bake
<1> HIDE DEF baked
<1>4. jar' = [jar EXCEPT !.cookies = @ + baked, !.baked = @ + baked] /\ jar \in [cookies : Nat, baked : Nat]
  BY <1>3 DEF Earned, JarFits, Jar
<1>5. jar' \in Jar /\ jar'.baked = jar.baked + baked
  <2>1. jar'.cookies = jar.cookies + baked /\ jar'.baked = jar.baked + baked
    BY ONLY <1>4
  <2>2. jar' = [cookies |-> jar'.cookies, baked |-> jar'.baked]
    BY ONLY <1>4
  <2>3. jar'.cookies \in Nat /\ jar'.baked \in Nat
    BY ONLY <1>1, <1>2, <2>1
  <2> QED BY ONLY <2>1, <2>2, <2>3 DEF Jar
<1>6. lifetime' \in Nat /\ jar'.baked <= MaxMade
  BY ONLY <1>1, <1>2, <1>3, <1>5
<1> QED BY <1>5, <1>6 DEF JarFits

LEMMA PayFits ==
  ASSUME JarFits, NEW price \in Nat, Pay(price)
  PROVE  JarFits'
<1>1. PICK r \in Rebates : jar' = [jar EXCEPT !.cookies = @ - price + (price * r) \div 100]
  BY DEF Pay
<1>2. jar.cookies \in Nat /\ jar.cookies >= price /\ lifetime' = lifetime
  BY DEF JarFits, Jar, Pay
<1>3. (price * r) \div 100 \in Nat
  <2> DEFINE x == price * r
  <2>1. x \in Nat
    <3>1. r \in Nat
      BY ShopAssumption
    <3> QED BY <3>1
  <2> HIDE DEF x
  <2> QED BY <2>1 DEF x
<1> QED BY <1>1, <1>2, <1>3 DEF JarFits, Jar

LEMMA ProductionIsTyped ==
  ASSUME ShelfFits
  PROVE  Production \in Nat
<1> DEFINE f == [g \in DOMAIN Generators |-> generators[g] * Generators[g].cps]
<1>1. ASSUME NEW g \in DOMAIN Generators PROVE f[g] \in Nat
  <2>1. generators[g] \in Nat /\ Generators[g].cps \in Nat
    BY ShopAssumption DEF ShelfFits
  <2> QED BY <2>1
<1>2. f \in [DOMAIN Generators -> Int]
  <2> HIDE DEF f
  <2>1. f = [g \in DOMAIN Generators |-> f[g]]
    BY DEF f
  <2> QED BY <1>1, <2>1
<1> HIDE DEF f
<1>3. Sum(f) \in Nat
  BY <1>1, <1>2, ShopAssumption, SumIsTyped
<1> QED BY <1>3, CounterAssumption DEF Production, f

LEMMA PayableIsTyped == Payable \in Nat
<1> DEFINE T == {t \in DOMAIN Tools : ToolActive(t)}
           f == [t \in T |-> 100 - Tools[t].off]
<1>1. IsFiniteSet(T)
  BY ShopAssumption, FS_Subset
<1>2. f \in [T -> Nat]
  BY ShopAssumption
<1> HIDE DEF f, T
<1>3. Scaled(100, f) \in Nat
  BY <1>1, <1>2, ScaledIsTyped
<1>4. Payable = Max({10, Scaled(100, f)})
  BY DEF Payable, f, T
<1> QED BY <1>3, <1>4, MaxOfTwo

LEMMA CostIsTyped ==
  ASSUME NEW g \in DOMAIN Generators, NEW n \in Nat, NEW q \in Nat
  PROVE  CostOfBulk(g, n, q) \in Nat
<1>1. CostOfBulk(g, n, q) = Grown(Generators[g].base, Ratio, n, q)
  BY DEF CostOfBulk, Grown
<1>2. Generators[g].base \in Nat /\ Ratio \in Nat /\ Ratio > 1
  BY ShopAssumption
<1>3. Grown(Generators[g].base, Ratio, n, q) \in Nat
  BY ONLY <1>2, n \in Nat, q \in Nat, GrownIsWhole
<1> QED BY <1>1, <1>3

LEMMA TakeFits ==
  ASSUME JarFits, ShelfFits, NEW g \in DOMAIN Generators, NEW q \in Int, TakeGenerators(g, q)
  PROVE  JarFits' /\ ShelfFits'
<1> DEFINE cost == CostOfBulk(g, generators[g], q)
<1>1. generators[g] \in Nat /\ q \in Nat /\ generators[g] + q <= MaxOwned /\ MaxOwned \in Nat
  BY ShopAssumption DEF ShelfFits, TakeGenerators
<1>2. (cost * Payable) \div 100 \in Nat
  <2>1. cost \in Nat /\ Payable \in Nat
    BY <1>1, CostIsTyped, PayableIsTyped
  <2> DEFINE x == cost * Payable
  <2>2. x \in Nat
    <3> HIDE DEF cost
    <3> QED BY <2>1
  <2> HIDE DEF x
  <2>3. x \div 100 \in Nat
    BY <2>2
  <2> QED BY <2>3 DEF x
<1>3. Pay((cost * Payable) \div 100)
  BY DEF TakeGenerators
<1> HIDE DEF cost
<1>4. JarFits'
  BY <1>2, <1>3, PayFits
<1>5. generators' \in [DOMAIN Generators -> 0..MaxOwned]
  BY <1>1 DEF TakeGenerators, ShelfFits
<1> QED BY <1>4, <1>5 DEF TakeGenerators, ShelfFits, OwnedUpgrades

LEMMA ShopFits ==
  ASSUME JarFits, ShelfFits, ShopNext
  PROVE  JarFits' /\ ShelfFits'
<1>1. CASE Click
  <2>1. JarFits'
    BY <1>1, BakeFits DEF Click
  <2> QED BY <1>1, <2>1 DEF Click, ShelfFits, OwnedUpgrades
<1>2. ASSUME NEW g \in DOMAIN Generators, BuyMax(g) PROVE JarFits' /\ ShelfFits'
  <2>1. MaxAffordable(g) \in Int
    <3> DEFINE Q == {q \in 0..MaxOwned : CostOfBulk(g, generators[g], q) * Payable <= jar.cookies * 100}
    <3>1. Q \subseteq Int /\ IsFiniteSet(Q)
      <4> DEFINE R == 0..MaxOwned
      <4>1. IsFiniteSet(R) /\ R \subseteq Int
        BY ShopAssumption, FS_Interval
      <4>2. Q \subseteq R
        OBVIOUS
      <4> HIDE DEF Q, R
      <4> QED BY <4>1, <4>2, FS_Subset
    <3>2. 0 \in Q
      <4>1. CostOfBulk(g, generators[g], 0) = 0
        <5>1. Generators[g].base \in Nat /\ generators[g] \in Nat
          BY ShopAssumption DEF ShelfFits
        <5> QED BY <5>1, GrownOfNone, ShopAssumption DEF CostOfBulk, Grown
      <4>2. 0 * Payable = 0
        BY PayableIsTyped
      <4>3. jar.cookies \in Nat
        BY DEF JarFits, Jar
      <4> QED BY <4>1, <4>2, <4>3, ShopAssumption
    <3> HIDE DEF Q
    <3>3. Max(Q) \in Q
      BY <3>1, <3>2, MaxIsGreatest
    <3> QED BY <3>1, <3>3 DEF MaxAffordable, Q
  <2> QED BY <1>2, <2>1, TakeFits DEF BuyMax
<1>3. ASSUME NEW g \in DOMAIN Generators, NEW q \in 1..MaxOwned, TakeGenerators(g, q) PROVE JarFits' /\ ShelfFits'
  BY <1>3, TakeFits, ShopAssumption
<1>4. ASSUME NEW u \in DOMAIN Upgrades, BuyUpgrade(u) PROVE JarFits' /\ ShelfFits'
  <2>1. JarFits'
    BY <1>4, PayFits, ShopAssumption DEF BuyUpgrade
  <2>2. IsFiniteSet(OwnedUpgrades) /\ Cardinality(OwnedUpgrades) + 1 \in Nat
    BY ShopAssumption, FS_Subset, FS_CardinalityType DEF ShelfFits
  <2> QED BY <1>4, <2>1, <2>2 DEF BuyUpgrade, ShelfFits, OwnedUpgrades
<1>5. ASSUME NEW t \in DOMAIN Tools, BuyTool(t) PROVE JarFits' /\ ShelfFits'
  <2>1. JarFits'
    BY <1>5, PayFits, ShopAssumption DEF BuyTool
  <2> QED BY <1>5, <2>1 DEF BuyTool, ShelfFits, OwnedUpgrades
<1>6. CASE SetToolProgression
  BY <1>6 DEF SetToolProgression, JarFits, ShelfFits, OwnedUpgrades
<1> QED BY <1>1, <1>2, <1>3, <1>4, <1>5, <1>6 DEF ShopNext


-----------------------------------------------------------------------------
(* The house.                                                              *)
House ==
  [blueprints : SUBSET DOMAIN Rooms, rooms : SUBSET DOMAIN Rooms, furniture : SUBSET DOMAIN Furniture,
   site : DOMAIN Rooms \cup {Extension, NoSite}, elapsed : Nat, required : Nat, level : Nat, invested : Nat]

HomeFits == home \in House /\ home.elapsed <= home.required /\ HouseIsSound

Sites == home.rooms \cup (DOMAIN Rooms \cap {home.site})
Levels == home.level + (IF home.site = Extension THEN 1 ELSE 0)
Blueprints == Sum([r \in home.blueprints |-> Rooms[r].blueprint])
Building == Sum([r \in Sites |-> Rooms[r].cost])
Furnishing == Sum([f \in home.furniture |-> Furniture[f].cost])
Extending == Grown(ExtensionCost, ExtensionRatio, 0, Levels)

LEMMA HouseIsItsParts ==
  HouseIsPaidFor <=> home.invested = Blueprints + Building + Furnishing + Extending
<1>1. Extending = (ExtensionCost * (Power(ExtensionRatio, Levels) - 1)) \div (ExtensionRatio - 1)
  <2>1. ExtensionCost * 1 = ExtensionCost /\ Power(ExtensionRatio, 0) = 1
    BY HouseAssumption, PowerZero
  <2> QED BY <2>1 DEF Extending, Grown
<1> QED BY <1>1 DEF HouseIsPaidFor, Blueprints, Building, Furnishing, Levels, Sites

LEMMA HousePartsAreWhole ==
  ASSUME home \in House
  PROVE  /\ Blueprints \in Int /\ Building \in Int /\ Furnishing \in Int /\ Extending \in Nat
         /\ IsFiniteSet(home.blueprints) /\ IsFiniteSet(Sites) /\ IsFiniteSet(home.furniture)
         /\ Sites \subseteq DOMAIN Rooms /\ Levels \in Nat
<1>1. /\ home.blueprints \subseteq DOMAIN Rooms /\ Sites \subseteq DOMAIN Rooms
      /\ home.furniture \subseteq DOMAIN Furniture /\ Levels \in Nat
  BY DEF House, Sites, Levels
<1>2. IsFiniteSet(home.blueprints) /\ IsFiniteSet(Sites) /\ IsFiniteSet(home.furniture)
  BY <1>1, HouseAssumption, FS_Subset
<1>3. /\ [r \in home.blueprints |-> Rooms[r].blueprint] \in [home.blueprints -> Int]
      /\ [r \in Sites |-> Rooms[r].cost] \in [Sites -> Int]
      /\ [f \in home.furniture |-> Furniture[f].cost] \in [home.furniture -> Int]
  BY <1>1, HouseAssumption
<1>4. Blueprints \in Int /\ Building \in Int /\ Furnishing \in Int
  BY <1>2, <1>3, SumIsTyped DEF Blueprints, Building, Furnishing
<1>5. ExtensionCost \in Nat /\ ExtensionRatio \in Nat /\ ExtensionRatio > 1
  BY HouseAssumption
<1>6. Extending \in Nat
  BY <1>1, <1>5, GrownIsWhole DEF Extending
<1> QED BY <1>1, <1>2, <1>4, <1>6

LEMMA WorkedIsWhole ==
  ASSUME home \in House, NEW time \in Nat
  PROVE  Worked(time) \in Nat
<1> DEFINE s == Sum([f \in home.furniture |-> Furniture[f].speed])
<1>1. s \in Nat
  <2>1. home.furniture \subseteq DOMAIN Furniture /\ IsFiniteSet(home.furniture)
    BY HouseAssumption, FS_Subset DEF House
  <2>2. [f \in home.furniture |-> Furniture[f].speed] \in [home.furniture -> Int]
        /\ \A f \in home.furniture : Furniture[f].speed \in Nat
    BY <2>1, HouseAssumption
  <2> QED BY <2>1, <2>2, SumIsTyped
<1>2. BuildSpeed = Min({60, s})
  BY DEF BuildSpeed
<1> HIDE DEF s
<1>3. BuildSpeed \in 0..60
  BY <1>1, <1>2, MinOfTwo
<1> DEFINE x == time * (100 - BuildSpeed)
<1>4. x \in Nat
  <2> DEFINE b == 100 - BuildSpeed
  <2>1. b \in Nat
    BY <1>3
  <2>2. x = time * b
    OBVIOUS
  <2> HIDE DEF b, x
  <2> QED BY <2>1, <2>2
<1> DEFINE y == x + 50
<1>5. y \in Nat
  <2> HIDE DEF x
  <2> QED BY <1>4
<1>6. Worked(time) = y \div 100
  BY DEF Worked
<1> HIDE DEF x, y
<1>7. y \div 100 \in Nat
  BY ONLY <1>5
<1> QED BY <1>6, <1>7

LEMMA BlueprintFits ==
  ASSUME HomeFits, NEW room \in DOMAIN Rooms, BuyBlueprint(room)
  PROVE  HomeFits'
<1> DEFINE price == Rooms[room].blueprint
<1>1. price \in Nat /\ home \in House /\ HouseStands /\ home.elapsed <= home.required
  BY HouseAssumption DEF HomeFits, HouseIsSound
<1>2. /\ home' = [home EXCEPT !.blueprints = @ \cup {room}, !.invested = @ + price]
      /\ room \notin home.blueprints /\ room \notin home.rooms /\ Rooms[room].needs \subseteq home.rooms
  BY DEF BuyBlueprint, BlueprintOffered, Stands
<1> HIDE DEF price
<1>3. /\ home'.blueprints = home.blueprints \cup {room} /\ home'.invested = home.invested + price
      /\ home'.rooms = home.rooms /\ home'.furniture = home.furniture /\ home'.site = home.site
      /\ home'.elapsed = home.elapsed /\ home'.required = home.required /\ home'.level = home.level
  BY <1>1, <1>2 DEF House
<1>4. home' \in House
  <2>1. home.blueprints \cup {room} \subseteq DOMAIN Rooms /\ home.invested + price \in Nat
    BY <1>1 DEF House
  <2> DEFINE b == home.blueprints \cup {room}
             i == home.invested + price
  <2>2. home' = [home EXCEPT !.blueprints = b, !.invested = i]
    BY <1>2
  <2> HIDE DEF b, i
  <2> QED BY <1>1, <2>1, <2>2 DEF House, b, i
<1>5. Building' = Building /\ Furnishing' = Furnishing /\ Extending' = Extending
  BY <1>3 DEF Building, Furnishing, Extending, Sites, Levels
<1>6. Blueprints' = Blueprints + price
  <2> DEFINE f == [r \in home.blueprints |-> Rooms[r].blueprint]
             g == [r \in home.blueprints \cup {room} |-> Rooms[r].blueprint]
  <2>1. f \in [home.blueprints -> Int] /\ g \in [home.blueprints \cup {room} -> Int]
    BY <1>1, HouseAssumption DEF House
  <2>2. (\A y \in home.blueprints : g[y] = f[y]) /\ g[room] = price
    BY DEF price
  <2>3. Blueprints' = Sum(g) /\ Blueprints = Sum(f)
    BY <1>3 DEF Blueprints
  <2> DEFINE S == home.blueprints
  <2>4. IsFiniteSet(S) /\ room \notin S
    BY <1>1, <1>2, HousePartsAreWhole
  <2> HIDE DEF f, g, S
  <2>5. Sum(g) = Sum(f) + g[room]
    BY ONLY <2>1, <2>2, <2>4, SumWith DEF S
  <2> QED BY <2>2, <2>3, <2>5
<1>7. HouseIsPaidFor'
  <2>1. home'.invested = Blueprints' + Building' + Furnishing' + Extending'
    <3>1. home.invested = Blueprints + Building + Furnishing + Extending
      BY HouseIsItsParts DEF HomeFits, HouseIsSound
    <3> QED BY <1>1, <1>3, <1>5, <1>6, <3>1, HousePartsAreWhole
  <2>2. (HouseIsPaidFor <=> home.invested = Blueprints + Building + Furnishing + Extending)'
    BY HouseIsItsParts, PTL
  <2> QED BY <2>1, <2>2
<1>8. HouseStands'
  BY <1>1, <1>2, <1>3 DEF HouseStands
<1> QED BY <1>1, <1>3, <1>4, <1>7, <1>8 DEF HomeFits, HouseIsSound


LEMMA SiteFits ==
  ASSUME HomeFits, NEW room \in DOMAIN Rooms, StartConstruction(room)
  PROVE  HomeFits'
<1> DEFINE price == Rooms[room].cost
           t == Worked(Rooms[room].time)
<1>1. price \in Nat /\ home \in House /\ HouseStands /\ t \in Nat
  <2>1. Rooms[room].time \in Nat
    BY HouseAssumption
  <2> QED BY <2>1, WorkedIsWhole, HouseAssumption DEF HomeFits, HouseIsSound
<1>2. /\ home' = [home EXCEPT !.site = room, !.elapsed = 0, !.required = t, !.invested = @ + price]
      /\ home.site = NoSite
      /\ room \in home.blueprints /\ room \notin home.rooms /\ Rooms[room].needs \subseteq home.rooms
  BY DEF StartConstruction, CanStart, Stands
<1>3. room # Extension /\ NoSite \notin DOMAIN Rooms /\ NoSite # Extension
  BY HouseAssumption
<1> HIDE DEF price, t
<1>4. /\ home'.blueprints = home.blueprints /\ home'.invested = home.invested + price
      /\ home'.rooms = home.rooms /\ home'.furniture = home.furniture /\ home'.site = room
      /\ home'.elapsed = 0 /\ home'.required = t /\ home'.level = home.level
  BY <1>1, <1>2 DEF House
<1>5. home' \in House
  <2> DEFINE i == home.invested + price
  <2>1. i \in Nat
    BY <1>1 DEF House
  <2>2. home' = [home EXCEPT !.site = room, !.elapsed = 0, !.required = t, !.invested = i]
    BY <1>2
  <2> HIDE DEF i
  <2> QED BY <1>1, <2>1, <2>2 DEF House
<1>6. Sites' = Sites \cup {room} /\ room \notin Sites
  BY <1>2, <1>3, <1>4 DEF Sites
<1>7. Blueprints' = Blueprints /\ Furnishing' = Furnishing /\ Extending' = Extending
  BY <1>2, <1>3, <1>4 DEF Blueprints, Furnishing, Extending, Levels
<1>8. Building' = Building + price
  <2> DEFINE S == Sites
             f == [r \in Sites |-> Rooms[r].cost]
             g == [r \in Sites \cup {room} |-> Rooms[r].cost]
  <2>1. f \in [S -> Int] /\ g \in [S \cup {room} -> Int] /\ IsFiniteSet(S) /\ room \notin S
    BY <1>1, <1>6, HouseAssumption, HousePartsAreWhole
  <2>2. (\A y \in S : g[y] = f[y]) /\ g[room] = price
    BY DEF price
  <2>3. Building' = Sum(g) /\ Building = Sum(f)
    BY <1>6 DEF Building
  <2> HIDE DEF f, g, S
  <2>4. Sum(g) = Sum(f) + g[room]
    BY ONLY <2>1, <2>2, SumWith
  <2> QED BY <2>2, <2>3, <2>4
<1>9. HouseIsPaidFor'
  <2>1. home'.invested = Blueprints' + Building' + Furnishing' + Extending'
    <3>1. home.invested = Blueprints + Building + Furnishing + Extending
      BY HouseIsItsParts DEF HomeFits, HouseIsSound
    <3> QED BY <1>1, <1>4, <1>7, <1>8, <3>1, HousePartsAreWhole
  <2>2. (HouseIsPaidFor <=> home.invested = Blueprints + Building + Furnishing + Extending)'
    BY HouseIsItsParts, PTL
  <2> QED BY <2>1, <2>2
<1>10. HouseStands'
  <2>1. home.level = 0
    <3>1. home.rooms # DOMAIN Rooms
      BY <1>2
    <3> QED BY <1>1, <3>1 DEF HouseStands, House
  <2> QED BY <1>1, <1>2, <1>3, <1>4, <2>1 DEF HouseStands
<1>11. home'.elapsed <= home'.required
  BY <1>1, <1>4
<1> QED BY <1>5, <1>9, <1>10, <1>11 DEF HomeFits, HouseIsSound

LEMMA ExtensionFits ==
  ASSUME HomeFits, StartExtension
  PROVE  HomeFits'
<1> DEFINE price == ExtensionCost * Power(ExtensionRatio, home.level)
           t == ExtensionMs
<1>1. home \in House /\ HouseStands /\ home.level \in Nat
      /\ ExtensionCost \in Nat /\ ExtensionRatio \in Nat /\ ExtensionRatio > 1
  BY HouseAssumption DEF HomeFits, HouseIsSound, House
<1>2. price \in Nat
  <2>1. Power(ExtensionRatio, home.level) \in Nat
    BY <1>1, PowerIsTyped DEF Positive
  <2> QED BY <1>1, <2>1
<1>3. t \in Nat
  <2> DEFINE y == home.level * ExtensionStep
             x == ExtensionTime + y
             m == Min({ExtensionMaxTime, x})
  <2>1. y \in Nat
    <3>1. ExtensionStep \in Nat
      BY HouseAssumption
    <3> QED BY <1>1, <3>1
  <2>2. x \in Nat /\ ExtensionMaxTime \in Nat
    <3> HIDE DEF y
    <3> QED BY <2>1, HouseAssumption
  <2>3. m \in Nat
    <3> HIDE DEF x
    <3> QED BY <2>2, MinOfTwo
  <2>4. t = Worked(m)
    BY DEF ExtensionMs
  <2> HIDE DEF m, t
  <2> QED BY <1>1, <2>3, <2>4, WorkedIsWhole
<1>4. /\ home' = [home EXCEPT !.site = Extension, !.elapsed = 0, !.required = t, !.invested = @ + price]
      /\ home.site = NoSite /\ DOMAIN Rooms \subseteq home.rooms
  BY DEF StartExtension, CanExtend
<1>5. Extension \notin DOMAIN Rooms /\ NoSite \notin DOMAIN Rooms /\ NoSite # Extension
  BY HouseAssumption
<1>6. Grown(ExtensionCost, ExtensionRatio, home.level, 1) = price
  <2>1. Power(ExtensionRatio, 1) = ExtensionRatio
    <3>1. Power(ExtensionRatio, 0 + 1) = ExtensionRatio * Power(ExtensionRatio, 0)
      BY <1>1, PowerNext DEF Positive
    <3> QED BY <1>1, <3>1, PowerZero
  <2> DEFINE d == ExtensionRatio - 1
  <2>2. d \in Nat \ {0} /\ price * d = d * price
    <3>1. d \in Nat \ {0}
      BY <1>1
    <3> HIDE DEF price, d
    <3> QED BY <1>2, <3>1
  <2>3. Grown(ExtensionCost, ExtensionRatio, home.level, 1) = (d * price) \div d
    BY <2>1, <2>2 DEF Grown
  <2> HIDE DEF d, price
  <2>4. (d * price) \div d = price
    BY ONLY <1>2, <2>2
  <2> QED BY <2>3, <2>4
<1> HIDE DEF price, t
<1>7. /\ home'.blueprints = home.blueprints /\ home'.invested = home.invested + price
      /\ home'.rooms = home.rooms /\ home'.furniture = home.furniture /\ home'.site = Extension
      /\ home'.elapsed = 0 /\ home'.required = t /\ home'.level = home.level
  BY <1>1, <1>4 DEF House
<1>8. home' \in House
  <2> DEFINE i == home.invested + price
  <2>1. i \in Nat
    BY <1>1, <1>2 DEF House
  <2>2. home' = [home EXCEPT !.site = Extension, !.elapsed = 0, !.required = t, !.invested = i]
    BY <1>4
  <2> HIDE DEF i
  <2> QED BY <1>1, <1>3, <2>1, <2>2 DEF House
<1>9. Sites' = Sites
  BY <1>4, <1>5, <1>7 DEF Sites
<1>10. Blueprints' = Blueprints /\ Furnishing' = Furnishing /\ Building' = Building
  BY <1>7, <1>9 DEF Blueprints, Furnishing, Building
<1>11. Extending' = Extending + price
  <2>1. Levels' = home.level + 1 /\ Levels = home.level
    BY <1>1, <1>4, <1>5, <1>7 DEF Levels
  <2>2. Grown(ExtensionCost, ExtensionRatio, 0, home.level + 1)
        = Grown(ExtensionCost, ExtensionRatio, 0, home.level) + Grown(ExtensionCost, ExtensionRatio, home.level, 1)
    <3>1. \A c, r, n, q \in Nat : r > 1 => Grown(c, r, 0, n + q) = Grown(c, r, 0, n) + Grown(c, r, n, q)
      BY GrownAdds
    <3> DEFINE c == ExtensionCost
               r == ExtensionRatio
               n == home.level
               q == 1
    <3>2. c \in Nat /\ r \in Nat /\ r > 1 /\ n \in Nat /\ q \in Nat
      BY <1>1
    <3> HIDE DEF c, r, n, q
    <3>3. Grown(c, r, 0, n + q) = Grown(c, r, 0, n) + Grown(c, r, n, q)
      BY ONLY <3>1, <3>2
    <3> QED BY <3>3 DEF c, r, n, q
  <2> QED BY <1>6, <2>1, <2>2 DEF Extending
<1>12. HouseIsPaidFor'
  <2>1. home'.invested = Blueprints' + Building' + Furnishing' + Extending'
    <3>1. home.invested = Blueprints + Building + Furnishing + Extending
      BY HouseIsItsParts DEF HomeFits, HouseIsSound
    <3> QED BY <1>1, <1>2, <1>7, <1>10, <1>11, <3>1, HousePartsAreWhole
  <2>2. (HouseIsPaidFor <=> home.invested = Blueprints + Building + Furnishing + Extending)'
    BY HouseIsItsParts, PTL
  <2> QED BY <2>1, <2>2
<1>13. HouseStands'
  <2>1. home.rooms = DOMAIN Rooms
    BY <1>1, <1>4 DEF House
  <2> QED BY <1>1, <1>4, <1>5, <1>7, <2>1 DEF HouseStands
<1>14. home'.elapsed <= home'.required
  BY <1>3, <1>7
<1> QED BY <1>8, <1>12, <1>13, <1>14 DEF HomeFits, HouseIsSound


LEMMA FurnitureFits ==
  ASSUME HomeFits, NEW piece \in DOMAIN Furniture, BuyFurniture(piece)
  PROVE  HomeFits'
<1> DEFINE price == Furniture[piece].cost
<1>1. price \in Nat /\ home \in House /\ HouseStands /\ home.elapsed <= home.required
  BY HouseAssumption DEF HomeFits, HouseIsSound
<1>2. /\ home' = [home EXCEPT !.furniture = @ \cup {piece}, !.invested = @ + price]
      /\ piece \notin home.furniture /\ Furniture[piece].room \in home.rooms
  BY DEF BuyFurniture, CanFurnish
<1> HIDE DEF price
<1>3. /\ home'.furniture = home.furniture \cup {piece} /\ home'.invested = home.invested + price
      /\ home'.rooms = home.rooms /\ home'.blueprints = home.blueprints /\ home'.site = home.site
      /\ home'.elapsed = home.elapsed /\ home'.required = home.required /\ home'.level = home.level
  BY <1>1, <1>2 DEF House
<1>4. home' \in House
  <2> DEFINE b == home.furniture \cup {piece}
             i == home.invested + price
  <2>1. b \subseteq DOMAIN Furniture /\ i \in Nat
    BY <1>1 DEF House
  <2>2. home' = [home EXCEPT !.furniture = b, !.invested = i]
    BY <1>2
  <2> HIDE DEF b, i
  <2> QED BY <1>1, <2>1, <2>2 DEF House
<1>5. Building' = Building /\ Blueprints' = Blueprints /\ Extending' = Extending
  BY <1>3 DEF Building, Blueprints, Extending, Sites, Levels
<1>6. Furnishing' = Furnishing + price
  <2> DEFINE S == home.furniture
             f == [p \in home.furniture |-> Furniture[p].cost]
             g == [p \in home.furniture \cup {piece} |-> Furniture[p].cost]
  <2>1. f \in [S -> Int] /\ g \in [S \cup {piece} -> Int] /\ IsFiniteSet(S) /\ piece \notin S
    <3>1. S \cup {piece} \subseteq DOMAIN Furniture
      BY <1>1 DEF House
    <3>2. \A p \in DOMAIN Furniture : Furniture[p].cost \in Int
      BY HouseAssumption
    <3> QED BY <1>1, <1>2, <3>1, <3>2, HousePartsAreWhole
  <2>2. (\A y \in S : g[y] = f[y]) /\ g[piece] = price
    BY DEF price
  <2>3. Furnishing' = Sum(g) /\ Furnishing = Sum(f)
    BY <1>3 DEF Furnishing
  <2> HIDE DEF f, g, S
  <2>4. Sum(g) = Sum(f) + g[piece]
    BY ONLY <2>1, <2>2, SumWith
  <2> QED BY <2>2, <2>3, <2>4
<1>7. HouseIsPaidFor'
  <2>1. home'.invested = Blueprints' + Building' + Furnishing' + Extending'
    <3>1. home.invested = Blueprints + Building + Furnishing + Extending
      BY HouseIsItsParts DEF HomeFits, HouseIsSound
    <3> QED BY <1>1, <1>3, <1>5, <1>6, <3>1, HousePartsAreWhole
  <2>2. (HouseIsPaidFor <=> home.invested = Blueprints + Building + Furnishing + Extending)'
    BY HouseIsItsParts, PTL
  <2> QED BY <2>1, <2>2
<1>8. HouseStands'
  BY <1>1, <1>2, <1>3 DEF HouseStands
<1> QED BY <1>1, <1>3, <1>4, <1>7, <1>8 DEF HomeFits, HouseIsSound

LEMMA BuiltFits ==
  ASSUME HomeFits, NEW work \in Nat, home' = Built(home, work)
  PROVE  HomeFits'
<1>1. home \in House /\ HouseStands /\ home.elapsed <= home.required
  BY DEF HomeFits, HouseIsSound
<1>2. Extension \notin DOMAIN Rooms /\ NoSite \notin DOMAIN Rooms /\ NoSite # Extension
  BY HouseAssumption
<1>3. ASSUME home' \in House, home'.blueprints = home.blueprints, home'.furniture = home.furniture,
             home'.invested = home.invested, Sites' = Sites, Levels' = Levels
      PROVE  HouseIsPaidFor'
  <2>1. Blueprints' = Blueprints /\ Building' = Building /\ Furnishing' = Furnishing /\ Extending' = Extending
    BY <1>3 DEF Blueprints, Building, Furnishing, Extending
  <2>2. home.invested = Blueprints + Building + Furnishing + Extending
    BY HouseIsItsParts DEF HomeFits, HouseIsSound
  <2>3. (HouseIsPaidFor <=> home.invested = Blueprints + Building + Furnishing + Extending)'
    BY HouseIsItsParts, PTL
  <2> QED BY <1>3, <2>1, <2>2, <2>3
<1>4. CASE home' = home
  BY <1>4 DEF HomeFits, HouseIsSound, HouseIsPaidFor, HouseStands
<1>5. CASE home.site # NoSite /\ home.elapsed + work < home.required
  <2> DEFINE e == home.elapsed + work
  <2>1. e \in Nat /\ e <= home.required
    BY <1>1, <1>5 DEF House
  <2>2. home' = [home EXCEPT !.elapsed = e]
    BY <1>5 DEF Built
  <2> HIDE DEF e
  <2>3. /\ home' \in House /\ home'.elapsed = e
        /\ home'.furniture = home.furniture /\ home'.invested = home.invested
        /\ home'.rooms = home.rooms /\ home'.blueprints = home.blueprints /\ home'.site = home.site
        /\ home'.required = home.required /\ home'.level = home.level
    BY <1>1, <2>1, <2>2 DEF House
  <2>4. HouseIsPaidFor'
    BY <1>3, <2>3 DEF Sites, Levels
  <2>5. HouseStands'
    BY <1>1, <2>3 DEF HouseStands
  <2> QED BY <2>1, <2>3, <2>4, <2>5 DEF HomeFits, HouseIsSound
<1>6. CASE home.site = Extension /\ home' = Completed(home)
  <2> DEFINE l == home.level + 1
  <2>1. l \in Nat
    BY <1>1 DEF House
  <2>2. home' = [home EXCEPT !.site = NoSite, !.elapsed = 0, !.required = 0, !.level = l]
    BY <1>6 DEF Completed
  <2> HIDE DEF l
  <2>3. /\ home' \in House /\ home'.elapsed = 0 /\ home'.required = 0
        /\ home'.furniture = home.furniture /\ home'.invested = home.invested
        /\ home'.rooms = home.rooms /\ home'.blueprints = home.blueprints /\ home'.site = NoSite
        /\ home'.level = l
    <3>1. home = [blueprints |-> home.blueprints, rooms |-> home.rooms, furniture |-> home.furniture, site |-> home.site,
                  elapsed |-> home.elapsed, required |-> home.required, level |-> home.level, invested |-> home.invested]
      BY <1>1 DEF House
    <3>2. home' = [blueprints |-> home.blueprints, rooms |-> home.rooms, furniture |-> home.furniture, site |-> NoSite,
                   elapsed |-> 0, required |-> 0, level |-> l, invested |-> home.invested]
      BY <2>2, <3>1
    <3> QED BY <1>1, <2>1, <3>2 DEF House
  <2>4. Sites' = Sites /\ Levels' = Levels
    BY <1>1, <1>2, <1>6, <2>3 DEF Sites, Levels, l, House
  <2>5. HouseIsPaidFor'
    BY <1>3, <2>3, <2>4
  <2>6. HouseStands'
    BY <1>1, <1>2, <1>6, <2>3 DEF HouseStands, House
  <2> QED BY <2>3, <2>5, <2>6 DEF HomeFits, HouseIsSound
<1>7. CASE home.site \in DOMAIN Rooms /\ home' = Completed(home)
  <2> DEFINE b == home.rooms \cup {home.site}
  <2>1. b \subseteq DOMAIN Rooms
    BY <1>1, <1>7 DEF House
  <2>2. home' = [home EXCEPT !.site = NoSite, !.elapsed = 0, !.required = 0, !.rooms = b]
    BY <1>2, <1>7 DEF Completed
  <2> HIDE DEF b
  <2>3. /\ home' \in House /\ home'.elapsed = 0 /\ home'.required = 0
        /\ home'.furniture = home.furniture /\ home'.invested = home.invested
        /\ home'.rooms = b /\ home'.blueprints = home.blueprints /\ home'.site = NoSite
        /\ home'.level = home.level
    <3>1. home = [blueprints |-> home.blueprints, rooms |-> home.rooms, furniture |-> home.furniture, site |-> home.site,
                  elapsed |-> home.elapsed, required |-> home.required, level |-> home.level, invested |-> home.invested]
      BY <1>1 DEF House
    <3>2. home' = [blueprints |-> home.blueprints, rooms |-> b, furniture |-> home.furniture, site |-> NoSite,
                   elapsed |-> 0, required |-> 0, level |-> home.level, invested |-> home.invested]
      BY <2>2, <3>1
    <3> QED BY <1>1, <2>1, <3>2 DEF House
  <2>4. Sites' = Sites /\ Levels' = Levels
    BY <1>1, <1>2, <1>7, <2>3 DEF Sites, Levels, b, House
  <2>5. HouseIsPaidFor'
    BY <1>3, <2>3, <2>4
  <2>6. HouseStands'
    BY <1>1, <1>2, <1>7, <2>1, <2>3 DEF HouseStands, House, b
  <2> QED BY <2>3, <2>5, <2>6 DEF HomeFits, HouseIsSound
<1>8. home' = home \/ (home.site # NoSite /\ home.elapsed + work < home.required) \/ (home.site # NoSite /\ home' = Completed(home))
  BY DEF Built
<1>9. home.site \in DOMAIN Rooms \cup {Extension, NoSite}
  BY <1>1 DEF House
<1> QED BY <1>4, <1>5, <1>6, <1>7, <1>8, <1>9

LEMMA HomeStepFits ==
  ASSUME HomeFits, HomeNext
  PROVE  HomeFits'
BY BlueprintFits, SiteFits, ExtensionFits, FurnitureFits DEF HomeNext

LEMMA HomeStepPays ==
  ASSUME JarFits, ShelfFits, HomeFits, HomeNext
  PROVE  JarFits' /\ ShelfFits'
<1>1. ASSUME NEW price \in Nat, PayForHome(price) PROVE JarFits' /\ ShelfFits'
  BY <1>1, PayFits DEF PayForHome, ShelfFits, OwnedUpgrades
<1>2. ASSUME NEW room \in DOMAIN Rooms, BuyBlueprint(room) \/ StartConstruction(room) PROVE JarFits' /\ ShelfFits'
  <2>1. Rooms[room].blueprint \in Nat /\ Rooms[room].cost \in Nat
    BY HouseAssumption
  <2> QED BY <1>1, <1>2, <2>1 DEF BuyBlueprint, StartConstruction
<1>3. CASE StartExtension
  <2>1. ExtensionCost * Power(ExtensionRatio, home.level) \in Nat
    <3>1. home.level \in Nat /\ ExtensionCost \in Nat /\ ExtensionRatio \in Nat /\ ExtensionRatio > 1
      BY HouseAssumption DEF HomeFits, House
    <3>2. Power(ExtensionRatio, home.level) \in Nat
      BY <3>1, PowerIsTyped DEF Positive
    <3> QED BY <3>1, <3>2
  <2> QED BY <1>1, <1>3, <2>1 DEF StartExtension
<1>4. ASSUME NEW piece \in DOMAIN Furniture, BuyFurniture(piece) PROVE JarFits' /\ ShelfFits'
  <2>1. Furniture[piece].cost \in Nat
    BY HouseAssumption
  <2> QED BY <1>1, <1>4, <2>1 DEF BuyFurniture
<1> QED BY <1>2, <1>3, <1>4 DEF HomeNext


-----------------------------------------------------------------------------
(* The refinery.                                                           *)
Plant ==
  [crude : Nat, litres : Nat, lifeCrude : Nat, lifeLitres : Nat, stalled : BOOLEAN,
   units : [DOMAIN Equipment -> 0..MaxEquipment], upgrades : SUBSET DOMAIN FactoryUpgrades,
   invested : Nat, autoShip : BOOLEAN]

Depot == [litres : Nat, vouchers : Nat, spent : Nat]

PlantFits ==
  /\ plant \in Plant /\ depot \in Depot /\ depot.vouchers <= depot.litres
  /\ PlantIsSound

Columns == {"cost", "crude", "refine", "tank", "yard", "boost"}

LEMMA TimesIsTyped ==
  ASSUME NEW us, us \subseteq DOMAIN FactoryUpgrades
  PROVE  Times(us) \in Positive
<1> DEFINE f == [u \in us |-> FactoryUpgrades[u].by]
<1>1. IsFiniteSet(us)
  BY FactoryAssumption, FS_Subset
<1>2. f \in [us -> Positive]
  <2>1. \A u \in us : FactoryUpgrades[u].by \in Nat \ {0}
    BY FactoryAssumption
  <2> QED BY <2>1 DEF Positive
<1>3. Times(us) = Product(f)
  BY DEF Times
<1> HIDE DEF f
<1> QED BY <1>1, <1>2, <1>3, ProductIsTyped

LEMMA UnitsAreWhole ==
  ASSUME NEW p \in Plant, NEW e \in DOMAIN Equipment, NEW column \in Columns
  PROVE  p.units[e] * Equipment[e][column] \in Nat /\ Equipment[e][column] \in Nat
<1>1. p.units[e] \in Nat
  BY FactoryAssumption DEF Plant
<1>2. Equipment[e][column] \in Nat
  BY FactoryAssumption DEF Columns
<1> DEFINE a == p.units[e]
           b == Equipment[e][column]
<1>3. a \in Nat /\ b \in Nat
  BY <1>1, <1>2
<1> HIDE DEF a, b
<1>4. a * b \in Nat
  BY <1>3
<1> QED BY <1>2, <1>4 DEF a, b

LEMMA TotalIsTyped ==
  ASSUME NEW p \in Plant, NEW column \in Columns
  PROVE  Total(p, column) \in Nat
<1> DEFINE S == DOMAIN Equipment
           f == [e \in S |-> p.units[e] * Equipment[e][column]]
<1>1. \A e \in S : f[e] \in Nat
  BY UnitsAreWhole
<1>2. IsFiniteSet(S) /\ Total(p, column) = Sum(f)
  BY FactoryAssumption DEF Total
<1>3. f \in [S -> Int]
  <2> HIDE DEF f
  <2>1. f = [e \in S |-> f[e]]
    BY DEF f
  <2> QED BY <1>1, <2>1
<1> HIDE DEF f, S
<1> QED BY <1>1, <1>2, <1>3, SumIsTyped

LEMMA RatingsAreTyped ==
  ASSUME NEW p \in Plant
  PROVE  /\ TankCapacity(p) \in Nat /\ YardCapacity(p) \in Nat
         /\ CrudeRate(p) \in Nat /\ RefiningRate(p) \in Nat /\ BarrelsPerGrain(p) \in Nat \ {0}
<1>1. \A us : us \subseteq p.upgrades => Times(us) \in Nat
  BY TimesIsTyped DEF Plant, Positive
<1>2. \A kind : Of(p, kind) \subseteq p.upgrades
  BY DEF Of
<1>3. \A kind : Times(Of(p, kind)) \in Nat
  BY <1>1, <1>2
<1>4. Total(p, "tank") \in Nat /\ Total(p, "yard") \in Nat /\ Total(p, "refine") \in Nat /\ Total(p, "boost") \in Nat
  BY TotalIsTyped DEF Columns
<1>5. \A a, b \in Nat : a * b \in Nat /\ a + b \in Nat /\ a \div 100 \in Nat
  OBVIOUS
<1>6. TankCapacity(p) \in Nat /\ YardCapacity(p) \in Nat
  <2>1. BaseTank \in Nat /\ BaseYard \in Nat
    BY FactoryAssumption
  <2> QED BY <1>3, <1>4, <1>5, <2>1 DEF TankCapacity, YardCapacity
<1>7. RefiningRate(p) \in Nat
  BY <1>3, <1>4, <1>5 DEF RefiningRate
<1>8. CrudeRate(p) \in Nat
  <2> DEFINE S == DOMAIN Equipment
             Lines(e) == {u \in Of(p, "intake") : FactoryUpgrades[u].line = e}
             f == [e \in S |-> p.units[e] * Equipment[e].crude * Times(Lines(e))]
             T == Of(p, "flatCrude")
             g == [u \in T |-> FactoryUpgrades[u].by]
  <2>1. ASSUME NEW e \in S PROVE f[e] \in Nat
    <3>1. p.units[e] * Equipment[e].crude \in Nat
      <4>1. p.units[e] * Equipment[e]["crude"] \in Nat
        BY UnitsAreWhole DEF Columns
      <4> QED BY <4>1
    <3>2. Times(Lines(e)) \in Nat
      <4>1. Lines(e) \subseteq p.upgrades
        BY <1>2
      <4> HIDE DEF Lines
      <4> QED BY <1>1, <4>1
    <3> HIDE DEF Lines
    <3>3. f[e] = (p.units[e] * Equipment[e].crude) * Times(Lines(e))
      OBVIOUS
    <3> HIDE DEF f
    <3> QED BY <1>5, <3>1, <3>2, <3>3
  <2>2. f \in [S -> Int] /\ IsFiniteSet(S)
    <3> HIDE DEF f
    <3>1. f = [e \in S |-> f[e]]
      BY DEF f
    <3> QED BY <2>1, <3>1, FactoryAssumption
  <2>3. IsFiniteSet(T) /\ g \in [T -> Int] /\ \A u \in T : g[u] \in Nat
    <3>1. T \subseteq DOMAIN FactoryUpgrades
      BY <1>2 DEF Plant
    <3> HIDE DEF T
    <3>2. \A u \in DOMAIN FactoryUpgrades : FactoryUpgrades[u].by \in Nat
      BY FactoryAssumption
    <3> QED BY <3>1, <3>2, FactoryAssumption, FS_Subset
  <2>4. CrudeRate(p) = Sum(f) + Sum(g)
    BY DEF CrudeRate
  <2> HIDE DEF S, T, f, g
  <2>5. Sum(f) \in Nat /\ Sum(g) \in Nat
    BY <2>1, <2>2, <2>3, SumIsTyped
  <2> QED BY <1>5, <2>4, <2>5
<1>9. BarrelsPerGrain(p) \in Nat \ {0}
  <2> DEFINE us == Of(p, "efficiency")
             f == [u \in us |-> FactoryUpgrades[u].by]
  <2>1. us \in SUBSET {u \in DOMAIN FactoryUpgrades : FactoryUpgrades[u].kind = "efficiency"}
    BY DEF Of, Plant
  <2>2. Leaner(us) > 0
    <3> HIDE DEF us
    <3> QED BY <2>1, FactoryAssumption
  <2>3. IsFiniteSet(us) /\ f \in [us -> Nat] /\ CrudePerGrain \in Nat
    <3>1. us \subseteq DOMAIN FactoryUpgrades
      BY <2>1
    <3> HIDE DEF us
    <3>2. \A u \in DOMAIN FactoryUpgrades : FactoryUpgrades[u].by \in Nat
      BY FactoryAssumption
    <3> QED BY <3>1, <3>2, FactoryAssumption, FS_Subset
  <2>4. Leaner(us) = Scaled(CrudePerGrain, f)
    BY DEF Leaner
  <2> HIDE DEF f
  <2>5. Leaner(us) \in Nat
    <3> HIDE DEF us
    <3> QED BY <2>3, <2>4, ScaledIsTyped
  <2> QED BY <2>2, <2>5 DEF BarrelsPerGrain
<1> QED BY <1>6, <1>7, <1>8, <1>9

(* What a tick does to yard and tanks.                                     *)
Kept(p) == p.litres <= TankCapacity(p) /\ p.crude <= YardCapacity(p)

LEMMA RefinedFits ==
  ASSUME NEW p \in Plant, Kept(p), NEW seconds \in Nat
  PROVE  LET q == Refined(p, seconds)
         IN /\ q \in Plant /\ Kept(q)
            /\ q.units = p.units /\ q.upgrades = p.upgrades /\ q.invested = p.invested
            /\ q.lifeLitres - q.litres = p.lifeLitres - p.litres /\ q.lifeLitres >= p.lifeLitres
<1> DEFINE T == TankCapacity(p)
           Y == YardCapacity(p)
           B == BarrelsPerGrain(p)
           pumped == CrudeRate(p) * seconds
           distilled == RefiningRate(p) * seconds
           space == Max({0, Y - p.crude})
           lifted == Min({pumped, space})
           bound == (p.crude + lifted) \div B
           wanted == Min({distilled, bound})
           room == Max({0, T - p.litres})
           made == Min({wanted, room})
           used == made * B
           q == Refined(p, seconds)
           crude == p.crude + lifted - used
           litres == Min({T, p.litres + made})
           life == p.lifeLitres + made
<1>1. /\ p.crude \in Nat /\ p.litres \in Nat /\ p.lifeCrude \in Nat /\ p.lifeLitres \in Nat
      /\ T \in Nat /\ Y \in Nat /\ B \in Nat \ {0} /\ p.litres <= T /\ p.crude <= Y
  BY RatingsAreTyped DEF Plant, Kept
<1>2. pumped \in Nat /\ distilled \in Nat
  <2>1. CrudeRate(p) \in Nat /\ RefiningRate(p) \in Nat
    BY RatingsAreTyped
  <2> QED BY <2>1
<1>3. q = [p EXCEPT !.crude = crude, !.litres = litres, !.lifeCrude = p.lifeCrude + lifted,
                    !.lifeLitres = p.lifeLitres + made, !.stalled = p.stalled \/ wanted > room]
  BY DEF Refined
<1>4. space \in Nat /\ p.crude + space = Y /\ room \in Nat /\ p.litres + room = T
  <2>1. space = Y - p.crude /\ room = T - p.litres
    <3>1. Y - p.crude \in Nat /\ T - p.litres \in Nat
      BY <1>1
    <3> HIDE DEF Y, T
    <3> QED BY <1>1, <3>1, MaxOfTwo
  <2> HIDE DEF Y, T
  <2> QED BY <1>1, <2>1
<1>5. lifted \in Nat /\ p.crude + lifted <= Y
  <2> HIDE DEF pumped, space, Y
  <2>1. lifted \in Int /\ lifted = IF pumped <= space THEN pumped ELSE space
    BY <1>2, <1>4, MinOfTwo
  <2> HIDE DEF lifted
  <2> QED BY <1>1, <1>2, <1>4, <2>1
<1>6. bound \in Nat /\ bound * B <= p.crude + lifted
  <2> DEFINE x == p.crude + lifted
  <2>1. x \in Nat
    <3> HIDE DEF lifted
    <3> QED BY <1>1, <1>5
  <2>2. bound = x \div B
    OBVIOUS
  <2> HIDE DEF x, B, bound
  <2>3. x \div B \in Nat /\ (x \div B) * B <= x
    BY ONLY <1>1, <2>1
  <2> QED BY <2>2, <2>3 DEF x
<1>7. wanted \in Nat /\ wanted <= bound
  <2> HIDE DEF distilled, bound
  <2>1. wanted = IF distilled <= bound THEN distilled ELSE bound
    BY <1>2, <1>6, MinOfTwo
  <2> HIDE DEF wanted
  <2> QED BY <1>2, <1>6, <2>1
<1>8. made \in Nat /\ made <= wanted /\ made <= room
  <2> HIDE DEF wanted, room
  <2>1. made = IF wanted <= room THEN wanted ELSE room
    BY <1>4, <1>7, MinOfTwo
  <2> HIDE DEF made
  <2> QED BY <1>4, <1>7, <2>1
<1>9. used \in Nat /\ used <= p.crude + lifted
  <2> HIDE DEF made, bound, B, lifted, wanted
  <2>1. used \in Nat /\ used <= bound * B
    BY <1>1, <1>6, <1>7, <1>8
  <2> DEFINE v == bound * B
  <2>2. v \in Nat /\ v <= p.crude + lifted /\ used <= v
    BY <1>1, <1>6, <2>1
  <2> HIDE DEF used, v
  <2> QED BY <1>1, <1>5, <2>1, <2>2
<1>10. litres = p.litres + made
  <2> HIDE DEF made, T, room
  <2>1. p.litres + made \in Nat /\ p.litres + made <= T
    BY <1>1, <1>4, <1>8
  <2> QED BY <1>1, <2>1, MinOfTwo
<1>11. /\ crude \in Nat /\ crude <= Y /\ litres \in Nat /\ litres <= T
       /\ p.lifeCrude + lifted \in Nat /\ life \in Nat /\ life >= p.lifeLitres
       /\ life - litres = p.lifeLitres - p.litres
  <2> HIDE DEF made, T, Y, room, lifted, used, litres
  <2> QED BY <1>1, <1>4, <1>5, <1>8, <1>9, <1>10
<1>12. /\ q = [crude |-> crude, litres |-> litres, lifeCrude |-> p.lifeCrude + lifted, lifeLitres |-> life,
               stalled |-> (p.stalled \/ wanted > room), units |-> p.units, upgrades |-> p.upgrades,
               invested |-> p.invested, autoShip |-> p.autoShip]
  <2> DEFINE s == p.stalled \/ wanted > room
  <2>1. p = [crude |-> p.crude, litres |-> p.litres, lifeCrude |-> p.lifeCrude, lifeLitres |-> p.lifeLitres,
             stalled |-> p.stalled, units |-> p.units, upgrades |-> p.upgrades, invested |-> p.invested,
             autoShip |-> p.autoShip]
    BY DEF Plant
  <2>2. q = [p EXCEPT !.crude = crude, !.litres = litres, !.lifeCrude = p.lifeCrude + lifted,
                      !.lifeLitres = life, !.stalled = s]
    BY <1>3
  <2> HIDE DEF q, crude, litres, life, lifted, made, s
  <2>3. q = [crude |-> crude, litres |-> litres, lifeCrude |-> p.lifeCrude + lifted, lifeLitres |-> life,
             stalled |-> s, units |-> p.units, upgrades |-> p.upgrades,
             invested |-> p.invested, autoShip |-> p.autoShip]
    BY <2>1, <2>2
  <2> QED BY <2>3 DEF s
<1> HIDE DEF q, crude, litres, life, lifted, made, wanted, room
<1>13. q \in Plant
  <2>1. (p.stalled \/ wanted > room) \in BOOLEAN
    BY DEF Plant
  <2> DEFINE s == p.stalled \/ wanted > room
  <2> HIDE DEF s
  <2> QED BY <1>11, <1>12, <2>1 DEF Plant, s
<1>14. /\ q.units = p.units /\ q.upgrades = p.upgrades /\ q.invested = p.invested
       /\ q.litres = litres /\ q.crude = crude /\ q.lifeLitres = life
  BY <1>12
<1>15. TankCapacity(q) = T /\ YardCapacity(q) = Y
  BY <1>14 DEF TankCapacity, YardCapacity, Total, Of
<1>16. Kept(q)
  <2> HIDE DEF T, Y
  <2> QED BY <1>11, <1>14, <1>15 DEF Kept
<1>17. q.lifeLitres - q.litres = p.lifeLitres - p.litres /\ q.lifeLitres >= p.lifeLitres
  BY ONLY <1>11, <1>14
<1> QED BY <1>13, <1>14, <1>16, <1>17 DEF q


(* A plant and the depot its shipments went to, sound together.            *)
Units(p) == Sum([e \in DOMAIN Equipment |-> EquipmentBulkCost(e, 0, p.units[e])])
Improvements(p) == Sum([u \in p.upgrades |-> FactoryUpgrades[u].cost])

Sound(p, d) ==
  /\ p \in Plant /\ d \in Depot /\ d.vouchers <= d.litres
  /\ p.litres + d.litres * Grain = p.lifeLitres /\ Kept(p)
  /\ p.invested = Units(p) + Improvements(p)
  /\ \A u \in p.upgrades : UpgradeOffered(p, u)

LEMMA SoundIsPlantFits == PlantFits <=> Sound(plant, depot)
<1>1. ASSUME plant \in Plant PROVE plant.litres >= 0 /\ plant.crude >= 0
  BY <1>1 DEF Plant
<1>2. PlantIsPaidFor <=> plant.invested = Units(plant) + Improvements(plant)
  BY DEF PlantIsPaidFor, Units, Improvements
<1>3. EarnedStaysEarned <=> \A u \in plant.upgrades : UpgradeOffered(plant, u)
  BY DEF EarnedStaysEarned
<1>4. ASSUME plant \in Plant
      PROVE  LitresAreAccounted <=> plant.litres + depot.litres * Grain = plant.lifeLitres /\ Kept(plant)
  BY <1>1, <1>4 DEF LitresAreAccounted, Kept
<1> QED BY <1>2, <1>3, <1>4 DEF PlantFits, PlantIsSound, Sound

LEMMA SoundIsPlantFitsNext == PlantFits' <=> Sound(plant', depot')
<1>1. (PlantFits <=> Sound(plant, depot))'
  BY SoundIsPlantFits, PTL
<1>2. Sound(plant, depot)' <=> Sound(plant', depot')
  BY DEF Sound, Units, Improvements, UpgradeOffered, EquipmentBulkCost, Kept, TankCapacity, YardCapacity,
         Total, Times, Of, Plant, Depot
<1> QED BY <1>1, <1>2

LEMMA RefinedIsSound ==
  ASSUME NEW p, NEW d, Sound(p, d), NEW seconds \in Nat
  PROVE  Sound(Refined(p, seconds), d)
<1> DEFINE q == Refined(p, seconds)
<1>1. p \in Plant /\ Kept(p) /\ d \in Depot /\ d.vouchers <= d.litres
  BY DEF Sound
<1>2. /\ q \in Plant /\ Kept(q)
      /\ q.units = p.units /\ q.upgrades = p.upgrades /\ q.invested = p.invested
      /\ q.lifeLitres - q.litres = p.lifeLitres - p.litres /\ q.lifeLitres >= p.lifeLitres
  BY <1>1, RefinedFits
<1> HIDE DEF q
<1>3. q.litres + d.litres * Grain = q.lifeLitres
  <2> DEFINE x == d.litres * Grain
  <2>1. x \in Nat
    <3>1. d.litres \in Nat /\ Grain \in Nat
      BY <1>1, FactoryAssumption DEF Depot
    <3> QED BY <3>1
  <2>2. /\ p.litres \in Nat /\ p.lifeLitres \in Nat /\ q.litres \in Nat /\ q.lifeLitres \in Nat
        /\ p.litres + x = p.lifeLitres
    BY <1>1, <1>2 DEF Plant, Sound
  <2> HIDE DEF x
  <2>3. q.litres + x = q.lifeLitres
    BY ONLY <1>2, <2>1, <2>2
  <2> QED BY <2>3 DEF x
<1>4. q.invested = Units(q) + Improvements(q)
  BY <1>2 DEF Sound, Units, Improvements
<1>5. ASSUME NEW u \in q.upgrades PROVE UpgradeOffered(q, u)
  <2>1. UpgradeOffered(p, u)
    BY <1>2 DEF Sound
  <2> DEFINE x == FactoryUpgrades[u].made * Grain
  <2>2. x \in Nat
    <3>1. FactoryUpgrades[u].made \in Nat /\ Grain \in Nat
      BY <1>2, FactoryAssumption DEF Plant
    <3> QED BY <3>1
  <2>3. p.lifeLitres \in Nat /\ q.lifeLitres \in Nat /\ p.lifeLitres >= x
    BY <1>1, <1>2, <2>1 DEF Plant, UpgradeOffered
  <2> HIDE DEF x
  <2>4. q.lifeLitres >= x
    BY ONLY <1>2, <2>2, <2>3
  <2> QED BY <1>2, <2>1, <2>4 DEF UpgradeOffered, x
<1>6. Sound(q, d)
  BY <1>1, <1>2, <1>3, <1>4, <1>5 DEF Sound
<1> QED BY <1>6 DEF q

LEMMA ShippedIsSound ==
  ASSUME NEW p, Sound(p, depot), NEW litres \in Nat, CanShip(p, litres)
  PROVE  Sound(Withdrawn(p, litres), Minted(p, litres))
<1> DEFINE x == litres * Grain
           q == Withdrawn(p, litres)
           d == Minted(p, litres)
           receipt == Receipt(p, litres)
<1>1. p \in Plant /\ depot \in Depot /\ Grain \in Nat \ {0} /\ litres > 0
  BY FactoryAssumption DEF Sound, CanShip
<1>2. /\ p.litres \in Nat /\ p.lifeLitres \in Nat /\ p.invested \in Nat
      /\ depot.litres \in Nat /\ depot.vouchers \in Nat /\ depot.spent \in Nat /\ depot.vouchers <= depot.litres
  BY <1>1 DEF Plant, Depot, Sound
<1>3. x \in Nat \ {0} /\ x <= p.litres
  <2> DEFINE s == p.litres \div Grain
  <2>1. s \in Nat /\ s * Grain <= p.litres
    BY ONLY <1>1, <1>2
  <2>2. litres <= s
    BY DEF CanShip, Shippable
  <2> HIDE DEF s
  <2>3. x \in Nat \ {0} /\ x <= s * Grain
    BY <1>1, <2>1, <2>2
  <2> DEFINE y == s * Grain
  <2>4. y \in Nat /\ y <= p.litres /\ x <= y
    BY <1>1, <2>1, <2>3
  <2> HIDE DEF x, y
  <2> QED BY ONLY <1>2, <2>3, <2>4
<1>4. (depot.litres + litres) * Grain = depot.litres * Grain + x /\ depot.litres * Grain \in Nat
  BY <1>1, <1>2
<1>5. receipt \in Nat
  <2> DEFINE y == p.invested * litres * Grain
             z == depot.litres * Grain
  <2>1. y \in Nat
    <3> DEFINE w == p.invested * litres
    <3>1. w \in Nat
      BY <1>2
    <3> HIDE DEF w
    <3>2. w * Grain \in Nat
      BY <1>1, <3>1
    <3> QED BY <3>2 DEF w
  <2>2. p.lifeLitres \in Nat \ {0}
    <3>1. z \in Nat /\ p.litres + z = p.lifeLitres
      BY <1>4 DEF Sound
    <3> HIDE DEF x, z
    <3> QED BY <1>2, <1>3, <3>1
  <2>3. receipt = y \div p.lifeLitres
    BY DEF Receipt
  <2> HIDE DEF y, receipt
  <2>4. y \div p.lifeLitres \in Nat
    BY ONLY <2>1, <2>2
  <2> QED BY <2>3, <2>4
<1>6. q = [p EXCEPT !.litres = p.litres - x]
  BY DEF Withdrawn
<1>7. d = [depot EXCEPT !.litres = depot.litres + litres, !.vouchers = depot.vouchers + 1, !.spent = depot.spent + receipt]
  BY DEF Minted
<1> HIDE DEF x, q, d, receipt
<1>8. p.litres - x \in Nat /\ p.litres - x <= p.litres
  BY <1>2, <1>3
<1>9. q \in Plant
  <2> DEFINE l == p.litres - x
  <2> HIDE DEF l
  <2>1. l \in Nat /\ q = [p EXCEPT !.litres = l]
    BY <1>6, <1>8 DEF l
  <2> QED BY <1>1, <2>1 DEF Plant
<1>10. /\ q.litres = p.litres - x /\ q.crude = p.crude /\ q.lifeLitres = p.lifeLitres /\ q.units = p.units
       /\ q.upgrades = p.upgrades /\ q.invested = p.invested
  BY <1>1, <1>6 DEF Plant
<1>11. d.litres = depot.litres + litres /\ d.vouchers = depot.vouchers + 1 /\ d.spent = depot.spent + receipt
  BY <1>1, <1>7 DEF Depot
<1>12. d \in Depot /\ d.vouchers <= d.litres
  <2>1. depot = [litres |-> depot.litres, vouchers |-> depot.vouchers, spent |-> depot.spent]
    BY <1>1 DEF Depot
  <2>2. d = [litres |-> d.litres, vouchers |-> d.vouchers, spent |-> d.spent]
    BY <1>7, <2>1
  <2>3. d.litres \in Nat /\ d.vouchers \in Nat /\ d.spent \in Nat /\ d.vouchers <= d.litres
    BY <1>1, <1>2, <1>5, <1>11
  <2> QED BY <2>2, <2>3 DEF Depot
<1>13. Kept(q)
  <2>1. TankCapacity(q) = TankCapacity(p) /\ YardCapacity(q) = YardCapacity(p)
    BY <1>10 DEF TankCapacity, YardCapacity, Total, Of
  <2>2. TankCapacity(p) \in Nat /\ p.litres <= TankCapacity(p) /\ p.crude <= YardCapacity(p)
    BY <1>1, RatingsAreTyped DEF Sound, Kept
  <2> QED BY <1>2, <1>8, <1>10, <2>1, <2>2 DEF Kept
<1>14. q.litres + d.litres * Grain = q.lifeLitres
  <2> DEFINE z == depot.litres * Grain
             w == d.litres * Grain
  <2>1. z \in Nat /\ w = z + x /\ p.litres + z = p.lifeLitres
    BY <1>4, <1>11 DEF Sound
  <2> HIDE DEF z, w
  <2>2. q.litres + w = q.lifeLitres
    BY <1>2, <1>3, <1>10, <2>1
  <2> QED BY <2>2 DEF w
<1>15. q.invested = Units(q) + Improvements(q) /\ \A u \in q.upgrades : UpgradeOffered(q, u)
  BY <1>10 DEF Sound, Units, Improvements, UpgradeOffered
<1> QED BY <1>9, <1>12, <1>13, <1>14, <1>15 DEF Sound, q, d

LEMMA FactoryTickFits ==
  ASSUME PlantFits, NEW seconds \in Nat, FactoryTick(seconds)
  PROVE  PlantFits'
<1> DEFINE p == Refined(plant, seconds)
           litres == AutoShipQuantity(p)
<1>1. Sound(p, depot)
  BY RefinedIsSound, SoundIsPlantFits
<1>2. litres \in Nat
  <2>1. p.litres \in Nat /\ Grain \in Nat \ {0}
    BY <1>1, FactoryAssumption DEF Sound, Plant
  <2> HIDE DEF p
  <2>2. p.litres \div Grain \in Nat
    BY ONLY <2>1
  <2> QED BY <2>2 DEF AutoShipQuantity, Shippable
<1>3. /\ plant' = IF CanShip(p, litres) THEN Withdrawn(p, litres) ELSE p
      /\ depot' = IF CanShip(p, litres) THEN Minted(p, litres) ELSE depot
  BY DEF FactoryTick
<1> HIDE DEF p, litres
<1>4. Sound(plant', depot')
  BY <1>1, <1>2, <1>3, ShippedIsSound
<1> QED BY <1>4, SoundIsPlantFitsNext


LEMMA MintFits ==
  ASSUME PlantFits, NEW litres \in Nat, MintDiesel(litres)
  PROVE  PlantFits'
<1>1. Sound(plant, depot) /\ CanShip(plant, litres)
  BY SoundIsPlantFits DEF MintDiesel
<1>2. Sound(plant', depot')
  BY <1>1, ShippedIsSound DEF MintDiesel
<1> QED BY <1>2, SoundIsPlantFitsNext

(* More of anything never shrinks yard or tanks.                           *)
LEMMA TotalGrows ==
  ASSUME NEW p \in Plant, NEW q \in Plant, NEW e \in DOMAIN Equipment, q.units[e] >= p.units[e],
         \A o \in DOMAIN Equipment \ {e} : q.units[o] = p.units[o], NEW column \in Columns
  PROVE  Total(q, column) >= Total(p, column)
<1> DEFINE S == DOMAIN Equipment
           f == [o \in S |-> p.units[o] * Equipment[o][column]]
           g == [o \in S |-> q.units[o] * Equipment[o][column]]
<1>1. IsFiniteSet(S) /\ Total(p, column) = Sum(f) /\ Total(q, column) = Sum(g)
  BY FactoryAssumption DEF Total
<1>2. \A o \in S : f[o] \in Nat /\ g[o] \in Nat
  BY UnitsAreWhole
<1>3. f \in [S -> Int] /\ g \in [S -> Int]
  <2> HIDE DEF f, g
  <2>1. f = [o \in S |-> f[o]] /\ g = [o \in S |-> g[o]]
    BY DEF f, g
  <2> QED BY <1>2, <2>1
<1>4. \A o \in S \ {e} : g[o] = f[o]
  OBVIOUS
<1>5. g[e] >= f[e]
  <2> DEFINE a == q.units[e]
             b == p.units[e]
             c == Equipment[e][column]
  <2>1. a \in Nat /\ b \in Nat /\ c \in Nat /\ a >= b
    BY UnitsAreWhole, FactoryAssumption DEF Plant
  <2>2. g[e] = a * c /\ f[e] = b * c
    OBVIOUS
  <2> HIDE DEF a, b, c, f, g
  <2>3. a * c >= b * c
    BY ONLY <2>1
  <2> QED BY <2>2, <2>3
<1>0. e \in S
  OBVIOUS
<1> HIDE DEF f, g, S
<1>6. Sum(g) = Sum(f) + g[e] - f[e]
  BY ONLY <1>0, <1>1, <1>3, <1>4, SumChanged
<1>7. Sum(f) \in Int /\ f[e] \in Nat /\ g[e] \in Nat
  BY <1>1, <1>2, <1>3, SumIsTyped DEF S
<1> QED BY <1>1, <1>5, <1>6, <1>7

LEMMA EquipmentFits ==
  ASSUME PlantFits, NEW e \in DOMAIN Equipment, NEW n \in 1..MaxEquipment, BuyFactoryEquipment(e, n)
  PROVE  PlantFits'
<1> DEFINE p == plant
           q == plant'
           owned == plant.units[e]
           cost == EquipmentBulkCost(e, plant.units[e], n)
           units == [plant.units EXCEPT ![e] = @ + n]
<1>1. Sound(p, depot) /\ depot' = depot /\ owned + n <= MaxEquipment
  BY SoundIsPlantFits DEF BuyFactoryEquipment, PayForPlant
<1>2. p \in Plant /\ owned \in Nat /\ n \in Nat /\ MaxEquipment \in Nat
      /\ Equipment[e].cost \in Nat /\ EquipmentRatio \in Nat /\ EquipmentRatio > 1
  <2>1. p \in Plant
    BY <1>1 DEF Sound
  <2>2. Equipment[e]["cost"] \in Nat
    BY <2>1, UnitsAreWhole DEF Columns
  <2> QED BY <2>1, <2>2, FactoryAssumption DEF Plant
<1>3. \A o \in DOMAIN Equipment, m, k \in Nat :
        EquipmentBulkCost(o, m, k) = Grown(Equipment[o].cost, EquipmentRatio, m, k)
  BY DEF EquipmentBulkCost, Grown
<1>4. cost \in Nat
  <2>1. Grown(Equipment[e].cost, EquipmentRatio, owned, n) \in Nat
    BY ONLY <1>2, GrownIsWhole
  <2> QED BY <1>2, <1>3, <2>1
<1>5. q = [p EXCEPT !.units = units, !.invested = p.invested + cost]
  BY DEF BuyFactoryEquipment
<1>6. units \in [DOMAIN Equipment -> 0..MaxEquipment] /\ units[e] = owned + n
      /\ \A o \in DOMAIN Equipment \ {e} : units[o] = p.units[o]
  BY <1>1, <1>2 DEF Plant
<1> HIDE DEF units, cost
<1>7. /\ q.units = units /\ q.invested = p.invested + cost /\ q.litres = p.litres /\ q.crude = p.crude
      /\ q.lifeLitres = p.lifeLitres /\ q.upgrades = p.upgrades
  BY <1>2, <1>5 DEF Plant
<1>8. q \in Plant
  <2> DEFINE i == p.invested + cost
  <2>1. i \in Nat
    BY <1>2, <1>4 DEF Plant
  <2> HIDE DEF i
  <2>2. q = [p EXCEPT !.units = units, !.invested = i]
    BY <1>5 DEF i
  <2> QED BY <1>2, <1>6, <2>1, <2>2 DEF Plant
<1>9. Kept(q)
  <2>1. Total(q, "tank") >= Total(p, "tank") /\ Total(q, "yard") >= Total(p, "yard")
    BY <1>2, <1>6, <1>7, <1>8, TotalGrows DEF Columns
  <2> DEFINE t == Times(Of(p, "capacity"))
             a == Total(p, "tank")
             b == Total(q, "tank")
             c == Total(p, "yard")
             d == Total(q, "yard")
  <2>2. t \in Nat /\ Times(Of(q, "capacity")) = t
    <3>1. Of(q, "capacity") = Of(p, "capacity") /\ Of(p, "capacity") \subseteq DOMAIN FactoryUpgrades
      BY <1>2, <1>7 DEF Of, Plant
    <3> QED BY <3>1, TimesIsTyped DEF Positive
  <2>3. a \in Nat /\ b \in Nat /\ c \in Nat /\ d \in Nat /\ BaseTank \in Nat /\ BaseYard \in Nat
    BY <1>2, <1>8, TotalIsTyped, FactoryAssumption DEF Columns
  <2>4. /\ TankCapacity(p) = (BaseTank + a) * t /\ TankCapacity(q) = (BaseTank + b) * t
        /\ YardCapacity(p) = (BaseYard + c) * t /\ YardCapacity(q) = (BaseYard + d) * t
    BY <2>2 DEF TankCapacity, YardCapacity
  <2> HIDE DEF a, b, c, d, t
  <2>5. \A x, y, z \in Nat : x <= y => x * z <= y * z
    OBVIOUS
  <2>6. (BaseTank + a) * t <= (BaseTank + b) * t /\ (BaseYard + c) * t <= (BaseYard + d) * t
    <3>1. /\ BaseTank + a \in Nat /\ BaseTank + b \in Nat /\ BaseYard + c \in Nat /\ BaseYard + d \in Nat
          /\ BaseTank + a <= BaseTank + b /\ BaseYard + c <= BaseYard + d
      BY <2>1, <2>3 DEF a, b, c, d
    <3> QED BY <2>2, <2>5, <3>1
  <2>7. /\ TankCapacity(p) <= TankCapacity(q) /\ YardCapacity(p) <= YardCapacity(q)
        /\ p.litres <= TankCapacity(p) /\ p.crude <= YardCapacity(p)
    BY <1>1, <2>4, <2>6 DEF Sound, Kept
  <2>8. /\ p.litres \in Nat /\ p.crude \in Nat /\ TankCapacity(p) \in Nat /\ TankCapacity(q) \in Nat
        /\ YardCapacity(p) \in Nat /\ YardCapacity(q) \in Nat
    BY <1>2, <1>8, RatingsAreTyped DEF Plant
  <2> QED BY <1>7, <2>7, <2>8 DEF Kept
<1>10. Units(q) = Units(p) + cost /\ Units(p) \in Int
  <2> DEFINE S == DOMAIN Equipment
             f == [o \in S |-> EquipmentBulkCost(o, 0, p.units[o])]
             g == [o \in S |-> EquipmentBulkCost(o, 0, q.units[o])]
  <2>1. ASSUME NEW o \in S, NEW m \in Nat PROVE EquipmentBulkCost(o, 0, m) \in Int
    <3>1. Equipment[o]["cost"] \in Nat
      BY <1>2, UnitsAreWhole DEF Columns
    <3>2. Equipment[o].cost \in Nat
      BY <3>1
    <3>3. Grown(Equipment[o].cost, EquipmentRatio, 0, m) \in Nat
      BY ONLY <1>2, <2>1, <3>2, GrownIsWhole
    <3> QED BY <1>3, <2>1, <3>3
  <2>2. f \in [S -> Int] /\ g \in [S -> Int]
    <3>1. \A o \in S : p.units[o] \in Nat /\ q.units[o] \in Nat
      BY <1>2, <1>8 DEF Plant
    <3> QED BY <2>1, <3>1
  <2>3. \A o \in S \ {e} : g[o] = f[o]
    BY <1>6, <1>7
  <2>4. g[e] = f[e] + cost
    <3>1. \A c, r, m, k \in Nat : r > 1 => Grown(c, r, 0, m + k) = Grown(c, r, 0, m) + Grown(c, r, m, k)
      BY GrownAdds
    <3> DEFINE c == Equipment[e].cost
               r == EquipmentRatio
               m == owned
    <3>2. c \in Nat /\ r \in Nat /\ r > 1 /\ m \in Nat /\ n \in Nat
      BY <1>2
    <3> HIDE DEF c, r, m
    <3>3. Grown(c, r, 0, m + n) = Grown(c, r, 0, m) + Grown(c, r, m, n)
      BY ONLY <3>1, <3>2
    <3>4. g[e] = Grown(c, r, 0, owned + n) /\ f[e] = Grown(c, r, 0, owned) /\ cost = Grown(c, r, owned, n)
      <4>1. owned + n \in Nat /\ q.units[e] = owned + n
        BY <1>2, <1>6, <1>7
      <4> QED BY <1>2, <1>3, <4>1 DEF c, r, cost
    <3> QED BY <3>3, <3>4 DEF m
  <2>5. Units(p) = Sum(f) /\ Units(q) = Sum(g) /\ IsFiniteSet(S)
    BY FactoryAssumption DEF Units
  <2>0. e \in S
    OBVIOUS
  <2> HIDE DEF f, g, S
  <2>6. Sum(g) = Sum(f) + g[e] - f[e] /\ Sum(f) \in Int
    BY ONLY <2>0, <2>2, <2>3, <2>5, SumChanged, SumIsTyped
  <2>7. f[e] \in Int
    BY <2>2 DEF S
  <2> QED BY <1>4, <2>4, <2>5, <2>6, <2>7
<1>11. q.invested = Units(q) + Improvements(q)
  <2>1. Improvements(q) = Improvements(p) /\ p.invested = Units(p) + Improvements(p) /\ Improvements(p) \in Int
    <3> DEFINE f == [u \in p.upgrades |-> FactoryUpgrades[u].cost]
    <3>1. IsFiniteSet(p.upgrades) /\ f \in [p.upgrades -> Int]
      <4>1. p.upgrades \subseteq DOMAIN FactoryUpgrades
        BY <1>2 DEF Plant
      <4> QED BY <4>1, FactoryAssumption, FS_Subset
    <3>2. Improvements(p) = Sum(f)
      BY DEF Improvements
    <3> HIDE DEF f
    <3>3. Improvements(p) \in Int
      BY <3>1, <3>2, SumIsTyped
    <3> QED BY <1>1, <1>7, <3>3 DEF Sound, Improvements
  <2> HIDE DEF p, q
  <2> QED BY <1>4, <1>7, <1>10, <2>1
<1>12. ASSUME NEW u \in q.upgrades PROVE UpgradeOffered(q, u)
  <2>1. UpgradeOffered(p, u) /\ u \in DOMAIN FactoryUpgrades
    BY <1>1, <1>2, <1>7, <1>12 DEF Sound, Plant
  <2> DEFINE def == FactoryUpgrades[u]
  <2>2. def.line \in DOMAIN Equipment /\ def.atLeast \in Nat
    BY <2>1, FactoryAssumption
  <2>3. def.atLeast > 0 => q.units[def.line] >= def.atLeast
    <3>1. q.units[def.line] >= p.units[def.line] /\ p.units[def.line] \in Nat /\ q.units[def.line] \in Nat
      BY <1>2, <1>6, <1>7, <1>8, <2>2 DEF Plant
    <3>2. def.atLeast > 0 => p.units[def.line] >= def.atLeast
      BY <2>1 DEF UpgradeOffered
    <3> QED BY <2>2, <3>1, <3>2
  <2> QED BY <1>7, <2>1, <2>3 DEF UpgradeOffered
<1>13. Sound(q, depot')
  BY <1>1, <1>7, <1>8, <1>9, <1>11, <1>12 DEF Sound
<1> QED BY <1>13, SoundIsPlantFitsNext


LEMMA ImprovementFits ==
  ASSUME PlantFits, NEW u \in DOMAIN FactoryUpgrades, BuyFactoryUpgrade(u)
  PROVE  PlantFits'
<1> DEFINE p == plant
           q == plant'
           cost == FactoryUpgrades[u].cost
           upgrades == p.upgrades \cup {u}
<1>1. Sound(p, depot) /\ depot' = depot /\ u \notin p.upgrades /\ UpgradeOffered(p, u)
  BY SoundIsPlantFits DEF BuyFactoryUpgrade, PayForPlant
<1>2. p \in Plant /\ cost \in Nat /\ upgrades \subseteq DOMAIN FactoryUpgrades
  BY <1>1, FactoryAssumption DEF Sound, Plant
<1>3. q = [p EXCEPT !.upgrades = upgrades, !.invested = p.invested + cost]
  BY DEF BuyFactoryUpgrade
<1> HIDE DEF cost
<1>4. /\ q.units = p.units /\ q.invested = p.invested + cost /\ q.litres = p.litres /\ q.crude = p.crude
      /\ q.lifeLitres = p.lifeLitres /\ q.upgrades = p.upgrades \cup {u}
  BY <1>2, <1>3 DEF Plant
<1>5. q \in Plant
  <2> DEFINE i == p.invested + cost
  <2>1. i \in Nat
    BY <1>2 DEF Plant
  <2>2. q = [p EXCEPT !.upgrades = upgrades, !.invested = i]
    BY <1>3
  <2> HIDE DEF i, upgrades
  <2> QED BY <1>2, <2>1, <2>2 DEF Plant
<1>6. Kept(q)
  <2> DEFINE S == Of(p, "capacity")
             t == Times(Of(p, "capacity"))
             s == Times(Of(q, "capacity"))
             a == BaseTank + Total(p, "tank")
             b == BaseYard + Total(p, "yard")
  <2>1. S \subseteq DOMAIN FactoryUpgrades /\ u \notin S /\ t \in Positive
    <3>1. S \subseteq DOMAIN FactoryUpgrades /\ u \notin S
      BY <1>1, <1>2 DEF Of, Plant
    <3> QED BY <3>1, TimesIsTyped
  <2>2. a \in Nat /\ b \in Nat
    BY <1>2, TotalIsTyped, FactoryAssumption DEF Columns
  <2>3. s \in Nat /\ s >= t
    <3>1. CASE FactoryUpgrades[u].kind # "capacity"
      <4>1. Of(q, "capacity") = Of(p, "capacity")
        BY <1>4, <3>1 DEF Of
      <4> QED BY <2>1, <4>1 DEF Positive
    <3>2. CASE FactoryUpgrades[u].kind = "capacity"
      <4> DEFINE f == [v \in S |-> FactoryUpgrades[v].by]
                 g == [v \in S \cup {u} |-> FactoryUpgrades[v].by]
      <4>1. Of(q, "capacity") = S \cup {u}
        BY <1>4, <3>2 DEF Of
      <4>2. s = Product(g) /\ t = Product(f)
        BY <4>1 DEF Times
      <4> HIDE DEF S
      <4>3. IsFiniteSet(S) /\ f \in [S -> Positive] /\ g \in [S \cup {u} -> Positive]
        <5>1. \A v \in DOMAIN FactoryUpgrades : FactoryUpgrades[v].by \in Positive
          BY FactoryAssumption DEF Positive
        <5>2. IsFiniteSet(S)
          BY <2>1, FactoryAssumption, FS_Subset
        <5> QED BY <2>1, <5>1, <5>2
      <4>4. (\A v \in S : g[v] = f[v]) /\ g[u] \in Positive
        BY <4>3
      <4> HIDE DEF f, g
      <4>5. Product(g) = g[u] * Product(f)
        BY ONLY <2>1, <4>3, <4>4, ProductWith
      <4> DEFINE x == g[u]
      <4>6. x \in Positive /\ s = x * t
        BY <4>2, <4>4, <4>5
      <4> HIDE DEF x, s, t
      <4>7. x * t \in Nat /\ x * t >= t
        BY ONLY <2>1, <4>6 DEF Positive
      <4> QED BY <4>6, <4>7
    <3> QED BY <3>1, <3>2
  <2>4. Total(q, "tank") = Total(p, "tank") /\ Total(q, "yard") = Total(p, "yard")
    BY <1>4 DEF Total
  <2>5. /\ TankCapacity(p) = a * t /\ TankCapacity(q) = a * s
        /\ YardCapacity(p) = b * t /\ YardCapacity(q) = b * s
    BY <2>4 DEF TankCapacity, YardCapacity
  <2> HIDE DEF a, b, s, t
  <2>6. a * t <= a * s /\ b * t <= b * s
    <3>1. \A x, y, z \in Nat : x <= y => z * x <= z * y
      OBVIOUS
    <3> QED BY <2>1, <2>2, <2>3, <3>1 DEF Positive
  <2>7. p.litres <= TankCapacity(p) /\ p.crude <= YardCapacity(p)
    BY <1>1 DEF Sound, Kept
  <2>8. /\ p.litres \in Nat /\ p.crude \in Nat /\ TankCapacity(p) \in Nat /\ TankCapacity(q) \in Nat
        /\ YardCapacity(p) \in Nat /\ YardCapacity(q) \in Nat
    BY <1>2, <1>5, RatingsAreTyped DEF Plant
  <2> QED BY <1>4, <2>5, <2>6, <2>7, <2>8 DEF Kept
<1>7. Improvements(q) = Improvements(p) + cost /\ Improvements(p) \in Int
  <2> DEFINE S == p.upgrades
             f == [v \in S |-> FactoryUpgrades[v].cost]
             g == [v \in S \cup {u} |-> FactoryUpgrades[v].cost]
  <2>1. IsFiniteSet(S) /\ f \in [S -> Int] /\ g \in [S \cup {u} -> Int] /\ u \notin S
    <3>1. S \subseteq DOMAIN FactoryUpgrades
      BY <1>2
    <3>2. \A v \in DOMAIN FactoryUpgrades : FactoryUpgrades[v].cost \in Int
      BY FactoryAssumption
    <3> QED BY <1>1, <3>1, <3>2, FactoryAssumption, FS_Subset
  <2>2. (\A v \in S : g[v] = f[v]) /\ g[u] = cost
    BY DEF cost
  <2>3. Improvements(q) = Sum(g) /\ Improvements(p) = Sum(f)
    BY <1>4 DEF Improvements
  <2> HIDE DEF f, g, S
  <2>4. Sum(g) = Sum(f) + g[u]
    BY ONLY <2>1, <2>2, SumWith
  <2>5. Sum(f) \in Int
    BY ONLY <2>1, SumIsTyped
  <2> QED BY <2>2, <2>3, <2>4, <2>5
<1>8. q.invested = Units(q) + Improvements(q)
  <2>1. Units(q) = Units(p) /\ p.invested = Units(p) + Improvements(p) /\ p.invested \in Int
    BY <1>1, <1>2, <1>4 DEF Units, Sound, Plant
  <2>2. Units(p) \in Int
    <3> DEFINE S == DOMAIN Equipment
               f == [e \in S |-> EquipmentBulkCost(e, 0, p.units[e])]
    <3>1. \A e \in S : f[e] \in Int
      <4> TAKE e \in S
      <4>1. Equipment[e]["cost"] \in Nat
        BY <1>2, UnitsAreWhole DEF Columns
      <4>2. Equipment[e].cost \in Nat /\ EquipmentRatio \in Nat /\ EquipmentRatio > 1 /\ p.units[e] \in Nat
        BY <1>2, <4>1, FactoryAssumption DEF Plant
      <4>3. Grown(Equipment[e].cost, EquipmentRatio, 0, p.units[e]) \in Nat
        BY ONLY <4>2, GrownIsWhole
      <4> QED BY <4>3 DEF Grown, EquipmentBulkCost
    <3>2. f \in [S -> Int]
      <4> HIDE DEF f
      <4>1. f = [e \in S |-> f[e]]
        BY DEF f
      <4> QED BY <3>1, <4>1
    <3> HIDE DEF f
    <3>3. Sum(f) \in Int
      BY <3>2, FactoryAssumption, SumIsTyped
    <3> QED BY <3>3 DEF Units, f
  <2> HIDE DEF p, q
  <2> QED BY <1>2, <1>4, <1>7, <2>1, <2>2
<1>9. ASSUME NEW v \in q.upgrades PROVE UpgradeOffered(q, v)
  <2>1. UpgradeOffered(p, v)
    BY <1>1, <1>4, <1>9 DEF Sound
  <2> QED BY <1>4, <2>1 DEF UpgradeOffered
<1>10. Sound(q, depot')
  BY <1>1, <1>4, <1>5, <1>6, <1>8, <1>9 DEF Sound
<1> QED BY <1>10, SoundIsPlantFitsNext

LEMMA AutoShipFits ==
  ASSUME PlantFits, SetFactoryAutoShip
  PROVE  PlantFits'
<1> DEFINE b == ~plant.autoShip
<1>1. Sound(plant, depot) /\ depot' = depot /\ plant' = [plant EXCEPT !.autoShip = b] /\ b \in BOOLEAN
  BY SoundIsPlantFits DEF SetFactoryAutoShip
<1> HIDE DEF b
<1>2. /\ plant'.units = plant.units /\ plant'.invested = plant.invested /\ plant'.litres = plant.litres
      /\ plant'.crude = plant.crude /\ plant'.lifeLitres = plant.lifeLitres /\ plant'.upgrades = plant.upgrades
      /\ plant' \in Plant
  BY <1>1 DEF Sound, Plant
<1>3. Sound(plant', depot')
  BY <1>1, <1>2 DEF Sound, Kept, TankCapacity, YardCapacity, Total, Of, Units, Improvements, UpgradeOffered
<1> QED BY <1>3, SoundIsPlantFitsNext

LEMMA FactoryStepFits ==
  ASSUME PlantFits, FactoryNext
  PROVE  PlantFits'
<1>1. \A litres \in 1..Shippable(plant) : litres \in Nat
  OBVIOUS
<1> QED BY <1>1, EquipmentFits, ImprovementFits, MintFits, AutoShipFits DEF FactoryNext

LEMMA FactoryStepPays ==
  ASSUME JarFits, ShelfFits, PlantFits, FactoryNext
  PROVE  JarFits' /\ ShelfFits'
<1>1. ASSUME NEW price \in Nat, PayForPlant(price) PROVE JarFits' /\ ShelfFits'
  BY <1>1, PayFits DEF PayForPlant, ShelfFits, OwnedUpgrades
<1>2. ASSUME NEW e \in DOMAIN Equipment, NEW n \in 1..MaxEquipment, BuyFactoryEquipment(e, n)
      PROVE  JarFits' /\ ShelfFits'
  <2>1. EquipmentBulkCost(e, plant.units[e], n) \in Nat
    <3>1. plant \in Plant
      BY DEF PlantFits
    <3>2. Equipment[e]["cost"] \in Nat
      BY <3>1, UnitsAreWhole DEF Columns
    <3>3. Equipment[e].cost \in Nat /\ EquipmentRatio \in Nat /\ EquipmentRatio > 1 /\ plant.units[e] \in Nat /\ n \in Nat
      BY <3>1, <3>2, FactoryAssumption DEF Plant
    <3>4. Grown(Equipment[e].cost, EquipmentRatio, plant.units[e], n) \in Nat
      BY ONLY <3>3, GrownIsWhole
    <3> QED BY <3>4 DEF Grown, EquipmentBulkCost
  <2> QED BY <1>1, <1>2, <2>1 DEF BuyFactoryEquipment
<1>3. ASSUME NEW u \in DOMAIN FactoryUpgrades, BuyFactoryUpgrade(u) PROVE JarFits' /\ ShelfFits'
  <2>1. FactoryUpgrades[u].cost \in Nat
    BY FactoryAssumption
  <2> QED BY <1>1, <1>3, <2>1 DEF BuyFactoryUpgrade
<1>4. ASSUME NEW litres, MintDiesel(litres) \/ SetFactoryAutoShip PROVE JarFits' /\ ShelfFits'
  BY <1>4 DEF MintDiesel, SetFactoryAutoShip, shopVars, counterVars, JarFits, ShelfFits, OwnedUpgrades
<1> QED BY <1>2, <1>3, <1>4 DEF FactoryNext


-----------------------------------------------------------------------------
(* The controls.                                                           *)
RungsFit == version \in 5..Latest /\ rungs \subseteq RungsOf(DOMAIN Ladders) /\ LadderHasNoHoles

Whole(rs) == rs \subseteq RungsOf(DOMAIN Ladders) /\ \A rung \in rs : rung[2] > 1 => <<rung[1], rung[2] - 1>> \in rs

LEMMA LaddersArePrices ==
  ASSUME NEW c \in DOMAIN Ladders
  PROVE  Ladders[c] \in Seq(Nat)
<1>1. /\ \A a \in Nat : <<a>> \in Seq(Nat)
      /\ \A a, b \in Nat : <<a, b>> \in Seq(Nat)
      /\ \A a, b, d \in Nat : <<a, b, d>> \in Seq(Nat)
      /\ <<50, 250, 750, 1800, 4000, 8000, 15000>> \in Seq(Nat)
  OBVIOUS
<1>2. /\ Ladders.close \in Seq(Nat) /\ Ladders.openItNow \in Seq(Nat) /\ Ladders.drag \in Seq(Nat)
      /\ Ladders.minimize \in Seq(Nat) /\ Ladders.maximize \in Seq(Nat) /\ Ladders.resize \in Seq(Nat)
      /\ Ladders.settings \in Seq(Nat) /\ Ladders.language \in Seq(Nat) /\ Ladders.languageYue \in Seq(Nat)
      /\ Ladders.languageBoth \in Seq(Nat) /\ Ladders.funnyEn \in Seq(Nat) /\ Ladders.funnyYue \in Seq(Nat)
  BY <1>1 DEF Ladders
<1>3. /\ Ladders.searchGenerators \in Seq(Nat) /\ Ladders.searchUpgrades \in Seq(Nat)
      /\ Ladders.searchAchievements \in Seq(Nat) /\ Ladders.searchTools \in Seq(Nat)
      /\ Ladders.regex \in Seq(Nat) /\ Ladders.stepper \in Seq(Nat) /\ Ladders.bulk \in Seq(Nat)
      /\ Ladders.toolProgression \in Seq(Nat) /\ Ladders.autoShip \in Seq(Nat) /\ Ladders.look \in Seq(Nat)
  BY <1>1 DEF Ladders
<1>4. c \in {"close", "openItNow", "drag", "minimize", "maximize", "resize", "settings", "language", "languageYue",
             "languageBoth", "funnyEn", "funnyYue", "searchGenerators", "searchUpgrades", "searchAchievements",
             "searchTools", "regex", "stepper", "bulk", "toolProgression", "autoShip", "look"}
  BY DEF Ladders
<1> QED BY <1>2, <1>3, <1>4

LEMMA RungIsOnItsLadder ==
  ASSUME NEW cs, cs \subseteq DOMAIN Ladders, NEW rung \in RungsOf(cs)
  PROVE  /\ rung = <<rung[1], rung[2]>> /\ rung[1] \in cs /\ rung[2] \in 1..Len(Ladders[rung[1]])
         /\ Len(Ladders[rung[1]]) \in Nat /\ Ladders[rung[1]][rung[2]] \in Nat
<1>1. PICK c \in cs : rung \in {<<c, i>> : i \in 1..Len(Ladders[c])}
  BY DEF RungsOf
<1>2. PICK i \in 1..Len(Ladders[c]) : rung = <<c, i>>
  BY <1>1
<1>3. Ladders[c] \in Seq(Nat)
  BY LaddersArePrices
<1> QED BY <1>2, <1>3

LEMMA RungsAreWhole ==
  ASSUME NEW cs, cs \subseteq DOMAIN Ladders
  PROVE  Whole(RungsOf(cs))
<1>1. ASSUME NEW rung \in RungsOf(cs), NEW ds, ds \subseteq DOMAIN Ladders, rung[1] \in ds,
             NEW i \in 1..rung[2]
      PROVE  <<rung[1], i>> \in RungsOf(ds)
  <2>1. rung[2] \in 1..Len(Ladders[rung[1]]) /\ Len(Ladders[rung[1]]) \in Nat
    BY RungIsOnItsLadder
  <2>2. i \in 1..Len(Ladders[rung[1]])
    BY <2>1
  <2>3. <<rung[1], i>> \in {<<rung[1], j>> : j \in 1..Len(Ladders[rung[1]])}
    BY <2>2
  <2> QED BY <1>1, <2>3 DEF RungsOf
<1>2. ASSUME NEW rung \in RungsOf(cs)
      PROVE  rung \in RungsOf(DOMAIN Ladders) /\ (rung[2] > 1 => <<rung[1], rung[2] - 1>> \in RungsOf(cs))
  <2>1. rung = <<rung[1], rung[2]>> /\ rung[1] \in cs /\ rung[2] \in Nat \ {0}
    BY RungIsOnItsLadder
  <2>2. rung[2] \in 1..rung[2] /\ (rung[2] > 1 => rung[2] - 1 \in 1..rung[2])
    BY <2>1
  <2> QED BY <1>1, <2>1, <2>2
<1> QED BY <1>2 DEF Whole

LEMMA GrandfatheredIsWhole ==
  ASSUME NEW w \in 6..Latest
  PROVE  Whole(Grandfathered[w])
<1>1. w \in {6, 7, 8, 9}
  BY DEF Latest
<1>2. CASE w = 6
  BY <1>2, RungsAreWhole DEF Grandfathered, Latest
<1>3. CASE w = 7
  <2>1. {"settings", "languageYue", "languageBoth"} \subseteq DOMAIN Ladders
    BY DEF Ladders
  <2> QED BY <1>3, <2>1, RungsAreWhole DEF Grandfathered, Latest
<1>4. CASE w = 8
  <2>1. Grandfathered[w] = {<<"regex", 1>>}
    BY <1>4 DEF Grandfathered, Latest
  <2>2. "regex" \in DOMAIN Ladders /\ 1 \in 1..Len(Ladders["regex"])
    BY DEF Ladders
  <2>3. <<"regex", 1>> \in RungsOf(DOMAIN Ladders)
    BY <2>2 DEF RungsOf
  <2> QED BY <2>1, <2>3 DEF Whole
<1>5. CASE w = 9
  <2>1. {"look"} \subseteq DOMAIN Ladders
    BY DEF Ladders
  <2> QED BY <1>5, <2>1, RungsAreWhole DEF Grandfathered, Latest
<1> QED BY <1>1, <1>2, <1>3, <1>4, <1>5

LEMMA RungsFitIsWhole == RungsFit <=> version \in 5..Latest /\ Whole(rungs)
BY DEF RungsFit, Whole, LadderHasNoHoles

LEMMA ControlsStepFits ==
  ASSUME RungsFit, ControlsNext
  PROVE  RungsFit'
<1>1. version \in 5..Latest /\ Whole(rungs)
  BY RungsFitIsWhole
<1>2. ASSUME NEW rung \in RungsOf(Sold), BuyControlUnlock(rung)
      PROVE  version' \in 5..Latest /\ Whole(rungs')
  <2>1. rung \in RungsOf(DOMAIN Ladders)
    BY RungsAreWhole, ControlAssumption DEF Whole
  <2> QED BY <1>1, <1>2, <2>1 DEF BuyControlUnlock, CanBuyRung, Whole
<1>3. ASSUME Migrate PROVE version' \in 5..Latest /\ Whole(rungs')
  <2>1. version' \in 5..Latest
    BY <1>3 DEF Migrate, Latest
  <2>2. Whole(FreeBefore(version))
    <3>1. \A w \in (version + 1)..Latest : w \in 6..Latest
      BY <1>1 DEF Latest
    <3>2. \A w \in (version + 1)..Latest : Whole(Grandfathered[w])
      BY <3>1, GrandfatheredIsWhole
    <3> QED BY <3>2 DEF FreeBefore, Whole
  <2>3. Whole(rungs')
    BY <1>1, <1>3, <2>2 DEF Migrate, Whole
  <2> QED BY <2>1, <2>3
<1>4. version' \in 5..Latest /\ Whole(rungs')
  BY <1>2, <1>3 DEF ControlsNext
<1>5. (RungsFit <=> version \in 5..Latest /\ Whole(rungs))'
  BY RungsFitIsWhole, PTL
<1> QED BY <1>4, <1>5 DEF Whole

LEMMA ControlsStepPays ==
  ASSUME JarFits, ShelfFits, ControlsNext
  PROVE  JarFits' /\ ShelfFits'
<1>1. ASSUME NEW rung \in RungsOf(Sold), BuyControlUnlock(rung) PROVE JarFits' /\ ShelfFits'
  <2>1. Ladders[rung[1]][rung[2]] \in Nat
    BY RungIsOnItsLadder, ControlAssumption
  <2> QED BY <1>1, <2>1, PayFits DEF BuyControlUnlock, ShelfFits, OwnedUpgrades
<1>2. CASE Migrate
  BY <1>2 DEF Migrate, shopVars, counterVars, JarFits, ShelfFits, OwnedUpgrades
<1> QED BY <1>1, <1>2 DEF ControlsNext


-----------------------------------------------------------------------------
(* Ascensions.                                                             *)
PrestigeRecord ==
  [points : Nat, count : Nat, pinned : SUBSET DOMAIN Upgrades, nodes : SUBSET DOMAIN RebornNodes]

PrestigeFits == prestige \in PrestigeRecord /\ TreeIsClosed /\ PinnedIsOwned

LEMMA NodesAreTyped ==
  /\ IsFiniteSet(DOMAIN RebornNodes)
  /\ \A n \in DOMAIN RebornNodes : RebornNodes[n].cost \in Nat /\ RebornNodes[n].by \in Nat
<1>1. DOMAIN RebornNodes =
        {"lucky_pocket", "red_packet", "family_vault", "ancestral_estate", "second_wind"}
        \cup {"heavenly_dough", "borrowed_hands", "thousand_lives", "past_hands", "dog_eared"}
        \cup {"annotated", "memorised", "pinned_recipe", "pinned_shelf", "pinned_kitchen"}
  BY DEF RebornNodes
<1>2. \A a, b, c, d, e : IsFiniteSet({a, b, c, d, e})
  <2> TAKE a, b, c, d, e
  <2>1. {a, b, c, d, e} = ((({a} \cup {b}) \cup {c}) \cup {d}) \cup {e}
    OBVIOUS
  <2>2. IsFiniteSet({a})
    BY FS_Singleton
  <2>3. IsFiniteSet((({a} \cup {b}) \cup {c}) \cup {d})
    BY <2>2, FS_AddElement
  <2> QED BY <2>1, <2>3, FS_AddElement
<1>3. IsFiniteSet(DOMAIN RebornNodes)
  <2> DEFINE A == {"lucky_pocket", "red_packet", "family_vault", "ancestral_estate", "second_wind"}
             B == {"heavenly_dough", "borrowed_hands", "thousand_lives", "past_hands", "dog_eared"}
             C == {"annotated", "memorised", "pinned_recipe", "pinned_shelf", "pinned_kitchen"}
  <2>1. IsFiniteSet(A) /\ IsFiniteSet(B) /\ IsFiniteSet(C)
    BY <1>2
  <2>2. DOMAIN RebornNodes = (A \cup B) \cup C
    BY <1>1
  <2> HIDE DEF A, B, C
  <2>3. IsFiniteSet((A \cup B) \cup C)
    BY ONLY <2>1, FS_Union
  <2> QED BY <2>2, <2>3
<1>4. StartCookies[1] \in Nat /\ StartCookies[2] \in Nat /\ StartCookies[3] \in Nat /\ StartCookies[4] \in Nat
  BY AscensionAssumption
<1>5. \A n \in DOMAIN RebornNodes : RebornNodes[n].cost \in Nat /\ RebornNodes[n].by \in Nat
  BY <1>4 DEF RebornNodes, Node
<1> QED BY <1>3, <1>5

(* A total over nodes grows by the node that is added.                     *)
LEMMA NodesAdd ==
  ASSUME NEW S, S \subseteq DOMAIN RebornNodes, NEW n \in DOMAIN RebornNodes, n \notin S
  PROVE  /\ Sum([m \in S |-> RebornNodes[m].cost]) \in Nat /\ Sum([m \in S |-> RebornNodes[m].by]) \in Nat
         /\ Sum([m \in S \cup {n} |-> RebornNodes[m].cost]) = Sum([m \in S |-> RebornNodes[m].cost]) + RebornNodes[n].cost
         /\ Sum([m \in S \cup {n} |-> RebornNodes[m].by]) = Sum([m \in S |-> RebornNodes[m].by]) + RebornNodes[n].by
<1> DEFINE f == [m \in S |-> RebornNodes[m].cost]
           g == [m \in S \cup {n} |-> RebornNodes[m].cost]
           h == [m \in S |-> RebornNodes[m].by]
           k == [m \in S \cup {n} |-> RebornNodes[m].by]
<1>1. IsFiniteSet(S)
  BY NodesAreTyped, FS_Subset
<1>2. f \in [S -> Int] /\ g \in [S \cup {n} -> Int] /\ h \in [S -> Int] /\ k \in [S \cup {n} -> Int]
  BY NodesAreTyped
<1>3. \A m \in S : f[m] \in Nat /\ h[m] \in Nat /\ g[m] = f[m] /\ k[m] = h[m]
  BY NodesAreTyped
<1>4. g[n] = RebornNodes[n].cost /\ k[n] = RebornNodes[n].by
  OBVIOUS
<1> HIDE DEF f, g, h, k
<1>5. Sum(f) \in Nat /\ Sum(h) \in Nat
  BY <1>1, <1>2, <1>3, SumIsTyped
<1>6. Sum(g) = Sum(f) + g[n]
  BY ONLY <1>1, <1>2, <1>3, n \notin S, SumWith
<1>7. Sum(k) = Sum(h) + k[n]
  BY ONLY <1>1, <1>2, <1>3, n \notin S, SumWith
<1> QED BY <1>4, <1>5, <1>6, <1>7 DEF f, g, h, k

LEMMA SlotsAreTyped ==
  ASSUME prestige.nodes \subseteq DOMAIN RebornNodes
  PROVE  PermanentSlots \in Nat
<1> DEFINE S == NodesOf("slots")
           h == [m \in S |-> RebornNodes[m].by]
<1>1. IsFiniteSet(S) /\ h \in [S -> Int] /\ \A m \in S : h[m] \in Nat
  <2>1. S \subseteq DOMAIN RebornNodes
    BY DEF NodesOf
  <2> QED BY <2>1, NodesAreTyped, FS_Subset
<1>2. PermanentSlots = Sum(h)
  BY DEF PermanentSlots, TotalOf
<1> HIDE DEF h, S
<1> QED BY <1>1, <1>2, SumIsTyped

LEMMA PinsAreFew ==
  ASSUME PrestigeFits
  PROVE  IsFiniteSet(prestige.pinned) /\ Cardinality(prestige.pinned) \in Nat /\ PermanentSlots \in Nat
<1>1. IsFiniteSet(prestige.pinned)
  BY ShopAssumption, FS_Subset DEF PrestigeFits, PrestigeRecord
<1>2. PermanentSlots \in Nat
  BY SlotsAreTyped DEF PrestigeFits, PrestigeRecord
<1> QED BY <1>1, <1>2, FS_CardinalityType

LEMMA StartingIsTyped ==
  ASSUME PrestigeFits
  PROVE  StartingCookies \in Nat
<1> DEFINE N == NodesOf("start")
           S == {0} \cup {RebornNodes[n].by : n \in N}
<1>1. N \subseteq DOMAIN RebornNodes /\ IsFiniteSet(N)
  <2>1. N \subseteq DOMAIN RebornNodes
    BY DEF NodesOf, PrestigeFits, PrestigeRecord
  <2> HIDE DEF N
  <2> QED BY <2>1, NodesAreTyped, FS_Subset
<1> HIDE DEF N
<1>2. S \subseteq Nat /\ S # {}
  BY <1>1, NodesAreTyped
<1>3. IsFiniteSet(S)
  <2> DEFINE f == [n \in N |-> RebornNodes[n].by]
             R == {RebornNodes[n].by : n \in N}
  <2>1. f \in Surjection(N, R)
    BY DEF Surjection
  <2> HIDE DEF f, R
  <2>2. IsFiniteSet(R)
    BY <1>1, <2>1, FS_Surjection
  <2>3. S = R \cup {0}
    BY DEF R
  <2> QED BY <2>2, <2>3, FS_AddElement
<1>4. StartingCookies = Max(S)
  BY DEF StartingCookies, N
<1> HIDE DEF S
<1>5. Max(S) \in S
  <2>1. S \subseteq Int
    BY <1>2
  <2> QED BY ONLY <1>2, <1>3, <2>1, MaxIsGreatest
<1> QED BY <1>2, <1>4, <1>5

LEMMA ValueIsTyped ==
  ASSUME NEW n \in Nat
  PROVE  AscensionValue(n) \in Nat
<1> DEFINE S == {p \in 0..MaxPoints : p * p * p * Trillion <= n}
           R == 0..MaxPoints
<1>1. IsFiniteSet(R) /\ R \subseteq Nat /\ S \subseteq R
  <2>1. MaxPoints \in Int /\ 0 \in Int
    BY AscensionAssumption
  <2> QED BY <2>1, FS_Interval
<1>2. 0 \in S
  BY AscensionAssumption
<1>3. AscensionValue(n) = Max(S)
  BY DEF AscensionValue
<1> HIDE DEF S, R
<1>4. IsFiniteSet(S) /\ S \subseteq Int
  <2>1. S \subseteq Int
    BY <1>1
  <2> QED BY <1>1, <2>1, FS_Subset
<1>5. Max(S) \in S
  BY <1>2, <1>4, MaxIsGreatest
<1> QED BY <1>1, <1>3, <1>5

(* What every step that takes nothing off the shelf leaves of the promises. *)
LEMMA PrestigeStays ==
  ASSUME PrestigeFits, prestige' = prestige, OwnedUpgrades \subseteq OwnedUpgrades'
  PROVE  PrestigeFits'
BY DEF PrestigeFits, TreeIsClosed, PinnedIsOwned, PermanentSlots, TotalOf, NodesOf

LEMMA OnlyFits ==
  ASSUME ShelfFits, NEW kept, kept \subseteq OwnedUpgrades
  PROVE  DOMAIN Only(kept) = kept /\ \A u \in kept : Only(kept)[u] \in [at : Nat, nth : Nat]
<1>1. IsFiniteSet(kept)
  BY ShopAssumption, FS_Subset DEF ShelfFits
<1>2. ASSUME NEW u \in kept
      PROVE  shelf[u].at \in Nat /\ Cardinality({v \in kept : shelf[v].nth <= shelf[u].nth}) \in Nat
  <2> DEFINE V == {v \in kept : shelf[v].nth <= shelf[u].nth}
  <2>1. IsFiniteSet(V)
    BY <1>1, FS_Subset
  <2> HIDE DEF V
  <2>2. Cardinality(V) \in Nat
    BY <2>1, FS_CardinalityType
  <2> QED BY <2>2 DEF V, ShelfFits
<1> QED BY <1>2 DEF Only


LEMMA AscendedFits ==
  ASSUME JarFits, ShelfFits, PrestigeFits, Prestige
  PROVE  JarFits' /\ ShelfFits' /\ PrestigeFits'
<1>1. StartingCookies \in Nat /\ AscensionValue(lifetime) \in Nat
  BY StartingIsTyped, ValueIsTyped DEF JarFits
<1>2. /\ jar' = [jar EXCEPT !.cookies = StartingCookies] /\ lifetime' = StartingCookies
      /\ generators' = [g \in DOMAIN generators |-> 0] /\ shelf' = Only(Survivors)
      /\ clicks' = clicks /\ tools' = tools /\ progression' = progression
      /\ prestige' = [prestige EXCEPT !.points = @ + AscensionValue(lifetime), !.count = @ + 1]
  BY DEF Prestige
<1>3. JarFits'
  <2> DEFINE s == StartingCookies
  <2> HIDE DEF s
  <2>1. s \in Nat /\ jar' = [jar EXCEPT !.cookies = s] /\ lifetime' = s
    BY <1>1, <1>2 DEF s
  <2> QED BY <2>1 DEF JarFits, Jar
<1>4. Survivors \subseteq OwnedUpgrades /\ prestige.pinned \subseteq Survivors
  BY DEF Survivors, Retained, Unpinned, PrestigeFits, PinnedIsOwned
<1>5. OwnedUpgrades' = Survivors /\ \A u \in Survivors : shelf'[u] \in [at : Nat, nth : Nat]
  BY <1>2, <1>4, OnlyFits DEF OwnedUpgrades
<1>6. ShelfFits'
  <2>1. generators' \in [DOMAIN Generators -> 0..MaxOwned]
    BY <1>2, ShopAssumption DEF ShelfFits
  <2>2. Survivors \subseteq DOMAIN Upgrades
    BY <1>4 DEF ShelfFits
  <2> HIDE DEF OwnedUpgrades
  <2> QED BY <1>2, <1>5, <2>1, <2>2 DEF ShelfFits
<1>7. /\ prestige' \in PrestigeRecord /\ prestige'.pinned = prestige.pinned /\ prestige'.nodes = prestige.nodes
  <2> DEFINE i == prestige.points + AscensionValue(lifetime)
             c == prestige.count + 1
  <2>1. i \in Nat /\ c \in Nat
    BY <1>1 DEF PrestigeFits, PrestigeRecord
  <2>2. prestige' = [prestige EXCEPT !.points = i, !.count = c]
    BY <1>2
  <2> HIDE DEF i, c
  <2> QED BY <2>1, <2>2 DEF PrestigeFits, PrestigeRecord
<1>8. PrestigeFits'
  BY <1>4, <1>5, <1>7 DEF PrestigeFits, TreeIsClosed, PinnedIsOwned, PermanentSlots, TotalOf, NodesOf
<1> QED BY <1>3, <1>6, <1>8

LEMMA RebornFits ==
  ASSUME PrestigeFits, NEW n \in DOMAIN RebornNodes, BuyRebornNode(n)
  PROVE  PrestigeFits' /\ Worth(prestige') = Worth(prestige) /\ prestige'.count = prestige.count
<1> DEFINE cost == RebornNodes[n].cost
           i == prestige.points - cost
           N == prestige.nodes \cup {n}
<1>1. /\ prestige \in PrestigeRecord /\ n \notin prestige.nodes /\ RebornNodes[n].needs \subseteq prestige.nodes
      /\ prestige.points >= cost /\ cost \in Nat /\ prestige.points \in Nat
      /\ prestige.nodes \subseteq DOMAIN RebornNodes
  BY NodesAreTyped DEF BuyRebornNode, CanReborn, PrestigeFits, PrestigeRecord
<1>2. i \in Nat /\ prestige' = [prestige EXCEPT !.points = i, !.nodes = N] /\ OwnedUpgrades' = OwnedUpgrades
  BY <1>1 DEF BuyRebornNode, OwnedUpgrades
<1> HIDE DEF i
<1>3. /\ prestige' \in PrestigeRecord /\ prestige'.points = i /\ prestige'.nodes = N
      /\ prestige'.pinned = prestige.pinned /\ prestige'.count = prestige.count
  BY <1>1, <1>2 DEF PrestigeRecord
<1>4. TreeIsClosed'
  BY <1>1, <1>3 DEF PrestigeFits, TreeIsClosed
<1>5. Worth(prestige') = Worth(prestige)
  <2> DEFINE a == PointsSpent(prestige.nodes)
             b == PointsSpent(N)
  <2>1. a \in Nat /\ b = a + cost
    BY <1>1, NodesAdd DEF PointsSpent
  <2>2. Worth(prestige') = i + b /\ Worth(prestige) = prestige.points + a
    BY <1>3 DEF Worth
  <2> HIDE DEF a, b, cost
  <2> QED BY <1>1, <2>1, <2>2 DEF i
<1>6. PermanentSlots' >= PermanentSlots /\ PermanentSlots' \in Nat /\ PermanentSlots \in Nat
  <2> DEFINE S == NodesOf("slots")
             S2 == NodesOf("slots")'
             h == [m \in S |-> RebornNodes[m].by]
             k == [m \in S2 |-> RebornNodes[m].by]
  <2>0. PermanentSlots = Sum(h) /\ PermanentSlots' = Sum(k)
    BY DEF PermanentSlots, TotalOf
  <2>1. S \subseteq DOMAIN RebornNodes /\ n \notin S /\ (S2 = S \/ S2 = S \cup {n})
    BY <1>1, <1>3 DEF NodesOf
  <2>2. /\ Sum(h) \in Nat /\ RebornNodes[n].by \in Nat
        /\ Sum([m \in S \cup {n} |-> RebornNodes[m].by]) = Sum(h) + RebornNodes[n].by
    <3> HIDE DEF S
    <3> QED BY <2>1, NodesAdd, NodesAreTyped
  <2>3. Sum(k) = Sum(h) \/ Sum(k) = Sum(h) + RebornNodes[n].by
    <3> HIDE DEF S, S2
    <3> QED BY <2>1, <2>2
  <2> HIDE DEF h, k, S, S2
  <2> QED BY <2>0, <2>2, <2>3
<1>7. PinnedIsOwned'
  <2>1. Cardinality(prestige.pinned) <= PermanentSlots /\ prestige.pinned \subseteq OwnedUpgrades
    BY DEF PrestigeFits, PinnedIsOwned
  <2>2. Cardinality(prestige.pinned) \in Nat
    BY PinsAreFew
  <2>3. Cardinality(prestige'.pinned) <= PermanentSlots'
    BY <1>3, <1>6, <2>1, <2>2
  <2> QED BY <1>2, <1>3, <2>1, <2>3 DEF PinnedIsOwned
<1> QED BY <1>3, <1>4, <1>5, <1>7 DEF PrestigeFits

LEMMA PinFits ==
  ASSUME PrestigeFits, NEW u \in DOMAIN Upgrades, Pin(u) \/ Unpin(u), UNCHANGED shopVars
  PROVE  PrestigeFits' /\ Worth(prestige') = Worth(prestige) /\ prestige'.count = prestige.count
<1>1. PICK pins : /\ prestige' = [prestige EXCEPT !.pinned = pins]
                  /\ pins \subseteq OwnedUpgrades /\ pins \subseteq DOMAIN Upgrades
                  /\ Cardinality(pins) <= PermanentSlots
  <2>0. /\ prestige.pinned \subseteq OwnedUpgrades /\ prestige.pinned \subseteq DOMAIN Upgrades
        /\ Cardinality(prestige.pinned) <= PermanentSlots
    BY DEF PrestigeFits, PrestigeRecord, PinnedIsOwned
  <2>1. CASE Pin(u)
    <3> DEFINE pins == prestige.pinned \cup {u}
    <3>1. Cardinality(pins) = Cardinality(prestige.pinned) + 1
      BY <2>1, PinsAreFew, FS_AddElement DEF Pin
    <3>2. Cardinality(pins) <= PermanentSlots
      BY <2>1, <3>1, PinsAreFew DEF Pin
    <3>3. prestige' = [prestige EXCEPT !.pinned = pins]
      BY <2>1 DEF Pin
    <3>4. pins \subseteq OwnedUpgrades /\ pins \subseteq DOMAIN Upgrades
      BY <2>0, <2>1 DEF Pin
    <3> HIDE DEF pins
    <3> QED BY <3>2, <3>3, <3>4
  <2>2. CASE Unpin(u)
    <3> DEFINE pins == prestige.pinned \ {u}
    <3>1. Cardinality(pins) <= Cardinality(prestige.pinned) /\ Cardinality(pins) \in Nat
      <4>1. pins \subseteq prestige.pinned
        OBVIOUS
      <4> HIDE DEF pins
      <4> QED BY <4>1, PinsAreFew, FS_Subset, FS_CardinalityType
    <3>2. Cardinality(pins) <= PermanentSlots
      BY <2>0, <3>1, PinsAreFew
    <3>3. prestige' = [prestige EXCEPT !.pinned = pins]
      BY <2>2 DEF Unpin
    <3>4. pins \subseteq OwnedUpgrades /\ pins \subseteq DOMAIN Upgrades
      BY <2>0
    <3> HIDE DEF pins
    <3> QED BY <3>2, <3>3, <3>4
  <2> QED BY <2>1, <2>2
<1>2. /\ prestige' \in PrestigeRecord /\ prestige'.pinned = pins /\ prestige'.nodes = prestige.nodes
      /\ prestige'.points = prestige.points /\ prestige'.count = prestige.count
  BY <1>1 DEF PrestigeFits, PrestigeRecord
<1>3. OwnedUpgrades' = OwnedUpgrades
  BY DEF shopVars, OwnedUpgrades
<1>4. TreeIsClosed' /\ PinnedIsOwned'
  BY <1>1, <1>2, <1>3 DEF PrestigeFits, TreeIsClosed, PinnedIsOwned, PermanentSlots, TotalOf, NodesOf
<1>5. Worth(prestige') = Worth(prestige)
  BY <1>2 DEF Worth
<1> QED BY <1>2, <1>4, <1>5 DEF PrestigeFits

LEMMA RetainIsTyped ==
  ASSUME PrestigeFits
  PROVE  RetainPercent \in Nat
<1> DEFINE S == NodesOf("retain")
           h == [m \in S |-> RebornNodes[m].by]
           t == Sum(h)
<1>1. S \subseteq DOMAIN RebornNodes
  BY DEF NodesOf, PrestigeFits, PrestigeRecord
<1>2. IsFiniteSet(S) /\ h \in [S -> Int] /\ \A m \in S : h[m] \in Nat
  BY <1>1, NodesAreTyped, FS_Subset
<1>3. RetainPercent = Min({100, t})
  BY DEF RetainPercent, TotalOf
<1> HIDE DEF h, S
<1>4. t \in Nat
  BY <1>2, SumIsTyped
<1> HIDE DEF t
<1> QED BY <1>3, <1>4, MinOfTwo

(* Being ahead is transitive, so that who is ahead of the later one is     *)
(* ahead of every one after it.                                            *)
LEMMA DroppedAreOlder ==
  ASSUME ShelfFits, PrestigeFits, NEW u \in Unpinned, NEW v \in Unpinned, u \in Retained, v \notin Retained
  PROVE  shelf[u].at >= shelf[v].at
<1>1. \A w \in OwnedUpgrades : shelf[w].at \in Nat /\ shelf[w].nth \in Nat
  BY DEF ShelfFits
<1>2. Unpinned \subseteq OwnedUpgrades /\ IsFiniteSet(Unpinned)
  BY ShopAssumption, FS_Subset DEF Unpinned, ShelfFits
<1>3. ASSUME ~ (shelf[u].at >= shelf[v].at) PROVE FALSE
  <2> DEFINE V == {w \in Unpinned : Ahead(w, v)}
             U == {w \in Unpinned : Ahead(w, u)}
             keep == (Cardinality(Unpinned) * RetainPercent) \div 100
  <2>1. shelf[v].at > shelf[u].at
    BY <1>1, <1>2, <1>3
  <2>2. V \subseteq U
    BY <1>1, <1>2, <2>1 DEF Ahead
  <2>3. IsFiniteSet(U) /\ IsFiniteSet(V)
    BY <1>2, FS_Subset
  <2>4. Cardinality(U) < keep /\ ~ (Cardinality(V) < keep)
    BY DEF Retained
  <2>5. keep \in Int
    <3> DEFINE c == Cardinality(Unpinned)
               r == RetainPercent
               x == c * r
    <3>1. c \in Nat /\ r \in Nat
      BY <1>2, FS_CardinalityType, RetainIsTyped
    <3>2. x \in Nat /\ keep = x \div 100
      <4> HIDE DEF c, r
      <4> QED BY <3>1 DEF c, r
    <3> HIDE DEF x, keep
    <3>3. x \div 100 \in Nat
      BY ONLY <3>2
    <3> QED BY <3>2, <3>3
  <2> HIDE DEF U, V, keep
  <2>6. Cardinality(V) <= Cardinality(U) /\ Cardinality(U) \in Nat /\ Cardinality(V) \in Nat
    BY <2>2, <2>3, FS_Subset, FS_CardinalityType
  <2> QED BY <2>4, <2>5, <2>6
<1> QED BY <1>3


-----------------------------------------------------------------------------
(* All of it together.                                                     *)
WorkInv == JarFits /\ ShelfFits /\ HomeFits /\ PlantFits /\ RungsFit /\ PrestigeFits

LEMMA HouseStays ==
  ASSUME HomeFits, home' = home
  PROVE  HomeFits'
BY DEF HomeFits, HouseIsSound, HouseIsPaidFor, HouseStands

LEMMA PlantStays ==
  ASSUME PlantFits, plant' = plant, depot' = depot
  PROVE  PlantFits'
BY SoundIsPlantFits, SoundIsPlantFitsNext

LEMMA RungsStay ==
  ASSUME RungsFit, rungs' = rungs, version' = version
  PROVE  RungsFit'
BY DEF RungsFit, LadderHasNoHoles

LEMMA HouseStartsSound ==
  ASSUME home = [blueprints |-> {}, rooms |-> {}, furniture |-> {}, site |-> NoSite,
                 elapsed |-> 0, required |-> 0, level |-> 0, invested |-> 0]
  PROVE  HomeFits
<1>1. home \in House /\ home.elapsed <= home.required
  BY DEF House
<1>2. NoSite \notin DOMAIN Rooms /\ NoSite # Extension /\ ExtensionCost \in Nat /\ ExtensionRatio \in Nat /\ ExtensionRatio > 1
  BY HouseAssumption
<1>3. Sites = {} /\ Levels = 0
  BY <1>2 DEF Sites, Levels
<1>4. Blueprints = 0 /\ Building = 0 /\ Furnishing = 0
  <2>1. home.blueprints = {} /\ home.furniture = {}
    OBVIOUS
  <2> QED BY <1>3, <2>1, SumOfEmpty DEF Blueprints, Building, Furnishing
<1>5. Extending = 0
  <2>1. Grown(ExtensionCost, ExtensionRatio, 0, 0) = 0
    BY ONLY <1>2, GrownOfNone
  <2> QED BY <1>3, <2>1 DEF Extending
<1>6. HouseIsPaidFor
  BY <1>4, <1>5, HouseIsItsParts
<1>7. HouseStands
  BY <1>2 DEF HouseStands
<1> QED BY <1>1, <1>6, <1>7 DEF HomeFits, HouseIsSound

LEMMA PlantStartsSound ==
  ASSUME plant = [crude |-> 0, litres |-> 0, lifeCrude |-> 0, lifeLitres |-> 0, stalled |-> FALSE,
                  units |-> [e \in DOMAIN Equipment |-> 0], upgrades |-> {}, invested |-> 0, autoShip |-> FALSE],
         depot = [litres |-> 0, vouchers |-> 0, spent |-> 0]
  PROVE  PlantFits
<1>1. plant \in Plant /\ depot \in Depot
  BY FactoryAssumption DEF Plant, Depot
<1>2. TankCapacity(plant) \in Nat /\ YardCapacity(plant) \in Nat
  BY <1>1, RatingsAreTyped
<1>3. Kept(plant) /\ depot.vouchers <= depot.litres
  BY <1>2 DEF Kept
<1>4. plant.litres + depot.litres * Grain = plant.lifeLitres
  <2>1. 0 * Grain = 0
    BY FactoryAssumption
  <2> QED BY <2>1
<1>5. Improvements(plant) = 0
  <2>1. plant.upgrades = {}
    OBVIOUS
  <2> QED BY <2>1, SumOfEmpty DEF Improvements
<1>6. Units(plant) = 0
  <2> DEFINE S == DOMAIN Equipment
             f == [e \in S |-> EquipmentBulkCost(e, 0, plant.units[e])]
  <2>1. \A e \in S : f[e] = 0
    <3> TAKE e \in S
    <3>1. Equipment[e]["cost"] \in Nat
      BY <1>1, UnitsAreWhole DEF Columns
    <3>2. Equipment[e].cost \in Nat /\ EquipmentRatio \in Nat /\ EquipmentRatio > 1 /\ plant.units[e] = 0
      BY <3>1, FactoryAssumption
    <3>3. Grown(Equipment[e].cost, EquipmentRatio, 0, 0) = 0
      BY ONLY <3>2, GrownOfNone
    <3> QED BY <3>2, <3>3 DEF Grown, EquipmentBulkCost
  <2>2. f \in [S -> Int]
    <3> HIDE DEF f
    <3>1. f = [e \in S |-> f[e]]
      BY DEF f
    <3> QED BY <2>1, <3>1
  <2> HIDE DEF f
  <2>3. Sum(f) = 0
    BY <2>1, <2>2, FactoryAssumption, SumOfZeros
  <2> QED BY <2>3 DEF Units, f
<1>7. plant.invested = Units(plant) + Improvements(plant) /\ \A u \in plant.upgrades : UpgradeOffered(plant, u)
  BY <1>5, <1>6
<1> QED BY <1>1, <1>3, <1>4, <1>7, SoundIsPlantFits DEF Sound

LEMMA StartFits == Init => WorkInv
<1> SUFFICES ASSUME Init PROVE WorkInv
  OBVIOUS
<1>1. PICK run \in Runs :
        /\ jar = [cookies |-> run.cookies, baked |-> run.baked] /\ lifetime = run.lifetime
        /\ clicks = run.clicks /\ generators = [g \in DOMAIN Generators |-> run.generators]
        /\ shelf = run.shelf /\ tools = {} /\ progression = TRUE
        /\ rungs = run.rungs /\ version = run.version
        /\ prestige = [points |-> run.points, count |-> run.count, pinned |-> {}, nodes |-> run.nodes]
  BY DEF Init
<1>2. JarFits
  BY <1>1, WorkshopAssumption DEF JarFits, Jar
<1>3. ShelfFits
  BY <1>1, WorkshopAssumption DEF ShelfFits, OwnedUpgrades
<1>4. HomeFits
  BY HouseStartsSound DEF Init
<1>5. PlantFits
  BY PlantStartsSound DEF Init
<1>6. RungsFit
  BY <1>1, WorkshopAssumption DEF RungsFit, LadderHasNoHoles
<1>7. PrestigeFits
  <2>1. prestige \in PrestigeRecord /\ TreeIsClosed
    BY <1>1, WorkshopAssumption DEF PrestigeRecord, TreeIsClosed
  <2>2. prestige.pinned = {} /\ prestige.nodes \subseteq DOMAIN RebornNodes
    BY <1>1, WorkshopAssumption
  <2>3. PermanentSlots \in Nat /\ Cardinality({}) = 0
    BY <2>2, SlotsAreTyped, FS_EmptySet
  <2>4. PinnedIsOwned
    BY <2>2, <2>3 DEF PinnedIsOwned
  <2> QED BY <2>1, <2>4 DEF PrestigeFits
<1> QED BY <1>2, <1>3, <1>4, <1>5, <1>6, <1>7 DEF WorkInv

LEMMA TickFits ==
  ASSUME WorkInv, NEW seconds \in Steps, Tick(seconds)
  PROVE  WorkInv'
<1>1. seconds \in Nat
  BY WorkshopAssumption
<1>2. JarFits'
  <2> DEFINE n == Production * seconds
  <2>1. n \in Nat
    <3>1. Production \in Nat
      BY ProductionIsTyped DEF WorkInv
    <3> QED BY <1>1, <3>1
  <2>2. Bake(n)
    BY DEF Tick
  <2> HIDE DEF n
  <2> QED BY <2>1, <2>2, BakeFits DEF WorkInv
<1>3. ShelfFits'
  BY DEF WorkInv, Tick, ShelfFits, OwnedUpgrades
<1>4. HomeFits'
  <2>1. PICK crew \in Crews : home' = Built(home, seconds * crew)
    BY DEF Tick
  <2> DEFINE work == seconds * crew
  <2>2. work \in Nat
    <3>1. crew \in Nat
      BY WorkshopAssumption
    <3> QED BY <1>1, <3>1
  <2>3. home' = Built(home, work)
    BY <2>1
  <2> HIDE DEF work
  <2> QED BY <2>2, <2>3, BuiltFits DEF WorkInv
<1>5. PlantFits'
  BY <1>1, FactoryTickFits DEF WorkInv, Tick
<1>6. RungsFit' /\ PrestigeFits'
  BY RungsStay, PrestigeStays DEF WorkInv, Tick, OwnedUpgrades
<1> QED BY <1>2, <1>3, <1>4, <1>5, <1>6 DEF WorkInv

LEMMA ShelfOnlyGrows ==
  ASSUME ShopNext \/ HomeNext \/ FactoryNext \/ ControlsNext
  PROVE  OwnedUpgrades \subseteq OwnedUpgrades'
<1>1. CASE ShopNext
  BY <1>1 DEF ShopNext, Click, BuyMax, TakeGenerators, BuyUpgrade, BuyTool, SetToolProgression, OwnedUpgrades
<1>2. CASE HomeNext
  BY <1>2 DEF HomeNext, BuyBlueprint, StartConstruction, StartExtension, BuyFurniture, PayForHome, OwnedUpgrades
<1>3. CASE FactoryNext
  BY <1>3 DEF FactoryNext, BuyFactoryEquipment, BuyFactoryUpgrade, MintDiesel, SetFactoryAutoShip, PayForPlant,
              OwnedUpgrades, shopVars
<1>4. CASE ControlsNext
  BY <1>4 DEF ControlsNext, BuyControlUnlock, Migrate, OwnedUpgrades, shopVars
<1> QED BY <1>1, <1>2, <1>3, <1>4

LEMMA AscensionStepFits ==
  ASSUME JarFits, ShelfFits, PrestigeFits, AscensionNext
  PROVE  JarFits' /\ ShelfFits' /\ PrestigeFits'
<1>1. CASE Prestige
  BY <1>1, AscendedFits
<1>2. ASSUME NEW n \in DOMAIN RebornNodes, BuyRebornNode(n) PROVE JarFits' /\ ShelfFits' /\ PrestigeFits'
  <2>1. PrestigeFits'
    BY <1>2, RebornFits
  <2> QED BY <1>2, <2>1 DEF BuyRebornNode, JarFits, ShelfFits, OwnedUpgrades
<1>3. ASSUME NEW u \in DOMAIN Upgrades, Pin(u) \/ Unpin(u), UNCHANGED shopVars
      PROVE  JarFits' /\ ShelfFits' /\ PrestigeFits'
  <2>1. PrestigeFits'
    BY <1>3, PinFits
  <2> QED BY <1>3, <2>1 DEF shopVars, counterVars, JarFits, ShelfFits, OwnedUpgrades
<1> QED BY <1>1, <1>2, <1>3 DEF AscensionNext

LEMMA StepFits == WorkInv /\ [Next]_vars => WorkInv'
<1> SUFFICES ASSUME WorkInv, [Next]_vars PROVE WorkInv'
  OBVIOUS
<1> USE DEF WorkInv
<1>1. ASSUME NEW seconds \in Steps, Tick(seconds) PROVE WorkInv'
  BY <1>1, TickFits
<1>2. CASE ShopNext /\ UNCHANGED <<home, plant, depot, rungs, version, prestige>>
  BY <1>2, ShopFits, HouseStays, PlantStays, RungsStay, PrestigeStays, ShelfOnlyGrows
<1>3. CASE HomeNext /\ UNCHANGED <<plant, depot, rungs, version, prestige>>
  BY <1>3, HomeStepPays, HomeStepFits, PlantStays, RungsStay, PrestigeStays, ShelfOnlyGrows
<1>4. CASE FactoryNext /\ UNCHANGED <<home, rungs, version, prestige>>
  BY <1>4, FactoryStepPays, FactoryStepFits, HouseStays, RungsStay, PrestigeStays, ShelfOnlyGrows
<1>5. CASE ControlsNext /\ UNCHANGED <<home, plant, depot, prestige>>
  BY <1>5, ControlsStepPays, ControlsStepFits, HouseStays, PlantStays, PrestigeStays, ShelfOnlyGrows
<1>6. CASE AscensionNext /\ UNCHANGED <<home, plant, depot, rungs, version>>
  BY <1>6, AscensionStepFits, HouseStays, PlantStays, RungsStay
<1>7. CASE UNCHANGED vars
  <2>1. JarFits' /\ ShelfFits'
    BY <1>7 DEF vars, shopVars, counterVars, JarFits, ShelfFits, OwnedUpgrades
  <2>2. home' = home /\ plant' = plant /\ depot' = depot /\ rungs' = rungs /\ version' = version
        /\ prestige' = prestige /\ OwnedUpgrades' = OwnedUpgrades
    BY <1>7 DEF vars, shopVars, OwnedUpgrades
  <2> QED BY <2>1, <2>2, HouseStays, PlantStays, RungsStay, PrestigeStays
<1> QED BY <1>1, <1>2, <1>3, <1>4, <1>5, <1>6, <1>7 DEF Next


(* Everything the other theorems rest on is kept by every step, for any    *)
(* catalogue and any saves a play may start from (the purchases, ticks and *)
(* ascensions of reducer.ts, and migrations.ts).                           *)
THEOREM WorkshopInvariant == Spec => []WorkInv
BY StartFits, StepFits, PTL DEF Spec

(* Jar, shelf, house, plant, controls and prestige keep their shape: no    *)
(* purchase, tick or ascension leaves a negative balance, a generator or a *)
(* unit too many, or a site worked on for longer than it takes (the guards *)
(* and clamps of reducer.ts's purchases and of its tick's crew).           *)
THEOREM WorkshopIsTyped == Spec => []TypeOK
<1>1. WorkInv => TypeOK
  <2> SUFFICES ASSUME WorkInv PROVE TypeOK
    OBVIOUS
  <2>1. /\ jar \in Jar /\ lifetime \in Nat /\ clicks \in Nat
        /\ generators \in [DOMAIN Generators -> 0..MaxOwned]
        /\ OwnedUpgrades \subseteq DOMAIN Upgrades /\ tools \subseteq DOMAIN Tools /\ progression \in BOOLEAN
    BY DEF WorkInv, JarFits, ShelfFits
  <2>2. /\ home.blueprints \subseteq DOMAIN Rooms /\ home.rooms \subseteq DOMAIN Rooms
        /\ home.furniture \subseteq DOMAIN Furniture /\ home.site \in DOMAIN Rooms \cup {Extension, NoSite}
        /\ home.elapsed \in Nat /\ home.elapsed <= home.required /\ home.level \in Nat
    BY DEF WorkInv, HomeFits, House
  <2>3. /\ plant.units \in [DOMAIN Equipment -> 0..MaxEquipment] /\ plant.upgrades \subseteq DOMAIN FactoryUpgrades
        /\ depot.litres \in Nat /\ depot.vouchers \in Nat /\ depot.vouchers <= depot.litres
    BY DEF WorkInv, PlantFits, Plant, Depot
  <2>4. /\ rungs \subseteq RungsOf(DOMAIN Ladders) /\ version \in 5..Latest
        /\ prestige.points \in Nat /\ prestige.nodes \subseteq DOMAIN RebornNodes
    BY DEF WorkInv, RungsFit, PrestigeFits, PrestigeRecord
  <2> QED BY <2>1, <2>2, <2>3, <2>4 DEF TypeOK
<1> QED BY <1>1, WorkshopInvariant, PTL

(* The house is what was paid for it, and no room of it hangs in the air,  *)
(* whatever was bought, built and reset in between (canStartConstruction,  *)
(* canStartHomeExtension and the crew's tick, reducer.ts's purchases).     *)
THEOREM HouseIsAlwaysSound == Spec => []HouseIsSound
<1>1. WorkInv => HouseIsSound
  BY DEF WorkInv, HomeFits
<1> QED BY <1>1, WorkshopInvariant, PTL

(* Neither litres nor cookies leak from the plant, however purchases,      *)
(* ticks, shipments and ascensions alternate, and for any prices           *)
(* (diesel-factory.ts's tick and shipment, reducer.ts's bulk purchases).   *)
THEOREM PlantIsAlwaysSound == Spec => []PlantIsSound
<1>1. WorkInv => PlantIsSound
  BY DEF WorkInv, PlantFits
<1> QED BY <1>1, WorkshopInvariant, PTL

(* No rung of a control is owned without the one below it, also where      *)
(* migrations granted rungs on top of what was bought (canBuyControlRung,  *)
(* grantedRungIdsForMigration and those of the later versions).            *)
THEOREM LaddersAreWhole == Spec => []LadderHasNoHoles
<1>1. WorkInv => LadderHasNoHoles
  BY DEF WorkInv, RungsFit
<1> QED BY <1>1, WorkshopInvariant, PTL

(* What is pinned is on the shelf through every ascension, and no more is  *)
(* pinned than the tree has slots for (reborn.ts, reducer.ts's pins and    *)
(* its ascension).                                                         *)
THEOREM PinsAreKept == Spec => []PinnedIsOwned
<1>1. WorkInv => PinnedIsOwned
  BY DEF WorkInv, PrestigeFits
<1> QED BY <1>1, WorkshopInvariant, PTL

(* The two halves of an ascension's word, as steps.                        *)
PointsMove ==
  /\ TreeIsClosed'
  /\ Worth(prestige') = Worth(prestige) + (IF prestige'.count = prestige.count THEN 0 ELSE AscensionValue(lifetime))

RecentStay ==
  \A u \in Unpinned, v \in Unpinned :
    u \in DOMAIN shelf' /\ v \notin DOMAIN shelf' => shelf[u].at >= shelf[v].at

LEMMA WordIsKept ==
  ASSUME WorkInv, [Next]_vars, prestige' # prestige
  PROVE  PointsMove /\ RecentStay
<1>1. AscensionNext
  BY DEF Next, vars, Tick
<1>2. JarFits /\ ShelfFits /\ PrestigeFits
  BY DEF WorkInv
<1>3. TreeIsClosed'
  BY <1>1, <1>2, AscensionStepFits DEF PrestigeFits
<1>4. Worth(prestige) \in Int
  <2>1. prestige.points \in Nat /\ prestige.nodes \subseteq DOMAIN RebornNodes
    BY <1>2 DEF PrestigeFits, PrestigeRecord
  <2> DEFINE S == prestige.nodes
             f == [m \in S |-> RebornNodes[m].cost]
  <2>2. IsFiniteSet(S) /\ f \in [S -> Int]
    BY <2>1, NodesAreTyped, FS_Subset
  <2>3. Worth(prestige) = prestige.points + Sum(f)
    BY DEF Worth, PointsSpent
  <2> HIDE DEF f, S
  <2> QED BY <2>1, <2>2, <2>3, SumIsTyped
<1>5. CASE Prestige
  <2>1. AscensionValue(lifetime) \in Nat
    BY <1>2, ValueIsTyped DEF JarFits
  <2> DEFINE i == AscensionValue(lifetime)
  <2>2. /\ prestige' = [prestige EXCEPT !.points = @ + i, !.count = @ + 1]
        /\ prestige \in PrestigeRecord /\ shelf' = Only(Survivors)
    BY <1>2, <1>5 DEF Prestige, PrestigeFits
  <2> HIDE DEF i
  <2>3. prestige'.points = prestige.points + i /\ prestige'.count # prestige.count /\ prestige'.nodes = prestige.nodes
    BY <2>2 DEF PrestigeRecord
  <2>4. Worth(prestige') = Worth(prestige) + i
    <3> DEFINE s == PointsSpent(prestige.nodes)
    <3>1. Worth(prestige) = prestige.points + s /\ Worth(prestige') = prestige.points + i + s
      BY <2>3 DEF Worth
    <3>2. prestige.points \in Nat /\ i \in Nat /\ s \in Int
      <4>1. prestige.points \in Nat /\ prestige.nodes \subseteq DOMAIN RebornNodes
        BY <2>2 DEF PrestigeRecord
      <4> DEFINE S == prestige.nodes
                 f == [m \in S |-> RebornNodes[m].cost]
      <4>2. IsFiniteSet(S) /\ f \in [S -> Int]
        BY <4>1, NodesAreTyped, FS_Subset
      <4>3. s = Sum(f)
        BY DEF PointsSpent
      <4> HIDE DEF f, S, s
      <4> QED BY <2>1, <4>1, <4>2, <4>3, SumIsTyped DEF i
    <3> HIDE DEF s
    <3> QED BY <3>1, <3>2
  <2>5. RecentStay
    <3> SUFFICES ASSUME NEW u \in Unpinned, NEW v \in Unpinned, u \in DOMAIN shelf', v \notin DOMAIN shelf'
                 PROVE  shelf[u].at >= shelf[v].at
      BY DEF RecentStay
    <3>1. Survivors \subseteq OwnedUpgrades
      BY DEF Survivors, Retained, Unpinned
    <3>2. DOMAIN shelf' = Survivors
      BY <1>2, <2>2, <3>1, OnlyFits
    <3>3. u \in Retained /\ v \notin Retained
      BY <3>2 DEF Survivors, Unpinned
    <3> QED BY <1>2, <3>3, DroppedAreOlder
  <2> QED BY <1>3, <2>3, <2>4, <2>5 DEF PointsMove, i
<1>6. ASSUME shelf' = shelf PROVE RecentStay
  BY <1>6 DEF RecentStay, Unpinned, OwnedUpgrades
<1>7. ASSUME NEW n \in DOMAIN RebornNodes, BuyRebornNode(n) PROVE PointsMove /\ RecentStay
  <2>1. Worth(prestige') = Worth(prestige) /\ prestige'.count = prestige.count
    BY <1>2, <1>7, RebornFits
  <2>2. RecentStay
    BY <1>6, <1>7 DEF BuyRebornNode
  <2> QED BY <1>3, <1>4, <2>1, <2>2 DEF PointsMove
<1>8. ASSUME NEW u \in DOMAIN Upgrades, Pin(u) \/ Unpin(u), UNCHANGED shopVars PROVE PointsMove /\ RecentStay
  <2>1. Worth(prestige') = Worth(prestige) /\ prestige'.count = prestige.count
    BY <1>2, <1>8, PinFits
  <2>2. RecentStay
    BY <1>6, <1>8 DEF shopVars
  <2> QED BY <1>3, <1>4, <2>1, <2>2 DEF PointsMove
<1> QED BY <1>1, <1>5, <1>7, <1>8 DEF AscensionNext

(* Points are earned by ascensions and spent on nodes and nowhere else, no *)
(* node is owned without the one below it, and what an ascension keeps of  *)
(* the shelf was bought no earlier than what it drops (prestige.ts's share *)
(* retained, reborn.ts's canBuyRebornNode).                                *)
THEOREM PromisesAreKept == Spec => AscensionKeepsItsWord
<1>1. WorkInv /\ [Next]_vars => [PointsMove]_prestige /\ [RecentStay]_prestige
  BY WordIsKept
<1>2. Spec => [][PointsMove]_prestige /\ [][RecentStay]_prestige
  BY <1>1, WorkshopInvariant, PTL DEF Spec
<1> QED BY <1>2 DEF AscensionKeepsItsWord, PointsAreKept, RetainedAreRecent, PointsMove, RecentStay

(* What buying the most means, as a step.                                  *)
MostIsBought ==
  \A g \in DOMAIN Generators :
    BuyMax(g) => LET q == generators'[g] - generators[g]
                 IN \/ generators'[g] = MaxOwned
                    \/ CostOfBulk(g, generators[g], q + 1) * Payable > jar.cookies * 100

LEMMA NoneIsLeft ==
  ASSUME JarFits, ShelfFits
  PROVE  MostIsBought
<1> SUFFICES ASSUME NEW g \in DOMAIN Generators, BuyMax(g), generators'[g] # MaxOwned
             PROVE  CostOfBulk(g, generators[g], (generators'[g] - generators[g]) + 1) * Payable > jar.cookies * 100
  BY DEF MostIsBought
<1> DEFINE q == MaxAffordable(g)
           n == generators[g]
           Q == {k \in 0..MaxOwned : CostOfBulk(g, generators[g], k) * Payable <= jar.cookies * 100}
<1>1. n \in Nat /\ n <= MaxOwned /\ MaxOwned \in Nat /\ jar.cookies \in Nat
  BY ShopAssumption DEF ShelfFits, JarFits, Jar
<1>2. q > 0 /\ n + q <= MaxOwned /\ generators' = [generators EXCEPT ![g] = n + q]
  BY DEF BuyMax, TakeGenerators
<1>3. IsFiniteSet(Q) /\ Q \subseteq Int
  <2> DEFINE R == 0..MaxOwned
  <2>1. IsFiniteSet(R) /\ R \subseteq Int /\ Q \subseteq R
    BY ShopAssumption, FS_Interval
  <2> HIDE DEF Q, R
  <2> QED BY <2>1, FS_Subset
<1>4. 0 \in Q
  <2>1. CostOfBulk(g, generators[g], 0) = 0
    <3>1. Generators[g].base \in Nat
      BY ShopAssumption
    <3> QED BY <1>1, <3>1, GrownOfNone, ShopAssumption DEF CostOfBulk, Grown
  <2>2. 0 * Payable = 0
    BY PayableIsTyped
  <2> QED BY <1>1, <2>1, <2>2
<1>5. q = Max(Q)
  BY DEF MaxAffordable
<1>6. q \in Q /\ \A k \in Q : q >= k
  <2> HIDE DEF Q, q
  <2> QED BY <1>3, <1>4, <1>5, MaxIsGreatest
<1>7. q \in 0..MaxOwned
  <2> HIDE DEF q
  <2> QED BY <1>6
<1>8. generators'[g] = n + q
  BY <1>2 DEF ShelfFits
<1> HIDE DEF q
<1>9. q + 1 \in 0..MaxOwned /\ (n + q) - n = q
  BY <1>1, <1>2, <1>7, <1>8
<1>10. q + 1 \notin Q
  <2> HIDE DEF Q
  <2> QED BY <1>6, <1>7
<1>11. ~ (CostOfBulk(g, n, q + 1) * Payable <= jar.cookies * 100)
  BY <1>9, <1>10
<1>12. CostOfBulk(g, n, q + 1) * Payable \in Nat
  <2>1. CostOfBulk(g, n, q + 1) \in Nat /\ Payable \in Nat
    <3>1. q + 1 \in Nat
      BY <1>7
    <3> QED BY <1>1, <3>1, CostIsTyped, PayableIsTyped
  <2> DEFINE c == CostOfBulk(g, n, q + 1)
  <2> HIDE DEF c
  <2>2. c \in Nat => c * Payable \in Nat
    BY <2>1
  <2> QED BY <2>1, <2>2 DEF c
<1> DEFINE x == CostOfBulk(g, n, q + 1) * Payable
<1>13. x \in Nat /\ ~ (x <= jar.cookies * 100)
  BY <1>11, <1>12
<1>14. (generators'[g] - generators[g]) + 1 = q + 1
  BY <1>8, <1>9
<1> HIDE DEF x
<1>15. x > jar.cookies * 100
  BY <1>1, <1>13
<1> QED BY <1>14, <1>15 DEF x

(* After buying the most there was no paying for one more, whatever the    *)
(* prices, the discount and the jar (generators.ts's maxAffordable, given  *)
(* a budget raised by the discount).                                       *)
THEOREM MostIsAlwaysBought == Spec => MaxIsTheMost
<1>1. WorkInv => MostIsBought
  BY NoneIsLeft DEF WorkInv
<1>2. WorkInv /\ [Next]_vars => [MostIsBought]_generators
  BY <1>1
<1>3. Spec => [][MostIsBought]_generators
  BY <1>2, WorkshopInvariant, PTL DEF Spec
<1> QED BY <1>3 DEF MaxIsTheMost, MostIsBought

=============================================================================
