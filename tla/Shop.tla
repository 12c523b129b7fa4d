-------------------------------- MODULE Shop --------------------------------
(***************************************************************************)
(* What a run buys over the counter: generators, by ones or as many as the *)
(* jar affords; upgrades, each once; and tools, which the tool progression *)
(* may hand over for nothing.  A market day gives a share of a price back. *)
(***************************************************************************)
EXTENDS Counter, Sums

CONSTANTS
  Rebates,       \* shares of a price, in percent, the events may give back
  Generators,    \* [generator -> [base, cps, from]]: from cookies ever baked
  Ratio,         \* what each generator makes the next one dearer by
  Upgrades,      \* [upgrade -> [price, needs, from]]: upgrades and lifetime cookies
  Tools,         \* [tool -> [price, from, off]]: off the price of generators, in percent
  MaxOwned,      \* bound on the generators of a kind
  MaxMade,       \* bound on what may ever be baked
  MaxClicks      \* bound on the clicks

ASSUME ShopAssumption ==
  /\ Rebates \subseteq 0..50 /\ Ratio \in Nat /\ Ratio > 1
  /\ MaxOwned \in Nat /\ MaxMade \in Nat /\ MaxClicks \in Nat
  /\ IsFiniteSet(DOMAIN Generators) /\ \A g \in DOMAIN Generators : {Generators[g].base, Generators[g].cps} \subseteq Nat
  /\ IsFiniteSet(DOMAIN Upgrades) /\ \A u \in DOMAIN Upgrades : Upgrades[u].price \in Nat
  /\ IsFiniteSet(DOMAIN Tools) /\ \A t \in DOMAIN Tools : Tools[t].price \in Nat /\ Tools[t].off \in 0..100

VARIABLES
  lifetime,      \* cookies baked since the last ascension
  clicks,        \* clicks ever made
  generators,    \* how many of each
  shelf,         \* [upgrade owned -> the clicks it was bought at, its place]
  tools,         \* the tools bought
  progression    \* are tools to be earned?

shopVars == <<counterVars, lifetime, clicks, generators, shelf, tools, progression>>

OwnedUpgrades == DOMAIN shelf

Production == Rate * Sum([g \in DOMAIN Generators |-> generators[g] * Generators[g].cps])

(* addCookies; what would pass the bound is not baked *)
Bake(n) ==
  LET baked == Min({n, MaxMade - jar.baked})
  IN jar' = Earned(jar, baked) /\ lifetime' = lifetime + baked

(* what every purchase does: the price leaves the jar, and a rebate of it returns *)
Pay(price) ==
  /\ jar.cookies >= price
  /\ \E r \in Rebates : jar' = [jar EXCEPT !.cookies = @ - price + (price * r) \div 100]
  /\ UNCHANGED lifetime
  /\ WithAchievements(wallet, jar')

Click ==
  /\ clicks < MaxClicks
  /\ Bake(1)
  /\ clicks' = clicks + 1
  /\ WithAchievements(wallet, jar')
  /\ UNCHANGED <<clock, generators, shelf, tools, progression>>

-----------------------------------------------------------------------------
ToolDiscovered(t) == ~progression \/ t \in tools \/ lifetime >= Tools[t].from
ToolActive(t) == ~progression \/ t \in tools

(* totalBuyMaxDiscount leaves this share of a price, in percent, and never less than a tenth *)
Payable ==
  Max({10, Scaled(100, [t \in {t \in DOMAIN Tools : ToolActive(t)} |-> 100 - Tools[t].off])})

GeneratorUnlocked(g) == jar.baked >= Generators[g].from

CostOfBulk(g, owned, q) == (Generators[g].base * Power(Ratio, owned) * (Power(Ratio, q) - 1)) \div (Ratio - 1)

(* the budget is raised by the discount before the fair price is compared with it *)
MaxAffordable_Undiscounted(g) ==
  Max({q \in 0..MaxOwned : CostOfBulk(g, generators[g], q) <= jar.cookies})

MaxAffordable(g) ==
  Max({q \in 0..MaxOwned : CostOfBulk(g, generators[g], q) * Payable <= jar.cookies * 100})

TakeGenerators(g, q) ==
  /\ generators[g] > 0 \/ GeneratorUnlocked(g)
  /\ q > 0 /\ generators[g] + q <= MaxOwned
  /\ Pay((CostOfBulk(g, generators[g], q) * Payable) \div 100)
  /\ generators' = [generators EXCEPT ![g] = @ + q]
  /\ UNCHANGED <<clock, clicks, shelf, tools, progression>>

BuyMax(g) == TakeGenerators(g, MaxAffordable(g))

UpgradeUnlocked(u) == Upgrades[u].needs \subseteq OwnedUpgrades /\ lifetime >= Upgrades[u].from

BuyUpgrade(u) ==
  /\ u \notin OwnedUpgrades /\ UpgradeUnlocked(u)
  /\ Pay(Upgrades[u].price)
  /\ shelf' = [v \in OwnedUpgrades \cup {u} |->
                 IF v = u THEN [at |-> clicks, nth |-> Cardinality(OwnedUpgrades) + 1] ELSE shelf[v]]
  /\ UNCHANGED <<clock, clicks, generators, tools, progression>>

BuyTool(t) ==
  /\ ~ToolActive(t) /\ ToolDiscovered(t)
  /\ Pay(Tools[t].price)
  /\ tools' = tools \cup {t}
  /\ UNCHANGED <<clock, clicks, generators, shelf, progression>>

SetToolProgression ==
  /\ progression' = ~progression
  /\ UNCHANGED <<clock, jar, achieved, wallet, lifetime, clicks, generators, shelf, tools>>

ShopNext ==
  \/ Click
  \/ \E g \in DOMAIN Generators : BuyMax(g) \/ \E q \in 1..MaxOwned : TakeGenerators(g, q)
  \/ \E u \in DOMAIN Upgrades : BuyUpgrade(u)
  \/ \E t \in DOMAIN Tools : BuyTool(t)
  \/ SetToolProgression

=============================================================================
