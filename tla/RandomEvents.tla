---------------------------- MODULE RandomEvents ----------------------------
(***************************************************************************)
(* The random events: a pool of boons and setbacks of which up to three    *)
(* may run together, and the mouse raid, which runs alone, on its own      *)
(* clock, and takes cookies unless its mice are whacked or a pass is spent.*)
(***************************************************************************)
EXTENDS GoldenCookie, Sequences, Functions

CONSTANTS
  Pool,          \* the events this instance draws
  Unit,          \* milliseconds in a unit of time
  MaxTargets,    \* bound on the targets of an event
  PoolDelays, PoolCooldown, PoolGrace,   \* when the pool may draw again
  RaidDelays, RaidGrace,                 \* when a raid may come again
  RaidMinCookies, RaidStealPercent,      \* the jar a raid wants, and the most it takes
  MouseCounts, FatHps,                   \* mice in a raid, hits a fat one takes
  EventPay,      \* cookies a payout is worth
  ConsumableBase, \* price of the first consumable
  StorageTiers   \* <<[cap, cost], ...>>

ASSUME EventsAssumption ==
  /\ Unit \in Nat \ {0} /\ MaxTargets \in Nat \ {0}
  /\ PoolDelays \subseteq Nat /\ PoolCooldown \in Nat \ {0} /\ PoolGrace \in Nat \ {0}
  /\ RaidDelays \subseteq Nat /\ RaidGrace \in Nat \ {0}
  /\ RaidMinCookies \in Nat /\ RaidStealPercent \in 0..100
  /\ MouseCounts \subseteq 3..5 /\ FatHps \subseteq 2..3
  /\ EventPay \in Nat /\ ConsumableBase \in Nat
  /\ StorageTiers \in Seq([cap : Nat, cost : Nat]) /\ StorageTiers # <<>>
  /\ \A i \in 1..(Len(StorageTiers) - 1) : StorageTiers[i].cap <= StorageTiers[i + 1].cap

VARIABLES
  events,        \* actives: a record per running event; next, raidNext; lastRaid
  supplies       \* stock and bought of each consumable; level of the storage

eventVars == <<events, supplies>>

(* the catalogue, in the order of the source: shape, duration, targets, rebate in percent *)
Row(shape, ms, targets, rebate, setback) ==
  [shape |-> shape, ms |-> ms, targets |-> targets, rebate |-> rebate, setback |-> setback]

FirstSix ==
  [cookie_rain    |-> Row("clickable", 20000, 12, 0, FALSE),
   grandmas_batch |-> Row("instant", 0, 0, 0, FALSE),
   oven_hiccup    |-> Row("clickable", 30000, 1, 0, TRUE),
   sugar_rush     |-> Row("timed", 15000, 0, 0, FALSE),
   lucky_crumb    |-> Row("instant", 0, 0, 0, FALSE),
   market_day     |-> Row("timed", 60000, 0, 15, FALSE)]

Frenzies ==
  [production_frenzy  |-> Row("timed", 77000, 0, 0, FALSE),
   click_frenzy       |-> Row("timed", 13000, 0, 0, FALSE),
   burnt_batch_frenzy |-> Row("timed", 6000, 0, 0, FALSE),
   clot               |-> Row("timed", 66000, 0, 0, TRUE),
   combo_window       |-> Row("timed", 8000, 0, 0, FALSE)]

Decisions ==
  [delivery_rush  |-> Row("clickable", 14000, 3, 0, FALSE),
   taste_test     |-> Row("choice", 15000, 0, 0, FALSE),
   flour_shortage |-> Row("timed", 30000, 0, 0, TRUE),
   night_shift    |-> Row("timed", 45000, 0, 0, FALSE)]

Showers ==
  [sprinkle_storm |-> Row("clickable", 18000, 10, 0, FALSE),
   cookie_eclipse |-> Row("clickable", 16000, 5, 0, FALSE),
   crumb_comet    |-> Row("clickable", 9000, 1, 0, FALSE)]

Shifts ==
  [bakers_dozen       |-> Row("timed", 90000, 0, 7, FALSE),
   static_cling       |-> Row("timed", 40000, 0, 0, TRUE),
   grandma_convention |-> Row("timed", 50000, 0, 0, FALSE),
   overtime_crew      |-> Row("timed", 60000, 0, 0, FALSE)]

MouseRaid == [mouse_raid |-> Row("clickable", 20000, 5, 0, TRUE)]

With(f, g) == [id \in DOMAIN f \cup DOMAIN g |-> IF id \in DOMAIN f THEN f[id] ELSE g[id]]
Catalogue == With(FirstSix, With(Frenzies, With(Decisions, With(Showers, With(Shifts, MouseRaid)))))

(* the raid is never drawn: it has a definition and a clock of its own *)
ASSUME PoolAssumption == Pool \subseteq DOMAIN Catalogue \ {"mouse_raid"}

Units(ms) == (ms + Unit - 1) \div Unit
Duration(id) == Units(Catalogue[id].ms)
TargetsOf(id) == 1..(IF Catalogue[id].targets > MaxTargets THEN MaxTargets ELSE Catalogue[id].targets)
ComboExtend == Units(400)
ComboMax == Units(30000)
TasteBuff == Units(60000)

(* which events may run together *)
Stackable(id) == id # "mouse_raid" /\ Catalogue[id].shape \in {"timed", "clickable"}

CanStackWith_Setbacks(a, b) ==
  /\ Stackable(a) /\ Stackable(b) /\ a # b
  /\ ~(Catalogue[a].targets > 0 /\ Catalogue[b].targets > 0)

CanStackWith(a, b) ==
  /\ Stackable(a) /\ Stackable(b) /\ a # b
  /\ ~(Catalogue[a].setback /\ Catalogue[b].setback)
  /\ ~(Catalogue[a].targets > 0 /\ Catalogue[b].targets > 0)

CanJoinStack(S, id) == Stackable(id) /\ \A other \in S : CanStackWith(other, id)

MaxStacked == 3

(* one event of the pool, or a stack grown one legal event at a time *)
Grown(stacks) == {S \cup {id} : S \in stacks, id \in Pool}
Joined(stacks) == {T \in Grown(stacks) : \E id \in T : T \ {id} \in stacks /\ CanJoinStack(T \ {id}, id)}
Singles == {{id} : id \in Pool}
StackHeads == {{id} : id \in {i \in Pool : Stackable(i)}}
DrawnStacks == Singles \cup Joined(StackHeads) \cup Joined(Joined(StackHeads))


(* a running event; of a raid also its mice and their hits left, what it was worth, what is armed *)
Active(id, now) ==
  [start |-> now, end |-> now + Duration(id), pending |-> TargetsOf(id), claimed |-> 0,
   mice |-> <<>>, fat |-> 0, share |-> 0, armed |-> {}, sentBack |-> FALSE, peak |-> 1]

Halved(hp) == (hp + 1) \div 2
FatMouse(count) == IF count >= 4 THEN count ELSE 0
Share(mice, fat) == Cardinality(mice) + (IF fat \in mice THEN 1 ELSE 0)

Raid(now, count, hp, armed) ==
  LET hits(m) == IF m = FatMouse(count) THEN hp ELSE 1
  IN [Active("mouse_raid", now) EXCEPT
        !.pending = 1..count, !.fat = FatMouse(count), !.armed = armed,
        !.mice = [m \in 1..count |-> IF "half_hp_whack" \in armed THEN Halved(hits(m)) ELSE hits(m)],
        !.share = Share(1..count, FatMouse(count))]

Running == DOMAIN events.actives
Expired(now) == {id \in Running : now >= events.actives[id].end}
Larger(a, b) == IF a > b THEN a ELSE b

(* consumables, and the shelf they stand on *)
Consumables == {"whack_pass", "bigger_whack", "half_hp_whack"}
ArmedAtSpawn == {"bigger_whack", "half_hp_whack"}

StorageCap(level) == StorageTiers[level + 1].cap
ConsumablePrice(c) ==
  (IF c = "whack_pass" THEN ConsumableBase ELSE (5 * ConsumableBase) \div 2) * 4 ^ supplies.bought[c]

SpendOne(held, c) == [held EXCEPT !.stock[c] = IF @ <= 0 THEN @ ELSE @ - 1]
SpendAll(held, S) == [held EXCEPT !.stock = [c \in Consumables |-> IF c \in S THEN @[c] - 1 ELSE @[c]]]
ToArm == {c \in ArmedAtSpawn : supplies.stock[c] > 0}

(* what the mice still there take of the jar j *)
Theft(j, raid) ==
  (j.cookies * RaidStealPercent * Share(raid.pending, raid.fat)) \div (100 * raid.share)

NoRaid == [stolen |-> 0, defended |-> FALSE, passSpent |-> FALSE, shown |-> FALSE]
Outcome(stolen, defended, passSpent) ==
  [stolen |-> stolen, defended |-> defended, passSpent |-> passSpent, shown |-> TRUE]

(* the raid's clock and the pool's rest once a raid is over *)
RaidOver_NoRest(now, d, outcome) ==
  [actives |-> <<>>, next |-> events.next, raidNext |-> now + Larger(RaidGrace, d), lastRaid |-> outcome]

RaidOver(now, d, outcome) ==
  [actives |-> <<>>, next |-> Larger(events.next, now + PoolCooldown),
   raidNext |-> now + Larger(RaidGrace, d), lastRaid |-> outcome]

(* the events of S end; the pool rests from the moment the last one goes *)
Ended(S, now, d) ==
  [events EXCEPT !.actives = Restrict(@, Running \ S),
                 !.next = IF Running \ S = {} THEN now + PoolCooldown + d ELSE @]

-----------------------------------------------------------------------------
(* One tick of the scheduler at the time now, over the jar j; what is *)
(* earned later is beyond the reach of a raid.                             *)

RaidEscapes_PassTooLate(now, j, later) ==
  /\ "mouse_raid" \in Expired(now)
  /\ LET pass == supplies.stock["whack_pass"] > 0
         stolen == Theft(j, events.actives["mouse_raid"])
     IN /\ \E d \in RaidDelays : events' = RaidOver(now, d, Outcome(IF pass THEN 0 ELSE stolen, FALSE, pass))
        /\ supplies' = IF pass THEN SpendOne(supplies, "whack_pass") ELSE supplies
        /\ jar' = Earned(Less(j, stolen), later)

RaidEscapes(now, j, later) ==
  /\ "mouse_raid" \in Expired(now)
  /\ LET pass == supplies.stock["whack_pass"] > 0
         stolen == IF pass THEN 0 ELSE Theft(j, events.actives["mouse_raid"])
     IN /\ \E d \in RaidDelays : events' = RaidOver(now, d, Outcome(stolen, FALSE, pass))
        /\ supplies' = IF pass THEN SpendOne(supplies, "whack_pass") ELSE supplies
        /\ jar' = Earned(Less(j, stolen), later)

EventsExpire(now, j, later) ==
  /\ Expired(now) # {} /\ "mouse_raid" \notin Expired(now)
  /\ \E d \in PoolDelays : events' = Ended(Expired(now), now, d)
  /\ jar' = Earned(j, later + IF "flour_shortage" \in Expired(now)
                              THEN EventPay * Larger(events.actives["flour_shortage"].peak, LiveFrenzy(golden', now))
                              ELSE 0)
  /\ UNCHANGED supplies

(* a shortage remembers the best frenzy that ran beside it *)
WithPeak(e, frenzy) == [e EXCEPT !.peak = Larger(@, frenzy)]

EventsRun(now, j, later) ==
  /\ Expired(now) = {} /\ Running # {}
  /\ events' = [events EXCEPT !.actives =
                  [id \in Running |-> IF id = "flour_shortage" THEN WithPeak(@[id], LiveFrenzy(golden', now))
                                      ELSE @[id]]]
  /\ jar' = Earned(j, later) /\ UNCHANGED supplies

EventsBlocked(j, later) ==
  /\ Running = {} /\ jar' = Earned(j, later) /\ UNCHANGED eventVars

SeedRaidClock(now, j, later) ==
  /\ events.raidNext = 0
  /\ \E d \in RaidDelays : events' = [events EXCEPT !.raidNext = now + Larger(RaidGrace, d)]
  /\ jar' = Earned(j, later) /\ UNCHANGED supplies

RaidComes(now, j, hidden) ==
  /\ events.raidNext > 0 /\ now >= events.raidNext
  /\ RaidsUnlocked(j) /\ j.cookies >= RaidMinCookies /\ ~hidden

SpawnRaid(now, j, later) ==
  /\ \E n \in MouseCounts, hp \in FatHps :
       events' = [events EXCEPT !.actives = [id \in {"mouse_raid"} |-> Raid(now, n, hp, ToArm)]]
  /\ supplies' = SpendAll(supplies, ToArm)
  /\ jar' = Earned(j, later)

SeedPoolClock(now, j, later) ==
  /\ events.next = 0
  /\ \E d \in PoolDelays : events' = [events EXCEPT !.next = now + PoolGrace + d]
  /\ jar' = Earned(j, later) /\ UNCHANGED supplies

PoolWaits(now, j, later) ==
  /\ now < events.next /\ jar' = Earned(j, later) /\ UNCHANGED eventVars

InstantPays(now, j, later) ==
  /\ \E id \in Pool : Catalogue[id].shape = "instant"
  /\ \E d \in PoolDelays : events' = [events EXCEPT !.next = now + PoolCooldown + d]
  /\ jar' = Earned(j, later + EventPay) /\ UNCHANGED supplies

SpawnStack(now, j, later) ==
  /\ \E S \in DrawnStacks :
       /\ \A id \in S : Catalogue[id].shape # "instant"
       /\ events' = [events EXCEPT !.actives = [id \in S |-> Active(id, now)]]
  /\ jar' = Earned(j, later) /\ UNCHANGED supplies

PoolTick(now, j, later) ==
  \/ SeedPoolClock(now, j, later)
  \/ events.next > 0 /\ PoolWaits(now, j, later)
  \/ events.next > 0 /\ now >= events.next /\ (InstantPays(now, j, later) \/ SpawnStack(now, j, later))

EventsSettle(now, j, later) ==
  \/ RaidEscapes(now, j, later)
  \/ EventsExpire(now, j, later)
  \/ EventsRun(now, j, later)

EventsTick(now, j, later, blocked, hidden) ==
  \/ EventsSettle(now, j, later)
  \/ blocked /\ EventsBlocked(j, later)
  \/ /\ Running = {} /\ ~blocked
     /\ \/ SeedRaidClock(now, j, later)
        \/ RaidComes(now, j, hidden) /\ SpawnRaid(now, j, later)
        \/ events.raidNext > 0 /\ ~RaidComes(now, j, hidden) /\ PoolTick(now, j, later)

-----------------------------------------------------------------------------
(* What the player does to a running event.                                *)

Live(id) == id \in Running /\ clock < events.actives[id].end

TargetClick_Again(id, t) ==
  /\ Live(id) /\ id # "mouse_raid" /\ t \in TargetsOf(id)
  /\ events' = [events EXCEPT !.actives[id].pending = @ \ {t}, !.actives[id].claimed = @ + 1]
  /\ jar' = Earned(jar, EventPay)
  /\ WithAchievements(wallet, jar')
  /\ UNCHANGED <<clock, golden, supplies>>

TargetClick(id, t) ==
  /\ Live(id) /\ id # "mouse_raid" /\ t \in events.actives[id].pending
  /\ id = "delivery_rush" => \A u \in events.actives[id].pending : t <= u
  /\ IF id = "oven_hiccup" \/ events.actives[id].pending = {t}
     THEN \E d \in PoolDelays : events' = Ended({id}, clock, d)
     ELSE events' = [events EXCEPT !.actives[id].pending = @ \ {t}, !.actives[id].claimed = @ + 1]
  /\ jar' = Earned(jar, IF id = "oven_hiccup" THEN 0 ELSE EventPay)
  /\ WithAchievements(wallet, jar')
  /\ UNCHANGED <<clock, golden, supplies>>

(* a press hits one mouse, or with the wide whack armed every mouse of S *)
Survivors(mice, S) == {m \in DOMAIN mice : m \in S => mice[m] > 1}
Whacked(raid, S) ==
  LET left == Survivors(raid.mice, S)
  IN [raid EXCEPT !.mice = [m \in left |-> IF m \in S THEN @[m] - 1 ELSE @[m]],
                  !.pending = left,
                  !.claimed = @ + Cardinality(DOMAIN raid.mice) - Cardinality(left)]

Whack(S) ==
  /\ Live("mouse_raid")
  /\ LET raid == events.actives["mouse_raid"]
     IN /\ S # {} /\ S \subseteq raid.pending
        /\ Cardinality(S) > 1 => "bigger_whack" \in raid.armed
        /\ IF Survivors(raid.mice, S) = {}
           THEN /\ \E d \in RaidDelays : events' = RaidOver(clock, d, Outcome(0, TRUE, FALSE))
                /\ jar' = Earned(jar, EventPay)
           ELSE /\ events' = [events EXCEPT !.actives["mouse_raid"] = Whacked(raid, S)]
                /\ jar' = jar
  /\ WithAchievements(wallet, jar')
  /\ UNCHANGED <<clock, golden, supplies>>

Serve ==
  /\ Live("taste_test") /\ ~events.actives["taste_test"].sentBack
  /\ \E d \in PoolDelays : events' = Ended({"taste_test"}, clock, d)
  /\ jar' = Earned(jar, EventPay)
  /\ WithAchievements(wallet, jar')
  /\ UNCHANGED <<clock, golden, supplies>>

SendBack ==
  /\ Live("taste_test") /\ ~events.actives["taste_test"].sentBack
  /\ events' = [events EXCEPT !.actives["taste_test"] =
                   [@ EXCEPT !.start = clock, !.end = clock + TasteBuff, !.claimed = 1, !.sentBack = TRUE]]
  /\ WithAchievements(wallet, jar)
  /\ UNCHANGED <<clock, jar, golden, supplies>>

(* every click of the big cookie keeps a combo going, up to its ceiling *)
ComboExtended ==
  IF ~Live("combo_window") THEN events
  ELSE LET combo == events.actives["combo_window"]
           longer == combo.end + ComboExtend
           ceiling == combo.start + ComboMax
       IN [events EXCEPT !.actives["combo_window"].end = IF longer > ceiling THEN ceiling ELSE longer]

Click ==
  /\ jar' = Earned(jar, 1)
  /\ events' = ComboExtended
  /\ WithAchievements(wallet, jar')
  /\ UNCHANGED <<clock, golden, supplies>>

DismissRaid ==
  /\ events.lastRaid.shown
  /\ events' = [events EXCEPT !.lastRaid = NoRaid]
  /\ UNCHANGED <<clock, jar, achieved, wallet, golden, supplies>>

(* a purchase on a market day gives part of the price back *)
RebateCap == 50
Rebate ==
  LET running == {id \in Running : Live(id)}
      market(id) == IF id \in running THEN Catalogue[id].rebate ELSE 0
      total == market("market_day") + market("bakers_dozen")
  IN IF total > RebateCap THEN RebateCap ELSE total

Bought(j, price) == [Less(j, price) EXCEPT !.cookies = @ + (price * Rebate) \div 100]

BuyConsumable_AnyStock(c) ==
  /\ jar.cookies >= ConsumablePrice(c)
  /\ jar' = Bought(jar, ConsumablePrice(c))
  /\ supplies' = [supplies EXCEPT !.stock[c] = @ + 1, !.bought[c] = @ + 1]
  /\ UNCHANGED <<clock, achieved, wallet, golden, events>>

BuyConsumable(c) ==
  /\ supplies.stock[c] < StorageCap(supplies.level)
  /\ jar.cookies >= ConsumablePrice(c)
  /\ jar' = Bought(jar, ConsumablePrice(c))
  /\ supplies' = [supplies EXCEPT !.stock[c] = @ + 1, !.bought[c] = @ + 1]
  /\ UNCHANGED <<clock, achieved, wallet, golden, events>>

BuyStorage ==
  /\ supplies.level + 1 < Len(StorageTiers)
  /\ jar.cookies >= StorageTiers[supplies.level + 2].cost
  /\ jar' = Bought(jar, StorageTiers[supplies.level + 2].cost)
  /\ supplies' = [supplies EXCEPT !.level = @ + 1]
  /\ UNCHANGED <<clock, achieved, wallet, golden, events>>

EventsNext ==
  \/ \E id \in Running : \E t \in events.actives[id].pending : TargetClick(id, t)
  \/ \E S \in SUBSET (1..5) : Whack(S)
  \/ Serve \/ SendBack \/ Click \/ DismissRaid
  \/ \E c \in Consumables : BuyConsumable(c)
  \/ BuyStorage

=============================================================================
