------------------------------- MODULE Stage -------------------------------
(***************************************************************************)
(* The stage: the golden cookie, the random events and the mini-games over *)
(* one clock, one jar and one wallet, as the reducer's tick and handlers   *)
(* compose them, with the game closed and opened again at any moment.      *)
(***************************************************************************)
EXTENDS RandomEvents, Minigames, Sums

CONSTANTS
  Saves,         \* the saves a play may start from
  Steps,         \* how much time a tick may cover
  Absences,      \* how long the game may stay closed
  MaxBaked,      \* bound on what clicking may bake
  MaxAwards      \* bound on the awards playing boards may add to

ASSUME StageAssumption ==
  /\ Saves \subseteq [clock : Nat, cookies : Nat, baked : Nat, golden : Nat, pool : Nat, raid : Nat, game : Nat,
                     stock : [Consumables -> Nat]]
  /\ \A save \in Saves : \A c \in Consumables : save.stock[c] <= StorageTiers[1].cap
  /\ Steps \subseteq Nat \ {0} /\ Absences \subseteq Nat

vars == <<clock, jar, achieved, wallet, golden, events, supplies, games>>

Init ==
  \E save \in Saves :
    /\ clock = save.clock
    /\ jar = [cookies |-> save.cookies, baked |-> save.baked]
    /\ achieved = Reached(jar)
    /\ wallet = [balance |-> 0, awards |-> {}, claimed |-> {}, draws |-> 0]
    /\ golden = Away(NoEffect, save.golden)
    /\ events = [actives |-> <<>>, next |-> save.pool, raidNext |-> save.raid, lastRaid |-> NoRaid]
    /\ supplies = [stock |-> save.stock, bought |-> save.stock, level |-> 0]
    /\ games = [active |-> NoGame, completed |-> {}, schedule |-> save.game]

(* handleTick: accrual, golden cookie, events with a raid's theft, mini-games, achievements *)
Tick_StaleStage(k, hidden) ==
  /\ clock + k <= MaxClock /\ clock' = clock + k
  /\ GoldenTick(clock')
  /\ EventsTick(clock', Earned(jar, k * Rate), 0, golden.spawned \/ OccupiesStage(games.active), hidden)
  /\ GamesTick(clock', jar', golden'.spawned \/ Running' # {})
  /\ WithAchievements(wallet, jar')

Tick(k, hidden) ==
  /\ clock + k <= MaxClock /\ clock' = clock + k
  /\ GoldenTick(clock')
  /\ EventsTick(clock', Earned(jar, k * Rate), 0, golden'.spawned \/ OccupiesStage(games.active), hidden)
  /\ GamesTick(clock', jar', golden'.spawned \/ Running' # {})
  /\ WithAchievements(wallet, jar')

(* the game is closed for k and opened: what expired is settled against the jar that was saved,  *)
(* then the absence is paid; the milestones it reaches are unlocked and earn no token            *)
Reopen_NightFirst(k) ==
  /\ clock + k <= MaxClock /\ clock' = clock + k
  /\ golden' = golden
  /\ EventsSettle(clock', Earned(jar, k * Rate), 0) \/ EventsBlocked(Earned(jar, k * Rate), 0)
  /\ achieved' = achieved \cup Reached(jar')
  /\ UNCHANGED <<wallet, games>>

Reopen(k) ==
  /\ clock + k <= MaxClock /\ clock' = clock + k
  /\ golden' = golden
  /\ EventsSettle(clock', jar, k * Rate) \/ EventsBlocked(jar, k * Rate)
  /\ achieved' = achieved \cup Reached(jar')
  /\ UNCHANGED <<wallet, games>>

(* luckyChanceDraw: a won reward is carried out, a repeated one is not *)
LuckyDraw ==
  /\ wallet.balance >= 1
  /\ \E r \in DrawPool :
       /\ wallet' = Drawn(wallet, r)
       /\ jar' = Earned(jar, IF r \in wallet.claimed THEN 0 ELSE BundleOf(r))
       /\ golden' = IF r = "timed_boost" /\ r \notin wallet.claimed
                    THEN [golden EXCEPT !.effect = [kind |-> "frenzy", until |-> clock + BoostFor, times |-> 2]]
                    ELSE golden
       /\ supplies' = IF r = "raid_supplies" /\ r \notin wallet.claimed
                      THEN [supplies EXCEPT !.stock["whack_pass"] = @ + 1] ELSE supplies
  /\ UNCHANGED <<clock, achieved, events, games>>

Next ==
  \/ \E k \in Steps, hidden \in BOOLEAN : Tick(k, hidden)
  \/ \E k \in Absences : Reopen(k)
  \/ GoldenNext /\ UNCHANGED <<events, supplies, games>>
  \/ EventsNext /\ UNCHANGED games /\ (jar'.baked > MaxBaked => jar'.baked = jar.baked \/ events' # events)
  \/ GamesNext /\ UNCHANGED <<golden, events, supplies>>
     /\ (wallet' = wallet \/ Cardinality(wallet'.awards) <= MaxAwards)
  \/ LuckyDraw

Spec == Init /\ [][Next]_vars

-----------------------------------------------------------------------------
TypeOK ==
  /\ clock \in Nat /\ jar \in Jar /\ achieved \subseteq Milestones
  /\ golden \in Golden
  /\ wallet.balance \in Nat /\ wallet.draws \in Nat /\ wallet.claimed \subseteq Rewards
  /\ supplies.stock \in [Consumables -> Nat] /\ supplies.bought \in [Consumables -> Nat]
  /\ supplies.level \in 0..(Len(StorageTiers) - 1)
  /\ events.next \in Nat /\ events.raidNext \in Nat
  /\ Running \subseteq Pool \cup {"mouse_raid"}

(* The rules of a stack (the comment on RandomEventsState lists them): at most three events run, *)
(* a raid runs alone, no two setbacks and no two events with targets run together, and what asks *)
(* for an answer of its own runs alone.                                                          *)
StackIsLegal ==
  /\ Cardinality(Running) <= 3
  /\ "mouse_raid" \in Running => Running = {"mouse_raid"}
  /\ \A a, b \in Running : a # b =>
       /\ ~(Catalogue[a].setback /\ Catalogue[b].setback)
       /\ ~(Catalogue[a].targets > 0 /\ Catalogue[b].targets > 0)
       /\ Catalogue[a].shape # "choice"

(* Every target is paid at most once and every mouse is counted once: what was claimed and what *)
(* is pending add up, a mouse that is there can still be hit, and mice never weigh more than    *)
(* they did at the start, so a raid never takes more than the ceiling.                          *)
TargetsAreCountedOnce ==
  \A id \in Running :
    LET e == events.actives[id]
    IN IF id = "mouse_raid"
       THEN /\ e.pending = DOMAIN e.mice /\ e.pending # {}
            /\ \A m \in e.pending : e.mice[m] >= 1
            /\ e.claimed + Cardinality(e.pending) \in MouseCounts
            /\ Share(e.pending, e.fat) <= e.share
       ELSE Catalogue[id].targets > 0 =>
              e.pending # {} /\ e.claimed + Cardinality(e.pending) = Cardinality(TargetsOf(id))

(* The storage holds: no more of a consumable is in stock than its shelf takes and than was     *)
(* bought, but for the one pass a lucky draw gives.                                              *)
Gifts(c) == IF c = "whack_pass" /\ "raid_supplies" \in wallet.claimed THEN 1 ELSE 0
StockIsPaidFor ==
  \A c \in Consumables :
    /\ supplies.stock[c] <= StorageCap(supplies.level) + Gifts(c)
    /\ supplies.stock[c] <= supplies.bought[c] + Gifts(c)

(* Every token of the wallet comes from an award made once, and every draw took one: milestones, *)
(* oven dials, boards, chains and days are never paid twice, whatever is done again.             *)
Worth(key) ==
  CASE key[1] = "grade" -> Grade
    [] key[1] \in {"three", "daily"} -> 2
    [] OTHER -> 1
TokensAreConserved ==
  wallet.balance + wallet.draws = Sum([k \in wallet.awards |-> Worth(k)])

(* A tick starts nothing over anything: an event, a raid or a board it starts has the stage to   *)
(* itself, a golden cookie that came on the same tick included.                                  *)
EventStarts == Running = {} /\ Running' # {}
BoardStarts == ~OccupiesStage(games.active) /\ OccupiesStage(games'.active)
NothingStartsOverAnything ==
  [][clock' > clock /\ (EventStarts \/ BoardStarts) =>
       /\ ~golden'.spawned
       /\ Running' # {} => ~OccupiesStage(games'.active)]_vars

(* One stack is one interruption: the pool rests from the moment the last of its events goes,    *)
(* however it goes, and after a raid the next raid leaves its grace.                             *)
StageRests ==
  [][Running # {} /\ Running' = {} =>
       /\ events'.next >= clock' + PoolCooldown
       /\ "mouse_raid" \in Running => events'.raidNext >= clock' + RaidGrace]_vars

(* What the mice take is what is reported, and a spent pass saves all of it; what was ever baked *)
(* is never taken. A raid that ran out while the game was closed takes its share of the jar as it *)
(* was left: the night's earnings cannot be stolen (the comment on settleExpiredEventsOnLoad).   *)
RaidEscaped == "mouse_raid" \in Running \ Running' /\ clock' > clock
TheftReported ==
  /\ jar'.cookies = jar.cookies + Rate * (clock' - clock) - events'.lastRaid.stolen
  /\ jar'.baked = jar.baked + Rate * (clock' - clock)
  /\ events'.lastRaid.passSpent => events'.lastRaid.stolen = 0
NightSpared(k) ==
  jar'.cookies >= jar.cookies - (jar.cookies * RaidStealPercent) \div 100 + k * Rate

(* Mice take what is reported and no more, whether a player sees them off or is away              *)
(* (random-events.ts#tickRandomEvents, reducer.ts#handleTick and #settleExpiredEventsOnLoad).    *)
TheftIsFair ==
  [][/\ RaidEscaped => TheftReported
     /\ \A k \in Absences : Reopen(k) => NightSpared(k)]_vars

(* Every golden cookie that is redeemed pays its token: no two of them share the key, although   *)
(* a miss moves the time the key is made of.                                                     *)
EveryWinIsPaid == [][GoldenWon => wallet'.balance > wallet.balance]_vars

=============================================================================
