---------------------------- MODULE GoldenCookie ----------------------------
(***************************************************************************)
(* The golden cookie: it comes by itself, is caught, and is redeemed by a  *)
(* challenge of timed presses; a miss costs time.  What a press is worth   *)
(* depends on the family of the challenge; where the needle is, or which   *)
(* symbol is right, is left to the player's choice of a hit or a miss.     *)
(***************************************************************************)
EXTENDS Counter

CONSTANTS
  GoldenWindow,  \* how long a cookie waits
  GoldenDelays,  \* how long until the next one may come
  MissPenalty,   \* what a miss takes off its window
  Challenges,    \* [family, rounds, presses, window] of each challenge
  FrenzyFor,     \* how long an effect lasts
  BoostFor,      \* how long the boost of a lucky draw lasts
  Windfall       \* cookies a windfall pays

ASSUME GoldenAssumption ==
  /\ GoldenWindow \in Nat \ {0} /\ MissPenalty \in Nat \ {0}
  /\ GoldenDelays \subseteq Nat \ {0}
  /\ \A d \in GoldenDelays : d >= GoldenWindow + 2 * MissPenalty   \* minutes after seconds
  /\ FrenzyFor \in Nat /\ BoostFor \in Nat /\ Windfall \in Nat
  /\ Challenges \subseteq [family : {"dial", "mash", "hold", "sequence", "pick"}, rounds : Nat \ {0},
                           presses : Nat \ {0}, window : Nat]

VARIABLE golden   \* spawned, at: since when it waits; dial; effect; next: when one may come

NoChallenge == [family |-> "none", rounds |-> 0, presses |-> 0, window |-> 0]
NoDial == [won |-> 0, progress |-> 0, since |-> 0, challenge |-> NoChallenge]
NoEffect == [kind |-> "none", until |-> 0, times |-> 1]
Dial == [won : Nat, progress : Nat, since : Nat, challenge : Challenges]
Effect == [kind : {"none", "frenzy", "clickFrenzy", "windfall"}, until : Nat, times : Nat]
Golden == [spawned : BOOLEAN, at : Int, dial : Dial \cup {NoDial}, effect : Effect, next : Nat]

Away(effect, next) == [spawned |-> FALSE, at |-> 0, dial |-> NoDial, effect |-> effect, next |-> next]

(* what the running effect multiplies production by *)
LiveFrenzy(g, now) == IF g.effect.kind = "frenzy" /\ now < g.effect.until THEN g.effect.times ELSE 1

WindowOver(g, now) == now - g.at >= GoldenWindow

(* on a tick a cookie whose window is over goes, and one that is due comes *)
DespawnIfExpired(g, now) ==
  IF g.spawned /\ WindowOver(g, now) THEN {Away(g.effect, now + d) : d \in GoldenDelays} ELSE {g}

MaybeSpawn(g, now) ==
  IF g.spawned \/ now < g.next THEN g ELSE [g EXCEPT !.spawned = TRUE, !.at = now, !.dial = NoDial]

GoldenTick(now) ==
  \E g \in DespawnIfExpired(golden, now) : golden' = MaybeSpawn(g, now)

GoldenCatch ==
  /\ golden.spawned /\ golden.dial = NoDial
  /\ \E c \in Challenges :
       golden' = [golden EXCEPT !.dial = [won |-> 0, progress |-> 0, since |-> clock, challenge |-> c]]
  /\ UNCHANGED <<clock, jar, achieved, wallet>>

GoldenFlee ==
  /\ golden.spawned
  /\ \E d \in GoldenDelays : golden' = Away(golden.effect, clock + d)
  /\ UNCHANGED <<clock, jar, achieved, wallet>>

(* only mash can be too late to hit, and then every further press misses *)
MashedOut(d) == d.challenge.family = "mash" /\ clock - d.since > d.challenge.window
MayHit(d) == d # NoDial /\ ~MashedOut(d)
MayMiss(d) == d # NoDial /\ (d.challenge.family = "mash" => MashedOut(d))

LastPress(d) == d.progress + 1 >= (IF d.challenge.family \in {"mash", "sequence"} THEN d.challenge.presses ELSE 1)
LastRound(d) == d.won + 1 >= d.challenge.rounds

(* a cookie whose window is over is there until the next tick: a press or two at most *)
GoldenMiss ==
  /\ golden.spawned /\ MayMiss(golden.dial)
  /\ golden.at > clock - GoldenWindow - MissPenalty
  /\ golden' = [golden EXCEPT !.at = @ - MissPenalty,
                              !.dial.progress = IF golden.dial.challenge.family = "mash" THEN @ ELSE 0]
  /\ UNCHANGED <<clock, jar, achieved, wallet>>

GoldenHit ==
  /\ golden.spawned /\ MayHit(golden.dial) /\ ~LastPress(golden.dial)
  /\ golden' = [golden EXCEPT !.dial.progress = @ + 1]
  /\ UNCHANGED <<clock, jar, achieved, wallet>>

GoldenRoundWon ==
  /\ golden.spawned /\ MayHit(golden.dial) /\ LastPress(golden.dial) /\ ~LastRound(golden.dial)
  /\ golden' = [golden EXCEPT !.dial.won = @ + 1, !.dial.since = clock, !.dial.progress = 0]
  /\ UNCHANGED <<clock, jar, achieved, wallet>>

Effects(now) ==
  {[kind |-> "frenzy", until |-> now + FrenzyFor, times |-> 7],
   [kind |-> "clickFrenzy", until |-> now + FrenzyFor, times |-> 3],
   [kind |-> "windfall", until |-> 0, times |-> 1]}

(* the last round pays an effect drawn by lot, and a token under the key of this cookie *)
GoldenWon_NoDelay ==
  /\ golden.spawned /\ MayHit(golden.dial) /\ LastPress(golden.dial) /\ LastRound(golden.dial)
  /\ \E e \in Effects(clock) :
       /\ golden' = Away(e, clock)
       /\ jar' = Earned(jar, IF e.kind = "windfall" THEN Windfall ELSE 0)
  /\ WithAchievements(Awarded(wallet, {<<"oven", golden.at>>}, 1), jar')
  /\ UNCHANGED clock

GoldenWon ==
  /\ golden.spawned /\ MayHit(golden.dial) /\ LastPress(golden.dial) /\ LastRound(golden.dial)
  /\ \E e \in Effects(clock), d \in GoldenDelays :
       /\ golden' = Away(e, clock + d)
       /\ jar' = Earned(jar, IF e.kind = "windfall" THEN Windfall ELSE 0)
  /\ WithAchievements(Awarded(wallet, {<<"oven", golden.at>>}, 1), jar')
  /\ UNCHANGED clock

GoldenNext == GoldenCatch \/ GoldenFlee \/ GoldenMiss \/ GoldenHit \/ GoldenRoundWon \/ GoldenWon

=============================================================================
