----------------------------- MODULE PurchaseFx ------------------------------
(* What the window draws of a purchase: PurchaseFxQueue, which groups what      *)
(* arrives together and plays one pump at a time, and the layer's drain loop.   *)
(* A purchase is a number, in the order in which the reducer applied them. Time *)
(* is counted in frames of the loop, and an effect's age and what is left of it *)
(* stand for startedAt and endsAt.                                              *)
EXTENDS Integers, Sequences, FiniteSets

CONSTANTS Rows, Diesel,                  \* targets: the rows of the shelves, and the depot
          GroupWindow,                   \* FX_GROUP_WINDOW_MS
          RowLasts, DieselLasts,         \* FX_DURATION_MS
          ReducedLasts,                  \* FX_REDUCED_MS
          MaxLate,                       \* how long after its frame a drain may still run
          MaxPurchases

ASSUME FxAssumption ==
  /\ Diesel \notin Rows
  /\ {GroupWindow, RowLasts, DieselLasts, ReducedLasts, MaxLate, MaxPurchases} \subseteq Nat
  /\ GroupWindow < ReducedLasts /\ MaxLate < ReducedLasts
  /\ ReducedLasts <= RowLasts /\ RowLasts <= DieselLasts

Purchases == 1..MaxPurchases
NoFrame == -1

VARIABLES active,         \* the effects that are playing
          pendingDiesel,  \* mints that wait for the pump, oldest first
          frame,          \* how long ago the loop armed its timer, or NoFrame
          started,        \* startedRef: the effects the loop has played
          reducedMotion,
          requested,      \* purchases so far
          drawn           \* history: how often each purchase was drawn, alone or in a group

fxVars == <<active, pendingDiesel, frame, started, reducedMotion, requested, drawn>>

FxInit ==
  /\ active = {} /\ pendingDiesel = <<>>
  /\ frame = NoFrame /\ started = {}
  /\ reducedMotion \in BOOLEAN
  /\ requested = 0 /\ drawn = [n \in Purchases |-> 0]

Unfinished(effects) == {e \in effects : e.left > 0}
InWindow(effects) == {e \in effects : e.age <= GroupWindow}
PumpRuns(effects) == \E e \in effects : e.target = Diesel
DurationFor(target) == IF reducedMotion THEN ReducedLasts ELSE IF target = Diesel THEN DieselLasts ELSE RowLasts

Effect(n, target, burst) ==
  [id |-> n, target |-> target, age |-> 0, left |-> DurationFor(target), coinBurst |-> burst, buys |-> {n}]

(* The coins belong to whichever effect opens a window; what comes within it rides along. *)
Start_PerTarget(effects, n, target) ==
  effects \cup {Effect(n, target, \A e \in InWindow(effects) : e.target # target)}
Start(effects, n, target) ==
  effects \cup {Effect(n, target, InWindow(effects) = {})}

(* One pass of the loop: retire what has ended, start the next mint, play what is new. *)
Drain(effects, waiting) ==
  LET rest == Unfinished(effects)
      next == waiting # <<>> /\ ~PumpRuns(rest)
      playing == IF next THEN Start(rest, Head(waiting), Diesel) ELSE rest
      new == {e \in playing : e.id \notin started}
  IN /\ active' = playing
     /\ pendingDiesel' = IF next THEN Tail(waiting) ELSE waiting
     /\ drawn' = [n \in Purchases |-> drawn[n] + Cardinality({e \in new : n \in e.buys})]
     /\ IF playing = {} /\ pendingDiesel' = <<>>
        THEN frame' = NoFrame /\ started' = {}
        ELSE frame' = 0 /\ started' = started \cup {e.id : e \in new}

(* The queue tells its listener, which drains at once unless a drain is due anyway. *)
Notify(effects, waiting) ==
  IF frame = NoFrame THEN Drain(effects, waiting)
  ELSE active' = effects /\ pendingDiesel' = waiting /\ UNCHANGED <<frame, started, drawn>>

(* submit: a mint waits for the pump, a row joins its own effect, all else starts one. *)
Mint_Dropped(n, playing) ==
  IF PumpRuns(playing) THEN Notify(playing, pendingDiesel)
  ELSE Notify(Start(playing, n, Diesel), pendingDiesel)
Mint(n, playing) ==
  IF PumpRuns(playing) THEN Notify(playing, Append(pendingDiesel, n))
  ELSE Notify(Start(playing, n, Diesel), pendingDiesel)

Group(n, playing, row) ==
  LET existing == CHOOSE e \in InWindow(playing) : e.target = row
  IN /\ active' = (playing \ {existing}) \cup {[existing EXCEPT !.buys = @ \cup {n}]}
     /\ drawn' = [drawn EXCEPT ![n] = IF existing.id \in started THEN 1 ELSE 0]
     /\ UNCHANGED <<pendingDiesel, frame, started>>

(* The reducer applied a purchase; one it refused leaves no difference, and no intent. *)
Buy(target) ==
  LET playing == Unfinished(active)
      n == requested + 1
  IN /\ requested < MaxPurchases
     /\ requested' = n
     /\ IF target = Diesel THEN Mint(n, playing)
        ELSE IF \E e \in InWindow(playing) : e.target = target THEN Group(n, playing, target)
        ELSE Notify(Start(playing, n, target), pendingDiesel)
     /\ UNCHANGED reducedMotion

Loop == frame > 0 /\ Drain(active, pendingDiesel) /\ UNCHANGED <<reducedMotion, requested>>

Pass ==
  /\ frame \in 0 .. MaxLate - 1
  /\ frame' = frame + 1
  /\ active' = {[e EXCEPT !.age = @ + 1, !.left = @ - 1] : e \in active}
  /\ UNCHANGED <<pendingDiesel, started, reducedMotion, requested, drawn>>

(* The setting of the system is read live, and counts from the next effect on. *)
SetReducedMotion == reducedMotion' = ~reducedMotion /\ UNCHANGED <<active, pendingDiesel, frame, started, requested, drawn>>

FxNext == (\E target \in Rows \cup {Diesel} : Buy(target)) \/ Loop \/ Pass \/ SetReducedMotion

(* Time passes and timers fire; nothing is assumed of the player. *)
FxFairness == WF_fxVars(Loop) /\ WF_fxVars(Pass)

FxSpec == FxInit /\ [][FxNext]_fxVars /\ FxFairness

(* Feedback stays legible whatever is bought over whatever is playing, and     *)
(* whenever reduced motion is switched: one pump at a time, one handful of     *)
(* coins per window, nothing drawn twice, and a loop that runs exactly while   *)
(* there is something to play (purchase-fx-core.ts's submit and #start,        *)
(* purchase-fx.tsx's drain).                                                   *)
FeedbackIsOrderly ==
  /\ Cardinality({e \in active : e.target = Diesel}) <= 1
  /\ \A e, f \in active : e.coinBurst /\ f.coinBurst /\ e.age <= f.age /\ e # f => f.age - e.age > GroupWindow
  /\ \A n \in Purchases : drawn[n] <= 1
  /\ (frame # NoFrame) <=> (active # {} \/ pendingDiesel # <<>>)

(* Every applied purchase is drawn, a mint behind any number of pumps too.     *)
PurchasesAreDrawn == \A n \in Purchases : requested >= n ~> drawn[n] = 1

(* "It waits its turn": no mint plays before one pressed earlier. The code     *)
(* does not keep this. A mint pressed after the pump has ended and before the  *)
(* loop's next pass starts at once, ahead of those that wait.                  *)
MintsPlayInTurn == \A e \in active : e.target = Diesel => \A i \in DOMAIN pendingDiesel : e.id < pendingDiesel[i]
=============================================================================
