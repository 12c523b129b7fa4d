-------------------------- MODULE ControlUnlocks ---------------------------
(***************************************************************************)
(* The controls of the window are for sale, rung by rung.  A save written  *)
(* by an older version is given what that version had for nothing, when it *)
(* was played.  A rung is its control and its place on the ladder.         *)
(***************************************************************************)
EXTENDS Shop, Sequences

CONSTANTS
  Sold,          \* the controls on sale, of those below: a bound
  GrantAbove     \* lifetime cookies above which a save was played

VARIABLES
  rungs,         \* the rungs owned
  version        \* the version the save was written by

Latest == 9

(* the prices of each control's rungs *)
Ladders ==
  [ close |-> <<1>>, openItNow |-> <<75>>, drag |-> <<10>>, minimize |-> <<30>>, maximize |-> <<45, 320>>,
    resize |-> <<75>>, settings |-> <<25>>, language |-> <<60>>, languageYue |-> <<40>>, languageBoth |-> <<90>>,
    funnyEn |-> <<35>>, funnyYue |-> <<35>>, searchGenerators |-> <<50, 400, 1500>>,
    searchUpgrades |-> <<50, 400, 1500>>, searchAchievements |-> <<50, 400, 1500>>, searchTools |-> <<50, 400, 1500>>,
    regex |-> <<4000, 12000>>, stepper |-> <<120, 900, 6000>>, bulk |-> <<200, 1200>>,
    toolProgression |-> <<300>>, autoShip |-> <<2500>>, look |-> <<50, 250, 750, 1800, 4000, 8000, 15000>> ]

ASSUME ControlAssumption == GrantAbove \in Nat /\ Sold \subseteq DOMAIN Ladders

RungsOf(controls) == UNION {{<<c, i>> : i \in 1..Len(Ladders[c])} : c \in controls}

(* the frozen lists: what each version put a price on *)
Grandfathered ==
  [v \in 6..Latest |->
     CASE v = 6 -> RungsOf(DOMAIN Ladders \ {"settings", "languageYue", "languageBoth", "regex", "look"})
       [] v = 7 -> RungsOf({"settings", "languageYue", "languageBoth"})
       [] v = 8 -> {<<"regex", 1>>}
       [] v = 9 -> RungsOf({"look"})]

FreeBefore(v) == UNION {Grandfathered[w] : w \in (v + 1)..Latest}

CanBuyRung_AnyPlace(rung) == rung \notin rungs

CanBuyRung(rung) == rung \notin rungs /\ (rung[2] > 1 => <<rung[1], rung[2] - 1>> \in rungs)

BuyControlUnlock(rung) ==
  /\ CanBuyRung(rung)
  /\ Pay(Ladders[rung[1]][rung[2]])
  /\ rungs' = rungs \cup {rung}
  /\ UNCHANGED <<clock, clicks, generators, shelf, tools, progression, version>>

(* migrateToLatest: the steps from the save's version to this one, each granting on its own *)
Migrate ==
  /\ version < Latest /\ version' = Latest
  /\ rungs' = rungs \cup (IF lifetime > GrantAbove THEN FreeBefore(version) ELSE {})
  /\ UNCHANGED shopVars

ControlsNext ==
  \/ version = Latest /\ \E rung \in RungsOf(Sold) : BuyControlUnlock(rung)
  \/ Migrate

-----------------------------------------------------------------------------
(* No rung is owned without the one below it, whatever was bought, and whatever the migrations    *)
(* of several versions gave to a save on top of what it had bought.                               *)
LadderHasNoHoles == \A rung \in rungs : rung[2] > 1 => <<rung[1], rung[2] - 1>> \in rungs

=============================================================================
