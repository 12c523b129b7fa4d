------------------------------ MODULE Counter ------------------------------
(***************************************************************************)
(* What every handler of the reducer shares: the clock it reads once, the  *)
(* cookie jar it pays into or takes from, and the golden tokens, which are *)
(* awarded once per key.  An amount of cookies is a small natural number.  *)
(***************************************************************************)
EXTENDS Integers, FiniteSets

CONSTANTS
  Rate,          \* cookies baked in a unit of time
  MinigamesFrom, \* cookies ever baked from which minigames are unlocked
  RaidsFrom,     \* cookies ever baked from which mouse raids are unlocked
  Milestones,    \* the achievements: cookies ever baked
  MaxClock       \* bound on the clock

ASSUME CounterAssumption ==
  /\ Rate \in Nat /\ MaxClock \in Nat
  /\ MinigamesFrom \in Nat /\ RaidsFrom \in Nat
  /\ Milestones \subseteq Nat /\ IsFiniteSet(Milestones)

VARIABLES
  clock,         \* the unit of time it is
  jar,           \* cookies: what may be spent; baked: all there ever were
  achieved,      \* the milestones reached
  wallet         \* balance of golden tokens, awards made, rewards claimed, draws

counterVars == <<clock, jar, achieved, wallet>>

Jar == [cookies : Nat, baked : Nat]

(* addCookies, and a purchase or a theft clamped at an empty jar *)
Earned(j, n) == [j EXCEPT !.cookies = @ + n, !.baked = @ + n]
Less(j, n) == [j EXCEPT !.cookies = IF n > @ THEN 0 ELSE @ - n]

MinigamesUnlocked(j) == j.baked >= MinigamesFrom
RaidsUnlocked(j) == j.baked >= RaidsFrom

(* awards, each paid once per key *)
Awarded_NoKey(w, keys, amount) ==
  [w EXCEPT !.balance = @ + amount * Cardinality(keys), !.awards = @ \cup keys]

Awarded(w, keys, amount) ==
  [w EXCEPT !.balance = @ + amount * Cardinality(keys \ w.awards), !.awards = @ \cup keys]

(* every handler ends with this: the milestones the new jar reaches, each worth a token *)
Reached(j) == {m \in Milestones : j.baked >= m}

WithAchievements(w, j) ==
  /\ achieved' = achieved \cup Reached(j)
  /\ wallet' = Awarded(w, {<<"milestone", m>> : m \in Reached(j) \ achieved}, 1)

=============================================================================
