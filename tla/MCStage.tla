------------------------------ MODULE MCStage ------------------------------
(* Instances of Stage for TLC: each save brings some of the actors on.     *)
EXTENDS Stage, TLC

CONSTANT Scenes

Never == MaxClock + 1
Nothing == [c \in Consumables |-> 0]
Save(start, cookies, baked, goldenAt, poolAt, raidAt, gameAt, stock) ==
  [clock |-> start, cookies |-> cookies, baked |-> baked, golden |-> goldenAt, pool |-> poolAt, raid |-> raidAt,
   game |-> gameAt, stock |-> stock]

MCChallenges ==
  {[family |-> "dial", rounds |-> 2, presses |-> 1, window |-> 0],
   [family |-> "mash", rounds |-> 1, presses |-> 2, window |-> 0],
   [family |-> "sequence", rounds |-> 1, presses |-> 2, window |-> 0]}
Boards == Permutations(MinigameIds)
MCTiers == <<[cap |-> 1, cost |-> 0], [cap |-> 2, cost |-> 15]>>

MCSaves ==
  UNION {CASE s = "golden" -> {Save(1, 0, 0, 2, Never, Never, 0, Nothing)}
           [] s = "pool"   -> {Save(MaxClock - 4, 0, 0, g, MaxClock - 3, Never, 0, Nothing) : g \in {0, Never}}
                              \cup {Save(MaxClock - 4, 0, 0, 0, 0, Never, 0, Nothing)}
           [] s = "raid"   -> {Save(MaxClock - 4, 60, RaidsFrom, Never, Never, MaxClock - 3, Never, [Nothing EXCEPT ![c] = 1])
                                : c \in Consumables}
                              \cup {Save(MaxClock - 4, RaidMinCookies, RaidsFrom, Never, MaxClock - 1, MaxClock - 3, Never, Nothing),
                                    Save(MaxClock - 4, 60, RaidsFrom, Never, Never, 0, Never, Nothing)}
           [] s = "board"  -> {Save(MaxClock - 1, 0, MinigamesFrom, g, MaxClock, Never, MaxClock, Nothing) : g \in {MaxClock, Never}}
           [] s = "chain"  -> {Save(MaxClock, 0, MinigamesFrom, Never, Never, Never, 0, Nothing)}
           : s \in Scenes}
=============================================================================
