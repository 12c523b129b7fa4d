----------------------------- MODULE Minigames -----------------------------
(***************************************************************************)
(* The mini-games: at most one board holds the stage, active or minimized; *)
(* the scheduler starts one when its time has come, the player at any time.*)
(* What is on a board is left out.  A completed board pays golden tokens.  *)
(***************************************************************************)
EXTENDS Counter

CONSTANTS
  MinigameIds,
  GameDelays,    \* how long until the scheduler starts the next one
  Grade,         \* what a completed board pays, from 1 to 5
  DayLength,     \* units of time in a day
  Rewards,       \* what a lucky draw may win
  BundleSmall, BundleLarge   \* cookies of the two bundles

ASSUME MinigamesAssumption ==
  /\ IsFiniteSet(MinigameIds) /\ GameDelays \subseteq Nat \ {0} /\ Grade \in 1..5 /\ DayLength \in Nat \ {0}
  /\ Rewards \subseteq {"cookie_bundle_small", "cookie_bundle_large", "timed_boost", "raid_supplies", "rare_cosmetic"}
  /\ BundleSmall \in Nat /\ BundleLarge \in Nat

VARIABLE games   \* active: id and status; completed; schedule: when the next one starts

NoGame == [id |-> "none", status |-> "none"]
NoSchedule == 0

OccupiesStage(board) == board.status \in {"active", "minimized"}

(* an existing time in the future is kept *)
NextSchedules(now) ==
  IF games.schedule > now THEN {games.schedule} ELSE {now + d : d \in GameDelays}

Started(g, id, schedule) == [g EXCEPT !.active = [id |-> id, status |-> "active"], !.schedule = schedule]

MinigameStart(id) ==
  /\ MinigamesUnlocked(jar) /\ ~OccupiesStage(games.active)
  /\ \E s \in NextSchedules(clock) : games' = Started(games, id, s)
  /\ UNCHANGED <<clock, jar, achieved, wallet>>

MinigameMinimize ==
  /\ MinigamesUnlocked(jar) /\ games.active.status = "active"
  /\ games' = [games EXCEPT !.active.status = "minimized"]
  /\ UNCHANGED <<clock, jar, achieved, wallet>>

MinigameResume ==
  /\ MinigamesUnlocked(jar) /\ games.active.status = "minimized"
  /\ games' = [games EXCEPT !.active.status = "active"]
  /\ UNCHANGED <<clock, jar, achieved, wallet>>

(* any board that was ever started may be dealt anew *)
MinigameRestart ==
  /\ MinigamesUnlocked(jar) /\ games.active # NoGame
  /\ games' = [games EXCEPT !.active.status = "active"]
  /\ UNCHANGED <<clock, jar, achieved, wallet>>

MinigameAbandon ==
  /\ MinigamesUnlocked(jar)
  /\ \E s \in NextSchedules(clock) :
       games' = IF games.active = NoGame THEN [games EXCEPT !.schedule = s]
                ELSE [games EXCEPT !.active.status = "abandoned", !.schedule = s]
  /\ UNCHANGED <<clock, jar, achieved, wallet>>

(* the grade pays once per board and instant; every third kind of board pays a chain bonus once *)
ChainKeys(done) == IF Cardinality(done) > 0 /\ Cardinality(done) % 3 = 0 THEN {<<"three", Cardinality(done)>>} ELSE {}

MinigameComplete ==
  /\ MinigamesUnlocked(jar) /\ games.active # NoGame
  /\ LET done == games.completed \cup {games.active.id}
     IN /\ \E s \in NextSchedules(clock) :
             games' = [games EXCEPT !.active.status = "completed", !.completed = done, !.schedule = s]
        /\ wallet' = Awarded(Awarded(wallet, {<<"grade", games.active.id, clock>>}, Grade), ChainKeys(done), 2)
  /\ UNCHANGED <<clock, jar, achieved>>

DailyObjective ==
  /\ MinigamesUnlocked(jar)
  /\ wallet' = Awarded(wallet, {<<"daily", clock \div DayLength>>}, 2)
  /\ UNCHANGED <<clock, jar, achieved, games>>

(* on a tick the scheduler seeds its clock, and starts a board that is due on a free stage *)
GamesTick(now, j, stageTaken) ==
  IF ~MinigamesUnlocked(j) THEN UNCHANGED games
  ELSE \E seeded \in (IF games.schedule = NoSchedule THEN NextSchedules(now) ELSE {games.schedule}) :
         IF stageTaken \/ OccupiesStage(games.active) \/ now < seeded
         THEN games' = [games EXCEPT !.schedule = seeded]
         ELSE \E id \in MinigameIds, d \in GameDelays : games' = Started(games, id, now + d)

(* a draw costs a token and wins a reward not won before, while there is one *)
DrawPool == IF Rewards \ wallet.claimed = {} THEN Rewards ELSE Rewards \ wallet.claimed

Drawn(w, r) == [w EXCEPT !.balance = @ - 1, !.draws = @ + 1, !.claimed = @ \cup {r}]

BundleOf(r) ==
  CASE r = "cookie_bundle_small" -> BundleSmall
    [] r = "cookie_bundle_large" -> BundleLarge
    [] OTHER -> 0

GamesNext ==
  \/ \E id \in MinigameIds : MinigameStart(id)
  \/ MinigameMinimize \/ MinigameResume \/ MinigameRestart \/ MinigameAbandon
  \/ MinigameComplete
  \/ DailyObjective

=============================================================================
