----------------------------- MODULE Ascension -----------------------------
(***************************************************************************)
(* What survives a run: an ascension turns its cookies into points, the    *)
(* points buy nodes of the reborn tree, and the tree says what the next    *)
(* run starts with, how much of the shelf it keeps and how many upgrades   *)
(* may be pinned to it.                                                    *)
(***************************************************************************)
EXTENDS Shop

CONSTANTS
  Trillion,      \* lifetime cookies worth the first point
  StartCookies,  \* what each node of the inheritance starts a run with
  MaxPoints      \* bound on the points an ascension may earn or lead to

ASSUME AscensionAssumption == Trillion \in Nat \ {0} /\ MaxPoints \in Nat /\ StartCookies \in [1..4 -> Nat]

VARIABLE
  prestige       \* points, count of ascensions, upgrades pinned, nodes owned

Node(cost, needs, kind, by) == [cost |-> cost, needs |-> needs, kind |-> kind, by |-> by]

RebornNodes ==
  [ lucky_pocket      |-> Node(1, {}, "start", StartCookies[1]),
    red_packet        |-> Node(5, {"lucky_pocket"}, "start", StartCookies[2]),
    family_vault      |-> Node(25, {"red_packet"}, "start", StartCookies[3]),
    ancestral_estate  |-> Node(120, {"family_vault"}, "start", StartCookies[4]),
    second_wind       |-> Node(3, {}, "cps", 125),
    heavenly_dough    |-> Node(15, {"second_wind"}, "cps", 150),
    borrowed_hands    |-> Node(8, {"second_wind"}, "click", 2),
    thousand_lives    |-> Node(60, {"heavenly_dough"}, "cps", 200),
    past_hands        |-> Node(90, {"borrowed_hands"}, "click", 3),
    dog_eared         |-> Node(4, {}, "retain", 10),
    annotated         |-> Node(20, {"dog_eared"}, "retain", 15),
    memorised         |-> Node(80, {"annotated"}, "retain", 25),
    pinned_recipe     |-> Node(10, {"dog_eared"}, "slots", 1),
    pinned_shelf      |-> Node(45, {"pinned_recipe"}, "slots", 2),
    pinned_kitchen    |-> Node(200, {"pinned_shelf"}, "slots", 3) ]

NodesOf(kind) == {n \in prestige.nodes : RebornNodes[n].kind = kind}
TotalOf(kind) == Sum([n \in NodesOf(kind) |-> RebornNodes[n].by])

StartingCookies == Max({0} \cup {RebornNodes[n].by : n \in NodesOf("start")})
RetainPercent == Min({100, TotalOf("retain")})
PermanentSlots == TotalOf("slots")
PointsSpent(nodes) == Sum([n \in nodes |-> RebornNodes[n].cost])

(* the whole cube root of the lifetime in trillions *)
AscensionValue(n) == Max({p \in 0..MaxPoints : p * p * p * Trillion <= n})

CanPrestige == lifetime >= Trillion

-----------------------------------------------------------------------------
(* the retained share of what is not pinned: the latest bought first, and of those bought at the *)
(* same click the first                                                                          *)
Unpinned == OwnedUpgrades \ prestige.pinned
Ahead(u, v) ==
  \/ shelf[u].at > shelf[v].at
  \/ shelf[u].at = shelf[v].at /\ shelf[u].nth < shelf[v].nth

Retained_Oldest ==
  LET keep == (Cardinality(Unpinned) * RetainPercent) \div 100
  IN {u \in Unpinned : Cardinality({v \in Unpinned : shelf[v].nth < shelf[u].nth}) < keep}

Retained ==
  LET keep == (Cardinality(Unpinned) * RetainPercent) \div 100
  IN {u \in Unpinned : Cardinality({v \in Unpinned : Ahead(v, u)}) < keep}

Survivors_OnlyRetained == Retained

Survivors == (OwnedUpgrades \cap prestige.pinned) \cup Retained

(* the shelf with only these left on it *)
Only(kept) ==
  [u \in kept |-> [at |-> shelf[u].at, nth |-> Cardinality({v \in kept : shelf[v].nth <= shelf[u].nth})]]

(* performPrestige: everything it does not name is left as it was *)
Prestige ==
  /\ CanPrestige
  /\ prestige' = [prestige EXCEPT !.points = @ + AscensionValue(lifetime), !.count = @ + 1]
  /\ prestige'.points <= MaxPoints
  /\ jar' = [jar EXCEPT !.cookies = StartingCookies]
  /\ lifetime' = StartingCookies
  /\ generators' = [g \in DOMAIN generators |-> 0]
  /\ shelf' = Only(Survivors)
  /\ WithAchievements(wallet, jar')
  /\ UNCHANGED <<clock, clicks, tools, progression>>

(* canBuyRebornNode *)
CanReborn(n) ==
  /\ n \notin prestige.nodes
  /\ RebornNodes[n].needs \subseteq prestige.nodes
  /\ prestige.points >= RebornNodes[n].cost

BuyRebornNode(n) ==
  /\ CanReborn(n)
  /\ prestige' = [prestige EXCEPT !.points = @ - RebornNodes[n].cost, !.nodes = @ \cup {n}]
  /\ WithAchievements(wallet, jar)
  /\ UNCHANGED <<clock, jar, lifetime, clicks, generators, shelf, tools, progression>>

(* handleSetPermanentUpgrade *)
Pin(u) ==
  /\ u \notin prestige.pinned /\ u \in OwnedUpgrades
  /\ Cardinality(prestige.pinned) < PermanentSlots
  /\ prestige' = [prestige EXCEPT !.pinned = @ \cup {u}]

Unpin(u) ==
  /\ u \in prestige.pinned
  /\ prestige' = [prestige EXCEPT !.pinned = @ \ {u}]

AscensionNext ==
  \/ Prestige
  \/ \E n \in DOMAIN RebornNodes : BuyRebornNode(n)
  \/ (\E u \in DOMAIN Upgrades : Pin(u) \/ Unpin(u)) /\ UNCHANGED shopVars

-----------------------------------------------------------------------------
(* A pin is a promise: whatever is pinned is on the shelf, through every ascension, and no more  *)
(* is pinned than the tree has slots for.                                                        *)
PinnedIsOwned ==
  /\ prestige.pinned \subseteq OwnedUpgrades
  /\ Cardinality(prestige.pinned) <= PermanentSlots

(* A node is never owned without the node below it, and every point the ascensions earned is     *)
(* still there or was spent on a node: nothing is refunded and nothing is paid with points twice. *)
TreeIsClosed == \A n \in prestige.nodes : RebornNodes[n].needs \subseteq prestige.nodes
Worth(p) == p.points + PointsSpent(p.nodes)
PointsAreKept ==
  [][ /\ TreeIsClosed'
      /\ Worth(prestige') = Worth(prestige) + (IF prestige'.count = prestige.count THEN 0 ELSE AscensionValue(lifetime))
    ]_prestige

(* What an ascension drops of the shelf is never dearer to the run than what it keeps: nothing    *)
(* kept unpinned was bought at an earlier click than something dropped.                            *)
RetainedAreRecent ==
  [][\A u \in Unpinned, v \in Unpinned :
       u \in DOMAIN shelf' /\ v \notin DOMAIN shelf' => shelf[u].at >= shelf[v].at]_prestige

(* An ascension keeps what it says it keeps: the points and the recent share of the shelf         *)
(* (reducer.ts#handlePrestige, prestige.ts#retainedUpgrades).                                     *)
AscensionKeepsItsWord == PointsAreKept /\ RetainedAreRecent

=============================================================================
