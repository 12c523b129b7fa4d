---------------------------- MODULE DieselExchange ----------------------------
(***************************************************************************)
(* The diesel exchange end to end: the game's depot (the reducer's         *)
(* dieselDepot and the tanks it draws on), the save that carries it from   *)
(* one launch to the next, the provider's observer that turns a growth of  *)
(* litresMinted into a mint request, and the ledger service that answers.  *)
(*                                                                         *)
(* The observer compares the state before and after EVERY notification of  *)
(* the store, loads and replacements included; a request that is sent is a *)
(* step of DieselLedger.  Tanks are counted in whole litres.               *)
(*                                                                         *)
(* An operator whose name ends in an underscore and a word is a mutated    *)
(* form of the definition after it and is used by nothing here.            *)
(***************************************************************************)
EXTENDS DieselLedger, Sums

CONSTANTS
    TankCapacity,  \* whole litres the tanks hold
    MaxMade,       \* bound: litres ever manufactured by one run
    MaxLaunches    \* bound: how often the game is started

ASSUME ExchangeAssumption ==
    /\ TankCapacity \in Nat /\ MaxMade \in Nat /\ MaxLaunches \in Nat
    /\ 1 .. MaxMade \subseteq Litres

VARIABLES
    open,       \* a window runs the game
    depot,      \* the live state: litres made, in the tanks, and litresMinted
    savedDepot, \* the same, as last saved
    archived,   \* the same, as committed by the last deletion
    launches,   \* how often the game was started
    shipped,    \* litres the reducer shipped, over all runs (ghost)
    resent      \* litres a load or a restore made litresMinted grow by (ghost)

sessionVars == <<open, depot, savedDepot, archived, launches, shipped, resent>>

exchangeVars == <<ledgerVars, sessionVars>>

Depot == [made : 0 .. MaxMade, tank : 0 .. TankCapacity, minted : 0 .. MaxMade]

FreshDepot == [made |-> 0, tank |-> 0, minted |-> 0]

ExchangeTypeOK ==
    /\ LedgerTypeOK
    /\ open \in BOOLEAN
    /\ depot \in Depot /\ savedDepot \in Depot /\ archived \in Depot
    /\ launches \in 0 .. MaxLaunches
    /\ shipped \in Nat /\ resent \in Nat

ExchangeInit ==
    /\ LedgerInit
    /\ open = FALSE
    /\ depot = FreshDepot /\ savedDepot = FreshDepot /\ archived = FreshDepot
    /\ launches = 0
    /\ shipped = 0 /\ resent = 0

-----------------------------------------------------------------------------
(* The observer: the store notified a change from one depot to another.    *)
Observe_Total(from, to) ==
    IF to.minted > from.minted
    THEN \E c \in Calls : MintRequest(c, to.minted)
    ELSE UNCHANGED ledgerVars

Observe(from, to) ==
    IF to.minted > from.minted
    THEN \E c \in Calls : MintRequest(c, to.minted - from.minted)
    ELSE UNCHANGED ledgerVars

Growth(from, to) == IF to.minted > from.minted THEN to.minted - from.minted ELSE 0

(* The store's state becomes d, and its listeners are told.                *)
Becomes(d) == depot' = d /\ Observe(depot, d)

(* The process starts with a fresh store; the observer is subscribed in    *)
(* the same commit, before the awaited load resolves and imports the save. *)
Launch ==
    /\ ~open /\ launches < MaxLaunches
    /\ open' = TRUE
    /\ launches' = launches + 1
    /\ depot' = savedDepot
    /\ Observe(FreshDepot, savedDepot)
    /\ resent' = resent + Growth(FreshDepot, savedDepot)
    /\ UNCHANGED <<savedDepot, archived, shipped>>

(* A tick refines one more litre into a tank with room for it.             *)
Manufacture ==
    /\ open
    /\ depot.made < MaxMade /\ depot.tank < TankCapacity
    /\ Becomes([depot EXCEPT !.made = @ + 1, !.tank = @ + 1])
    /\ UNCHANGED <<open, savedDepot, archived, launches, shipped, resent>>

(* shipFromTanks: whole litres the tanks really hold.                      *)
shipFromTanks(litres) ==
    /\ litres > 0 /\ litres <= depot.tank
    /\ Becomes([depot EXCEPT !.tank = @ - litres, !.minted = @ + litres])
    /\ shipped' = shipped + litres

(* The player presses Ship.                                                *)
ShipPressed ==
    /\ open
    /\ \E litres \in 1 .. MaxMade : shipFromTanks(litres)
    /\ UNCHANGED <<open, savedDepot, archived, launches, resent>>

(* An automation ships everything on a tick.                               *)
AutoShip ==
    /\ open
    /\ shipFromTanks(depot.tank)
    /\ UNCHANGED <<open, savedDepot, archived, launches, resent>>

Autosave_TanksOnly ==
    /\ open
    /\ savedDepot' = [savedDepot EXCEPT !.tank = depot.tank]
    /\ UNCHANGED <<ledgerVars, open, depot, archived, launches, shipped, resent>>

Autosave ==
    /\ open
    /\ savedDepot' = depot
    /\ UNCHANGED <<ledgerVars, open, depot, archived, launches, shipped, resent>>

(* Deleting all progress archives the save, clears it and replaces the     *)
(* state; litresMinted falls, and the observer is silent.                  *)
DeleteProgress ==
    /\ open
    /\ archived' = depot
    /\ savedDepot' = FreshDepot
    /\ Becomes(FreshDepot)
    /\ UNCHANGED <<open, launches, shipped, resent>>

(* Restoring puts the archived state back and saves it.                    *)
RestoreProgress ==
    /\ open
    /\ archived # FreshDepot
    /\ savedDepot' = archived
    /\ Becomes(archived)
    /\ resent' = resent + Growth(depot, archived)
    /\ UNCHANGED <<open, archived, launches, shipped>>

(* The window closes; a mint already handed to the main process goes on.   *)
Close ==
    /\ open
    /\ open' = FALSE
    /\ depot' = FreshDepot
    /\ UNCHANGED <<ledgerVars, savedDepot, archived, launches, shipped, resent>>

(* Or the whole application dies.                                          *)
Die ==
    /\ open
    /\ open' = FALSE
    /\ depot' = FreshDepot
    /\ LedgerCrash
    /\ UNCHANGED <<savedDepot, archived, launches, shipped, resent>>

LedgerStep ==
    /\ \/ \E c \in Calls : MintStep(c)
       \/ \E i \in DOMAIN ledger : WinForgeRead(i)
       \/ WinForgeRename
    /\ UNCHANGED sessionVars

ExchangeNext ==
    \/ Launch \/ Manufacture \/ ShipPressed \/ AutoShip \/ Autosave
    \/ DeleteProgress \/ RestoreProgress
    \/ Close \/ Die
    \/ LedgerStep

ExchangeSpec == ExchangeInit /\ [][ExchangeNext]_exchangeVars

-----------------------------------------------------------------------------
LitresAsked == Sum(asked)

LitresInLedger == Sum([i \in DOMAIN ledger |-> ledger[i].litres])

(* Every litre a run has made is in its tanks or on a voucher it minted,   *)
(* in the live state, in the save and in the archive alike.                *)
LitresAreConserved ==
    \A d \in {depot, savedDepot, archived} : d.made = d.tank + d.minted

(* The observer asks for exactly the growth it sees: every shipment,       *)
(* pressed or automatic, and every growth a load or a restore shows it.    *)
EveryGrowthIsAskedFor == LitresAsked = shipped + resent

(* And what it asks for reaches the ledger at most once, however mints,    *)
(* crashes and WinForge's writes interleave with play.                     *)
LedgerNeverExceedsRequests == LitresInLedger <= shipped + resent

(* A growth of litresMinted is asked for, and minted at most once.         *)
GrowthIsMintedOnce == EveryGrowthIsAskedFor /\ LedgerNeverExceedsRequests

(* "The depot cannot ship a litre the tanks do not hold": the ledger never *)
(* carries more litres than were shipped.                                  *)
LedgerOnlyCarriesShipments == LitresInLedger <= shipped

=============================================================================
