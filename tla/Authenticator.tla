--------------------------- MODULE Authenticator -----------------------------
(* The handlers of the security screen. Each reads a whole file, awaits, and   *)
(* writes the whole file back: the list of entries, the vault of their         *)
(* secrets, and the index of the history. Nothing keeps two of them apart.     *)
EXTENDS Integers, Sequences, SequencesExt

CONSTANTS Calls,              \* one call of a handler each; an import's entry is named after it
          NoCall,             \* a schedule that was never saved
          RecordsKept,        \* 500 in the code
          MaxTroubles         \* steps that throw and crashes together

ASSUME AuthenticatorAssumption ==
  NoCall \notin Calls /\ RecordsKept \in Nat \ {0} /\ MaxTroubles \in Nat

VARIABLES listed,    \* the entries of totp-metadata.json
          secrets,   \* the entries with a secret in credential-vault.json
          schedule,  \* the call whose rule scheduled-settings.json holds
          committed, \* the calls with a commit in the local history
          trail,     \* history-index.json, oldest first
          call,      \* per call: what it does, how far it is and the copies it holds
          alone,     \* history: calls that no other call has overlapped so far
          troubles

authVars == <<listed, secrets, schedule, committed, trail, call, alone, troubles>>

Kinds == {"import", "delete", "schedule", "export"}
Running == {"vault", "write", "list", "commit", "index", "trail"}
Ended == {"recorded", "unrecorded", "refused", "lost"}

Idle == [at |-> "idle", does |-> "export", names |-> {}, todo |-> {}, list |-> {}, vault |-> {}, index |-> <<>>]

AuthInit ==
  /\ listed = {} /\ secrets = {} /\ schedule = NoCall
  /\ committed = {} /\ trail = <<>>
  /\ call = [c \in Calls |-> Idle]
  /\ alone = {}
  /\ troubles = 0

Under == {c \in Calls : call[c].at \in Running}
Enters(c) == alone' = IF Under = {} THEN alone \cup {c} ELSE alone \ Under

At(c, where) == call' = [call EXCEPT ![c].at = where]
Ends(c, how) == [call[c] EXCEPT !.at = how, !.todo = {}, !.vault = {}, !.index = <<>>]

(* A handler is called. Imports and deletions read the list first; a schedule  *)
(* is written at once, and an export writes a file of the player's choice.     *)
Import(c) ==
  /\ call[c].at = "idle"
  /\ Enters(c)
  /\ call' = [call EXCEPT ![c] = [Idle EXCEPT !.at = "vault", !.does = "import", !.list = listed]]
  /\ UNCHANGED <<listed, secrets, schedule, committed, trail, troubles>>

Delete(c, names) ==
  /\ call[c].at = "idle"
  /\ Enters(c)
  /\ call' = [call EXCEPT ![c] = [Idle EXCEPT !.at = IF names \cap listed = {} THEN "list" ELSE "vault",
                !.does = "delete", !.names = names, !.todo = names \cap listed, !.list = listed]]
  /\ UNCHANGED <<listed, secrets, schedule, committed, trail, troubles>>

SaveSchedule(c) ==
  /\ call[c].at = "idle"
  /\ Enters(c)
  /\ call' = [call EXCEPT ![c] = [Idle EXCEPT !.at = "commit", !.does = "schedule"]]
  /\ schedule' = c
  /\ UNCHANGED <<listed, secrets, committed, trail, troubles>>

ExportText(c) ==
  /\ call[c].at = "idle"
  /\ Enters(c)
  /\ call' = [call EXCEPT ![c] = [Idle EXCEPT !.at = "commit"]]
  /\ UNCHANGED <<listed, secrets, schedule, committed, trail, troubles>>

ReadVault(c) ==
  /\ call[c].at = "vault"
  /\ call' = [call EXCEPT ![c].at = "write", ![c].vault = secrets]
  /\ UNCHANGED <<listed, secrets, schedule, committed, trail, alone, troubles>>

(* An import puts its secret; a deletion takes out one secret after the other. *)
PutSecret(c) ==
  /\ call[c].at = "write" /\ call[c].does = "import"
  /\ secrets' = call[c].vault \cup {c}
  /\ call' = [call EXCEPT ![c].at = "list", ![c].vault = {}]
  /\ UNCHANGED <<listed, schedule, committed, trail, alone, troubles>>

DropSecret(c) ==
  /\ call[c].at = "write" /\ call[c].does = "delete"
  /\ \E entry \in call[c].todo :
       /\ secrets' = call[c].vault \ {entry}
       /\ call' = [call EXCEPT ![c].todo = @ \ {entry}, ![c].vault = {},
                               ![c].at = IF call[c].todo = {entry} THEN "list" ELSE "vault"]
  /\ UNCHANGED <<listed, schedule, committed, trail, alone, troubles>>

(* The list as it was read when the handler was called, with the change made. *)
WriteList_Fresh(c) ==
  /\ call[c].at = "list"
  /\ listed' = IF call[c].does = "import" THEN {c} ELSE call[c].list \ call[c].names
  /\ At(c, "commit")
  /\ UNCHANGED <<secrets, schedule, committed, trail, alone, troubles>>
WriteList(c) ==
  /\ call[c].at = "list"
  /\ listed' = IF call[c].does = "import" THEN call[c].list \cup {c} ELSE call[c].list \ call[c].names
  /\ At(c, "commit")
  /\ UNCHANGED <<secrets, schedule, committed, trail, alone, troubles>>

(* recordSecurityHistory: the commit first, then the index is read and written. *)
Commit(c) ==
  /\ call[c].at = "commit"
  /\ committed' = committed \cup {c}
  /\ At(c, "index")
  /\ UNCHANGED <<listed, secrets, schedule, trail, alone, troubles>>

ReadIndex(c) ==
  /\ call[c].at = "index"
  /\ call' = [call EXCEPT ![c].at = "trail", ![c].index = trail]
  /\ UNCHANGED <<listed, secrets, schedule, committed, trail, alone, troubles>>

Newest(records) == IF Len(records) > RecordsKept THEN Tail(records) ELSE records
WriteIndex(c) ==
  /\ call[c].at = "trail"
  /\ trail' = Newest(Append(call[c].index, c))
  /\ call' = [call EXCEPT ![c].at = "recorded", ![c].index = <<>>]
  /\ UNCHANGED <<listed, secrets, schedule, committed, alone, troubles>>

(* A step that throws: the caller is told, except of the history's failures. *)
Refused(c) ==
  /\ troubles < MaxTroubles /\ call[c].at \in {"vault", "write", "list"}
  /\ troubles' = troubles + 1
  /\ call' = [call EXCEPT ![c] = Ends(c, "refused")]
  /\ UNCHANGED <<listed, secrets, schedule, committed, trail, alone>>

HistoryFails(c) ==
  /\ troubles < MaxTroubles /\ call[c].at \in {"commit", "index", "trail"}
  /\ troubles' = troubles + 1
  /\ call' = [call EXCEPT ![c] = Ends(c, "unrecorded")]
  /\ UNCHANGED <<listed, secrets, schedule, committed, trail, alone>>

(* The process ends: whole files stay as the last rename left them. *)
Crash ==
  /\ troubles < MaxTroubles /\ Under # {}
  /\ troubles' = troubles + 1
  /\ call' = [c \in Calls |-> IF c \in Under THEN Ends(c, "lost") ELSE call[c]]
  /\ UNCHANGED <<listed, secrets, schedule, committed, trail, alone>>

(* What the screen can name: entries whose import has written the list. *)
Imported == {c \in Calls : call[c].does = "import" /\ call[c].at \notin {"vault", "write", "list", "refused"}}

AuthNext ==
  \/ \E c \in Calls :
       \/ Import(c)
       \/ \E names \in SUBSET Imported : Delete(c, names)
       \/ SaveSchedule(c)
       \/ ExportText(c)
       \/ ReadVault(c)
       \/ PutSecret(c)
       \/ DropSecret(c)
       \/ WriteList(c)
       \/ Commit(c)
       \/ ReadIndex(c)
       \/ WriteIndex(c)
       \/ Refused(c)
       \/ HistoryFails(c)
  \/ Crash

AuthSpec == AuthInit /\ [][AuthNext]_authVars

CallState == [at : Running \cup Ended \cup {"idle"}, does : Kinds, names : SUBSET Calls, todo : SUBSET Calls,
              list : SUBSET Calls, vault : SUBSET Calls, index : Seq(Calls)]
AuthTypeOK ==
  /\ listed \subseteq Calls /\ secrets \subseteq Calls /\ committed \subseteq Calls /\ alone \subseteq Calls
  /\ trail \in Seq(Calls)
  /\ call \in [Calls -> CallState]

Answered(c) == call[c].at \in {"recorded", "unrecorded"}
Untouched(c) == \A d \in Calls : c \notin call[d].names

(* An entry whose import was answered and overlapped no other call stays       *)
(* listed, and its secret stays in the vault, until a deletion names it: later *)
(* calls may overlap one another, fail and be cut off by a crash as they like. *)
ImportedAloneIsKept ==
  \A c \in alone : call[c].does = "import" /\ Answered(c) /\ Untouched(c) => c \in listed \cap secrets

(* An entry that a deletion found listed, and removed without another call     *)
(* overlapping it, is in neither file again, whatever later calls do.          *)
DeletedAloneIsGone ==
  \A d \in alone : call[d].does = "delete" /\ Answered(d) =>
    call[d].names \cap call[d].list \cap (listed \cup secrets) = {}

(* The record of a call that none overlapped stays in the index until the      *)
(* index is full, and the index names only calls with a commit.                *)
RecordedAloneIsKept ==
  /\ \A c \in alone : call[c].at = "recorded" => c \in Range(trail) \/ Len(trail) = RecordsKept
  /\ Range(trail) \subseteq committed

(* What the security screen has reported of a call that ran undisturbed is so  *)
(* (main.ts's securityImportTotp, securityDeleteTotp, recordSecurityHistory).  *)
UndisturbedIsKept == ImportedAloneIsKept /\ DeletedAloneIsGone /\ RecordedAloneIsKept
=============================================================================
