--------------------------- MODULE SharedSettings ----------------------------
(* School mode, which the installed applications share through one file. Each  *)
(* application is a main process, which writes the file, polls it and tells    *)
(* its window what it found, and a window, which adopts what it is told and    *)
(* writes back whatever it shows after a change. All of them run this code.    *)
EXTENDS Integers, Sequences, SequencesExt

CONSTANTS Apps, Modes, DefaultMode,
          NoMode,                             \* a read that failed
          MaxChoices, MaxUpsets,              \* choices; failing reads and writes and restarts
          MaxPending                          \* writes and messages in flight of one application

ASSUME SettingsAssumption ==
  /\ DefaultMode \in Modes /\ NoMode \notin Modes
  /\ {MaxChoices, MaxUpsets, MaxPending} \subseteq Nat

VARIABLES shared,    \* what the file says; DefaultMode while it does not exist
          unseen,    \* per application: the file has changed since its last poll
          shown,     \* per application: the mode its window shows and keeps in its own storage
          hydration, \* per application: the window's first read is "asked", "answered" or "done"
          inbox,     \* per application: what its main process has told the window, oldest first
          writing,   \* per application: handlers between the request to write and the rename
          spoiled,   \* history: applications whose last read, or a write since it, has failed
          choices, upsets

settingsVars == <<shared, unseen, shown, hydration, inbox, writing, spoiled, choices, upsets>>
environment == <<choices, upsets>>

Message == [first : BOOLEAN, mode : Modes \cup {NoMode}]

SettingsInit ==
  /\ shared = DefaultMode
  /\ unseen = [a \in Apps |-> FALSE]
  /\ shown \in [Apps -> Modes]
  /\ hydration = [a \in Apps |-> "asked"]
  /\ inbox = [a \in Apps |-> <<>>]
  /\ writing = [a \in Apps |-> <<>>]
  /\ spoiled = {}
  /\ choices = 0 /\ upsets = 0

(* The window shows a mode; the effect on it writes what is new, once hydrated. *)
Shows(a, mode, hydrated) ==
  /\ shown' = [shown EXCEPT ![a] = mode]
  /\ writing' = IF hydrated /\ mode # shown[a] THEN [writing EXCEPT ![a] = Append(@, mode)] ELSE writing

Choose(a, mode) ==
  /\ choices < MaxChoices /\ mode # shown[a] /\ Len(writing[a]) < MaxPending
  /\ choices' = choices + 1
  /\ Shows(a, mode, hydration[a] = "done")
  /\ UNCHANGED <<shared, unseen, hydration, inbox, spoiled, upsets>>

(* Handlers overlap, so writes of one window may land in either order. *)
Land_Unnoticed(a) ==
  \E i \in DOMAIN writing[a] :
     /\ shared' = writing[a][i]
     /\ unseen' = [b \in Apps |-> IF b = a THEN TRUE ELSE unseen[b]]
     /\ writing' = [writing EXCEPT ![a] = RemoveAt(@, i)]
     /\ UNCHANGED <<shown, hydration, inbox, spoiled, environment>>
Land(a) ==
  \E i \in DOMAIN writing[a] :
     /\ shared' = writing[a][i]
     /\ unseen' = [b \in Apps |-> TRUE]
     /\ writing' = [writing EXCEPT ![a] = RemoveAt(@, i)]
     /\ UNCHANGED <<shown, hydration, inbox, spoiled, environment>>

(* Six attempts to rename, or a temporary name of the same millisecond; nobody looks at the answer. *)
WriteFails(a) ==
  /\ upsets < MaxUpsets
  /\ upsets' = upsets + 1
  /\ \E i \in DOMAIN writing[a] : writing' = [writing EXCEPT ![a] = RemoveAt(@, i)]
  /\ spoiled' = spoiled \cup {a}
  /\ UNCHANGED <<shared, unseen, shown, hydration, inbox, choices>>

Tells(a, first, mode) ==
  /\ Len(inbox[a]) < MaxPending
  /\ inbox' = [inbox EXCEPT ![a] = Append(@, [first |-> first, mode |-> mode])]
  /\ spoiled' = IF mode = NoMode THEN spoiled \cup {a} ELSE spoiled \ {a}

(* The watch polls every second; a read that fails tells the window nothing. *)
Poll(a) ==
  /\ unseen[a]
  /\ unseen' = [unseen EXCEPT ![a] = FALSE]
  /\ Tells(a, FALSE, shared)
  /\ UNCHANGED <<shared, shown, hydration, writing, environment>>

PollFails(a) ==
  /\ unseen[a] /\ upsets < MaxUpsets
  /\ upsets' = upsets + 1
  /\ unseen' = [unseen EXCEPT ![a] = FALSE]
  /\ spoiled' = spoiled \cup {a}
  /\ UNCHANGED <<shared, shown, hydration, inbox, writing, choices>>

HydrationRead(a) ==
  /\ hydration[a] = "asked"
  /\ hydration' = [hydration EXCEPT ![a] = "answered"]
  /\ \/ Tells(a, TRUE, shared) /\ UNCHANGED upsets
     \/ upsets < MaxUpsets /\ upsets' = upsets + 1 /\ Tells(a, TRUE, NoMode)
  /\ UNCHANGED <<shared, unseen, shown, writing, choices>>

(* The first answer hydrates the window even when the read had failed. *)
Deliver_FirstOnly(a) ==
  /\ inbox[a] # <<>> /\ Len(writing[a]) < MaxPending
  /\ LET told == Head(inbox[a])
     IN /\ hydration' = [hydration EXCEPT ![a] = IF told.first THEN "done" ELSE @]
        /\ Shows(a, IF told.mode = NoMode \/ ~told.first THEN shown[a] ELSE told.mode, hydration'[a] = "done")
  /\ inbox' = [inbox EXCEPT ![a] = Tail(@)]
  /\ UNCHANGED <<shared, unseen, spoiled, environment>>
Deliver(a) ==
  /\ inbox[a] # <<>> /\ Len(writing[a]) < MaxPending
  /\ LET told == Head(inbox[a])
     IN /\ hydration' = [hydration EXCEPT ![a] = IF told.first THEN "done" ELSE @]
        /\ Shows(a, IF told.mode = NoMode THEN shown[a] ELSE told.mode, hydration'[a] = "done")
  /\ inbox' = [inbox EXCEPT ![a] = Tail(@)]
  /\ UNCHANGED <<shared, unseen, spoiled, environment>>

(* An application is closed, whatever it had in flight, and started again. *)
Restart(a) ==
  /\ upsets < MaxUpsets
  /\ upsets' = upsets + 1
  /\ unseen' = [unseen EXCEPT ![a] = FALSE]
  /\ hydration' = [hydration EXCEPT ![a] = "asked"]
  /\ inbox' = [inbox EXCEPT ![a] = <<>>]
  /\ writing' = [writing EXCEPT ![a] = <<>>]
  /\ UNCHANGED <<shared, shown, spoiled, choices>>

SettingsNext ==
  \E a \in Apps :
    \/ \E mode \in Modes : Choose(a, mode)
    \/ Land(a)
    \/ WriteFails(a)
    \/ Poll(a)
    \/ PollFails(a)
    \/ HydrationRead(a)
    \/ Deliver(a)
    \/ Restart(a)

(* Handlers end, the watch goes on polling and messages arrive. *)
SettingsFairness ==
  \A a \in Apps : /\ WF_settingsVars(Land(a)) /\ WF_settingsVars(Poll(a))
                  /\ WF_settingsVars(HydrationRead(a)) /\ WF_settingsVars(Deliver(a))

SettingsSpec == SettingsInit /\ [][SettingsNext]_settingsVars /\ SettingsFairness

SettingsTypeOK ==
  /\ shared \in Modes
  /\ unseen \in [Apps -> BOOLEAN]
  /\ shown \in [Apps -> Modes]
  /\ hydration \in [Apps -> {"asked", "answered", "done"}]
  /\ inbox \in [Apps -> Seq(Message)]
  /\ writing \in [Apps -> Seq(Modes)]
  /\ spoiled \subseteq Apps

Quiet(a) == hydration[a] = "done" /\ inbox[a] = <<>> /\ writing[a] = <<>> /\ ~unseen[a]

(* An application with nothing under way shows what the file says, whoever     *)
(* wrote it last and in whatever order writes, polls, messages and restarts    *)
(* came, unless its own last read or a write since then has failed             *)
(* (main.ts#writeSharedSettings, App.tsx's effects).                           *)
QuietAppsAgree == \A a \in Apps \ spoiled : Quiet(a) => shown[a] = shared

(* Once the players stop choosing, the applications come to agree and stay     *)
(* so. The exception is the one the code leaves open: polls may go on for ever *)
(* overtaking writes and messages in flight, each application then adopting    *)
(* what the other has just dropped (App.tsx writes back what it adopts).       *)
Overtaken ==
  /\ \E a \in Apps : Poll(a)
  /\ \E b \in Apps : writing[b] # <<>> \/ inbox[b] # <<>>
ChoicesSettle ==
  \/ <>[](\A a \in Apps \ spoiled : shown[a] = shared)
  \/ []<><<Overtaken>>_settingsVars
=============================================================================
