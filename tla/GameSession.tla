------------------------------ MODULE GameSession -----------------------------
(***************************************************************************)
(* The renderer's GameProvider and the storage it persists to: loading,    *)
(* play, autosave (a debounce and an interval), deleting all progress      *)
(* (archive first, then clear), restoring an archived save, and the loss   *)
(* of the process at any moment.                                           *)
(*                                                                         *)
(* The backend is the one the preload wires today, localStorage: its       *)
(* operations are synchronous, so a load, a save or a wipe is one step.    *)
(* What is asynchronous is the bridge to the main process's save history,  *)
(* and play goes on while an answer is awaited.                            *)
(*                                                                         *)
(* A game state is abstracted to the run it belongs to and how far that    *)
(* run has come.  Every createInitialGameState starts a run of its own.    *)
(*                                                                         *)
(* An operator whose name ends in an underscore and a word is a mutated    *)
(* form of the definition after it and is used by nothing here.            *)
(***************************************************************************)
EXTENDS Naturals, FiniteSets

CONSTANTS
    MaxRun,       \* bound: how many runs are ever started
    MaxProgress,  \* bound: how far a run is played
    MaxFaults     \* bound: storage faults (a payload damaged, a write refused)

ASSUME SessionAssumption ==
    MaxRun \in Nat \ {0} /\ MaxProgress \in Nat /\ MaxFaults \in Nat

VARIABLES
    app,          \* "down", "ready", or "stuck": running, its load rejected
    live,         \* the store's state
    primary,      \* localStorage: the save ...
    backup,       \* ... the copy of the save before it ...
    quarantined,  \* ... and the unreadable payloads kept aside
    debounce,     \* the autosave timer is armed
    wipe,         \* a deletion waiting for the archive: its phase and snapshot
    restore,      \* the archived state a pending restore asked for
    history,      \* states committed to the save-history repository
    runs,         \* how many runs were started
    faults,       \* how many storage faults happened
    durable,      \* the last two states saved since the last wipe (ghost)
    deleted       \* deleted states and whether they were reported kept (ghost)

sessionVars == <<app, live, primary, backup, quarantined, debounce, wipe, restore,
                 history, runs, faults, durable, deleted>>

State == [run : 0 .. MaxRun, n : 0 .. MaxProgress]

NoState == [run |-> 0, n |-> 0]

(* A storage key: absent, a payload that decodes, or one that does not.    *)
Slot == [kind : {"none", "good", "bad"}, st : State]

Empty == [kind |-> "none", st |-> NoState]

Saved(s) == [kind |-> "good", st |-> s]

SessionTypeOK ==
    /\ app \in {"down", "ready", "stuck"}
    /\ live \in State
    /\ primary \in Slot /\ backup \in Slot
    /\ quarantined \in SUBSET Slot
    /\ debounce \in BOOLEAN
    /\ wipe \in [phase : {"idle", "asked", "kept", "refused"}, snapshot : State]
    /\ restore \in State
    /\ history \in SUBSET State
    /\ runs \in 0 .. MaxRun
    /\ faults \in 0 .. MaxFaults
    /\ durable \in [last : State, before : State]
    /\ deleted \in SUBSET [st : State, snapshot : State, kept : BOOLEAN]

SessionInit ==
    /\ app = "down"
    /\ live = NoState
    /\ primary = Empty /\ backup = Empty /\ quarantined = {}
    /\ debounce = FALSE
    /\ wipe = [phase |-> "idle", snapshot |-> NoState]
    /\ restore = NoState
    /\ history = {}
    /\ runs = 0 /\ faults = 0
    /\ durable = [last |-> NoState, before |-> NoState]
    /\ deleted = {}

-----------------------------------------------------------------------------
(* createInitialGameState, a run no save belongs to yet.                   *)
StartRun ==
    /\ runs < MaxRun
    /\ runs' = runs + 1
    /\ live' = [run |-> runs + 1, n |-> 0]

(* What load() finds: the primary if it decodes, else the backup.          *)
Loadable_PrimaryOnly == primary

Loadable == IF primary.kind = "bad" /\ backup.kind = "good" THEN backup ELSE primary

Launched == app = "down" /\ app' = "ready"

LoadFresh ==
    /\ Launched
    /\ Loadable.kind = "none"
    /\ StartRun
    /\ UNCHANGED <<primary, backup, quarantined, debounce, wipe, restore, history,
                   faults, durable, deleted>>

(* "loaded": the save is imported, whether from the primary or the backup. *)
LoadSaved ==
    /\ Launched
    /\ Loadable.kind = "good"
    /\ live' = Loadable.st
    /\ UNCHANGED <<primary, backup, quarantined, debounce, wipe, restore, history,
                   runs, faults, durable, deleted>>

(* Neither copy decodes: the primary is kept aside and a new run starts.   *)
LoadQuarantined ==
    /\ Launched
    /\ Loadable.kind = "bad"
    /\ quarantined' = quarantined \cup {primary}
    /\ StartRun
    /\ UNCHANGED <<primary, backup, debounce, wipe, restore, history,
                   faults, durable, deleted>>

(* The quarantine write itself is refused: load() rejects, nobody catches  *)
(* it, and ready is never set, so neither ticks nor autosaves ever start.  *)
LoadRejected ==
    /\ app = "down" /\ app' = "stuck"
    /\ Loadable.kind = "bad"
    /\ faults < MaxFaults /\ faults' = faults + 1
    /\ StartRun
    /\ UNCHANGED <<primary, backup, quarantined, debounce, wipe, restore, history,
                   durable, deleted>>

Advance == live.n < MaxProgress /\ live' = [live EXCEPT !.n = @ + 1]

(* A dispatched action other than a tick; once ready it arms the debounce. *)
Act ==
    /\ app # "down"
    /\ Advance
    /\ debounce' = (debounce \/ app = "ready")
    /\ UNCHANGED <<app, primary, backup, quarantined, wipe, restore, history, runs,
                   faults, durable, deleted>>

Tick ==
    /\ app = "ready"
    /\ Advance
    /\ UNCHANGED <<app, primary, backup, quarantined, debounce, wipe, restore, history,
                   runs, faults, durable, deleted>>

-----------------------------------------------------------------------------
(* save(): the existing primary becomes the backup, then the primary is    *)
(* written.  Either write may be refused (a full quota); the rest of the   *)
(* save is then skipped and the exception swallowed.                       *)
SaveOk(s) ==
    /\ primary' = Saved(s)
    /\ backup' = IF primary.kind = "none" THEN backup ELSE primary
    /\ durable' = [last |-> s, before |-> durable.last]
    /\ UNCHANGED faults

SaveRefused ==
    /\ faults < MaxFaults /\ faults' = faults + 1
    /\ \/ UNCHANGED backup
       \/ primary.kind # "none" /\ backup' = primary
    /\ UNCHANGED <<primary, durable>>

Save(s) == SaveOk(s) \/ SaveRefused

(* The debounce timer fires and saves the state of that moment.            *)
AutosaveDebounced ==
    /\ app = "ready" /\ debounce
    /\ debounce' = FALSE
    /\ Save(live)
    /\ UNCHANGED <<app, live, quarantined, wipe, restore, history, runs, deleted>>

(* The ten-second interval does the same, whatever was dispatched.         *)
AutosaveInterval_Idle ==
    /\ app = "ready" /\ debounce
    /\ SaveOk(live)
    /\ UNCHANGED <<app, live, quarantined, debounce, wipe, restore, history, runs, deleted>>

AutosaveInterval ==
    /\ app = "ready"
    /\ Save(live)
    /\ UNCHANGED <<app, live, quarantined, debounce, wipe, restore, history, runs, deleted>>

-----------------------------------------------------------------------------
(* wipeAllSaveData: the live save is encoded and sent to be archived ...   *)
WipeAsked ==
    /\ app # "down"
    /\ wipe.phase = "idle"
    /\ runs < MaxRun            \* the bound leaves room for the fresh run
    /\ wipe' = [phase |-> "asked", snapshot |-> live]
    /\ UNCHANGED <<app, live, primary, backup, quarantined, debounce, restore, history,
                   runs, faults, durable, deleted>>

(* ... the main process commits it, or refuses or throws ...               *)
ArchiveCommitted_Late ==
    /\ wipe.phase = "asked"
    /\ wipe' = [wipe EXCEPT !.phase = "kept"]
    /\ UNCHANGED <<app, live, primary, backup, quarantined, debounce, restore, history,
                   runs, faults, durable, deleted>>

ArchiveCommitted ==
    /\ wipe.phase = "asked"
    /\ wipe' = [wipe EXCEPT !.phase = "kept"]
    /\ history' = history \cup {wipe.snapshot}
    /\ UNCHANGED <<app, live, primary, backup, quarantined, debounce, restore,
                   runs, faults, durable, deleted>>

ArchiveRefused ==
    /\ wipe.phase = "asked"
    /\ wipe' = [wipe EXCEPT !.phase = "refused"]
    /\ UNCHANGED <<app, live, primary, backup, quarantined, debounce, restore, history,
                   runs, faults, durable, deleted>>

(* ... and either way the answer resumes the deletion: both keys removed,  *)
(* then a fresh run in the store.  replaceState notifies as a tick, so it  *)
(* neither arms nor disarms the debounce.                                  *)
WipeFinished_KeepsBackup ==
    /\ wipe.phase \in {"kept", "refused"}
    /\ primary' = Empty
    /\ StartRun
    /\ deleted' = deleted \cup
          {[st |-> live, snapshot |-> wipe.snapshot, kept |-> wipe.phase = "kept"]}
    /\ durable' = [last |-> NoState, before |-> NoState]
    /\ wipe' = [phase |-> "idle", snapshot |-> NoState]
    /\ UNCHANGED <<app, backup, quarantined, debounce, restore, history, faults>>

WipeFinished_OnlyKept ==
    /\ wipe.phase = "kept"
    /\ primary' = Empty /\ backup' = Empty
    /\ StartRun
    /\ deleted' = deleted \cup {[st |-> live, snapshot |-> wipe.snapshot, kept |-> TRUE]}
    /\ durable' = [last |-> NoState, before |-> NoState]
    /\ wipe' = [phase |-> "idle", snapshot |-> NoState]
    /\ UNCHANGED <<app, quarantined, debounce, restore, history, faults>>

WipeFinished ==
    /\ wipe.phase \in {"kept", "refused"}
    /\ primary' = Empty /\ backup' = Empty
    /\ StartRun
    /\ deleted' = deleted \cup
          {[st |-> live, snapshot |-> wipe.snapshot, kept |-> wipe.phase = "kept"]}
    /\ durable' = [last |-> NoState, before |-> NoState]
    /\ wipe' = [phase |-> "idle", snapshot |-> NoState]
    /\ UNCHANGED <<app, quarantined, debounce, restore, history, faults>>

(* restoreArchivedSave: the archived save is read over the bridge ...      *)
RestoreAsked(s) ==
    /\ app # "down"
    /\ restore = NoState
    /\ s \in history
    /\ restore' = s
    /\ UNCHANGED <<app, live, primary, backup, quarantined, debounce, wipe, history,
                   runs, faults, durable, deleted>>

(* ... and the answer puts it in the store, over whatever run is live, and *)
(* saves it.  A read that fails changes nothing.                           *)
RestoreFinished ==
    /\ restore # NoState
    /\ live' = restore
    /\ restore' = NoState
    /\ Save(restore)
    /\ deleted' = {d \in deleted : d.st.run # restore.run}
    /\ UNCHANGED <<app, quarantined, debounce, wipe, history, runs>>

RestoreFailed ==
    /\ restore # NoState
    /\ restore' = NoState
    /\ UNCHANGED <<app, live, primary, backup, quarantined, debounce, wipe, history,
                   runs, faults, durable, deleted>>

-----------------------------------------------------------------------------
(* The window closes or the process dies: memory, timers and pending       *)
(* answers are gone, storage and the repository stay.                      *)
Quit ==
    /\ app # "down"
    /\ app' = "down"
    /\ live' = NoState
    /\ debounce' = FALSE
    /\ wipe' = [phase |-> "idle", snapshot |-> NoState]
    /\ restore' = NoState
    /\ UNCHANGED <<primary, backup, quarantined, history, runs, faults, durable, deleted>>

(* Environment: while the game is closed a payload stops decoding, damaged *)
(* or written by a newer build.                                            *)
Damage ==
    /\ app = "down"
    /\ faults < MaxFaults /\ faults' = faults + 1
    /\ \/ /\ primary.kind = "good"
          /\ primary' = [primary EXCEPT !.kind = "bad"]
          /\ UNCHANGED backup
       \/ /\ backup.kind = "good"
          /\ backup' = [backup EXCEPT !.kind = "bad"]
          /\ UNCHANGED primary
    /\ UNCHANGED <<app, live, quarantined, debounce, wipe, restore, history, runs,
                   durable, deleted>>

SessionNext ==
    \/ LoadFresh \/ LoadSaved \/ LoadQuarantined \/ LoadRejected
    \/ Act \/ Tick
    \/ AutosaveDebounced \/ AutosaveInterval
    \/ WipeAsked \/ ArchiveCommitted \/ ArchiveRefused \/ WipeFinished
    \/ (\E s \in history : RestoreAsked(s)) \/ RestoreFinished \/ RestoreFailed
    \/ Quit \/ Damage

(* setInterval keeps firing; the bridge answers; an answer resumes.        *)
SessionFairness ==
    /\ WF_sessionVars(AutosaveInterval /\ SaveOk(live))
    /\ WF_sessionVars(ArchiveCommitted \/ ArchiveRefused)
    /\ WF_sessionVars(WipeFinished)

SessionSpec == SessionInit /\ [][SessionNext]_sessionVars /\ SessionFairness

-----------------------------------------------------------------------------
(* One storage fault, of any kind and at any moment, costs at most the     *)
(* last autosave: what the next launch would load is one of the last two   *)
(* states saved, once two were.  (The backup exists for this.)             *)
OneFaultCostsOneAutosave ==
    faults <= 1 /\ durable.before # NoState =>
        /\ Loadable.kind = "good"
        /\ Loadable.st \in {durable.last, durable.before}

(* A deleted run does not come back by itself: not from a timer armed      *)
(* before the deletion, a backup, or a crash.  Only a restore revives it.  *)
DeletedRunStaysDeleted ==
    \A d \in deleted :
        /\ app # "down" => live.run # d.st.run
        /\ primary.st.run # d.st.run
        /\ backup.st.run # d.st.run

(* A deletion that reported its save kept has it in the history.           *)
KeptMeansRestorable == \A d \in deleted : d.kept => d.snapshot \in history

(* Progress reaches storage: again and again the primary copy is the live  *)
(* game, for as long as the game stays open, whatever is deleted, restored *)
(* or refused meanwhile.                                                   *)
ProgressIsSaved ==
    []<>(app = "ready" => primary.kind = "good" /\ primary.st = live)

(* A deletion asked for is carried out, archived or not, unless the game   *)
(* closes first: none stays under way.                                     *)
WipeIsCarriedOut == []<>(wipe.phase = "idle")

=============================================================================
