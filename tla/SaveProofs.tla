------------------------------ MODULE SaveProofs ------------------------------
(***************************************************************************)
(* What holds of a game session and of the history of its saves, for any   *)
(* number of runs, any amount of play and any number of faults and cuts:   *)
(* deleted progress does not come back by itself, one storage fault costs  *)
(* one autosave, and what was reported kept is in the history and can be   *)
(* read there.                                                             *)
(***************************************************************************)
EXTENDS GameSession, SaveHistory, TLAPS

(* The session.                                                            *)
(* A state of a run that was started.                                      *)
Started(s) == s \in State /\ s.run \in 1 .. runs

SlotOK(slot) == IF slot.kind = "none" THEN slot = Empty ELSE Started(slot.st)

(* Runs are numbered as they start, so a fresh run is of no deleted one;   *)
(* and whatever can become live or be saved (the store, both storage keys, *)
(* a pending restore) is either of no deleted run or revives its run.      *)
SessionInv ==
    /\ SessionTypeOK
    /\ app # "down" => Started(live)
    /\ SlotOK(primary) /\ SlotOK(backup)
    /\ app = "down" => wipe.phase = "idle" /\ restore = NoState
    /\ wipe.phase # "idle" => Started(wipe.snapshot)
    /\ wipe.phase = "kept" => wipe.snapshot \in history
    /\ \A s \in history : Started(s)
    /\ restore # NoState => restore \in history
    /\ \A d \in deleted : Started(d.st)
    /\ KeptMeansRestorable
    /\ DeletedRunStaysDeleted

-----------------------------------------------------------------------------
(* A session without a run has nothing to lose. *)
LEMMA Nothing ==
    /\ NoState \in State /\ Empty \in Slot
    /\ [phase |-> "idle", snapshot |-> NoState]
          \in [phase : {"idle", "asked", "kept", "refused"}, snapshot : State]
    /\ [last |-> NoState, before |-> NoState] \in [last : State, before : State]
    /\ 0 \in 0 .. MaxRun /\ 0 \in 0 .. MaxFaults
<1>1. NoState \in State /\ 0 \in 0 .. MaxRun /\ 0 \in 0 .. MaxFaults
  BY SessionAssumption DEF NoState, State
<1> QED
  BY <1>1 DEF Empty, Slot

(* The invariant holds when the application starts. *)
LEMMA SessionInvInit == SessionInit => SessionInv
<1> SUFFICES ASSUME SessionInit PROVE SessionInv
  OBVIOUS
<1>2. SessionTypeOK
  BY Nothing DEF SessionInit, SessionTypeOK
<1> QED
  BY <1>2 DEF SessionInit, SessionInv, SlotOK, Empty, KeptMeansRestorable, DeletedRunStaysDeleted

(* A save moves the primary to the backup and stores a live or restored    *)
(* state of a run that is not deleted.                                     *)
LEMMA SaveKeeps ==
    ASSUME SessionInv, NEW s, Started(s), Save(s), runs' = runs
    PROVE  /\ primary' \in {primary, Saved(s)} /\ backup' \in {backup, primary}
           /\ primary' \in Slot /\ backup' \in Slot
           /\ SlotOK(primary)' /\ SlotOK(backup)'
           /\ faults' \in 0 .. MaxFaults
           /\ durable' \in [last : State, before : State]
<1>1. Saved(s) \in Slot /\ Saved(s).kind = "good" /\ Saved(s).st = s
  BY DEF Saved, Slot, Started
<1>2. /\ primary' \in {primary, Saved(s)} /\ backup' \in {backup, primary}
      /\ faults' \in 0 .. MaxFaults
      /\ durable' \in [last : State, before : State]
  BY SessionAssumption DEF Save, SaveOk, SaveRefused, SessionInv, SessionTypeOK, Started
<1> QED
  BY <1>1, <1>2 DEF SlotOK, SessionInv, SessionTypeOK, Started, Empty

(* Every handler, timer, fault and crash of the session preserves the invariant. *)
LEMMA SessionInvStep == SessionInv /\ [SessionNext]_sessionVars => SessionInv'
<1> SUFFICES ASSUME SessionInv, [SessionNext]_sessionVars PROVE SessionInv'
  OBVIOUS
<1> USE SessionAssumption
<1>t. SessionTypeOK /\ runs \in Nat
  BY DEF SessionInv, SessionTypeOK
<1>s. ASSUME NEW s, Started(s), StartRun PROVE Started(s)'
  BY <1>s, <1>t DEF Started, StartRun
<1>f. ASSUME StartRun
      PROVE  /\ Started(live)' /\ live' \in State /\ runs' \in 0 .. MaxRun
             /\ \A s : Started(s) => s.run # live'.run
  BY <1>f, <1>t DEF Started, StartRun, State
<1>l. Loadable \in {primary, backup} /\ Loadable \in Slot
  BY <1>t DEF Loadable, SessionTypeOK
<1>1. CASE LoadFresh
  BY <1>1, <1>t, <1>s, <1>f DEF LoadFresh, Launched, SessionInv, SessionTypeOK, SlotOK, Empty, NoState,
     KeptMeansRestorable, DeletedRunStaysDeleted
<1>2. CASE LoadSaved
  BY <1>2, <1>t, <1>l DEF LoadSaved, Launched, SessionInv, SessionTypeOK, SlotOK, Started,
     Slot, KeptMeansRestorable, DeletedRunStaysDeleted
<1>3. CASE LoadQuarantined
  BY <1>3, <1>t, <1>s, <1>f DEF LoadQuarantined, Launched, SessionInv, SessionTypeOK, SlotOK, Empty,
     NoState, KeptMeansRestorable, DeletedRunStaysDeleted
<1>4. CASE LoadRejected
  BY <1>4, <1>t, <1>s, <1>f DEF LoadRejected, SessionInv, SessionTypeOK, SlotOK, Empty,
     NoState, KeptMeansRestorable, DeletedRunStaysDeleted
<1>5. CASE Act \/ Tick
  <2>1. app # "down" /\ Started(live)' /\ live' \in State /\ live'.run = live.run
    BY <1>5, <1>t DEF Act, Tick, Advance, SessionInv, SessionTypeOK, Started, State
  <2> QED
    BY <1>5, <1>t, <2>1 DEF Act, Tick, SessionInv, SessionTypeOK, SlotOK, Started,
       KeptMeansRestorable, DeletedRunStaysDeleted
<1>6. CASE AutosaveDebounced \/ AutosaveInterval
  <2>1. Started(live) /\ Save(live) /\ app # "down" /\ runs' = runs
    BY <1>6 DEF AutosaveDebounced, AutosaveInterval, SessionInv
  <2>2. /\ primary' \in {primary, Saved(live)} /\ backup' \in {backup, primary}
        /\ primary' \in Slot /\ backup' \in Slot
        /\ SlotOK(primary)' /\ SlotOK(backup)'
        /\ faults' \in 0 .. MaxFaults
        /\ durable' \in [last : State, before : State]
    BY <2>1, SaveKeeps
  <2>3. /\ UNCHANGED <<app, live, quarantined, wipe, restore, history, runs, deleted>>
        /\ debounce' \in BOOLEAN
    BY <1>6, <1>t DEF AutosaveDebounced, AutosaveInterval, SessionTypeOK
  <2>4. SessionTypeOK'
    BY <1>t, <2>2, <2>3 DEF SessionTypeOK
  <2>5. DeletedRunStaysDeleted'
    BY <2>1, <2>2, <2>3 DEF SessionInv, DeletedRunStaysDeleted, Saved
  <2> QED
    BY <2>2, <2>3, <2>4, <2>5 DEF SessionInv, Started, KeptMeansRestorable
<1>7. CASE WipeAsked
  BY <1>7, <1>t DEF WipeAsked, SessionInv, SessionTypeOK, SlotOK, Started,
     KeptMeansRestorable, DeletedRunStaysDeleted
<1>8. CASE ArchiveCommitted
  BY <1>8, <1>t DEF ArchiveCommitted, SessionInv, SessionTypeOK, SlotOK, Started,
     KeptMeansRestorable, DeletedRunStaysDeleted
<1>9. CASE ArchiveRefused
  BY <1>9, <1>t DEF ArchiveRefused, SessionInv, SessionTypeOK, SlotOK, Started,
     KeptMeansRestorable, DeletedRunStaysDeleted
<1>10. CASE WipeFinished
  <2> DEFINE d == [st |-> live, snapshot |-> wipe.snapshot, kept |-> wipe.phase = "kept"]
  <2>1. app # "down" /\ Started(live) /\ live \in State
    BY <1>10, <1>t DEF WipeFinished, SessionInv, Started
  <2>2. /\ deleted' = deleted \cup {d} /\ StartRun
        /\ UNCHANGED <<app, quarantined, debounce, restore, history, faults>>
        /\ primary' = Empty /\ backup' = Empty
        /\ durable' = [last |-> NoState, before |-> NoState]
        /\ wipe' = [phase |-> "idle", snapshot |-> NoState]
    BY <1>10 DEF WipeFinished
  <2>3. d \in [st : State, snapshot : State, kept : BOOLEAN] /\ d.st = live
        /\ (d.kept => d.snapshot \in history)
    BY <1>10, <1>t, <2>1 DEF SessionInv, SessionTypeOK
  <2> HIDE DEF d
  <2>4. SessionTypeOK'
    BY <1>t, <1>f, <2>2, <2>3 DEF SessionTypeOK, Slot, Empty, NoState, State
  <2>5. \A e \in deleted' : Started(e.st) /\ Started(e.st)' /\ (e.kept => e.snapshot \in history')
    BY <1>s, <2>1, <2>2, <2>3 DEF SessionInv, KeptMeansRestorable
  <2>6. DeletedRunStaysDeleted'
    BY <1>f, <2>2, <2>5 DEF DeletedRunStaysDeleted, Empty, NoState, Started
  <2> QED
    BY <1>f, <1>s, <2>2, <2>4, <2>5, <2>6, <2>1 DEF SessionInv, SlotOK, Empty, KeptMeansRestorable
<1>11. ASSUME NEW s \in history, RestoreAsked(s) PROVE SessionInv'
  BY <1>11, <1>t DEF RestoreAsked, SessionInv, SessionTypeOK, SlotOK, Started,
     KeptMeansRestorable, DeletedRunStaysDeleted
<1>12. CASE RestoreFinished
  <2>1. Started(restore) /\ Save(restore) /\ app # "down" /\ runs' = runs
    BY <1>12 DEF RestoreFinished, SessionInv
  <2>2. /\ primary' \in {primary, Saved(restore)} /\ backup' \in {backup, primary}
        /\ primary' \in Slot /\ backup' \in Slot
        /\ SlotOK(primary)' /\ SlotOK(backup)'
        /\ faults' \in 0 .. MaxFaults
        /\ durable' \in [last : State, before : State]
    BY <2>1, SaveKeeps
  <2>3. deleted' \subseteq deleted /\ \A d \in deleted' : d.st.run # restore.run
    BY <1>12 DEF RestoreFinished
  <2> QED
    BY <1>12, <1>t, <2>1, <2>2, <2>3 DEF RestoreFinished, SessionInv, SessionTypeOK,
       Started, Saved, NoState, State, KeptMeansRestorable, DeletedRunStaysDeleted
<1>13. CASE RestoreFailed
  BY <1>13, <1>t DEF RestoreFailed, SessionInv, SessionTypeOK, SlotOK, Started, NoState, State,
     KeptMeansRestorable, DeletedRunStaysDeleted
<1>14. CASE Quit
  <2>1. SessionTypeOK'
    BY <1>14, <1>t, Nothing DEF Quit, SessionTypeOK
  <2> QED
    BY <1>14, <2>1 DEF Quit, SessionInv, SlotOK, Started, KeptMeansRestorable, DeletedRunStaysDeleted
<1>15. CASE Damage
  <2>1. /\ primary' \in Slot /\ backup' \in Slot
        /\ primary'.st = primary.st /\ backup'.st = backup.st
        /\ SlotOK(primary)' /\ SlotOK(backup)' /\ runs' = runs
        /\ faults' \in 0 .. MaxFaults
    BY <1>15, <1>t DEF Damage, SessionInv, SessionTypeOK, SlotOK, Started, Slot, Empty
  <2> QED
    BY <1>15, <1>t, <2>1 DEF Damage, SessionInv, SessionTypeOK, Started,
     KeptMeansRestorable, DeletedRunStaysDeleted
<1>16. CASE UNCHANGED sessionVars
  BY <1>16, <1>t DEF sessionVars, SessionInv, SessionTypeOK, SlotOK, Started,
     KeptMeansRestorable, DeletedRunStaysDeleted
<1> QED
  BY <1>1, <1>2, <1>3, <1>4, <1>5, <1>6, <1>7, <1>8, <1>9, <1>10, <1>11, <1>12, <1>13, <1>14, <1>15,
     <1>16 DEF SessionNext

(* The inductive invariant holds in every reachable state. *)
LEMMA SessionInvariant == SessionSpec => []SessionInv
BY SessionInvInit, SessionInvStep, PTL DEF SessionSpec

(* Every variable keeps its type.                                          *)
THEOREM SessionIsTyped == SessionSpec => []SessionTypeOK
<1>1. SessionInv => SessionTypeOK
  BY DEF SessionInv
<1> QED
  BY <1>1, SessionInvariant, PTL

(* Deleted progress does not come back by itself: no timer, backup copy,   *)
(* crash or storage fault revives it.                                      *)
THEOREM DeletedStaysDeleted == SessionSpec => []DeletedRunStaysDeleted
<1>1. SessionInv => DeletedRunStaysDeleted
  BY DEF SessionInv
<1> QED
  BY <1>1, SessionInvariant, PTL

(* A save reported kept is in the history for good.                        *)
THEOREM KeptIsRestorable == SessionSpec => []KeptMeansRestorable
<1>1. SessionInv => KeptMeansRestorable
  BY DEF SessionInv
<1> QED
  BY <1>1, SessionInvariant, PTL


-----------------------------------------------------------------------------
(* The two copies against the saves they are of.  Until a fault they are the last two saves;     *)
(* after one, either the primary is the last save, or it is what was damaged and the backup is   *)
(* the save before it.                                                                           *)
CopiesFit ==
    /\ durable.before # NoState => durable.last # NoState
    /\ faults = 0 /\ durable.last # NoState => primary = Saved(durable.last)
    /\ faults = 0 /\ durable.before # NoState => backup = Saved(durable.before)
    /\ faults = 1 /\ durable.before # NoState =>
          \/ primary = Saved(durable.last)
          \/ primary.kind = "bad" /\ backup = Saved(durable.before)

(* A save, carried out or refused, leaves them so.                                               *)
LEMMA SaveKeepsCopies ==
    ASSUME SessionTypeOK, CopiesFit, NEW s, Started(s), Save(s)
    PROVE  CopiesFit'
<1>1. s # NoState /\ faults \in Nat
  BY SessionAssumption DEF Started, NoState, SessionTypeOK
<1>2. CASE SaveOk(s)
  <2>1. primary' = Saved(s) /\ durable'.last = s /\ durable'.before = durable.last /\ faults' = faults
    BY <1>2 DEF SaveOk
  <2>2. faults = 0 /\ durable.last # NoState => backup' = Saved(durable.last)
    BY <1>2 DEF SaveOk, CopiesFit, Saved
  <2> QED BY <1>1, <2>1, <2>2 DEF CopiesFit
<1>3. CASE SaveRefused
  BY <1>1, <1>3 DEF SaveRefused, CopiesFit
<1> QED BY <1>2, <1>3 DEF Save

LEMMA CopiesFitStep == SessionInv /\ CopiesFit /\ [SessionNext]_sessionVars => CopiesFit'
<1> SUFFICES ASSUME SessionInv, CopiesFit, [SessionNext]_sessionVars PROVE CopiesFit'
  OBVIOUS
<1>t. SessionTypeOK /\ faults \in Nat
  BY SessionAssumption DEF SessionInv, SessionTypeOK
<1>1. CASE /\ UNCHANGED <<primary, backup, durable>>
           /\ faults' = faults \/ faults' = faults + 1
  BY <1>1, <1>t DEF CopiesFit
<1>2. CASE AutosaveDebounced \/ AutosaveInterval
  <2>1. Started(live) /\ Save(live)
    BY <1>2 DEF AutosaveDebounced, AutosaveInterval, SessionInv
  <2> QED BY <1>t, <2>1, SaveKeepsCopies
<1>3. CASE RestoreFinished
  <2>1. Started(restore) /\ Save(restore)
    BY <1>3 DEF RestoreFinished, SessionInv
  <2> QED BY <1>t, <2>1, SaveKeepsCopies
<1>4. CASE WipeFinished
  BY <1>4 DEF WipeFinished, CopiesFit
<1>5. CASE Damage
  <2>1. faults' = faults + 1 /\ durable' = durable
    BY <1>5 DEF Damage
  <2>2. (backup' = backup /\ primary'.kind = "bad") \/ primary' = primary
    BY <1>5, <1>t DEF Damage, SessionTypeOK, Slot
  <2> QED BY <1>t, <2>1, <2>2 DEF CopiesFit
<1> QED
  BY <1>1, <1>2, <1>3, <1>4, <1>5 DEF SessionNext, sessionVars, LoadFresh, LoadSaved, LoadQuarantined,
     LoadRejected, Act, Tick, WipeAsked, ArchiveCommitted, ArchiveRefused, RestoreAsked, RestoreFailed, Quit

(* One storage fault, whatever it is and whenever it comes, costs no more than the last autosave *)
(* (persistence.ts#save copies the primary aside before it writes, and #load falls back on it),  *)
(* for any number of runs, deletions and restores.                                               *)
THEOREM OneFaultIsSurvived == SessionSpec => []OneFaultCostsOneAutosave
<1>1. SessionInit => CopiesFit
  BY DEF SessionInit, CopiesFit, NoState
<1>2. SessionInv /\ CopiesFit => OneFaultCostsOneAutosave
  <2> SUFFICES ASSUME SessionTypeOK, CopiesFit, faults <= 1, durable.before # NoState
               PROVE  Loadable.kind = "good" /\ Loadable.st \in {durable.last, durable.before}
    BY DEF SessionInv, OneFaultCostsOneAutosave
  <2>1. faults \in Nat /\ (faults = 0 \/ faults = 1)
    BY SessionAssumption DEF SessionTypeOK
  <2> QED BY <2>1 DEF CopiesFit, Loadable, Saved
<1> QED BY <1>1, <1>2, CopiesFitStep, SessionInvariant, PTL DEF SessionSpec

-----------------------------------------------------------------------------
(* The history.                                                            *)
(* Every commit from the head back is whole, its save with it.             *)
WholeChain ==
    \A n \in 1 .. Len(ref) :
        SubSeq(ref, 1, n) \in commits /\ ref[n] \in trees /\ ref[n] \in blobs

(* The archive in progress: what it has written, what it still holds.  The *)
(* parent it read is still the head, as no two archives overlap.           *)
ArchiveInv ==
    /\ step # "idle" => saving \in attempted
    /\ step \in {"tree", "commit", "ref", "refFill", "answer"} => saving \in blobs
    /\ step \in {"commit", "ref", "refFill", "answer"} => saving \in trees
    /\ step \in {"commit", "ref", "refFill"} => parent = ref
    /\ step \in {"ref", "refFill"} => NewCommit \in commits
    /\ step \in {"blob", "tree", "commit", "ref", "refFill"} => saving \notin Listed
    /\ step = "answer" => saving \in Listed
    /\ Listed \subseteq attempted

HistoryInv == HistoryTypeOK /\ WholeChain /\ ArchiveInv

-----------------------------------------------------------------------------
(* The commits on the way back from a new commit are itself and those on   *)
(* the way back from its parent.                                           *)
LEMMA AppendChain ==
    ASSUME NEW s \in Seq(Saves), NEW e \in Saves
    PROVE  /\ Append(s, e) \in Seq(Saves)
           /\ Len(Append(s, e)) = Len(s) + 1
           /\ SubSeq(Append(s, e), 1, Len(s) + 1) = Append(s, e)
           /\ Append(s, e)[Len(s) + 1] = e
           /\ \A n \in 1 .. Len(s) : /\ SubSeq(Append(s, e), 1, n) = SubSeq(s, 1, n)
                                     /\ Append(s, e)[n] = s[n]
OBVIOUS

(* The invariant holds of an empty repository. *)
LEMMA HistoryInvInit == HistoryInit => HistoryInv
BY HistoryAssumption DEF HistoryInit, HistoryInv, HistoryTypeOK, WholeChain, ArchiveInv, Listed,
   Commit, Steps

(* Every archive step, wherever it is cut short, preserves the invariant. *)
LEMMA HistoryInvStep == HistoryInv /\ [HistoryNext]_historyVars => HistoryInv'
<1> SUFFICES ASSUME HistoryInv, [HistoryNext]_historyVars PROVE HistoryInv'
  OBVIOUS
<1> USE HistoryAssumption DEF HistoryInv, HistoryTypeOK, Commit, Steps
<1>1. ASSUME NEW s \in Saves, ArchiveStart(s) PROVE HistoryInv'
  BY <1>1 DEF ArchiveStart, WholeChain, ArchiveInv, Listed, NewCommit
<1>2. CASE WriteBlob
  BY <1>2 DEF WriteBlob, WholeChain, ArchiveInv, Listed, NewCommit
<1>3. CASE WriteTree
  BY <1>3 DEF WriteTree, WholeChain, ArchiveInv, Listed, NewCommit
<1>4. CASE WriteCommit
  <2>1. NewCommit \in Seq(Saves) /\ NewCommit' = NewCommit
    BY <1>4, AppendChain DEF WriteCommit, NewCommit
  <2> QED
    BY <1>4, <2>1 DEF WriteCommit, WholeChain, ArchiveInv, Listed
<1>5. CASE TruncateRef
  BY <1>5 DEF TruncateRef, WholeChain, ArchiveInv, Listed, NewCommit
<1>6. CASE FillRef
  <2>1. ref' = Append(ref, saving) /\ ref' \in commits /\ step' = "answer"
    BY <1>6 DEF FillRef, NewCommit, ArchiveInv
  <2>2. /\ Len(ref') = Len(ref) + 1
        /\ SubSeq(ref', 1, Len(ref) + 1) = ref'
        /\ ref'[Len(ref) + 1] = saving
        /\ \A n \in 1 .. Len(ref) : SubSeq(ref', 1, n) = SubSeq(ref, 1, n) /\ ref'[n] = ref[n]
        /\ DOMAIN ref' = 1 .. Len(ref) + 1 /\ DOMAIN ref = 1 .. Len(ref) /\ Len(ref) \in Nat
    BY <2>1, AppendChain
  <2>3. WholeChain'
    <3> SUFFICES ASSUME NEW n \in 1 .. Len(ref) + 1
                 PROVE  SubSeq(ref', 1, n) \in commits /\ ref'[n] \in trees /\ ref'[n] \in blobs
      BY <1>6, <2>2 DEF FillRef, WholeChain
    <3>1. CASE n = Len(ref) + 1
      BY <1>6, <2>1, <2>2, <3>1 DEF FillRef, ArchiveInv
    <3>2. CASE n \in 1 .. Len(ref)
      BY <2>2, <3>2 DEF WholeChain
    <3> QED
      BY <3>1, <3>2, <2>2
  <2>4. Listed' = Listed \cup {saving}
    <3>1. \A x \in Listed' : x \in Listed \cup {saving}
      BY <2>2 DEF Listed
    <3>2. saving \in Listed' /\ \A x \in Listed : x \in Listed'
      BY <2>2 DEF Listed
    <3> QED
      BY <3>1, <3>2
  <2> QED
    BY <1>6, <2>1, <2>3, <2>4, AppendChain DEF FillRef, ArchiveInv
<1>7. CASE AnswerKept
  BY <1>7 DEF AnswerKept, WholeChain, ArchiveInv, Listed, NewCommit
<1>8. CASE Cut
  <2>1. ref' = ref \/ ref' = <<>>
    BY <1>8 DEF Cut
  <2> QED
    BY <1>8, <2>1 DEF Cut, WholeChain, ArchiveInv, Listed, NewCommit
<1>9. CASE UNCHANGED historyVars
  BY <1>9 DEF historyVars, WholeChain, ArchiveInv, Listed, NewCommit
<1> QED
  BY <1>1, <1>2, <1>3, <1>4, <1>5, <1>6, <1>7, <1>8, <1>9 DEF HistoryNext

(* For any saves and any cuts what the branch names was written before it. *)
THEOREM HistoryInvariant == HistorySpec => []HistoryInv
BY HistoryInvInit, HistoryInvStep, PTL DEF HistorySpec

(* Whatever the history lists can be read back: wherever archives were cut *)
(* short, in the middle of the branch file's rewrite included.             *)
THEOREM HistoryIsReadable == HistorySpec => []ListedIsReadable
<1>1. HistoryInv => ListedIsReadable
  <2> SUFFICES ASSUME HistoryInv, NEW n \in 1 .. Len(ref) PROVE Readable(SubSeq(ref, 1, n))
    BY DEF ListedIsReadable, Chain
  <2> DEFINE c == SubSeq(ref, 1, n)
  <2>1. ref \in Seq(Saves) /\ c \in commits /\ ref[n] \in trees /\ ref[n] \in blobs
    BY DEF HistoryInv, HistoryTypeOK, WholeChain, Commit
  <2>2. Len(c) = n /\ c[n] = ref[n]
    BY <2>1
  <2> QED
    BY <2>1, <2>2 DEF Readable
<1> QED
  BY <1>1, HistoryInvariant, PTL

-----------------------------------------------------------------------------
(* With a branch file never left truncated, what was reported kept stays   *)
(* in the list for good.                                                   *)
THEOREM KeptStays ==
    ASSUME ~RefTears
    PROVE  HistorySpec => []KeptIsListed
<1>1. HistoryInit => KeptIsListed
  BY DEF HistoryInit, KeptIsListed
<1>2. KeptIsListed /\ HistoryInv /\ [HistoryNext]_historyVars => KeptIsListed'
  <2> SUFFICES ASSUME KeptIsListed, HistoryInv, [HistoryNext]_historyVars PROVE KeptIsListed'
    OBVIOUS
  <2>1. CASE FillRef
    <3>1. ref \in Seq(Saves) /\ saving \in Saves /\ ref' = Append(ref, saving)
      BY <2>1 DEF FillRef, NewCommit, HistoryInv, HistoryTypeOK, ArchiveInv, Commit
    <3>2. Listed \subseteq Listed'
      BY <3>1, AppendChain DEF Listed
    <3> QED
      BY <2>1, <3>2 DEF FillRef, KeptIsListed
  <2>2. CASE AnswerKept
    BY <2>2 DEF AnswerKept, KeptIsListed, HistoryInv, ArchiveInv, Listed
  <2>3. CASE Cut
    BY <2>3, ~RefTears DEF Cut, KeptIsListed, Listed
  <2>4. CASE UNCHANGED <<ref, answered>>
    BY <2>4 DEF KeptIsListed, Listed
  <2> QED
    BY <2>1, <2>2, <2>3, <2>4 DEF HistoryNext, ArchiveStart, WriteBlob, WriteTree, WriteCommit,
       TruncateRef, historyVars
<1> QED
  BY <1>1, <1>2, HistoryInvariant, PTL DEF HistorySpec

(* And the history implements the abstract log.                            *)
THEOREM HistoryLogs ==
    ASSUME ~RefTears
    PROVE  HistorySpec => HistoryIsALog
<1>1. HistoryInit => Log!LogInit
  BY DEF HistoryInit, Log!LogInit
<1>2. HistoryInv /\ [HistoryNext]_historyVars => [Log!LogNext]_ref
  <2> SUFFICES ASSUME HistoryInv, [HistoryNext]_historyVars PROVE [Log!LogNext]_ref
    OBVIOUS
  <2>1. CASE FillRef
    <3>1. ref' = Append(ref, saving) /\ saving \in Saves /\ saving \notin Listed
      BY <2>1 DEF FillRef, NewCommit, HistoryInv, HistoryTypeOK, ArchiveInv
    <3> QED
      BY <3>1 DEF Log!LogNext, Log!Keep, Listed
  <2>2. CASE Cut
    BY <2>2, ~RefTears DEF Cut
  <2> QED
    BY <2>1, <2>2 DEF HistoryNext, ArchiveStart, WriteBlob, WriteTree, WriteCommit,
       TruncateRef, AnswerKept, historyVars
<1> QED
  BY <1>1, <1>2, HistoryInvariant, PTL DEF HistorySpec, HistoryIsALog, Log!LogSpec

=============================================================================
