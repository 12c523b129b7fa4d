------------------------------ MODULE SaveHistory -----------------------------
(***************************************************************************)
(* SaveHistoryStore: the bare Git repository a deleted save is committed   *)
(* to, one file at a time, and what list() and read() find in it whichever *)
(* of those writes was the last to be made.                                *)
(*                                                                         *)
(* archive() is synchronous, so two archives never interleave; but it is   *)
(* four files, and none is written atomically: writeFileSync creates or    *)
(* truncates a file and then fills it.  An object's id is the hash of its  *)
(* content, and a commit's content names its parent: a commit IS the       *)
(* sequence of saves it leads back through, and is modelled as that.       *)
(* Every encoded save carries the instant it was taken, so no two archives *)
(* are of the same bytes, and a file cut short is never taken for whole by *)
(* a later writeObject.                                                    *)
(*                                                                         *)
(* An operator whose name ends in an underscore and a word is a mutated    *)
(* form of the definition after it and is used by nothing here.            *)
(***************************************************************************)
EXTENDS Naturals, Sequences, FiniteSets

CONSTANTS
    Saves,     \* encoded saves that decode
    MaxCuts,   \* bound: archives cut short, by a crash or a full disk
    RefTears   \* whether a cut can leave the branch file truncated

ASSUME HistoryAssumption ==
    IsFiniteSet(Saves) /\ MaxCuts \in Nat /\ RefTears \in BOOLEAN

VARIABLES
    blobs,     \* saves whose blob file is whole ...
    trees,     \* ... whose tree file is ...
    commits,   \* ... and the commits whose file is
    ref,       \* refs/heads/main: a commit, or <<>> when absent or empty
    step,      \* how far the archive in progress has come
    saving,    \* the save it archives
    parent,    \* the head commit it read
    cuts,      \* how many archives were cut short
    attempted, \* saves an archive was started for
    answered   \* saves reported kept (ghost)

historyVars == <<blobs, trees, commits, ref, step, saving, parent, cuts, attempted, answered>>

Commit == Seq(Saves)

Steps == {"idle", "blob", "tree", "commit", "ref", "refFill", "answer"}

HistoryTypeOK ==
    /\ blobs \in SUBSET Saves /\ trees \in SUBSET Saves
    /\ commits \in SUBSET Commit
    /\ ref \in Commit /\ parent \in Commit
    /\ step \in Steps
    /\ saving \in Saves
    /\ cuts \in 0 .. MaxCuts
    /\ attempted \in SUBSET Saves
    /\ answered \in SUBSET Saves

HistoryInit ==
    /\ blobs = {} /\ trees = {} /\ commits = {}
    /\ ref = <<>> /\ parent = <<>>
    /\ step = "idle" /\ saving \in Saves
    /\ cuts = 0
    /\ attempted = {}
    /\ answered = {}

-----------------------------------------------------------------------------
(* The save-history:archive handler is entered with a save that decodes.   *)
ArchiveStart(s) ==
    /\ step = "idle"
    /\ s \in Saves \ attempted
    /\ step' = "blob"
    /\ saving' = s
    /\ attempted' = attempted \cup {s}
    /\ UNCHANGED <<blobs, trees, commits, ref, parent, cuts, answered>>

WriteBlob ==
    /\ step = "blob" /\ step' = "tree"
    /\ blobs' = blobs \cup {saving}
    /\ UNCHANGED <<trees, commits, ref, saving, parent, cuts, attempted, answered>>

(* The head is read for the parent between the tree and the commit.        *)
WriteTree_NoParent ==
    /\ step = "tree" /\ step' = "commit"
    /\ trees' = trees \cup {saving}
    /\ parent' = <<>>
    /\ UNCHANGED <<blobs, commits, ref, saving, cuts, attempted, answered>>

WriteTree ==
    /\ step = "tree" /\ step' = "commit"
    /\ trees' = trees \cup {saving}
    /\ parent' = ref
    /\ UNCHANGED <<blobs, commits, ref, saving, cuts, attempted, answered>>

NewCommit == Append(parent, saving)

WriteCommit_RefFirst ==
    /\ step = "commit" /\ step' = "ref"
    /\ ref' = NewCommit
    /\ commits' \in {commits, commits \cup {NewCommit}}
    /\ UNCHANGED <<blobs, trees, saving, parent, cuts, attempted, answered>>

WriteCommit ==
    /\ step = "commit" /\ step' = "ref"
    /\ commits' = commits \cup {NewCommit}
    /\ UNCHANGED <<blobs, trees, ref, saving, parent, cuts, attempted, answered>>

(* The branch file is truncated, then filled, then the id is answered.     *)
TruncateRef ==
    /\ step = "ref" /\ step' = "refFill"
    /\ UNCHANGED <<blobs, trees, commits, ref, saving, parent, cuts, attempted, answered>>

FillRef ==
    /\ step = "refFill" /\ step' = "answer"
    /\ ref' = NewCommit
    /\ UNCHANGED <<blobs, trees, commits, saving, parent, cuts, attempted, answered>>

AnswerKept ==
    /\ step = "answer" /\ step' = "idle"
    /\ answered' = answered \cup {saving}
    /\ UNCHANGED <<blobs, trees, commits, ref, saving, parent, cuts, attempted>>

(* The process dies, or a write throws and the handler answers a reason:   *)
(* the object being written is not whole, and a truncated branch file      *)
(* stays empty.                                                            *)
Cut_AnswersKept ==
    /\ step # "idle" /\ step' = "idle"
    /\ step = "refFill" => RefTears
    /\ cuts < MaxCuts /\ cuts' = cuts + 1
    /\ ref' = IF step = "refFill" THEN <<>> ELSE ref
    /\ answered' = answered \cup {saving}
    /\ UNCHANGED <<blobs, trees, commits, saving, parent, attempted>>

Cut ==
    /\ step # "idle" /\ step' = "idle"
    /\ step = "refFill" => RefTears
    /\ cuts < MaxCuts /\ cuts' = cuts + 1
    /\ ref' = IF step = "refFill" THEN <<>> ELSE ref
    /\ UNCHANGED <<blobs, trees, commits, saving, parent, attempted, answered>>

HistoryNext ==
    \/ \E s \in Saves : ArchiveStart(s)
    \/ WriteBlob \/ WriteTree \/ WriteCommit \/ TruncateRef \/ FillRef \/ AnswerKept
    \/ Cut

HistorySpec == HistoryInit /\ [][HistoryNext]_historyVars

-----------------------------------------------------------------------------
(* The commits list() walks from the head; an empty head lists as none.    *)
Chain == {SubSeq(ref, 1, n) : n \in 1 .. Len(ref)}

Listed == {ref[i] : i \in DOMAIN ref}

(* read(c) needs the commit, its tree and the save in it.                  *)
Readable(c) == c \in commits /\ c[Len(c)] \in trees /\ c[Len(c)] \in blobs

(* What the history lists can be read, wherever the archives before it     *)
(* were cut short: list() never throws on a missing object, and no entry   *)
(* offers a save that is not there.                                        *)
ListedIsReadable == \A c \in Chain : Readable(c)

(* "It can always be restored": what was reported kept stays listed.       *)
KeptIsListed == answered \subseteq Listed

(* The list behaves as the abstract log, newest last.                      *)
Log == INSTANCE SaveLog WITH Saves <- Saves, log <- ref

HistoryIsALog == Log!LogSpec

=============================================================================
