----------------------------- MODULE DieselLedger -----------------------------
(***************************************************************************)
(* The main process's half of the diesel voucher exchange: the file        *)
(* diesel-vouchers.json, the mint handlers of DieselLedgerService that run *)
(* over it, and WinForge, the other application that stamps vouchers.      *)
(*                                                                         *)
(* A mint is an async function.  Everything between two awaits is one      *)
(* step: validate and issue the read; receive the bytes, parse and append; *)
(* write the temporary file; rename it over the ledger.  Nothing           *)
(* serialises two mints, so their steps interleave; and WinForge, a second *)
(* process, runs the same read-modify-rename against the same file.        *)
(*                                                                         *)
(* An operator whose name ends in an underscore and a word is a mutated    *)
(* form of the definition after it and is used by nothing here.            *)
(***************************************************************************)
EXTENDS Naturals, Sequences, FiniteSets

CONSTANTS
    Calls,            \* mint requests; a call also names the UUID it generates
    Litres,           \* the litre figures a request may carry, valid or not
    MaxInFlight,      \* how many mint handlers may overlap (environment)
    WinForgeOverlaps  \* whether WinForge may write inside a mint's window

ASSUME LedgerAssumption ==
    /\ IsFiniteSet(Calls)
    /\ Litres \subseteq Nat
    /\ MaxInFlight \in Nat \ {0}
    /\ WinForgeOverlaps \in BOOLEAN

VARIABLES
    fileKind,   \* "absent", "ledger" or "damaged" (unparsable or a newer schema)
    ledger,     \* the vouchers in the file, <<>> unless fileKind = "ledger"
    phase,      \* where each mint handler stands
    asked,      \* the litres each request carries
    draft,      \* what each mint holds in memory between its read and its rename
    wfPhase,    \* "idle" or "writing": WinForge's own read-modify-rename
    wfDraft,    \* what WinForge holds in memory
    stamped     \* every id WinForge has ever stamped (history)

ledgerVars == <<fileKind, ledger, phase, asked, draft, wfPhase, wfDraft, stamped>>

Voucher == [id : Calls, litres : Litres \ {0}, consumed : BOOLEAN]

InFlightPhases == {"reading", "writing", "renaming", "renamed"}

InFlight == {c \in Calls : phase[c] \in InFlightPhases}

IdsOf(s) == {s[i].id : i \in DOMAIN s}

ConsumedIds(s) == {s[i].id : i \in {j \in DOMAIN s : s[j].consumed}}

LedgerTypeOK ==
    /\ fileKind \in {"absent", "ledger", "damaged"}
    /\ ledger \in Seq(Voucher)
    /\ fileKind # "ledger" => ledger = <<>>
    /\ phase \in [Calls -> InFlightPhases \cup {"idle", "minted", "refused", "lost"}]
    /\ asked \in [Calls -> Litres \cup {0}]
    /\ draft \in [Calls -> Seq(Voucher)]
    /\ wfPhase \in {"idle", "writing"}
    /\ wfDraft \in Seq(Voucher)
    /\ stamped \in SUBSET Calls

(* The file may be missing, or hold something this build cannot parse.     *)
LedgerInit ==
    /\ fileKind \in {"absent", "damaged"}
    /\ ledger = <<>>
    /\ phase = [c \in Calls |-> "idle"]
    /\ asked = [c \in Calls |-> 0]
    /\ draft = [c \in Calls |-> <<>>]
    /\ wfPhase = "idle"
    /\ wfDraft = <<>>
    /\ stamped = {}

-----------------------------------------------------------------------------
(* appendVoucher: earlier entries are copied through, in order.            *)
appendVoucher_Prepends(s, v) == <<v>> \o s

appendVoucher(s, v) == Append(s, v)

NewVoucher(c) == [id |-> c, litres |-> asked[c], consumed |-> FALSE]

(* The diesel:mint handler is entered: arguments validated, read issued.   *)
MintRequest(c, l) ==
    /\ phase[c] = "idle"
    /\ Cardinality(InFlight) < MaxInFlight
    /\ WinForgeOverlaps \/ wfPhase = "idle"
    /\ asked' = [asked EXCEPT ![c] = l]
    /\ phase' = [phase EXCEPT ![c] = IF l > 0 THEN "reading" ELSE "refused"]
    /\ UNCHANGED <<fileKind, ledger, draft, wfPhase, wfDraft, stamped>>

(* The read resolves and the file does not parse: the mint is refused.     *)
MintReadRefused(c) ==
    /\ phase[c] = "reading"
    /\ fileKind = "damaged"
    /\ phase' = [phase EXCEPT ![c] = "refused"]
    /\ UNCHANGED <<fileKind, ledger, asked, draft, wfPhase, wfDraft, stamped>>

(* The read resolves.  A missing file is an empty ledger.  The UUID is     *)
(* generated here, so it is in no copy of the ledger yet.                  *)
MintRead_AnyFile(c) ==
    /\ phase[c] = "reading"
    /\ phase' = [phase EXCEPT ![c] = "writing"]
    /\ draft' = [draft EXCEPT ![c] = appendVoucher(ledger, NewVoucher(c))]
    /\ UNCHANGED <<fileKind, ledger, asked, wfPhase, wfDraft, stamped>>

MintRead_Cached(c) ==
    /\ phase[c] = "reading"
    /\ fileKind # "damaged"
    /\ phase' = [phase EXCEPT ![c] = "writing"]
    /\ draft' = [draft EXCEPT ![c] = <<NewVoucher(c)>>]
    /\ UNCHANGED <<fileKind, ledger, asked, wfPhase, wfDraft, stamped>>

MintRead(c) ==
    /\ phase[c] = "reading"
    /\ fileKind # "damaged"
    /\ phase' = [phase EXCEPT ![c] = "writing"]
    /\ draft' = [draft EXCEPT ![c] = appendVoucher(ledger, NewVoucher(c))]
    /\ UNCHANGED <<fileKind, ledger, asked, wfPhase, wfDraft, stamped>>

(* mkdir and writeFile of the temporary file: its own name, not the        *)
(* ledger's, so a crash before the rename changes nothing.                 *)
MintWriteTemp(c) ==
    /\ phase[c] = "writing"
    /\ phase' = [phase EXCEPT ![c] = "renaming"]
    /\ UNCHANGED <<fileKind, ledger, asked, draft, wfPhase, wfDraft, stamped>>

(* The rename replaces the whole file with the draft.                      *)
MintRename(c) ==
    /\ phase[c] = "renaming"
    /\ fileKind' = "ledger"
    /\ ledger' = draft[c]
    /\ phase' = [phase EXCEPT ![c] = "renamed"]
    /\ UNCHANGED <<asked, draft, wfPhase, wfDraft, stamped>>

(* The awaited rename resolves and the handler answers ok.                 *)
MintAnswer(c) ==
    /\ phase[c] = "renamed"
    /\ phase' = [phase EXCEPT ![c] = "minted"]
    /\ UNCHANGED <<fileKind, ledger, asked, draft, wfPhase, wfDraft, stamped>>

(* readFile (other than ENOENT), mkdir, writeFile or rename throws.        *)
MintFails_AfterRename(c) ==
    /\ phase[c] = "renaming"
    /\ fileKind' = "ledger"
    /\ ledger' = draft[c]
    /\ phase' = [phase EXCEPT ![c] = "refused"]
    /\ UNCHANGED <<asked, draft, wfPhase, wfDraft, stamped>>

MintFails(c) ==
    /\ phase[c] \in {"reading", "writing", "renaming"}
    /\ phase' = [phase EXCEPT ![c] = "refused"]
    /\ UNCHANGED <<fileKind, ledger, asked, draft, wfPhase, wfDraft, stamped>>

(* The main process dies: every handler in flight is gone, the file stays. *)
LedgerCrash ==
    /\ InFlight # {}
    /\ phase' = [c \in Calls |-> IF c \in InFlight THEN "lost" ELSE phase[c]]
    /\ UNCHANGED <<fileKind, ledger, asked, draft, wfPhase, wfDraft, stamped>>

-----------------------------------------------------------------------------
(* WinForge, as the exchange document describes it: it reads the ledger    *)
(* and stamps one voucher it has consumed ...                              *)
Stamp(s, i) == [s EXCEPT ![i].consumed = TRUE]

WinForgeRead(i) ==
    /\ wfPhase = "idle"
    /\ WinForgeOverlaps \/ InFlight = {}
    /\ ~ledger[i].consumed
    /\ wfDraft' = Stamp(ledger, i)
    /\ stamped' = stamped \cup {ledger[i].id}
    /\ wfPhase' = "writing"
    /\ UNCHANGED <<fileKind, ledger, phase, asked, draft>>

(* ... and renames its own copy over the file.                             *)
WinForgeRename ==
    /\ wfPhase = "writing"
    /\ wfPhase' = "idle"
    /\ ledger' = wfDraft
    /\ UNCHANGED <<fileKind, phase, asked, draft, wfDraft, stamped>>

MintStep(c) ==
    \/ MintReadRefused(c)
    \/ MintRead(c)
    \/ MintWriteTemp(c)
    \/ MintRename(c)
    \/ MintAnswer(c)
    \/ MintFails(c)

LedgerNext ==
    \/ \E c \in Calls : (\E l \in Litres : MintRequest(c, l)) \/ MintStep(c)
    \/ LedgerCrash
    \/ \E i \in DOMAIN ledger : WinForgeRead(i)
    \/ WinForgeRename

(* An await on a file operation eventually resolves or rejects.            *)
LedgerFairness == \A c \in Calls : WF_ledgerVars(MintStep(c))

LedgerSpec == LedgerInit /\ [][LedgerNext]_ledgerVars /\ LedgerFairness

-----------------------------------------------------------------------------
(* The ledger's ids are unique, however the handlers' steps interleave.    *)
(* The file is replaced wholesale by copies taken at different times, and  *)
(* appendVoucher's duplicate check only ever saw one of them.              *)
IdsUnique ==
    \A i, j \in DOMAIN ledger : ledger[i].id = ledger[j].id => i = j

(* A voucher in the file is worth exactly the positive number of litres    *)
(* its own handler was asked for, and that handler got as far as the       *)
(* rename: a mint answered with a reason has left nothing in the file.     *)
VouchersAreAsAsked ==
    \A i \in DOMAIN ledger :
        LET v == ledger[i]
        IN  /\ phase[v.id] \in {"renamed", "minted", "lost"}
            /\ v.litres = asked[v.id]
            /\ v.litres > 0

(* "There is no method in the cookie-side code that sets consumedAt": a    *)
(* stamp in the file was put there by WinForge, never invented by a mint,  *)
(* whichever stale copies were renamed over each other.                    *)
OnlyWinForgeStamps == ConsumedIds(ledger) \subseteq stamped

(* The file is a sound ledger at every moment, whoever renames which copy  *)
(* over it (appendVoucher, DieselLedgerService.mint).                      *)
LedgerIsSound == IdsUnique /\ VouchersAreAsAsked /\ OnlyWinForgeStamps

(* A file the game cannot parse is never overwritten.                      *)
DamagedFileIsPreserved ==
    [][fileKind = "damaged" => UNCHANGED <<fileKind, ledger>>]_ledgerVars

(* A mint answered ok stays in the file for good.                          *)
MintedIsKept ==
    \A c \in Calls : phase[c] = "minted" => c \in IdsOf(ledger)

(* The file behaves as the abstract book.                                  *)
Book == INSTANCE VoucherBook WITH Ids <- Calls, Litres <- Litres, book <- ledger

LedgerIsABook == Book!Spec

=============================================================================
