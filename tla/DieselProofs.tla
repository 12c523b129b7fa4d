----------------------------- MODULE DieselProofs -----------------------------
(***************************************************************************)
(* What the diesel ledger guarantees for every set of mints, every number  *)
(* of them in flight and whatever WinForge does in between; what it        *)
(* guarantees in addition when writers do not overlap; and what is left of *)
(* it under play, for every number of calls, launches and litres.          *)
(***************************************************************************)
EXTENDS DieselExchange, SumTheorems

(* The ids of a copy of the ledger are pairwise distinct.                  *)
Distinct(s) == \A i, j \in DOMAIN s : s[i].id = s[j].id => i = j

(* Its stamps are WinForge's.                                              *)
HonestStamps(s) == \A i \in DOMAIN s : s[i].consumed => s[i].id \in stamped

(* What VouchersAreAsAsked says, of one voucher.                           *)
AsAsked(v) ==
    /\ phase[v.id] \in {"renamed", "minted", "lost"}
    /\ v.litres = asked[v.id]
    /\ v.litres > 0

(* Every copy of the ledger, in the file, in a mint's memory or in         *)
(* WinForge's, is one that a rename may install at any later time: that is *)
(* what makes the invariant inductive although copies go stale.            *)
LedgerInv ==
    /\ LedgerTypeOK
    /\ Distinct(ledger) /\ HonestStamps(ledger)
    /\ \A i \in DOMAIN ledger : AsAsked(ledger[i])
    /\ Distinct(wfDraft) /\ HonestStamps(wfDraft)
    /\ \A i \in DOMAIN wfDraft : AsAsked(wfDraft[i])
    /\ wfPhase = "writing" => fileKind = "ledger"
    /\ \A c \in Calls :
         /\ Distinct(draft[c]) /\ HonestStamps(draft[c])
         /\ \A i \in DOMAIN draft[c] : draft[c][i].id # c => AsAsked(draft[c][i])
         /\ \A i \in DOMAIN draft[c] : draft[c][i].id = c => draft[c][i].litres = asked[c]
         /\ phase[c] = "idle" => draft[c] = <<>>
         /\ phase[c] \in InFlightPhases => asked[c] > 0
         /\ phase[c] \in {"writing", "renaming", "renamed"} => fileKind # "damaged"

-----------------------------------------------------------------------------
(* Appending a voucher whose id is new keeps a copy well formed and its    *)
(* ids distinct.                                                           *)
LEMMA AppendLemma ==
    ASSUME NEW s \in Seq(Voucher), NEW v \in Voucher, Distinct(s), v.id \notin IdsOf(s)
    PROVE  /\ appendVoucher(s, v) \in Seq(Voucher)
           /\ Distinct(appendVoucher(s, v))
           /\ DOMAIN appendVoucher(s, v) = DOMAIN s \cup {Len(s) + 1}
           /\ \A i \in DOMAIN s : appendVoucher(s, v)[i] = s[i]
           /\ appendVoucher(s, v)[Len(s) + 1] = v
BY DEF appendVoucher, Distinct, IdsOf

(* Stamping a voucher changes nothing but its stamp.                       *)
LEMMA StampLemma ==
    ASSUME NEW s \in Seq(Voucher), NEW i \in DOMAIN s
    PROVE  /\ Stamp(s, i) \in Seq(Voucher)
           /\ DOMAIN Stamp(s, i) = DOMAIN s
           /\ \A j \in DOMAIN s : /\ Stamp(s, i)[j].id = s[j].id
                                  /\ Stamp(s, i)[j].litres = s[j].litres
                                  /\ j # i => Stamp(s, i)[j].consumed = s[j].consumed
<1>1. s[i] \in Voucher
  OBVIOUS
<1>2. [s[i] EXCEPT !.consumed = TRUE] \in Voucher
  BY <1>1 DEF Voucher
<1>3. Stamp(s, i) \in Seq(Voucher)
  BY <1>2 DEF Stamp
<1>4. DOMAIN Stamp(s, i) = DOMAIN s
  BY DEF Stamp
<1>5. \A j \in DOMAIN s : s[j] \in Voucher
  OBVIOUS
<1> QED
  BY <1>3, <1>4, <1>5 DEF Stamp, Voucher

-----------------------------------------------------------------------------
(* The invariant holds of an absent or readable ledger before any mint. *)
LEMMA LedgerInvInit == LedgerInit => LedgerInv
BY DEF LedgerInit, LedgerInv, LedgerTypeOK, Distinct, HonestStamps, Voucher, InFlightPhases

(* Every step of a mint, a cancellation and a crash preserve the invariant. *)
LEMMA LedgerInvStep == LedgerInv /\ [LedgerNext]_ledgerVars => LedgerInv'
<1> SUFFICES ASSUME LedgerInv, [LedgerNext]_ledgerVars
             PROVE  LedgerInv'
  OBVIOUS
<1> USE LedgerAssumption DEF LedgerInv, LedgerTypeOK, InFlightPhases
<1>0. /\ \A i \in DOMAIN ledger : ledger[i] \in Voucher /\ ledger[i].id \in Calls
      /\ \A i \in DOMAIN wfDraft : wfDraft[i] \in Voucher /\ wfDraft[i].id \in Calls
      /\ \A c \in Calls : \A i \in DOMAIN draft[c] :
            draft[c][i] \in Voucher /\ draft[c][i].id \in Calls
  <2>1. \A s \in Seq(Voucher) : \A i \in DOMAIN s : s[i] \in Voucher
    OBVIOUS
  <2>2. \A v \in Voucher : v.id \in Calls
    BY DEF Voucher
  <2> QED
    BY <2>1, <2>2
<1>1. ASSUME NEW c \in Calls, NEW l \in Litres, MintRequest(c, l)
      PROVE  LedgerInv'
  <2>1. LedgerTypeOK'
    BY <1>1 DEF MintRequest
  <2>2. \A i \in DOMAIN ledger : ledger[i].id # c
    BY <1>1, <1>0 DEF MintRequest, AsAsked
  <2>3. \A i \in DOMAIN wfDraft : wfDraft[i].id # c
    BY <1>1, <1>0 DEF MintRequest, AsAsked
  <2>4. \A d \in Calls : \A i \in DOMAIN draft[d] : draft[d][i].id # c
    <3> SUFFICES ASSUME NEW d \in Calls, NEW i \in DOMAIN draft[d]
                 PROVE  draft[d][i].id # c
      OBVIOUS
    <3>1. phase[c] = "idle" /\ draft[c] = <<>>
      BY <1>1 DEF MintRequest
    <3>2. CASE d = c
      BY <3>1, <3>2
    <3>3. CASE d # c
      BY <3>1, <3>3, <1>0 DEF AsAsked
    <3> QED
      BY <3>2, <3>3
  <2>5. \A v \in Voucher : v.id # c /\ AsAsked(v) => AsAsked(v)'
    BY <1>1 DEF MintRequest, AsAsked, Voucher
  <2> QED
    BY <1>1, <1>0, <2>1, <2>2, <2>3, <2>4, <2>5 DEF MintRequest, Distinct, HonestStamps
<1>2. ASSUME NEW c \in Calls, MintReadRefused(c) \/ MintWriteTemp(c) \/ MintAnswer(c) \/ MintFails(c)
      PROVE  LedgerInv'
  <2>1. LedgerTypeOK'
    BY <1>2 DEF MintReadRefused, MintWriteTemp, MintAnswer, MintFails
  <2>2. \A v \in Voucher : AsAsked(v) => AsAsked(v)'
    BY <1>2 DEF MintReadRefused, MintWriteTemp, MintAnswer, MintFails, AsAsked, Voucher
  <2> QED
    BY <1>2, <1>0, <2>1, <2>2
       DEF MintReadRefused, MintWriteTemp, MintAnswer, MintFails, Distinct, HonestStamps
<1>3. ASSUME NEW c \in Calls, MintRead(c)
      PROVE  LedgerInv'
  <2> DEFINE d == appendVoucher(ledger, NewVoucher(c))
  <2>1. NewVoucher(c) \in Voucher /\ NewVoucher(c).id = c
    BY <1>3 DEF MintRead, NewVoucher, Voucher
  <2>2. c \notin IdsOf(ledger)
    BY <1>3, <1>0 DEF MintRead, IdsOf, AsAsked
  <2>2a. ledger \in Seq(Voucher) /\ Distinct(ledger)
    OBVIOUS
  <2>3. /\ d \in Seq(Voucher) /\ Distinct(d)
        /\ DOMAIN d = DOMAIN ledger \cup {Len(ledger) + 1}
        /\ \A i \in DOMAIN ledger : d[i] = ledger[i]
        /\ d[Len(ledger) + 1] = NewVoucher(c)
    BY ONLY <2>1, <2>2, <2>2a, AppendLemma
  <2> HIDE DEF d
  <2>4. draft' = [draft EXCEPT ![c] = d] /\ UNCHANGED <<ledger, wfDraft, wfPhase, stamped, asked, fileKind>>
    BY <1>3 DEF MintRead, d
  <2>4a. d' = d
    BY <2>4 DEF d, NewVoucher
  <2>5. LedgerTypeOK'
    BY <1>3, <2>3, <2>4 DEF MintRead
  <2>6. \A v \in Voucher : AsAsked(v) => AsAsked(v)'
    BY <1>3 DEF MintRead, AsAsked, Voucher
  <2>7. HonestStamps(d)'
    <3>1. \A i \in DOMAIN ledger : ledger[i].consumed => ledger[i].id \in stamped
      BY DEF HonestStamps
    <3>2. ~NewVoucher(c).consumed
      BY DEF NewVoucher
    <3> QED
      BY ONLY <2>3, <2>4, <2>4a, <3>1, <3>2 DEF HonestStamps
  <2>8. \A i \in DOMAIN d : /\ d[i].id # c => AsAsked(d[i])'
                            /\ d[i].id = c => d[i].litres = asked[c]
    <3>1. \A i \in DOMAIN ledger : ledger[i].id # c /\ AsAsked(ledger[i])'
      BY <1>0, <2>2, <2>4, <2>6 DEF IdsOf
    <3>2. NewVoucher(c).litres = asked[c]
      BY DEF NewVoucher
    <3> QED
      BY ONLY <2>1, <2>3, <2>4, <2>4a, <3>1, <3>2
  <2>9. \A e \in Calls : e # c => draft'[e] = draft[e] /\ phase'[e] = phase[e]
    BY <1>3, <2>4 DEF MintRead
  <2>10. draft'[c] = d /\ phase'[c] = "writing" /\ asked[c] > 0 /\ fileKind # "damaged"
    BY <1>3, <2>4 DEF MintRead
  <2>11. \A e \in Calls :
         /\ Distinct(draft[e])' /\ HonestStamps(draft[e])'
         /\ \A i \in DOMAIN draft'[e] : draft'[e][i].id # e => AsAsked(draft[e][i])'
         /\ \A i \in DOMAIN draft'[e] : draft'[e][i].id = e => draft'[e][i].litres = asked'[e]
    <3> SUFFICES ASSUME NEW e \in Calls
                 PROVE /\ Distinct(draft[e])' /\ HonestStamps(draft[e])'
                       /\ \A i \in DOMAIN draft'[e] : draft'[e][i].id # e => AsAsked(draft[e][i])'
                       /\ \A i \in DOMAIN draft'[e] : draft'[e][i].id = e => draft'[e][i].litres = asked'[e]
      OBVIOUS
    <3>1. CASE e = c
      BY ONLY <3>1, <2>3, <2>4, <2>4a, <2>7, <2>8, <2>10 DEF Distinct, HonestStamps, AsAsked
    <3>2. CASE e # c
      BY <3>2, <1>0, <2>4, <2>6, <2>9 DEF Distinct, HonestStamps
    <3> QED
      BY <3>1, <3>2
  <2>12. /\ Distinct(ledger)' /\ HonestStamps(ledger)'
         /\ (\A i \in DOMAIN ledger : AsAsked(ledger[i]))'
         /\ Distinct(wfDraft)' /\ HonestStamps(wfDraft)'
         /\ (\A i \in DOMAIN wfDraft : AsAsked(wfDraft[i]))'
    BY <1>0, <2>4, <2>6 DEF Distinct, HonestStamps
  <2> QED
    BY <2>4, <2>5, <2>9, <2>10, <2>11, <2>12
<1>4. ASSUME NEW c \in Calls, MintRename(c)
      PROVE  LedgerInv'
  <2>1. LedgerTypeOK'
    BY <1>4 DEF MintRename
  <2>2. \A v \in Voucher : AsAsked(v) => AsAsked(v)'
    BY <1>4 DEF MintRename, AsAsked, Voucher
  <2>3. \A i \in DOMAIN draft[c] : AsAsked(draft[c][i])'
    BY <1>4, <1>0, <2>2 DEF MintRename, AsAsked
  <2> QED
    BY <1>4, <1>0, <2>1, <2>2, <2>3 DEF MintRename, Distinct, HonestStamps
<1>5. CASE LedgerCrash
  <2>1. LedgerTypeOK'
    BY <1>5 DEF LedgerCrash
  <2>2. \A v \in Voucher : AsAsked(v) => AsAsked(v)'
    BY <1>5 DEF LedgerCrash, AsAsked, Voucher, InFlight
  <2> QED
    BY <1>5, <1>0, <2>1, <2>2 DEF LedgerCrash, Distinct, HonestStamps, InFlight
<1>6. ASSUME NEW i \in DOMAIN ledger, WinForgeRead(i)
      PROVE  LedgerInv'
  <2> DEFINE d == Stamp(ledger, i)
  <2>1. /\ d \in Seq(Voucher) /\ DOMAIN d = DOMAIN ledger
        /\ \A j \in DOMAIN ledger : /\ d[j].id = ledger[j].id
                                    /\ d[j].litres = ledger[j].litres
                                    /\ j # i => d[j].consumed = ledger[j].consumed
    BY StampLemma
  <2>2. /\ wfDraft' = d /\ stamped' = stamped \cup {ledger[i].id}
        /\ UNCHANGED <<fileKind, ledger, phase, asked, draft>> /\ wfPhase' = "writing"
    BY <1>6 DEF WinForgeRead
  <2>2a. d' = d
    BY <2>2 DEF Stamp
  <2> HIDE DEF d
  <2>3. Distinct(d) /\ HonestStamps(d)'
    <3>1. Distinct(ledger) /\ HonestStamps(ledger)
      OBVIOUS
    <3> QED
      BY ONLY <3>1, <2>1, <2>2, <2>2a DEF Distinct, HonestStamps
  <2>4. \A j \in DOMAIN d : AsAsked(d[j])'
    <3>1. \A j \in DOMAIN ledger : AsAsked(ledger[j])
      OBVIOUS
    <3> QED
      BY ONLY <3>1, <2>1, <2>2, <2>2a DEF AsAsked
  <2>5. LedgerTypeOK' /\ fileKind = "ledger"
    BY <1>0, <2>1, <2>2
  <2>6. \A v : AsAsked(v) => AsAsked(v)'
    BY <2>2 DEF AsAsked
  <2>7. \A s : HonestStamps(s) => HonestStamps(s)'
    BY <2>2 DEF HonestStamps
  <2> QED
    BY <2>2, <2>2a, <2>3, <2>4, <2>5, <2>6, <2>7 DEF Distinct, HonestStamps
<1>7. CASE WinForgeRename
  <2>1. LedgerTypeOK'
    BY <1>7 DEF WinForgeRename
  <2> QED
    BY <1>7, <2>1 DEF WinForgeRename, Distinct, HonestStamps, AsAsked
<1>8. CASE UNCHANGED ledgerVars
  BY <1>8 DEF ledgerVars, Distinct, HonestStamps, AsAsked
<1> QED
  BY <1>1, <1>2, <1>3, <1>4, <1>5, <1>6, <1>7, <1>8 DEF LedgerNext, MintStep

(* The file, and every copy of it that a mint holds, is sound, for every   *)
(* number of mints and of overlaps (DieselLedgerService.mint).             *)
THEOREM LedgerInvariant == LedgerSpec => []LedgerInv
BY LedgerInvInit, LedgerInvStep, PTL DEF LedgerSpec

(* No id is ever twice in the ledger.                                      *)
THEOREM IdsAreUnique == LedgerSpec => []IdsUnique
<1>1. LedgerInv => IdsUnique
  BY DEF LedgerInv, IdsUnique, Distinct
<1> QED
  BY <1>1, LedgerInvariant, PTL

(* A voucher in the file is exactly what its own mint was asked for.       *)
THEOREM VouchersAreHonest == LedgerSpec => []VouchersAreAsAsked
<1>1. LedgerInv => VouchersAreAsAsked
  BY DEF LedgerInv, VouchersAreAsAsked, AsAsked
<1> QED
  BY <1>1, LedgerInvariant, PTL

(* The game never sets consumedAt.                                         *)
THEOREM StampsAreWinForges == LedgerSpec => []OnlyWinForgeStamps
<1>1. LedgerInv => OnlyWinForgeStamps
  BY DEF LedgerInv, OnlyWinForgeStamps, ConsumedIds, HonestStamps
<1> QED
  BY <1>1, LedgerInvariant, PTL

(* The inductive invariant contains what the run checks. *)
LEMMA LedgerInvIsSound == LedgerInv => LedgerIsSound
BY DEF LedgerInv, LedgerIsSound, IdsUnique, Distinct, VouchersAreAsAsked, AsAsked, OnlyWinForgeStamps, ConsumedIds, HonestStamps

(* The file is a sound ledger at every moment, for any set of mints: the three *)
(* theorems above, together (appendVoucher, DieselLedgerService.mint).         *)
THEOREM LedgerStaysSound == LedgerSpec => []LedgerIsSound
BY LedgerInvIsSound, LedgerInvariant, PTL

(* No step of the ledger replaces a file it could not parse. *)
LEMMA DamagedFileStep ==
      LedgerInv /\ [LedgerNext]_ledgerVars
        => [fileKind = "damaged" => UNCHANGED <<fileKind, ledger>>]_ledgerVars
<1> SUFFICES ASSUME LedgerInv, LedgerNext, fileKind = "damaged"
             PROVE  UNCHANGED <<fileKind, ledger>>
  BY DEF ledgerVars
<1>1. DOMAIN ledger = {}
  BY DEF LedgerInv, LedgerTypeOK
<1> QED
  BY <1>1 DEF LedgerInv, LedgerNext, MintStep, MintRequest, MintReadRefused, MintRead,
              MintWriteTemp, MintRename, MintAnswer, MintFails, LedgerCrash, WinForgeRename

(* A file that does not parse is never overwritten.                        *)
THEOREM DamagedFileStays == LedgerSpec => DamagedFileIsPreserved
BY DamagedFileStep, LedgerInvariant, PTL DEF LedgerSpec, DamagedFileIsPreserved

-----------------------------------------------------------------------------
(* When writers do not overlap: one mint in flight, WinForge between mints.*)
Serial == MaxInFlight = 1 /\ ~WinForgeOverlaps

(* No copy is stale: a draft is the file plus its own voucher, WinForge's  *)
(* copy is the file with one more stamp, and so no rename forgets anything.*)
SerialInv ==
    /\ LedgerInv
    /\ \A c, d \in InFlight : c = d
    /\ \A c \in Calls : phase[c] \in {"writing", "renaming"} =>
          draft[c] = appendVoucher(ledger, NewVoucher(c))
    /\ \A c \in Calls : phase[c] \in {"renamed", "minted"} => c \in IdsOf(ledger)
    /\ wfPhase = "writing" =>
          /\ InFlight = {}
          /\ \E i \in DOMAIN ledger : ~ledger[i].consumed /\ wfDraft = Stamp(ledger, i)

(* With no call between its read and its write there is no stale copy. *)
LEMMA NoneInFlight ==
    ASSUME Serial, Cardinality(InFlight) < MaxInFlight
    PROVE  InFlight = {}
<1>1. IsFiniteSet(InFlight)
  BY LedgerAssumption, FS_Subset DEF InFlight
<1> QED
  BY <1>1, FS_EmptySet, FS_CardinalityType DEF Serial

(* The serial invariant holds before any mint. *)
LEMMA SerialInvInit == LedgerInit => SerialInv
<1> SUFFICES ASSUME LedgerInit PROVE SerialInv
  OBVIOUS
<1>1. LedgerInv
  BY LedgerInvInit
<1> QED
  BY <1>1 DEF LedgerInit, SerialInv, InFlight, InFlightPhases

(* A step of a serial ledger is a step of the book, or leaves it alone.    *)
LEMMA SerialStep ==
    ASSUME Serial, SerialInv, [LedgerNext]_ledgerVars
    PROVE  SerialInv' /\ [Book!Next]_ledger
<1>0. LedgerInv' /\ LedgerInv /\ LedgerTypeOK
  BY LedgerInvStep DEF SerialInv, LedgerInv
<1>1. ASSUME NEW c \in Calls, NEW l \in Litres, MintRequest(c, l)
      PROVE  SerialInv' /\ UNCHANGED ledger
  <2>1. InFlight = {} /\ wfPhase = "idle"
    BY <1>1, NoneInFlight, <1>0 DEF MintRequest, Serial, LedgerTypeOK
  <2>2. \A d \in Calls : d # c => phase'[d] = phase[d]
    BY <1>0, <1>1 DEF MintRequest, LedgerTypeOK
  <2>3. phase'[c] \in {"reading", "refused"}
    BY <1>0, <1>1 DEF MintRequest, LedgerTypeOK
  <2> QED
    BY <1>0, <1>1, <2>1, <2>2, <2>3
       DEF SerialInv, MintRequest, InFlight, InFlightPhases, NewVoucher, IdsOf
<1>2. ASSUME NEW c \in Calls, MintReadRefused(c) \/ MintWriteTemp(c) \/ MintAnswer(c) \/ MintFails(c)
      PROVE  SerialInv' /\ UNCHANGED ledger
  <2>1. /\ c \in InFlight
        /\ UNCHANGED <<ledger, asked, draft, wfPhase, wfDraft>>
        /\ \A d \in Calls : d # c => phase'[d] = phase[d]
    BY <1>0, <1>2 DEF LedgerTypeOK, MintReadRefused, MintWriteTemp, MintAnswer, MintFails,
                      InFlight, InFlightPhases
  <2>2. InFlight' \subseteq InFlight
    BY <1>0, <1>2, <2>1 DEF InFlight
  <2>3. /\ phase'[c] \in {"writing", "renaming"} => phase[c] = "writing"
        /\ phase'[c] \in {"renamed", "minted"} => phase[c] = "renamed"
    BY <1>0, <1>2 DEF LedgerTypeOK, MintReadRefused, MintWriteTemp, MintAnswer, MintFails
  <2> QED
    BY <1>0, <2>1, <2>2, <2>3 DEF SerialInv, NewVoucher, IdsOf
<1>3. ASSUME NEW c \in Calls, MintRead(c)
      PROVE  SerialInv' /\ UNCHANGED ledger
  BY <1>0, <1>3 DEF SerialInv, LedgerTypeOK, MintRead, InFlight, InFlightPhases, NewVoucher, IdsOf
<1>4. ASSUME NEW c \in Calls, MintRename(c)
      PROVE  SerialInv' /\ Book!Next
  <2>1. /\ draft[c] = appendVoucher(ledger, NewVoucher(c)) /\ ledger' = draft[c]
        /\ c \in InFlight /\ wfPhase # "writing"
        /\ UNCHANGED <<asked, draft, wfPhase>>
    BY <1>4 DEF SerialInv, MintRename, InFlight, InFlightPhases
  <2>2. c \notin IdsOf(ledger)
    BY <1>0, <1>4 DEF LedgerInv, MintRename, IdsOf, AsAsked
  <2>3. NewVoucher(c) \in Voucher /\ NewVoucher(c).id = c /\ ~NewVoucher(c).consumed
    BY <1>0, <1>4 DEF LedgerInv, LedgerTypeOK, MintRename, NewVoucher, Voucher, InFlightPhases
  <2>4. Book!Mint(NewVoucher(c)) /\ NewVoucher(c) \in Book!Entry
    BY <2>1, <2>2, <2>3 DEF Book!Mint, Book!Written, Book!Entry, IdsOf, appendVoucher, Voucher
  <2>5. IdsOf(ledger)' = IdsOf(ledger) \cup {c}
    <3>1. ledger \in Seq(Voucher) /\ Distinct(ledger)
      BY <1>0 DEF LedgerInv, LedgerTypeOK
    <3> DEFINE d == appendVoucher(ledger, NewVoucher(c))
    <3>2. /\ DOMAIN d = DOMAIN ledger \cup {Len(ledger) + 1}
          /\ \A i \in DOMAIN ledger : d[i] = ledger[i]
          /\ d[Len(ledger) + 1] = NewVoucher(c)
      <4> HIDE DEF d
      <4> QED
        BY ONLY <2>2, <2>3, <3>1, AppendLemma DEF d
    <3>3. ledger' = d
      BY <2>1
    <3> HIDE DEF d
    <3> QED
      BY ONLY <2>3, <3>2, <3>3 DEF IdsOf
  <2>6. /\ \A d \in Calls : d # c => phase'[d] = phase[d] /\ d \notin InFlight
        /\ phase'[c] = "renamed"
    BY <1>0, <1>4, <2>1 DEF SerialInv, LedgerTypeOK, MintRename
  <2>7. SerialInv'
    BY <1>0, <2>1, <2>5, <2>6 DEF SerialInv, InFlight, InFlightPhases
  <2> QED
    BY <2>4, <2>7 DEF Book!Next
<1>5. CASE LedgerCrash
  BY <1>0, <1>5 DEF SerialInv, LedgerTypeOK, LedgerCrash, InFlight, InFlightPhases, NewVoucher, IdsOf
<1>6. ASSUME NEW i \in DOMAIN ledger, WinForgeRead(i)
      PROVE  SerialInv' /\ UNCHANGED ledger
  BY <1>0, <1>6 DEF SerialInv, LedgerTypeOK, WinForgeRead, Serial, InFlight, InFlightPhases, NewVoucher, IdsOf
<1>7. ASSUME WinForgeRename
      PROVE  SerialInv' /\ Book!Next
  <2>1. /\ InFlight = {} /\ ledger' = wfDraft /\ wfPhase' = "idle"
        /\ UNCHANGED <<phase, asked, draft>>
    BY <1>7 DEF SerialInv, WinForgeRename
  <2>2. PICK i \in DOMAIN ledger : ~ledger[i].consumed /\ ledger' = Stamp(ledger, i)
    BY <1>7, <2>1 DEF SerialInv, WinForgeRename
  <2>3. Book!Stamp(i)
    BY <2>2 DEF Book!Stamp, Stamp
  <2>4. IdsOf(ledger)' = IdsOf(ledger)
    <3>1. ledger \in Seq(Voucher)
      BY <1>0 DEF LedgerTypeOK
    <3> QED
      BY ONLY <2>2, <3>1, StampLemma DEF IdsOf
  <2>5. SerialInv'
    BY <1>0, <2>1, <2>4 DEF SerialInv, InFlight, InFlightPhases
  <2> QED
    BY <2>2, <2>3, <2>5 DEF Book!Next
<1>8. CASE UNCHANGED ledgerVars
  BY <1>0, <1>8 DEF SerialInv, ledgerVars, InFlight, NewVoucher, IdsOf
<1> QED
  BY <1>1, <1>2, <1>3, <1>4, <1>5, <1>6, <1>7, <1>8 DEF LedgerNext, MintStep, LedgerCrash

(* A mint answered ok is in the file for good, whatever crashes.           *)
THEOREM SerialKeepsMinted ==
    ASSUME Serial PROVE LedgerSpec => []MintedIsKept
<1>1. SerialInv => MintedIsKept
  BY DEF SerialInv, MintedIsKept
<1>2. SerialInv /\ [LedgerNext]_ledgerVars => SerialInv'
  BY SerialStep
<1> QED
  BY <1>1, <1>2, SerialInvInit, PTL DEF LedgerSpec

(* The serial ledger implements the append-only book.                      *)
THEOREM SerialIsABook ==
    ASSUME Serial PROVE LedgerSpec => LedgerIsABook
<1>1. LedgerInit => Book!Init
  BY DEF LedgerInit, Book!Init
<1>2. SerialInv /\ [LedgerNext]_ledgerVars => SerialInv' /\ [Book!Next]_ledger
  BY SerialStep
<1> QED
  BY <1>1, <1>2, SerialInvInit, PTL DEF LedgerSpec, LedgerIsABook, Book!Spec

-----------------------------------------------------------------------------
(* Under play: everything the game does to the ledger is a step of the     *)
(* ledger's own, and no litre is made or lost on the way to the vouchers.  *)
ExchangeInv == LedgerInv /\ ExchangeTypeOK /\ LitresAreConserved

(* What the observer sees grow is a figure the ledger can be asked for. *)
LEMMA ObservedIsAsked ==
  ASSUME NEW from \in Depot, NEW to \in Depot, Observe(from, to)
  PROVE  [LedgerNext]_ledgerVars
<1>1. CASE to.minted > from.minted
  <2>1. PICK c \in Calls : MintRequest(c, to.minted - from.minted)
    BY <1>1 DEF Observe
  <2>2. to.minted - from.minted \in 1 .. MaxMade
    BY <1>1, ExchangeAssumption DEF Depot
  <2>3. to.minted - from.minted \in Litres
    BY <2>2, ExchangeAssumption
  <2> QED
    BY <2>1, <2>3 DEF LedgerNext
<1>2. CASE ~(to.minted > from.minted)
  BY <1>2 DEF Observe
<1> QED
  BY <1>1, <1>2

(* A new depot is typed and its litres add up. *)
LEMMA FreshIsADepot == FreshDepot \in Depot /\ FreshDepot.made = FreshDepot.tank + FreshDepot.minted
BY ExchangeAssumption DEF FreshDepot, Depot

(* The invariant holds when the application starts. *)
LEMMA ExchangeInvInit == ExchangeInit => ExchangeInv
<1> SUFFICES ASSUME ExchangeInit PROVE ExchangeInv
  OBVIOUS
<1>1. LedgerInv /\ LedgerTypeOK
  BY LedgerInvInit DEF ExchangeInit, LedgerInv
<1>2. ExchangeTypeOK
  <2>1. 0 \in 0 .. MaxLaunches /\ 0 \in Nat /\ FALSE \in BOOLEAN
    BY ExchangeAssumption
  <2> QED
    BY ONLY ExchangeInit, <1>1, <2>1, FreshIsADepot DEF ExchangeInit, ExchangeTypeOK
<1>3. LitresAreConserved
  BY FreshIsADepot DEF ExchangeInit, LitresAreConserved
<1> QED
  BY <1>1, <1>2, <1>3 DEF ExchangeInv

(* Every step of the exchange is a step of the ledger, or leaves it alone, and *)
(* keeps the accounts of all three depots.                                     *)
LEMMA ExchangeStep ==
  ASSUME ExchangeTypeOK, LitresAreConserved, [ExchangeNext]_exchangeVars
  PROVE  /\ [LedgerNext]_ledgerVars
         /\ LedgerTypeOK' => ExchangeTypeOK'
         /\ LitresAreConserved'
<1>0. /\ depot \in Depot /\ savedDepot \in Depot /\ archived \in Depot
      /\ depot.made = depot.tank + depot.minted
      /\ savedDepot.made = savedDepot.tank + savedDepot.minted
      /\ archived.made = archived.tank + archived.minted
      /\ MaxMade \in Nat /\ TankCapacity \in Nat /\ MaxLaunches \in Nat
      /\ launches \in 0 .. MaxLaunches /\ shipped \in Nat /\ resent \in Nat
  BY ExchangeAssumption DEF ExchangeTypeOK, LitresAreConserved
<1>1. \A from, to \in Depot : Growth(from, to) \in Nat
  BY <1>0 DEF Growth, Depot
<1>2. CASE Launch
  <2>1. [LedgerNext]_ledgerVars
    BY <1>0, <1>2, FreshIsADepot, ObservedIsAsked DEF Launch
  <2> QED
    BY <1>0, <1>1, <1>2, <2>1, FreshIsADepot DEF Launch, ExchangeTypeOK, LitresAreConserved
<1>3. CASE Manufacture
  <2> DEFINE d == [depot EXCEPT !.made = @ + 1, !.tank = @ + 1]
  <2>0. /\ depot.made \in 0 .. MaxMade /\ depot.tank \in 0 .. TankCapacity /\ depot.minted \in 0 .. MaxMade
        /\ depot.made < MaxMade /\ depot.tank < TankCapacity
    BY <1>0, <1>3 DEF Manufacture, Depot
  <2>1. d \in Depot /\ d.made = d.tank + d.minted
    <3>1. d.made = depot.made + 1 /\ d.tank = depot.tank + 1 /\ d.minted = depot.minted
      BY <1>0 DEF Depot
    <3>2. depot.made + 1 \in 0 .. MaxMade /\ depot.tank + 1 \in 0 .. TankCapacity
      BY <1>0, <2>0
    <3>3. depot.made + 1 = depot.tank + 1 + depot.minted
      BY <1>0, <2>0
    <3>4. d \in Depot
      BY <1>0, <2>0, <3>2 DEF Depot
    <3> HIDE DEF d
    <3> QED
      BY <3>1, <3>3, <3>4
  <2>2. depot' = d /\ Observe(depot, d) /\ UNCHANGED <<open, savedDepot, archived, launches, shipped, resent>>
    BY <1>3 DEF Manufacture, Becomes
  <2> HIDE DEF d
  <2>3. [LedgerNext]_ledgerVars
    BY <1>0, <2>1, <2>2, ObservedIsAsked
  <2> QED
    BY <1>0, <2>1, <2>2, <2>3 DEF ExchangeTypeOK, LitresAreConserved
<1>4. CASE ShipPressed \/ AutoShip
  <2>1. PICK litres \in Nat : shipFromTanks(litres)
    BY <1>0, <1>4 DEF ShipPressed, AutoShip, Depot
  <2> DEFINE d == [depot EXCEPT !.tank = @ - litres, !.minted = @ + litres]
  <2>0. /\ depot.made \in 0 .. MaxMade /\ depot.tank \in 0 .. TankCapacity /\ depot.minted \in 0 .. MaxMade
        /\ litres <= depot.tank
    BY <1>0, <2>1 DEF shipFromTanks, Depot
  <2>2. d \in Depot /\ d.made = d.tank + d.minted
    <3>1. d.made = depot.made /\ d.tank = depot.tank - litres /\ d.minted = depot.minted + litres
      BY <1>0 DEF Depot
    <3>2. depot.tank - litres \in 0 .. TankCapacity /\ depot.minted + litres \in 0 .. MaxMade
      BY <1>0, <2>0
    <3>3. depot.made = (depot.tank - litres) + (depot.minted + litres)
      BY <1>0, <2>0
    <3>4. d \in Depot
      BY <1>0, <2>0, <3>2 DEF Depot
    <3> HIDE DEF d
    <3> QED
      BY <3>1, <3>3, <3>4
  <2>3. depot' = d /\ Observe(depot, d) /\ shipped' = shipped + litres
    BY <2>1 DEF shipFromTanks, Becomes
  <2>4. UNCHANGED <<open, savedDepot, archived, launches, resent>>
    BY <1>4 DEF ShipPressed, AutoShip
  <2> HIDE DEF d
  <2>5. [LedgerNext]_ledgerVars
    BY <1>0, <2>2, <2>3, ObservedIsAsked
  <2> QED
    BY <1>0, <2>2, <2>3, <2>4, <2>5 DEF ExchangeTypeOK, LitresAreConserved
<1>5. CASE Autosave
  BY <1>0, <1>5 DEF Autosave, ExchangeTypeOK, LitresAreConserved
<1>6. CASE DeleteProgress
  <2>1. [LedgerNext]_ledgerVars
    BY <1>0, <1>6, FreshIsADepot, ObservedIsAsked DEF DeleteProgress, Becomes
  <2> QED
    BY <1>0, <1>6, <2>1, FreshIsADepot DEF DeleteProgress, Becomes, ExchangeTypeOK, LitresAreConserved
<1>7. CASE RestoreProgress
  <2>1. [LedgerNext]_ledgerVars
    BY <1>0, <1>7, ObservedIsAsked DEF RestoreProgress, Becomes
  <2> QED
    BY <1>0, <1>1, <1>7, <2>1 DEF RestoreProgress, Becomes, ExchangeTypeOK, LitresAreConserved
<1>8. CASE Close
  BY <1>0, <1>8, FreshIsADepot DEF Close, ExchangeTypeOK, LitresAreConserved
<1>9. CASE Die
  BY <1>0, <1>9, FreshIsADepot DEF Die, LedgerNext, ExchangeTypeOK, LitresAreConserved
<1>10. CASE LedgerStep
  BY <1>0, <1>10 DEF LedgerStep, LedgerNext, sessionVars, ExchangeTypeOK, LitresAreConserved
<1>11. CASE UNCHANGED exchangeVars
  BY <1>0, <1>11 DEF exchangeVars, sessionVars, ExchangeTypeOK, LitresAreConserved
<1> QED
  BY <1>2, <1>3, <1>4, <1>5, <1>6, <1>7, <1>8, <1>9, <1>10, <1>11 DEF ExchangeNext

(* Every step of play preserves the invariant and is a step of the ledger or leaves it alone. *)
LEMMA ExchangeInvStep == ExchangeInv /\ [ExchangeNext]_exchangeVars => ExchangeInv' /\ [LedgerNext]_ledgerVars
<1> SUFFICES ASSUME ExchangeInv, [ExchangeNext]_exchangeVars
             PROVE  ExchangeInv' /\ [LedgerNext]_ledgerVars
  OBVIOUS
<1>1. [LedgerNext]_ledgerVars /\ (LedgerTypeOK' => ExchangeTypeOK') /\ LitresAreConserved'
  BY ExchangeStep DEF ExchangeInv
<1>2. LedgerInv'
  BY <1>1, LedgerInvStep DEF ExchangeInv
<1> QED
  BY <1>1, <1>2 DEF ExchangeInv, LedgerInv

(* Whatever launches, play, deletions and restores do to the ledger file is    *)
(* what the ledger's own handlers may do: the exchange implements the ledger   *)
(* (GameProvider's observer, DieselLedgerService.mint).                        *)
THEOREM PlayIsALedger == ExchangeSpec => LedgerInit /\ [][LedgerNext]_ledgerVars
<1>1. ExchangeInit => LedgerInit
  BY DEF ExchangeInit
<1> QED
  BY <1>1, ExchangeInvInit, ExchangeInvStep, PTL DEF ExchangeSpec

(* For any number of saves and growths the depots stay typed and every litre made is in the tank or minted. *)
THEOREM ExchangeStaysSound == ExchangeSpec => []ExchangeInv
BY ExchangeInvInit, ExchangeInvStep, PTL DEF ExchangeSpec

(* Ids are unique, litres honest and stamps genuine under play too. *)
THEOREM LedgerStaysSoundInPlay == ExchangeSpec => []LedgerIsSound
<1>1. ExchangeInv => LedgerInv
  BY DEF ExchangeInv
<1> QED
  BY <1>1, LedgerInvIsSound, ExchangeStaysSound, PTL

(* A ledger file the game cannot parse is left alone, whatever is played. *)
THEOREM DamagedFileStaysInPlay == ExchangeSpec => DamagedFileIsPreserved
<1>1. ExchangeInv => LedgerInv
  BY DEF ExchangeInv
<1> QED
  BY <1>1, DamagedFileStep, PlayIsALedger, ExchangeStaysSound, PTL DEF DamagedFileIsPreserved

(* Every litre a run has made is in its tanks or on a voucher it minted, in    *)
(* the live state, the save and the archive, after any launches and restores   *)
(* (reducer.ts#shipFromTanks, GameProvider's deletion and undo).               *)
THEOREM NoLitreIsLost == ExchangeSpec => []LitresAreConserved
<1>1. ExchangeInv => LitresAreConserved
  BY DEF ExchangeInv
<1> QED
  BY <1>1, ExchangeStaysSound, PTL


-----------------------------------------------------------------------------
(* The litres: what is asked for is what grew, and what the ledger carries *)
(* was asked for.                                                          *)

(* A mint that was not asked for asks for nothing, and the mints that were ask for all that grew. *)
AccountsInv ==
    /\ ExchangeInv
    /\ \A c \in Calls : phase[c] = "idle" => asked[c] = 0
    /\ EveryGrowthIsAskedFor

LEMMA AskedIsCounted ==
  ASSUME LedgerTypeOK
  PROVE  IsFiniteSet(Calls) /\ asked \in [Calls -> Nat] /\ asked \in [Calls -> Int] /\ Sum(asked) \in Int
<1>1. IsFiniteSet(Calls) /\ asked \in [Calls -> Nat] /\ asked \in [Calls -> Int]
  <2>1. asked \in [Calls -> Litres \cup {0}] /\ Litres \cup {0} \subseteq Nat /\ Litres \cup {0} \subseteq Int
    BY LedgerAssumption DEF LedgerTypeOK
  <2>2. \A A, B : A \subseteq B => [Calls -> A] \subseteq [Calls -> B]
    OBVIOUS
  <2> QED BY <2>1, <2>2, LedgerAssumption
<1> QED BY <1>1, SumIsTyped

(* What the observer does: one more mint asks for the growth it saw, or nothing happens. *)
LEMMA ObservedIsCounted ==
  ASSUME LedgerTypeOK, \A c \in Calls : phase[c] = "idle" => asked[c] = 0,
         NEW from \in Depot, NEW to \in Depot, Observe(from, to)
  PROVE  /\ \A c \in Calls : phase'[c] = "idle" => asked'[c] = 0
         /\ Sum(asked') = Sum(asked) + Growth(from, to)
<1>0. from.minted \in Nat /\ to.minted \in Nat
  BY ExchangeAssumption DEF Depot
<1>1. CASE to.minted > from.minted
  <2> DEFINE n == to.minted - from.minted
  <2>1. n \in Nat /\ n > 0 /\ Growth(from, to) = n
    BY <1>0, <1>1 DEF Growth
  <2>2. PICK c \in Calls : MintRequest(c, n)
    BY <1>1 DEF Observe
  <2> HIDE DEF n
  <2>3. phase[c] = "idle" /\ asked' = [asked EXCEPT ![c] = n] /\ phase' = [phase EXCEPT ![c] = "reading"]
    BY <2>1, <2>2 DEF MintRequest
  <2>4. asked[c] = 0
    BY <2>3
  <2>5. asked' \in [Calls -> Int] /\ asked'[c] = n /\ \A d \in Calls \ {c} : asked'[d] = asked[d]
    BY <2>1, <2>3, AskedIsCounted
  <2>6. Sum(asked') = Sum(asked) + asked'[c] - asked[c]
    BY <2>5, AskedIsCounted, SumChanged
  <2>7. \A d \in Calls : phase'[d] = "idle" => asked'[d] = 0
    BY <2>3, <2>5 DEF LedgerTypeOK
  <2> QED BY <2>1, <2>4, <2>5, <2>6, <2>7, AskedIsCounted
<1>2. CASE ~(to.minted > from.minted)
  <2>1. UNCHANGED <<phase, asked>> /\ Growth(from, to) = 0
    BY <1>2 DEF Observe, ledgerVars, Growth
  <2> QED BY <2>1, AskedIsCounted
<1> QED BY <1>1, <1>2

(* A mint under way, a crash and WinForge ask for nothing. *)
LEMMA OthersAskNothing ==
  ASSUME LedgerTypeOK, \A c \in Calls : phase[c] = "idle" => asked[c] = 0,
         UNCHANGED ledgerVars \/ LedgerCrash \/ LedgerStep
  PROVE  asked' = asked /\ \A c \in Calls : phase'[c] = "idle" => asked'[c] = 0
<1>1. asked' = asked
  BY DEF ledgerVars, LedgerCrash, LedgerStep, MintStep, MintReadRefused, MintRead, MintWriteTemp, MintRename, MintAnswer,
         MintFails, WinForgeRead, WinForgeRename
<1>2. \A c \in Calls : phase'[c] = "idle" => phase[c] = "idle"
  <2>1. CASE UNCHANGED phase
    BY <2>1
  <2>2. CASE LedgerCrash
    BY <2>2 DEF LedgerCrash
  <2>3. ASSUME NEW c \in Calls, MintStep(c) PROVE \E p : p # "idle" /\ phase' = [phase EXCEPT ![c] = p]
    BY <2>3 DEF MintStep, MintReadRefused, MintRead, MintWriteTemp, MintRename, MintAnswer, MintFails
  <2>4. ASSUME NEW c \in Calls, MintStep(c) PROVE \A d \in Calls : phase'[d] = "idle" => phase[d] = "idle"
    BY <2>3, <2>4 DEF LedgerTypeOK
  <2> QED BY <2>1, <2>2, <2>4 DEF ledgerVars, LedgerStep, WinForgeRead, WinForgeRename
<1> QED BY <1>1, <1>2

LEMMA AccountsInvInit == ExchangeInit => AccountsInv
<1> SUFFICES ASSUME ExchangeInit PROVE AccountsInv
  OBVIOUS
<1>1. ExchangeInv /\ LedgerTypeOK
  BY ExchangeInvInit DEF ExchangeInv, ExchangeTypeOK
<1>2. shipped = 0 /\ resent = 0 /\ asked = [c \in Calls |-> 0]
  BY DEF ExchangeInit, LedgerInit
<1>3. Sum(asked) = 0
  <2> DEFINE f == [c \in {} |-> 0]
  <2>1. EachAdds(f, asked, Calls, 0)
    <3>1. DOMAIN f = {} /\ f \in [{} -> Int] /\ {} \cup Calls = Calls /\ {} \cap Calls = {}
      OBVIOUS
    <3> HIDE DEF f
    <3> QED BY <1>1, <1>2, <3>1, AskedIsCounted, FS_EmptySet DEF EachAdds
  <2>2. DOMAIN f = {}
    OBVIOUS
  <2> HIDE DEF f
  <2>3. Sum(f) = 0
    BY <2>2, SumOfEmpty
  <2>4. Sum(asked) = Sum(f) + 0 * Cardinality(Calls)
    BY <2>1, SumWithAll
  <2>5. Cardinality(Calls) \in Nat
    BY LedgerAssumption, FS_CardinalityType
  <2> QED BY <2>3, <2>4, <2>5
<1> QED BY <1>1, <1>2, <1>3 DEF AccountsInv, EveryGrowthIsAskedFor, LitresAsked

LEMMA AccountsInvStep == AccountsInv /\ [ExchangeNext]_exchangeVars => AccountsInv'
<1> SUFFICES ASSUME AccountsInv, [ExchangeNext]_exchangeVars PROVE AccountsInv'
  OBVIOUS
<1>0. /\ ExchangeInv' /\ LedgerTypeOK /\ shipped \in Nat /\ resent \in Nat
      /\ depot \in Depot /\ savedDepot \in Depot /\ archived \in Depot /\ FreshDepot \in Depot /\ depot' \in Depot
  BY ExchangeInvStep, FreshIsADepot DEF AccountsInv, ExchangeInv, ExchangeTypeOK
<1> DEFINE Idle == \A c \in Calls : phase[c] = "idle" => asked[c] = 0
<1>1. Idle /\ Sum(asked) = shipped + resent /\ Sum(asked) \in Int
  BY <1>0, AskedIsCounted DEF AccountsInv, EveryGrowthIsAskedFor, LitresAsked
<1>2. SUFFICES Idle' /\ Sum(asked') = shipped' + resent'
  BY <1>0 DEF AccountsInv, EveryGrowthIsAskedFor, LitresAsked
<1>3. CASE Launch
  <2>1. Observe(FreshDepot, savedDepot) /\ shipped' = shipped /\ resent' = resent + Growth(FreshDepot, savedDepot)
    BY <1>3 DEF Launch
  <2>2. Growth(FreshDepot, savedDepot) \in Int
    BY <1>0, ExchangeAssumption DEF Growth, Depot
  <2> QED BY <1>0, <1>1, <2>1, <2>2, ObservedIsCounted
<1>4. CASE Manufacture \/ DeleteProgress
  <2>1. Observe(depot, depot') /\ UNCHANGED <<shipped, resent>> /\ depot'.minted <= depot.minted
    <3>1. CASE Manufacture
      BY <1>0, <3>1, ExchangeAssumption DEF Manufacture, Becomes, Depot
    <3>2. CASE DeleteProgress
      BY <1>0, <3>2, ExchangeAssumption DEF DeleteProgress, Becomes, Depot, FreshDepot
    <3> QED BY <1>4, <3>1, <3>2
  <2>2. Growth(depot, depot') = 0
    BY <1>0, <2>1, ExchangeAssumption DEF Growth, Depot
  <2> QED BY <1>0, <1>1, <2>1, <2>2, ObservedIsCounted
<1>5. CASE ShipPressed \/ AutoShip
  <2>1. PICK litres \in Nat : shipFromTanks(litres)
    BY <1>0, <1>5, ExchangeAssumption DEF ShipPressed, AutoShip, Depot
  <2>2. /\ Observe(depot, depot') /\ depot' = [depot EXCEPT !.tank = @ - litres, !.minted = @ + litres]
        /\ shipped' = shipped + litres /\ litres > 0 /\ resent' = resent
    BY <1>5, <2>1 DEF shipFromTanks, Becomes, ShipPressed, AutoShip
  <2>3. depot'.minted = depot.minted + litres /\ depot.minted \in Nat
    BY <1>0, <2>2, ExchangeAssumption DEF Depot
  <2>4. Growth(depot, depot') = litres
    BY <2>2, <2>3 DEF Growth
  <2> QED BY <1>0, <1>1, <2>2, <2>4, ObservedIsCounted
<1>6. CASE RestoreProgress
  <2>1. Observe(depot, archived) /\ shipped' = shipped /\ resent' = resent + Growth(depot, archived)
    BY <1>6 DEF RestoreProgress, Becomes
  <2>2. Growth(depot, archived) \in Int
    BY <1>0, ExchangeAssumption DEF Growth, Depot
  <2> QED BY <1>0, <1>1, <2>1, <2>2, ObservedIsCounted
<1>7. CASE Autosave \/ Close \/ Die \/ LedgerStep \/ UNCHANGED exchangeVars
  <2>1. (UNCHANGED ledgerVars \/ LedgerCrash \/ LedgerStep) /\ UNCHANGED <<shipped, resent>>
    BY <1>7 DEF Autosave, Close, Die, LedgerStep, exchangeVars, sessionVars
  <2> QED BY <1>0, <1>1, <2>1, OthersAskNothing
<1> QED BY <1>3, <1>4, <1>5, <1>6, <1>7 DEF ExchangeNext

(* No voucher is counted twice and each is of another call, so the ledger carries no more than was asked. *)
LEMMA LedgerIsAsked ==
  ASSUME LedgerInv
  PROVE  LitresInLedger <= LitresAsked
<1> DEFINE f == [i \in DOMAIN ledger |-> ledger[i].litres]
           e == [i \in DOMAIN ledger |-> ledger[i].id]
<1>1. LedgerTypeOK /\ Distinct(ledger) /\ \A i \in DOMAIN ledger : AsAsked(ledger[i])
  BY DEF LedgerInv
<1>2. ledger \in Seq(Voucher) /\ DOMAIN ledger = 1 .. Len(ledger) /\ Len(ledger) \in Nat
  BY <1>1 DEF LedgerTypeOK
<1>3. \A i \in DOMAIN ledger : ledger[i].id \in Calls /\ ledger[i].litres \in Nat
  <2>1. \A s \in Seq(Voucher) : \A i \in DOMAIN s : s[i] \in Voucher
    OBVIOUS
  <2> QED BY <1>2, <2>1, LedgerAssumption DEF Voucher
<1>4. IsFiniteSet(DOMAIN ledger)
  BY <1>2, FS_Interval
<1>5. DOMAIN f = DOMAIN ledger /\ f \in [DOMAIN ledger -> Nat] /\ e \in [DOMAIN ledger -> Calls]
  BY <1>3
<1>6. \A i \in DOMAIN ledger : f[i] = asked[e[i]]
  BY <1>1 DEF AsAsked
<1>7. \A i, j \in DOMAIN ledger : e[i] = e[j] => i = j
  BY <1>1 DEF Distinct
<1>8. DOMAIN asked = Calls
  BY <1>1 DEF LedgerTypeOK
<1> HIDE DEF f, e
<1>9. EachOnce(f, asked, e)
  BY <1>1, <1>4, <1>5, <1>6, <1>7, <1>8, AskedIsCounted DEF EachOnce
<1>10. Sum(f) <= Sum(asked)
  BY <1>9, SumOfSome
<1> QED BY <1>10 DEF LitresInLedger, LitresAsked, f

(* Every growth of litresMinted the game's observer sees, shipments, launches and restores      *)
(* alike, is asked for once, and what was asked for reaches the file at most once, for any      *)
(* number of mints in flight, stale copies, crashes and stamps (GameProvider's observer of      *)
(* litresMinted, DieselLedgerService.mint).                                                     *)
THEOREM GrowthIsAskedOnce == ExchangeSpec => []GrowthIsMintedOnce
<1>1. AccountsInv => GrowthIsMintedOnce
  <2> SUFFICES ASSUME AccountsInv PROVE GrowthIsMintedOnce
    OBVIOUS
  <2>1. EveryGrowthIsAskedFor
    BY DEF AccountsInv
  <2>2. LitresInLedger <= LitresAsked
    BY LedgerIsAsked DEF AccountsInv, ExchangeInv
  <2> QED BY <2>1, <2>2 DEF GrowthIsMintedOnce, EveryGrowthIsAskedFor, LedgerNeverExceedsRequests
<1> QED BY <1>1, AccountsInvInit, AccountsInvStep, PTL DEF ExchangeSpec

=============================================================================
