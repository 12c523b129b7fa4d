---------------------------- MODULE DesktopProofs ----------------------------
(***************************************************************************)
(* What stands beside the game guarantees: that applications with nothing  *)
(* under way agree with the file of their settings, that what the security *)
(* screen reported of a call nobody disturbed stays so, that purchases are *)
(* drawn in good order and none is forgotten, and that the notice shows    *)
(* what is known of updates, for any number of applications, calls,        *)
(* failures, crashes, entries, purchases and versions.                     *)
(***************************************************************************)
EXTENDS SharedSettings, Authenticator, PurchaseFx, Updates, FiniteSetTheorems, TLAPS

-----------------------------------------------------------------------------
(* The settings that the applications share.                               *)
(* The mode the window of a will show when it has read all it was told. *)
Latest(a) == IF inbox[a] = <<>> THEN shown[a] ELSE inbox[a][Len(inbox[a])].mode

(* The answer to the window's first question is on its way exactly once. *)
FirstIsOnItsWay ==
  \A a \in Apps :
    /\ hydration[a] = "asked" => \A i \in DOMAIN inbox[a] : ~inbox[a][i].first
    /\ hydration[a] = "answered" => \E i \in DOMAIN inbox[a] : inbox[a][i].first

FailuresAreKnown ==
  \A a \in Apps \ spoiled : inbox[a] # <<>> => inbox[a][Len(inbox[a])].mode # NoMode

(* Whoever is behind the file has a read or a write of it still to come. *)
NewsIsOnItsWay ==
  \A a \in Apps \ spoiled :
    Latest(a) # shared => unseen[a] \/ writing[a] # <<>> \/ hydration[a] = "asked"

SettingsInv == SettingsTypeOK /\ FirstIsOnItsWay /\ FailuresAreKnown /\ NewsIsOnItsWay

-----------------------------------------------------------------------------
(* What is told last is last, and what was told before keeps its place. *)
LEMMA Appended ==
  ASSUME NEW S, NEW s \in Seq(S), NEW e \in S
  PROVE  /\ Append(s, e) \in Seq(S) /\ Append(s, e) # <<>>
         /\ Append(s, e)[Len(Append(s, e))] = e
         /\ DOMAIN Append(s, e) = DOMAIN s \cup {Len(s) + 1}
         /\ \A i \in DOMAIN s : Append(s, e)[i] = s[i]
         /\ Append(s, e)[Len(s) + 1] = e
OBVIOUS

(* Reading the oldest message leaves the others, the last one last. *)
LEMMA Read ==
  ASSUME NEW S, NEW s \in Seq(S), s # <<>>
  PROVE  /\ Head(s) = s[1] /\ Head(s) \in S /\ Tail(s) \in Seq(S)
         /\ Len(Tail(s)) = Len(s) - 1
         /\ Tail(s) = <<>> <=> Len(s) = 1
         /\ Tail(s) # <<>> => Tail(s)[Len(Tail(s))] = s[Len(s)]
         /\ \A i \in DOMAIN Tail(s) : i + 1 \in DOMAIN s /\ Tail(s)[i] = s[i + 1]
         /\ \A i \in DOMAIN s : i # 1 => i - 1 \in DOMAIN Tail(s) /\ Tail(s)[i - 1] = s[i]
<1>1. Len(s) \in Nat \ {0} /\ DOMAIN s = 1 .. Len(s)
  OBVIOUS
<1>2. Head(s) = s[1] /\ Head(s) \in S /\ Tail(s) \in Seq(S) /\ Len(Tail(s)) = Len(s) - 1
  OBVIOUS
<1>3. \A i \in DOMAIN Tail(s) : i + 1 \in DOMAIN s /\ Tail(s)[i] = s[i + 1]
  OBVIOUS
<1>4. DOMAIN Tail(s) = 1 .. Len(s) - 1
  BY <1>2
<1>5. Tail(s) = <<>> <=> Len(s) = 1
  BY <1>1, <1>2
<1>6. Tail(s) # <<>> => Tail(s)[Len(Tail(s))] = s[Len(s)]
  BY <1>1, <1>2, <1>3, <1>4, <1>5
<1>7. \A i \in DOMAIN s : i # 1 => i - 1 \in DOMAIN Tail(s) /\ Tail(s)[i - 1] = s[i]
  <2> TAKE i \in DOMAIN s
  <2> HAVE i # 1
  <2>1. i - 1 \in DOMAIN Tail(s) /\ (i - 1) + 1 = i
    BY <1>1, <1>4
  <2> QED
    BY <1>3, <2>1
<1> QED
  BY <1>2, <1>3, <1>5, <1>6, <1>7

(* Removing one delivered message leaves the order of the others. *)
LEMMA WithOneRemoved ==
  ASSUME NEW S, NEW s \in Seq(S), NEW i \in DOMAIN s
  PROVE  RemoveAt(s, i) \in Seq(S)
BY DEF RemoveAt

-----------------------------------------------------------------------------
(* What a window shows is a mode, and what it shows anew is written if it is hydrated. *)
LEMMA ShowsFacts ==
  ASSUME SettingsTypeOK, NEW a \in Apps, NEW mode \in Modes, NEW hydrated \in BOOLEAN,
         Shows(a, mode, hydrated)
  PROVE  /\ shown' \in [Apps -> Modes] /\ writing' \in [Apps -> Seq(Modes)]
         /\ shown'[a] = mode
         /\ \A b \in Apps : b # a => shown'[b] = shown[b] /\ writing'[b] = writing[b]
         /\ writing[a] # <<>> => writing'[a] # <<>>
         /\ hydrated /\ mode # shown[a] => writing'[a] # <<>>
<1>1. writing[a] \in Seq(Modes)
  BY DEF SettingsTypeOK
<1>2. Append(writing[a], mode) \in Seq(Modes) /\ Append(writing[a], mode) # <<>>
  BY <1>1, Appended
<1> QED
  BY <1>2 DEF SettingsTypeOK, Shows

(* A message told: it is the last of the inbox, and the others are where they were. *)
LEMMA TellsFacts ==
  ASSUME SettingsTypeOK, NEW a \in Apps, NEW first \in BOOLEAN, NEW mode \in Modes \cup {NoMode},
         Tells(a, first, mode)
  PROVE  /\ inbox' \in [Apps -> Seq(Message)] /\ inbox'[a] # <<>>
         /\ inbox'[a][Len(inbox'[a])] = [first |-> first, mode |-> mode]
         /\ Len(inbox[a]) + 1 \in DOMAIN inbox'[a] /\ inbox'[a][Len(inbox[a]) + 1].first = first
         /\ \A i \in DOMAIN inbox[a] : i \in DOMAIN inbox'[a] /\ inbox'[a][i] = inbox[a][i]
         /\ \A i \in DOMAIN inbox'[a] : i \notin DOMAIN inbox[a] => inbox'[a][i].first = first
         /\ \A b \in Apps : b # a => inbox'[b] = inbox[b]
<1> DEFINE told == [first |-> first, mode |-> mode]
<1>1. told \in Message /\ told.first = first /\ inbox[a] \in Seq(Message)
  BY DEF SettingsTypeOK, Message
<1>2. inbox' = [inbox EXCEPT ![a] = Append(@, told)]
  BY DEF Tells
<1>3. inbox'[a] = Append(inbox[a], told)
  BY <1>2 DEF SettingsTypeOK
<1>4. inbox' \in [Apps -> Seq(Message)] /\ \A b \in Apps : b # a => inbox'[b] = inbox[b]
  BY <1>1, <1>2, Appended DEF SettingsTypeOK
<1> HIDE DEF told
<1>5. /\ inbox'[a] # <<>> /\ inbox'[a][Len(inbox'[a])] = told
      /\ DOMAIN inbox'[a] = DOMAIN inbox[a] \cup {Len(inbox[a]) + 1}
      /\ \A i \in DOMAIN inbox[a] : inbox'[a][i] = inbox[a][i]
      /\ inbox'[a][Len(inbox[a]) + 1] = told
  BY ONLY <1>1, <1>3, Appended
<1> QED
  BY <1>1, <1>4, <1>5 DEF told

(* The invariant holds when the applications start on one file. *)
LEMMA SettingsInvInit == SettingsInit => SettingsInv
<1> SUFFICES ASSUME SettingsInit PROVE SettingsInv
  OBVIOUS
<1>1. SettingsTypeOK
  BY SettingsAssumption DEF SettingsInit, SettingsTypeOK
<1> QED
  BY <1>1 DEF SettingsInit, SettingsInv, FirstIsOnItsWay, FailuresAreKnown, NewsIsOnItsWay

(* Every choice, write, poll, delivery, failure and restart preserves the invariant. *)
LEMMA SettingsInvStep == SettingsInv /\ [SettingsNext]_settingsVars => SettingsInv'
<1> SUFFICES ASSUME SettingsInv, [SettingsNext]_settingsVars PROVE SettingsInv'
  OBVIOUS
<1>0. SettingsTypeOK /\ NoMode \notin Modes
  BY SettingsAssumption DEF SettingsInv
<1>1. ASSUME NEW a \in Apps, NEW mode \in Modes, Choose(a, mode)
      PROVE  SettingsInv'
  <2>1. Shows(a, mode, hydration[a] = "done") /\ (hydration[a] = "done") \in BOOLEAN
    BY <1>1 DEF Choose
  <2>2. /\ shown' \in [Apps -> Modes] /\ writing' \in [Apps -> Seq(Modes)]
        /\ \A b \in Apps : b # a => shown'[b] = shown[b] /\ writing'[b] = writing[b]
        /\ writing[a] # <<>> => writing'[a] # <<>>
        /\ hydration[a] = "done" => writing'[a] # <<>>
    BY <1>0, <1>1, <2>1, ShowsFacts DEF Choose
  <2>3. UNCHANGED <<shared, unseen, hydration, inbox, spoiled>>
    BY <1>1 DEF Choose
  <2>4. SettingsTypeOK'
    BY <1>0, <2>2, <2>3 DEF SettingsTypeOK
  <2>5. inbox[a] = <<>> => hydration[a] \in {"asked", "done"}
    BY <1>0 DEF SettingsInv, SettingsTypeOK, FirstIsOnItsWay
  <2>6. NewsIsOnItsWay'
    BY <2>2, <2>3, <2>5 DEF SettingsInv, NewsIsOnItsWay, Latest
  <2> QED
    BY <2>3, <2>4, <2>6 DEF SettingsInv, FirstIsOnItsWay, FailuresAreKnown
<1>2. ASSUME NEW a \in Apps, Land(a)
      PROVE  SettingsInv'
  <2>1. PICK i \in DOMAIN writing[a] : shared' = writing[a][i] /\ writing' = [writing EXCEPT ![a] = RemoveAt(@, i)]
    BY <1>2 DEF Land
  <2>2. unseen' = [b \in Apps |-> TRUE] /\ UNCHANGED <<shown, hydration, inbox, spoiled>>
    BY <1>2 DEF Land
  <2>3. writing[a] \in Seq(Modes)
    BY <1>0 DEF SettingsTypeOK
  <2>4. RemoveAt(writing[a], i) \in Seq(Modes) /\ writing[a][i] \in Modes
    BY <2>3, WithOneRemoved
  <2>5. SettingsTypeOK'
    BY <1>0, <2>1, <2>2, <2>4 DEF SettingsTypeOK
  <2> QED
    BY <2>2, <2>5 DEF SettingsInv, FirstIsOnItsWay, FailuresAreKnown, NewsIsOnItsWay
<1>3. ASSUME NEW a \in Apps, WriteFails(a)
      PROVE  SettingsInv'
  <2>1. PICK i \in DOMAIN writing[a] : writing' = [writing EXCEPT ![a] = RemoveAt(@, i)]
    BY <1>3 DEF WriteFails
  <2>2. spoiled' = spoiled \cup {a} /\ UNCHANGED <<shared, unseen, shown, hydration, inbox>>
    BY <1>3 DEF WriteFails
  <2>3. writing[a] \in Seq(Modes)
    BY <1>0 DEF SettingsTypeOK
  <2>4. RemoveAt(writing[a], i) \in Seq(Modes)
    BY <2>3, WithOneRemoved
  <2>5. SettingsTypeOK' /\ \A b \in Apps : b # a => writing'[b] = writing[b]
    BY <1>0, <2>1, <2>2, <2>4 DEF SettingsTypeOK
  <2>6. NewsIsOnItsWay'
    BY <2>2, <2>5 DEF SettingsInv, NewsIsOnItsWay, Latest
  <2> QED
    BY <2>2, <2>5, <2>6 DEF SettingsInv, FirstIsOnItsWay, FailuresAreKnown
<1>4. ASSUME NEW a \in Apps, Poll(a)
      PROVE  SettingsInv'
  <2>1. /\ Tells(a, FALSE, shared) /\ unseen' = [unseen EXCEPT ![a] = FALSE]
        /\ UNCHANGED <<shared, shown, hydration, writing>>
        /\ shared \in Modes \cup {NoMode} /\ shared # NoMode
    BY <1>0, <1>4 DEF Poll, SettingsTypeOK
  <2>2. spoiled' = spoiled \ {a}
    BY <2>1 DEF Tells
  <2>3. /\ inbox' \in [Apps -> Seq(Message)] /\ inbox'[a] # <<>>
        /\ inbox'[a][Len(inbox'[a])].mode = shared
        /\ \A i \in DOMAIN inbox[a] : i \in DOMAIN inbox'[a] /\ inbox'[a][i] = inbox[a][i]
        /\ \A i \in DOMAIN inbox'[a] : i \notin DOMAIN inbox[a] => inbox'[a][i].first = FALSE
        /\ \A b \in Apps : b # a => inbox'[b] = inbox[b]
    <3>1. FALSE \in BOOLEAN /\ [first |-> FALSE, mode |-> shared].mode = shared
      OBVIOUS
    <3> QED
      BY ONLY <1>0, <2>1, <3>1, TellsFacts, a \in Apps
  <2>4. SettingsTypeOK'
    BY <1>0, <2>1, <2>2, <2>3 DEF SettingsTypeOK
  <2>5. FirstIsOnItsWay'
    BY <2>1, <2>3 DEF SettingsInv, FirstIsOnItsWay
  <2>6. FailuresAreKnown'
    BY <2>1, <2>2, <2>3 DEF SettingsInv, FailuresAreKnown
  <2>7. NewsIsOnItsWay'
    BY <1>0, <2>1, <2>2, <2>3 DEF SettingsInv, SettingsTypeOK, NewsIsOnItsWay, Latest
  <2> QED
    BY <2>4, <2>5, <2>6, <2>7 DEF SettingsInv
<1>5. ASSUME NEW a \in Apps, PollFails(a)
      PROVE  SettingsInv'
  BY <1>0, <1>5 DEF SettingsInv, SettingsTypeOK, PollFails, FirstIsOnItsWay, FailuresAreKnown, NewsIsOnItsWay, Latest
<1>6. ASSUME NEW a \in Apps, HydrationRead(a)
      PROVE  SettingsInv'
  <2>1. PICK mode \in {shared, NoMode} : Tells(a, TRUE, mode)
    BY <1>6 DEF HydrationRead
  <2>2. /\ hydration' = [hydration EXCEPT ![a] = "answered"] /\ hydration[a] = "asked"
        /\ UNCHANGED <<shared, unseen, shown, writing>>
        /\ mode \in Modes \cup {NoMode} /\ shared # NoMode
    BY <1>0, <1>6 DEF HydrationRead, SettingsTypeOK
  <2>3. spoiled' = IF mode = NoMode THEN spoiled \cup {a} ELSE spoiled \ {a}
    BY <2>1 DEF Tells
  <2>4. /\ inbox' \in [Apps -> Seq(Message)] /\ inbox'[a] # <<>>
        /\ inbox'[a][Len(inbox'[a])].mode = mode
        /\ \E i \in DOMAIN inbox'[a] : inbox'[a][i].first
        /\ \A b \in Apps : b # a => inbox'[b] = inbox[b]
    <3>1. TRUE \in BOOLEAN /\ [first |-> TRUE, mode |-> mode].mode = mode
      OBVIOUS
    <3> QED
      BY ONLY <1>0, <2>1, <2>2, <3>1, TellsFacts, a \in Apps
  <2>5. SettingsTypeOK'
    BY <1>0, <2>2, <2>3, <2>4 DEF SettingsTypeOK
  <2>6. FirstIsOnItsWay'
    BY <1>0, <2>2, <2>4 DEF SettingsInv, SettingsTypeOK, FirstIsOnItsWay
  <2>7. FailuresAreKnown'
    BY <2>2, <2>3, <2>4 DEF SettingsInv, FailuresAreKnown
  <2>8. NewsIsOnItsWay'
    BY <1>0, <2>2, <2>3, <2>4 DEF SettingsInv, SettingsTypeOK, NewsIsOnItsWay, Latest
  <2> QED
    BY <2>5, <2>6, <2>7, <2>8 DEF SettingsInv
<1>7. ASSUME NEW a \in Apps, Deliver(a)
      PROVE  SettingsInv'
  <2> DEFINE told == Head(inbox[a])
             mode == IF told.mode = NoMode THEN shown[a] ELSE told.mode
  <2>1. inbox[a] \in Seq(Message) /\ inbox[a] # <<>>
    BY <1>0, <1>7 DEF SettingsTypeOK, Deliver
  <2>2. /\ told = inbox[a][1] /\ told \in Message /\ Tail(inbox[a]) \in Seq(Message)
        /\ Tail(inbox[a]) = <<>> <=> Len(inbox[a]) = 1
        /\ Tail(inbox[a]) # <<>> => Tail(inbox[a])[Len(Tail(inbox[a]))] = inbox[a][Len(inbox[a])]
        /\ \A i \in DOMAIN Tail(inbox[a]) : i + 1 \in DOMAIN inbox[a] /\ Tail(inbox[a])[i] = inbox[a][i + 1]
        /\ \A i \in DOMAIN inbox[a] : i # 1 => i - 1 \in DOMAIN Tail(inbox[a]) /\ Tail(inbox[a])[i - 1] = inbox[a][i]
        /\ 1 \in DOMAIN inbox[a]
    BY ONLY <2>1, Read
  <2>3. /\ inbox' = [inbox EXCEPT ![a] = Tail(@)]
        /\ hydration' = [hydration EXCEPT ![a] = IF told.first THEN "done" ELSE @]
        /\ Shows(a, mode, hydration'[a] = "done") /\ (hydration'[a] = "done") \in BOOLEAN
        /\ UNCHANGED <<shared, unseen, spoiled>>
    BY <1>7 DEF Deliver
  <2>4. mode \in Modes
    BY <1>0, <2>2 DEF Message, SettingsTypeOK
  <2>5. /\ shown' \in [Apps -> Modes] /\ writing' \in [Apps -> Seq(Modes)]
        /\ shown'[a] = mode
        /\ \A b \in Apps : b # a => shown'[b] = shown[b] /\ writing'[b] = writing[b]
        /\ writing[a] # <<>> => writing'[a] # <<>>
    BY <1>0, <2>3, <2>4, ShowsFacts
  <2> HIDE DEF told, mode
  <2>6. /\ inbox'[a] = Tail(inbox[a])
        /\ \A b \in Apps : b # a => inbox'[b] = inbox[b] /\ hydration'[b] = hydration[b]
        /\ hydration'[a] = IF told.first THEN "done" ELSE hydration[a]
    BY <1>0, <2>3 DEF SettingsTypeOK
  <2>7. SettingsTypeOK'
    BY <1>0, <2>2, <2>3, <2>5 DEF SettingsTypeOK
  <2>8. FirstIsOnItsWay'
    <3>1. hydration'[a] = "asked" => \A i \in DOMAIN inbox'[a] : ~inbox'[a][i].first
      BY <2>2, <2>6 DEF SettingsInv, FirstIsOnItsWay
    <3>2. ASSUME hydration'[a] = "answered" PROVE \E i \in DOMAIN inbox'[a] : inbox'[a][i].first
      <4>1. ~told.first /\ hydration[a] = "answered"
        BY <2>6, <3>2
      <4>2. PICK i \in DOMAIN inbox[a] : inbox[a][i].first
        BY <4>1 DEF SettingsInv, FirstIsOnItsWay
      <4>3. i # 1
        BY <2>2, <4>1, <4>2
      <4>4. i - 1 \in DOMAIN inbox'[a] /\ inbox'[a][i - 1] = inbox[a][i]
        BY <2>2, <2>6, <4>3
      <4> QED
        BY <4>2, <4>4
    <3> QED
      BY <2>6, <3>1, <3>2 DEF SettingsInv, FirstIsOnItsWay
  <2>9. FailuresAreKnown'
    BY <2>2, <2>3, <2>6 DEF SettingsInv, FailuresAreKnown
  <2>10. NewsIsOnItsWay'
    <3>1. ASSUME a \notin spoiled PROVE Latest(a)' = Latest(a)
      <4>1. inbox[a][Len(inbox[a])].mode # NoMode
        BY <2>1, <3>1 DEF SettingsInv, FailuresAreKnown
      <4> QED
        BY <2>1, <2>2, <2>5, <2>6, <4>1 DEF Latest, mode
    <3>2. hydration[a] = "asked" => hydration'[a] = "asked"
      BY <2>2, <2>6 DEF SettingsInv, FirstIsOnItsWay
    <3>3. \A b \in Apps : b # a => Latest(b)' = Latest(b)
      BY <2>5, <2>6 DEF Latest
    <3> QED
      BY <2>3, <2>5, <2>6, <3>1, <3>2, <3>3 DEF SettingsInv, NewsIsOnItsWay
  <2> QED
    BY <2>7, <2>8, <2>9, <2>10 DEF SettingsInv
<1>8. ASSUME NEW a \in Apps, Restart(a)
      PROVE  SettingsInv'
  BY <1>0, <1>8 DEF SettingsInv, SettingsTypeOK, Restart, FirstIsOnItsWay, FailuresAreKnown, NewsIsOnItsWay, Latest
<1>9. CASE UNCHANGED settingsVars
  BY <1>9 DEF SettingsInv, SettingsTypeOK, settingsVars, FirstIsOnItsWay, FailuresAreKnown, NewsIsOnItsWay, Latest
<1> QED
  BY <1>1, <1>2, <1>3, <1>4, <1>5, <1>6, <1>7, <1>8, <1>9 DEF SettingsNext

(* The types, and where every piece of news is, for good. *)
THEOREM NewsArrives == SettingsSpec => []SettingsInv
BY SettingsInvInit, SettingsInvStep, PTL DEF SettingsSpec

(* An application with nothing under way shows what the file says, for any     *)
(* number of them and whatever restarts and failures came before, unless its   *)
(* own last read or write failed (main.ts#writeSharedSettings, App.tsx).       *)
THEOREM QuietAgree == SettingsSpec => []QuietAppsAgree
<1>1. SettingsInv => QuietAppsAgree
  BY DEF SettingsInv, NewsIsOnItsWay, Latest, QuietAppsAgree, Quiet
<1> QED
  BY <1>1, NewsArrives, PTL

-----------------------------------------------------------------------------
(* The files of the security screen.                                       *)
Stale == {"vault", "write", "list"}
Recording == {"commit", "index", "trail", "recorded", "unrecorded"}

(* A call that nobody has overlapped is the only one under way while it runs. *)
AloneIsAlone ==
  \A c \in alone : call[c].at # "idle" /\ (call[c].at \in Running => \A d \in Under : d = c)

(* A deletion names what was imported, and an import is not named before it is listed. *)
NamesAreImported ==
  \A d \in Calls :
    /\ call[d].at = "idle" => call[d] = Idle
    /\ call[d].names \subseteq Imported
    /\ call[d].todo \subseteq call[d].names

(* The copies that are still to be written back hold the entry of an undisturbed import. *)
KeptEverywhere(c) ==
  /\ call[c].at \in {"list"} \cup Recording => c \in secrets
  /\ call[c].at \in Recording => c \in listed
  /\ Answered(c) => \A d \in Calls :
       /\ call[d].at = "write" => c \in call[d].vault
       /\ call[d].at \in Stale => c \in call[d].list
ImportsAreKept == \A c \in alone : call[c].does = "import" /\ Untouched(c) => KeptEverywhere(c)

(* No copy that is still to be written back holds what an undisturbed deletion removed. *)
Removed(c) == call[c].names \cap call[c].list
GoneEverywhere(c) ==
  /\ call[c].at = "write" => call[c].vault = secrets
  /\ call[c].at \in {"vault", "write"} => \A e \in Removed(c) : e \notin secrets \/ e \in call[c].todo
  /\ call[c].at \in {"list"} \cup Recording => \A e \in Removed(c) : e \notin secrets
  /\ call[c].at \in Recording => \A e \in Removed(c) : e \notin listed
  /\ Answered(c) => \A d \in Calls : \A e \in Removed(c) :
       /\ call[d].at = "write" => e \notin call[d].vault
       /\ call[d].at \in Stale => e \notin call[d].list
DeletionsAreGone == \A c \in alone : call[c].does = "delete" => GoneEverywhere(c)

(* An index holds a record, or is full. *)
Holds(records, c) == c \in Range(records) \/ Len(records) = RecordsKept
Sound(records) == Len(records) <= RecordsKept /\ Range(records) \subseteq committed
RecordsAreHeld ==
  /\ Sound(trail)
  /\ \A d \in Calls :
       /\ call[d].at \in {"index", "trail"} => d \in committed
       /\ call[d].at = "trail" => Sound(call[d].index)
  /\ \A c \in alone : call[c].at = "recorded" =>
       Holds(trail, c) /\ \A d \in Calls : call[d].at = "trail" => Holds(call[d].index, c)

AuthInv == AuthTypeOK /\ AloneIsAlone /\ NamesAreImported /\ ImportsAreKept /\ DeletionsAreGone /\ RecordsAreHeld

-----------------------------------------------------------------------------
(* A call that has not started holds no copy and has written nothing. *)
LEMMA IdleFacts ==
  /\ Idle \in CallState /\ Idle.at = "idle" /\ Idle.does = "export"
  /\ Idle.names = {} /\ Idle.todo = {} /\ Idle.list = {} /\ Idle.vault = {} /\ Idle.index = <<>>
BY DEF Idle, CallState, Running, Ended, Kinds

(* The invariant holds before any call of the screen. *)
LEMMA AuthInvInit == AuthInit => AuthInv
<1> SUFFICES ASSUME AuthInit PROVE AuthInv
  OBVIOUS
<1>1. /\ listed = {} /\ secrets = {} /\ committed = {} /\ alone = {} /\ trail = <<>>
      /\ \A c \in Calls : call[c] = Idle
  BY DEF AuthInit
<1>2. AuthTypeOK
  BY IdleFacts DEF AuthInit, AuthTypeOK
<1>3. NamesAreImported
  BY <1>1, IdleFacts DEF NamesAreImported
<1>4. RecordsAreHeld
  <2>1. Len(trail) = 0 /\ Range(trail) = {}
    BY <1>1 DEF Range
  <2> QED
    BY <1>1, <2>1, IdleFacts, AuthenticatorAssumption DEF RecordsAreHeld, Sound
<1> QED
  BY <1>1, <1>2, <1>3, <1>4 DEF AuthInv, AloneIsAlone, ImportsAreKept, DeletionsAreGone

(* What recordSecurityHistory keeps of its index is again a list of records. *)
LEMMA NewestType ==
  ASSUME NEW s \in Seq(Calls), NEW e \in Calls
  PROVE  Newest(Append(s, e)) \in Seq(Calls)
<1> DEFINE t == Append(s, e)
<1>1. t \in Seq(Calls) /\ Len(t) = Len(s) + 1 /\ Len(s) \in Nat
  OBVIOUS
<1> HIDE DEF t
<1>2. t # <<>>
  BY <1>1
<1>3. Tail(t) \in Seq(Calls)
  BY <1>1, <1>2
<1> QED
  BY <1>1, <1>3 DEF Newest, t

(* The newest records are sound, the record appended is one of them, and one that was there *)
(* before is lost only to a full index.                                                     *)
LEMMA NewestFacts ==
  ASSUME NEW s \in Seq(Calls), NEW e \in Calls, Len(s) <= RecordsKept
  PROVE  /\ Len(Newest(Append(s, e))) <= RecordsKept
         /\ Range(Newest(Append(s, e))) \subseteq Range(s) \cup {e}
         /\ Holds(Newest(Append(s, e)), e)
         /\ \A a \in Calls : Holds(s, a) => Holds(Newest(Append(s, e)), a)
<1> DEFINE t == Append(s, e)
<1>0. RecordsKept \in Nat \ {0} /\ Len(s) \in Nat
  BY AuthenticatorAssumption
<1>1. /\ t \in Seq(Calls) /\ Len(t) = Len(s) + 1 /\ t[Len(s) + 1] = e
      /\ \A i \in 1 .. Len(s) : t[i] = s[i]
  OBVIOUS
<1>2. Range(s) = {s[i] : i \in 1 .. Len(s)}
  BY DEF Range
<1> HIDE DEF t
<1>3. CASE Len(t) > RecordsKept
  <2>1. Newest(t) = Tail(t) /\ Len(s) = RecordsKept
    BY <1>0, <1>1, <1>3 DEF Newest
  <2>2. Len(Tail(t)) = RecordsKept /\ \A i \in 1 .. RecordsKept : Tail(t)[i] = t[i + 1]
    BY <1>0, <1>1, <2>1
  <2>3. Tail(t) \in Seq(Calls)
    BY <1>0, <1>1
  <2>4. Range(Tail(t)) = {Tail(t)[i] : i \in 1 .. RecordsKept}
    BY <2>2, <2>3 DEF Range
  <2>5. \A i \in 1 .. RecordsKept : Tail(t)[i] \in Range(s) \cup {e}
    <3> TAKE i \in 1 .. RecordsKept
    <3>1. CASE i = RecordsKept
      BY <1>0, <1>1, <2>1, <2>2, <3>1
    <3>2. CASE i # RecordsKept
      <4>1. i + 1 \in 1 .. Len(s)
        BY <1>0, <2>1, <3>2
      <4> QED
        BY <1>1, <1>2, <2>2, <4>1
    <3> QED
      BY <3>1, <3>2
  <2> QED
    BY <2>1, <2>2, <2>4, <2>5 DEF Holds, t
<1>4. CASE ~(Len(t) > RecordsKept)
  <2>1. Newest(t) = t /\ Len(t) <= RecordsKept /\ Len(s) # RecordsKept
    BY <1>0, <1>1, <1>4 DEF Newest
  <2>2. Range(t) = {t[i] : i \in 1 .. Len(s) + 1}
    BY <1>1 DEF Range
  <2>3. Range(t) = Range(s) \cup {e}
    BY <1>0, <1>1, <1>2, <2>2
  <2> QED
    BY <2>1, <2>3 DEF Holds, t
<1> QED
  BY <1>3, <1>4

(* Every step of a call, a refusal and a crash preserve the invariant. *)
LEMMA AuthInvStep == AuthInv /\ [AuthNext]_authVars => AuthInv'
<1> SUFFICES ASSUME AuthInv, [AuthNext]_authVars PROVE AuthInv'
  OBVIOUS
<1>0. /\ AuthTypeOK /\ AloneIsAlone /\ NamesAreImported /\ ImportsAreKept /\ DeletionsAreGone /\ RecordsAreHeld
      /\ alone \subseteq Calls
  BY DEF AuthInv, AuthTypeOK
<1>1. ASSUME NEW c \in Calls, Import(c)
      PROVE  AuthInv'
  <2>1. /\ call[c].at = "idle" /\ alone' = (IF Under = {} THEN alone \cup {c} ELSE alone \ Under)
        /\ UNCHANGED <<listed, secrets, committed, trail>>
    BY <1>1 DEF Import, Enters, At
  <2>2. call' = [call EXCEPT ![c] = [Idle EXCEPT !.at = "vault", !.does = "import", !.list = listed]] /\ call[c] \in CallState
    BY <1>0, <1>1 DEF Import, Ends, At, AuthTypeOK, CallState
  <2>3. call'[c] = [Idle EXCEPT !.at = "vault", !.does = "import", !.list = listed]
    BY <1>0, <2>2 DEF AuthTypeOK
  <2>4. \A d \in Calls : d # c => call'[d] = call[d]
    BY <1>0, <2>2 DEF AuthTypeOK
  <2>5. /\ call'[c].at = "vault" /\ call'[c].does = "import" /\ call'[c].names = {} /\ call'[c].todo = {}
        /\ call'[c].list = listed /\ call'[c].vault = {} /\ call'[c].index = <<>>
    BY <1>0, <2>2, <2>3, IdleFacts DEF CallState, AuthTypeOK, Kinds
  <2>6. call'[c] \in CallState
    BY <1>0, <2>1, <2>2, <2>3, IdleFacts DEF CallState, AuthTypeOK, Kinds, Running, Ended
  <2>7. AuthTypeOK'
    BY <1>0, <2>1, <2>2, <2>6 DEF AuthTypeOK, CallState
  <2>8. AloneIsAlone'
    BY <1>0, <2>1, <2>4, <2>5, IdleFacts DEF AloneIsAlone, Under, Running, Ended
  <2>9. NamesAreImported'
    BY <1>0, <2>1, <2>4, <2>5, IdleFacts DEF NamesAreImported, Imported
  <2>10. ImportsAreKept'
    BY <1>0, <2>1, <2>4, <2>5, IdleFacts DEF ImportsAreKept, NamesAreImported, AloneIsAlone, Imported, KeptEverywhere, Untouched, Answered, Under, Running, Stale, Recording
  <2>11. DeletionsAreGone'
    BY <1>0, <2>1, <2>4, <2>5, IdleFacts DEF DeletionsAreGone, NamesAreImported, AloneIsAlone, Imported, GoneEverywhere, Removed, Answered, Under, Running, Stale, Recording
  <2>12. RecordsAreHeld'
    BY <1>0, <2>1, <2>4, <2>5, IdleFacts DEF RecordsAreHeld, AloneIsAlone, Holds, Sound, Under, Running
  <2> QED
    BY <2>7, <2>8, <2>9, <2>10, <2>11, <2>12 DEF AuthInv
<1>2. ASSUME NEW c \in Calls, NEW names \in SUBSET Imported, Delete(c, names)
      PROVE  AuthInv'
  <2>1. /\ call[c].at = "idle" /\ alone' = (IF Under = {} THEN alone \cup {c} ELSE alone \ Under)
        /\ UNCHANGED <<listed, secrets, committed, trail>>
    BY <1>2 DEF Delete, Enters, At
  <2>2. call' = [call EXCEPT ![c] = [Idle EXCEPT !.at = IF names \cap listed = {} THEN "list" ELSE "vault",
                !.does = "delete", !.names = names, !.todo = names \cap listed, !.list = listed]] /\ call[c] \in CallState
    BY <1>0, <1>2 DEF Delete, Ends, At, AuthTypeOK, CallState
  <2>3. call'[c] = [Idle EXCEPT !.at = IF names \cap listed = {} THEN "list" ELSE "vault",
                !.does = "delete", !.names = names, !.todo = names \cap listed, !.list = listed]
    BY <1>0, <2>2 DEF AuthTypeOK
  <2>4. \A d \in Calls : d # c => call'[d] = call[d]
    BY <1>0, <2>2 DEF AuthTypeOK
  <2>5. /\ call'[c].at = (IF names \cap listed = {} THEN "list" ELSE "vault") /\ call'[c].does = "delete" /\ call'[c].names = names /\ call'[c].todo = names \cap listed
        /\ call'[c].list = listed /\ call'[c].vault = {} /\ call'[c].index = <<>>
    BY <1>0, <2>2, <2>3, IdleFacts DEF CallState, AuthTypeOK, Kinds
  <2>6. call'[c] \in CallState
    BY <1>0, <2>1, <2>2, <2>3, IdleFacts DEF CallState, AuthTypeOK, Kinds, Running, Ended, Imported
  <2>7. AuthTypeOK'
    BY <1>0, <2>1, <2>2, <2>6 DEF AuthTypeOK, CallState
  <2>8. AloneIsAlone'
    BY <1>0, <2>1, <2>4, <2>5, IdleFacts DEF AloneIsAlone, Under, Running, Ended
  <2>9. NamesAreImported'
    BY <1>0, <2>1, <2>4, <2>5, IdleFacts DEF NamesAreImported, Imported
  <2>10. ImportsAreKept'
    BY <1>0, <2>1, <2>4, <2>5, IdleFacts DEF ImportsAreKept, NamesAreImported, AloneIsAlone, Imported, KeptEverywhere, Untouched, Answered, Under, Running, Stale, Recording
  <2>11. DeletionsAreGone'
    BY <1>0, <2>1, <2>4, <2>5, IdleFacts DEF DeletionsAreGone, NamesAreImported, AloneIsAlone, Imported, GoneEverywhere, Removed, Answered, Under, Running, Stale, Recording
  <2>12. RecordsAreHeld'
    BY <1>0, <2>1, <2>4, <2>5, IdleFacts DEF RecordsAreHeld, AloneIsAlone, Holds, Sound, Under, Running
  <2> QED
    BY <2>7, <2>8, <2>9, <2>10, <2>11, <2>12 DEF AuthInv
<1>3. ASSUME NEW c \in Calls, SaveSchedule(c)
      PROVE  AuthInv'
  <2>1. /\ call[c].at = "idle" /\ alone' = (IF Under = {} THEN alone \cup {c} ELSE alone \ Under)
        /\ UNCHANGED <<listed, secrets, committed, trail>>
    BY <1>3 DEF SaveSchedule, Enters, At
  <2>2. call' = [call EXCEPT ![c] = [Idle EXCEPT !.at = "commit", !.does = "schedule"]] /\ call[c] \in CallState
    BY <1>0, <1>3 DEF SaveSchedule, Ends, At, AuthTypeOK, CallState
  <2>3. call'[c] = [Idle EXCEPT !.at = "commit", !.does = "schedule"]
    BY <1>0, <2>2 DEF AuthTypeOK
  <2>4. \A d \in Calls : d # c => call'[d] = call[d]
    BY <1>0, <2>2 DEF AuthTypeOK
  <2>5. /\ call'[c].at = "commit" /\ call'[c].does = "schedule" /\ call'[c].names = {} /\ call'[c].todo = {}
        /\ call'[c].list = {} /\ call'[c].vault = {} /\ call'[c].index = <<>>
    BY <1>0, <2>2, <2>3, IdleFacts DEF CallState, AuthTypeOK, Kinds
  <2>6. call'[c] \in CallState
    BY <1>0, <2>1, <2>2, <2>3, IdleFacts DEF CallState, AuthTypeOK, Kinds, Running, Ended
  <2>7. AuthTypeOK'
    BY <1>0, <2>1, <2>2, <2>6 DEF AuthTypeOK, CallState
  <2>8. AloneIsAlone'
    BY <1>0, <2>1, <2>4, <2>5, IdleFacts DEF AloneIsAlone, Under, Running, Ended
  <2>9. NamesAreImported'
    BY <1>0, <2>1, <2>4, <2>5, IdleFacts DEF NamesAreImported, Imported
  <2>10. ImportsAreKept'
    BY <1>0, <2>1, <2>4, <2>5, IdleFacts DEF ImportsAreKept, NamesAreImported, AloneIsAlone, Imported, KeptEverywhere, Untouched, Answered, Under, Running, Stale, Recording
  <2>11. DeletionsAreGone'
    BY <1>0, <2>1, <2>4, <2>5, IdleFacts DEF DeletionsAreGone, NamesAreImported, AloneIsAlone, Imported, GoneEverywhere, Removed, Answered, Under, Running, Stale, Recording
  <2>12. RecordsAreHeld'
    BY <1>0, <2>1, <2>4, <2>5, IdleFacts DEF RecordsAreHeld, AloneIsAlone, Holds, Sound, Under, Running
  <2> QED
    BY <2>7, <2>8, <2>9, <2>10, <2>11, <2>12 DEF AuthInv
<1>4. ASSUME NEW c \in Calls, ExportText(c)
      PROVE  AuthInv'
  <2>1. /\ call[c].at = "idle" /\ alone' = (IF Under = {} THEN alone \cup {c} ELSE alone \ Under)
        /\ UNCHANGED <<listed, secrets, committed, trail>>
    BY <1>4 DEF ExportText, Enters, At
  <2>2. call' = [call EXCEPT ![c] = [Idle EXCEPT !.at = "commit"]] /\ call[c] \in CallState
    BY <1>0, <1>4 DEF ExportText, Ends, At, AuthTypeOK, CallState
  <2>3. call'[c] = [Idle EXCEPT !.at = "commit"]
    BY <1>0, <2>2 DEF AuthTypeOK
  <2>4. \A d \in Calls : d # c => call'[d] = call[d]
    BY <1>0, <2>2 DEF AuthTypeOK
  <2>5. /\ call'[c].at = "commit" /\ call'[c].does = "export" /\ call'[c].names = {} /\ call'[c].todo = {}
        /\ call'[c].list = {} /\ call'[c].vault = {} /\ call'[c].index = <<>>
    BY <1>0, <2>2, <2>3, IdleFacts DEF CallState, AuthTypeOK, Kinds
  <2>6. call'[c] \in CallState
    BY <1>0, <2>1, <2>2, <2>3, IdleFacts DEF CallState, AuthTypeOK, Kinds, Running, Ended
  <2>7. AuthTypeOK'
    BY <1>0, <2>1, <2>2, <2>6 DEF AuthTypeOK, CallState
  <2>8. AloneIsAlone'
    BY <1>0, <2>1, <2>4, <2>5, IdleFacts DEF AloneIsAlone, Under, Running, Ended
  <2>9. NamesAreImported'
    BY <1>0, <2>1, <2>4, <2>5, IdleFacts DEF NamesAreImported, Imported
  <2>10. ImportsAreKept'
    BY <1>0, <2>1, <2>4, <2>5, IdleFacts DEF ImportsAreKept, NamesAreImported, AloneIsAlone, Imported, KeptEverywhere, Untouched, Answered, Under, Running, Stale, Recording
  <2>11. DeletionsAreGone'
    BY <1>0, <2>1, <2>4, <2>5, IdleFacts DEF DeletionsAreGone, NamesAreImported, AloneIsAlone, Imported, GoneEverywhere, Removed, Answered, Under, Running, Stale, Recording
  <2>12. RecordsAreHeld'
    BY <1>0, <2>1, <2>4, <2>5, IdleFacts DEF RecordsAreHeld, AloneIsAlone, Holds, Sound, Under, Running
  <2> QED
    BY <2>7, <2>8, <2>9, <2>10, <2>11, <2>12 DEF AuthInv
<1>5. ASSUME NEW c \in Calls, ReadVault(c)
      PROVE  AuthInv'
  <2>1. /\ call[c].at = "vault"
        /\ UNCHANGED <<listed, secrets, committed, trail, alone>>
    BY <1>5 DEF ReadVault, Enters, At
  <2>2. call' = [call EXCEPT ![c] = [call[c] EXCEPT !.at = "write", !.vault = secrets]] /\ call[c] \in CallState
    BY <1>0, <1>5 DEF ReadVault, Ends, At, AuthTypeOK, CallState
  <2>3. call'[c] = [call[c] EXCEPT !.at = "write", !.vault = secrets]
    BY <1>0, <2>2 DEF AuthTypeOK
  <2>4. \A d \in Calls : d # c => call'[d] = call[d]
    BY <1>0, <2>2 DEF AuthTypeOK
  <2>5. /\ call'[c].at = "write" /\ call'[c].does = call[c].does /\ call'[c].names = call[c].names /\ call'[c].todo = call[c].todo
        /\ call'[c].list = call[c].list /\ call'[c].vault = secrets /\ call'[c].index = call[c].index
    BY <1>0, <2>2, <2>3, IdleFacts DEF CallState, AuthTypeOK, Kinds
  <2>6. call'[c] \in CallState
    BY <1>0, <2>1, <2>2, <2>3, IdleFacts DEF CallState, AuthTypeOK, Kinds, Running, Ended
  <2>7. AuthTypeOK'
    BY <1>0, <2>1, <2>2, <2>6 DEF AuthTypeOK, CallState
  <2>8. AloneIsAlone'
    BY <1>0, <2>1, <2>4, <2>5 DEF AloneIsAlone, Under, Running, Ended
  <2>9. NamesAreImported'
    BY <1>0, <2>1, <2>4, <2>5 DEF NamesAreImported, Imported
  <2>10. ImportsAreKept'
    BY <1>0, <2>1, <2>4, <2>5 DEF ImportsAreKept, NamesAreImported, AloneIsAlone, Imported, KeptEverywhere, Untouched, Answered, Under, Running, Stale, Recording
  <2>11. DeletionsAreGone'
    BY <1>0, <2>1, <2>4, <2>5 DEF DeletionsAreGone, NamesAreImported, AloneIsAlone, Imported, GoneEverywhere, Removed, Answered, Under, Running, Stale, Recording
  <2>12. RecordsAreHeld'
    BY <1>0, <2>1, <2>4, <2>5 DEF RecordsAreHeld, AloneIsAlone, Holds, Sound, Under, Running
  <2> QED
    BY <2>7, <2>8, <2>9, <2>10, <2>11, <2>12 DEF AuthInv
<1>6. ASSUME NEW c \in Calls, PutSecret(c)
      PROVE  AuthInv'
  <2>1. /\ call[c].at = "write" /\ call[c].does = "import" /\ secrets' = call[c].vault \cup {c}
        /\ UNCHANGED <<listed, committed, trail, alone>>
    BY <1>6 DEF PutSecret, Enters, At
  <2>2. call' = [call EXCEPT ![c] = [call[c] EXCEPT !.at = "list", !.vault = {}]] /\ call[c] \in CallState
    BY <1>0, <1>6 DEF PutSecret, Ends, At, AuthTypeOK, CallState
  <2>3. call'[c] = [call[c] EXCEPT !.at = "list", !.vault = {}]
    BY <1>0, <2>2 DEF AuthTypeOK
  <2>4. \A d \in Calls : d # c => call'[d] = call[d]
    BY <1>0, <2>2 DEF AuthTypeOK
  <2>5. /\ call'[c].at = "list" /\ call'[c].does = call[c].does /\ call'[c].names = call[c].names /\ call'[c].todo = call[c].todo
        /\ call'[c].list = call[c].list /\ call'[c].vault = {} /\ call'[c].index = call[c].index
    BY <1>0, <2>2, <2>3, IdleFacts DEF CallState, AuthTypeOK, Kinds
  <2>6. call'[c] \in CallState
    BY <1>0, <2>1, <2>2, <2>3, IdleFacts DEF CallState, AuthTypeOK, Kinds, Running, Ended
  <2>7. AuthTypeOK'
    BY <1>0, <2>1, <2>2, <2>6 DEF AuthTypeOK, CallState
  <2>8. AloneIsAlone'
    BY <1>0, <2>1, <2>4, <2>5 DEF AloneIsAlone, Under, Running, Ended
  <2>9. NamesAreImported'
    BY <1>0, <2>1, <2>4, <2>5 DEF NamesAreImported, Imported
  <2>10. ImportsAreKept'
    BY <1>0, <2>1, <2>4, <2>5 DEF ImportsAreKept, NamesAreImported, AloneIsAlone, Imported, KeptEverywhere, Untouched, Answered, Under, Running, Stale, Recording
  <2>11. DeletionsAreGone'
    BY <1>0, <2>1, <2>4, <2>5 DEF DeletionsAreGone, NamesAreImported, AloneIsAlone, Imported, GoneEverywhere, Removed, Answered, Under, Running, Stale, Recording
  <2>12. RecordsAreHeld'
    BY <1>0, <2>1, <2>4, <2>5 DEF RecordsAreHeld, AloneIsAlone, Holds, Sound, Under, Running
  <2> QED
    BY <2>7, <2>8, <2>9, <2>10, <2>11, <2>12 DEF AuthInv
<1>7. ASSUME NEW c \in Calls, DropSecret(c)
      PROVE  AuthInv'
  <2>0. PICK entry \in call[c].todo :
          /\ secrets' = call[c].vault \ {entry}
          /\ call' = [call EXCEPT ![c].todo = @ \ {entry}, ![c].vault = {},
                                  ![c].at = IF call[c].todo = {entry} THEN "list" ELSE "vault"]
    BY <1>7 DEF DropSecret
  <2>1. /\ call[c].at = "write" /\ call[c].does = "delete" /\ secrets' = call[c].vault \ {entry}
        /\ UNCHANGED <<listed, committed, trail, alone>>
    BY <1>7, <2>0 DEF DropSecret, Enters, At
  <2>2. call' = [call EXCEPT ![c] = [call[c] EXCEPT !.todo = @ \ {entry}, !.vault = {},
                !.at = IF call[c].todo = {entry} THEN "list" ELSE "vault"]] /\ call[c] \in CallState
    BY <1>0, <1>7, <2>0 DEF DropSecret, Ends, At, AuthTypeOK, CallState
  <2>3. call'[c] = [call[c] EXCEPT !.todo = @ \ {entry}, !.vault = {},
                !.at = IF call[c].todo = {entry} THEN "list" ELSE "vault"]
    BY <1>0, <2>2 DEF AuthTypeOK
  <2>4. \A d \in Calls : d # c => call'[d] = call[d]
    BY <1>0, <2>2 DEF AuthTypeOK
  <2>5. /\ call'[c].at = (IF call[c].todo = {entry} THEN "list" ELSE "vault") /\ call'[c].does = call[c].does /\ call'[c].names = call[c].names /\ call'[c].todo = call[c].todo \ {entry}
        /\ call'[c].list = call[c].list /\ call'[c].vault = {} /\ call'[c].index = call[c].index
    BY <1>0, <2>2, <2>3, IdleFacts DEF CallState, AuthTypeOK, Kinds
  <2>6. call'[c] \in CallState
    BY <1>0, <2>1, <2>2, <2>3, IdleFacts DEF CallState, AuthTypeOK, Kinds, Running, Ended
  <2>7. AuthTypeOK'
    BY <1>0, <2>1, <2>2, <2>6 DEF AuthTypeOK, CallState
  <2>8. AloneIsAlone'
    BY <1>0, <2>1, <2>4, <2>5 DEF AloneIsAlone, Under, Running, Ended
  <2>9. NamesAreImported'
    BY <1>0, <2>1, <2>4, <2>5 DEF NamesAreImported, Imported
  <2>10. ImportsAreKept'
    BY <1>0, <2>1, <2>4, <2>5 DEF ImportsAreKept, NamesAreImported, AloneIsAlone, Imported, KeptEverywhere, Untouched, Answered, Under, Running, Stale, Recording
  <2>11. DeletionsAreGone'
    BY <1>0, <2>1, <2>4, <2>5 DEF DeletionsAreGone, NamesAreImported, AloneIsAlone, Imported, GoneEverywhere, Removed, Answered, Under, Running, Stale, Recording
  <2>12. RecordsAreHeld'
    BY <1>0, <2>1, <2>4, <2>5 DEF RecordsAreHeld, AloneIsAlone, Holds, Sound, Under, Running
  <2> QED
    BY <2>7, <2>8, <2>9, <2>10, <2>11, <2>12 DEF AuthInv
<1>8. ASSUME NEW c \in Calls, WriteList(c)
      PROVE  AuthInv'
  <2>1. /\ call[c].at = "list"
        /\ listed' = (IF call[c].does = "import" THEN call[c].list \cup {c} ELSE call[c].list \ call[c].names)
        /\ UNCHANGED <<secrets, committed, trail, alone>>
    BY <1>8 DEF WriteList, Enters, At
  <2>2. call' = [call EXCEPT ![c] = [call[c] EXCEPT !.at = "commit"]] /\ call[c] \in CallState
    BY <1>0, <1>8 DEF WriteList, Ends, At, AuthTypeOK, CallState
  <2>3. call'[c] = [call[c] EXCEPT !.at = "commit"]
    BY <1>0, <2>2 DEF AuthTypeOK
  <2>4. \A d \in Calls : d # c => call'[d] = call[d]
    BY <1>0, <2>2 DEF AuthTypeOK
  <2>5. /\ call'[c].at = "commit" /\ call'[c].does = call[c].does /\ call'[c].names = call[c].names /\ call'[c].todo = call[c].todo
        /\ call'[c].list = call[c].list /\ call'[c].vault = call[c].vault /\ call'[c].index = call[c].index
    BY <1>0, <2>2, <2>3, IdleFacts DEF CallState, AuthTypeOK, Kinds
  <2>6. call'[c] \in CallState
    BY <1>0, <2>1, <2>2, <2>3, IdleFacts DEF CallState, AuthTypeOK, Kinds, Running, Ended
  <2>7. AuthTypeOK'
    BY <1>0, <2>1, <2>2, <2>6 DEF AuthTypeOK, CallState
  <2>8. AloneIsAlone'
    BY <1>0, <2>1, <2>4, <2>5 DEF AloneIsAlone, Under, Running, Ended
  <2>9. NamesAreImported'
    BY <1>0, <2>1, <2>4, <2>5 DEF NamesAreImported, Imported
  <2>10. ImportsAreKept'
    BY <1>0, <2>1, <2>4, <2>5 DEF ImportsAreKept, NamesAreImported, AloneIsAlone, Imported, KeptEverywhere, Untouched, Answered, Under, Running, Stale, Recording
  <2>11. DeletionsAreGone'
    BY <1>0, <2>1, <2>4, <2>5 DEF DeletionsAreGone, NamesAreImported, AloneIsAlone, Imported, GoneEverywhere, Removed, Answered, Under, Running, Stale, Recording
  <2>12. RecordsAreHeld'
    BY <1>0, <2>1, <2>4, <2>5 DEF RecordsAreHeld, AloneIsAlone, Holds, Sound, Under, Running
  <2> QED
    BY <2>7, <2>8, <2>9, <2>10, <2>11, <2>12 DEF AuthInv
<1>9. ASSUME NEW c \in Calls, Commit(c)
      PROVE  AuthInv'
  <2>1. /\ call[c].at = "commit" /\ committed' = committed \cup {c}
        /\ UNCHANGED <<listed, secrets, trail, alone>>
    BY <1>9 DEF Commit, Enters, At
  <2>2. call' = [call EXCEPT ![c] = [call[c] EXCEPT !.at = "index"]] /\ call[c] \in CallState
    BY <1>0, <1>9 DEF Commit, Ends, At, AuthTypeOK, CallState
  <2>3. call'[c] = [call[c] EXCEPT !.at = "index"]
    BY <1>0, <2>2 DEF AuthTypeOK
  <2>4. \A d \in Calls : d # c => call'[d] = call[d]
    BY <1>0, <2>2 DEF AuthTypeOK
  <2>5. /\ call'[c].at = "index" /\ call'[c].does = call[c].does /\ call'[c].names = call[c].names /\ call'[c].todo = call[c].todo
        /\ call'[c].list = call[c].list /\ call'[c].vault = call[c].vault /\ call'[c].index = call[c].index
    BY <1>0, <2>2, <2>3, IdleFacts DEF CallState, AuthTypeOK, Kinds
  <2>6. call'[c] \in CallState
    BY <1>0, <2>1, <2>2, <2>3, IdleFacts DEF CallState, AuthTypeOK, Kinds, Running, Ended
  <2>7. AuthTypeOK'
    BY <1>0, <2>1, <2>2, <2>6 DEF AuthTypeOK, CallState
  <2>8. AloneIsAlone'
    BY <1>0, <2>1, <2>4, <2>5 DEF AloneIsAlone, Under, Running, Ended
  <2>9. NamesAreImported'
    BY <1>0, <2>1, <2>4, <2>5 DEF NamesAreImported, Imported
  <2>10. ImportsAreKept'
    BY <1>0, <2>1, <2>4, <2>5 DEF ImportsAreKept, NamesAreImported, AloneIsAlone, Imported, KeptEverywhere, Untouched, Answered, Under, Running, Stale, Recording
  <2>11. DeletionsAreGone'
    BY <1>0, <2>1, <2>4, <2>5 DEF DeletionsAreGone, NamesAreImported, AloneIsAlone, Imported, GoneEverywhere, Removed, Answered, Under, Running, Stale, Recording
  <2>12. RecordsAreHeld'
    BY <1>0, <2>1, <2>4, <2>5 DEF RecordsAreHeld, AloneIsAlone, Holds, Sound, Under, Running
  <2> QED
    BY <2>7, <2>8, <2>9, <2>10, <2>11, <2>12 DEF AuthInv
<1>10. ASSUME NEW c \in Calls, ReadIndex(c)
      PROVE  AuthInv'
  <2>1. /\ call[c].at = "index"
        /\ UNCHANGED <<listed, secrets, committed, trail, alone>>
    BY <1>10 DEF ReadIndex, Enters, At
  <2>2. call' = [call EXCEPT ![c] = [call[c] EXCEPT !.at = "trail", !.index = trail]] /\ call[c] \in CallState
    BY <1>0, <1>10 DEF ReadIndex, Ends, At, AuthTypeOK, CallState
  <2>3. call'[c] = [call[c] EXCEPT !.at = "trail", !.index = trail]
    BY <1>0, <2>2 DEF AuthTypeOK
  <2>4. \A d \in Calls : d # c => call'[d] = call[d]
    BY <1>0, <2>2 DEF AuthTypeOK
  <2>5. /\ call'[c].at = "trail" /\ call'[c].does = call[c].does /\ call'[c].names = call[c].names /\ call'[c].todo = call[c].todo
        /\ call'[c].list = call[c].list /\ call'[c].vault = call[c].vault /\ call'[c].index = trail
    BY <1>0, <2>2, <2>3, IdleFacts DEF CallState, AuthTypeOK, Kinds
  <2>6. call'[c] \in CallState
    BY <1>0, <2>1, <2>2, <2>3, IdleFacts DEF CallState, AuthTypeOK, Kinds, Running, Ended
  <2>7. AuthTypeOK'
    BY <1>0, <2>1, <2>2, <2>6 DEF AuthTypeOK, CallState
  <2>8. AloneIsAlone'
    BY <1>0, <2>1, <2>4, <2>5 DEF AloneIsAlone, Under, Running, Ended
  <2>9. NamesAreImported'
    BY <1>0, <2>1, <2>4, <2>5 DEF NamesAreImported, Imported
  <2>10. ImportsAreKept'
    BY <1>0, <2>1, <2>4, <2>5 DEF ImportsAreKept, NamesAreImported, AloneIsAlone, Imported, KeptEverywhere, Untouched, Answered, Under, Running, Stale, Recording
  <2>11. DeletionsAreGone'
    BY <1>0, <2>1, <2>4, <2>5 DEF DeletionsAreGone, NamesAreImported, AloneIsAlone, Imported, GoneEverywhere, Removed, Answered, Under, Running, Stale, Recording
  <2>12. RecordsAreHeld'
    BY <1>0, <2>1, <2>4, <2>5 DEF RecordsAreHeld, AloneIsAlone, Holds, Sound, Under, Running
  <2> QED
    BY <2>7, <2>8, <2>9, <2>10, <2>11, <2>12 DEF AuthInv
<1>11. ASSUME NEW c \in Calls, WriteIndex(c)
      PROVE  AuthInv'
  <2>1. /\ call[c].at = "trail" /\ trail' = Newest(Append(call[c].index, c))
        /\ UNCHANGED <<listed, secrets, committed, alone>>
    BY <1>11 DEF WriteIndex, Enters, At
  <2>2. call' = [call EXCEPT ![c] = [call[c] EXCEPT !.at = "recorded", !.index = <<>>]] /\ call[c] \in CallState
    BY <1>0, <1>11 DEF WriteIndex, Ends, At, AuthTypeOK, CallState
  <2>3. call'[c] = [call[c] EXCEPT !.at = "recorded", !.index = <<>>]
    BY <1>0, <2>2 DEF AuthTypeOK
  <2>4. \A d \in Calls : d # c => call'[d] = call[d]
    BY <1>0, <2>2 DEF AuthTypeOK
  <2>5. /\ call'[c].at = "recorded" /\ call'[c].does = call[c].does /\ call'[c].names = call[c].names /\ call'[c].todo = call[c].todo
        /\ call'[c].list = call[c].list /\ call'[c].vault = call[c].vault /\ call'[c].index = <<>>
    BY <1>0, <2>2, <2>3, IdleFacts DEF CallState, AuthTypeOK, Kinds
  <2>6. call'[c] \in CallState
    BY <1>0, <2>1, <2>2, <2>3, IdleFacts, NewestType DEF CallState, AuthTypeOK, Kinds, Running, Ended
  <2>7. AuthTypeOK'
    BY <1>0, <2>1, <2>2, <2>6, NewestType DEF AuthTypeOK, CallState
  <2>8. AloneIsAlone'
    BY <1>0, <2>1, <2>4, <2>5 DEF AloneIsAlone, Under, Running, Ended
  <2>9. NamesAreImported'
    BY <1>0, <2>1, <2>4, <2>5 DEF NamesAreImported, Imported
  <2>10. ImportsAreKept'
    BY <1>0, <2>1, <2>4, <2>5 DEF ImportsAreKept, NamesAreImported, AloneIsAlone, Imported, KeptEverywhere, Untouched, Answered, Under, Running, Stale, Recording
  <2>11. DeletionsAreGone'
    BY <1>0, <2>1, <2>4, <2>5 DEF DeletionsAreGone, NamesAreImported, AloneIsAlone, Imported, GoneEverywhere, Removed, Answered, Under, Running, Stale, Recording
  <2>12. RecordsAreHeld'
    <3>1. call[c].index \in Seq(Calls)
      BY <2>2 DEF CallState
    <3>2. Sound(call[c].index) /\ c \in committed
      BY <1>0, <2>1 DEF RecordsAreHeld
    <3>3. /\ Sound(trail)' /\ Holds(trail', c)
          /\ \A a \in Calls : Holds(call[c].index, a) => Holds(trail', a)
      BY ONLY <2>1, <3>1, <3>2, NewestFacts, c \in Calls DEF Sound
    <3>4. \A d \in Calls : /\ (call[d].at \in {"index", "trail"} => d \in committed)'
                          /\ (call[d].at = "trail" => Sound(call[d].index))'
      BY <1>0, <2>1, <2>4, <2>5 DEF RecordsAreHeld, Sound
    <3>5. ASSUME NEW a \in alone, call'[a].at = "recorded"
          PROVE  Holds(trail', a) /\ \A d \in Calls : call'[d].at = "trail" => Holds(call'[d].index, a)
      <4>1. a \in Calls
        BY <1>0 DEF AuthTypeOK
      <4>2. CASE a = c
        <5>1. \A d \in Calls : call[d].at = "trail" => d = c
          BY <1>0, <2>1, <4>2 DEF AloneIsAlone, Under, Running
        <5> QED
          BY <2>4, <2>5, <3>3, <4>2, <5>1
      <4>3. CASE a # c
        <5>1. call[a].at = "recorded"
          BY <2>4, <3>5, <4>1, <4>3
        <5> QED
          BY <1>0, <2>1, <2>4, <2>5, <3>3, <4>1, <5>1 DEF RecordsAreHeld
      <4> QED
        BY <4>2, <4>3
    <3> QED
      BY <2>1, <3>3, <3>4, <3>5 DEF RecordsAreHeld
  <2> QED
    BY <2>7, <2>8, <2>9, <2>10, <2>11, <2>12 DEF AuthInv
<1>12. ASSUME NEW c \in Calls, Refused(c)
      PROVE  AuthInv'
  <2>1. /\ call[c].at \in {"vault", "write", "list"}
        /\ UNCHANGED <<listed, secrets, committed, trail, alone>>
    BY <1>12 DEF Refused, Enters, At
  <2>2. call' = [call EXCEPT ![c] = [call[c] EXCEPT !.at = "refused", !.todo = {}, !.vault = {}, !.index = <<>>]] /\ call[c] \in CallState
    BY <1>0, <1>12 DEF Refused, Ends, At, AuthTypeOK, CallState
  <2>3. call'[c] = [call[c] EXCEPT !.at = "refused", !.todo = {}, !.vault = {}, !.index = <<>>]
    BY <1>0, <2>2 DEF AuthTypeOK
  <2>4. \A d \in Calls : d # c => call'[d] = call[d]
    BY <1>0, <2>2 DEF AuthTypeOK
  <2>5. /\ call'[c].at = "refused" /\ call'[c].does = call[c].does /\ call'[c].names = call[c].names /\ call'[c].todo = {}
        /\ call'[c].list = call[c].list /\ call'[c].vault = {} /\ call'[c].index = <<>>
    BY <1>0, <2>2, <2>3, IdleFacts DEF CallState, AuthTypeOK, Kinds
  <2>6. call'[c] \in CallState
    BY <1>0, <2>1, <2>2, <2>3, IdleFacts DEF CallState, AuthTypeOK, Kinds, Running, Ended
  <2>7. AuthTypeOK'
    BY <1>0, <2>1, <2>2, <2>6 DEF AuthTypeOK, CallState
  <2>8. AloneIsAlone'
    BY <1>0, <2>1, <2>4, <2>5 DEF AloneIsAlone, Under, Running, Ended
  <2>9. NamesAreImported'
    BY <1>0, <2>1, <2>4, <2>5 DEF NamesAreImported, Imported
  <2>10. ImportsAreKept'
    BY <1>0, <2>1, <2>4, <2>5 DEF ImportsAreKept, NamesAreImported, AloneIsAlone, Imported, KeptEverywhere, Untouched, Answered, Under, Running, Stale, Recording
  <2>11. DeletionsAreGone'
    BY <1>0, <2>1, <2>4, <2>5 DEF DeletionsAreGone, NamesAreImported, AloneIsAlone, Imported, GoneEverywhere, Removed, Answered, Under, Running, Stale, Recording
  <2>12. RecordsAreHeld'
    BY <1>0, <2>1, <2>4, <2>5 DEF RecordsAreHeld, AloneIsAlone, Holds, Sound, Under, Running
  <2> QED
    BY <2>7, <2>8, <2>9, <2>10, <2>11, <2>12 DEF AuthInv
<1>13. ASSUME NEW c \in Calls, HistoryFails(c)
      PROVE  AuthInv'
  <2>1. /\ call[c].at \in {"commit", "index", "trail"}
        /\ UNCHANGED <<listed, secrets, committed, trail, alone>>
    BY <1>13 DEF HistoryFails, Enters, At
  <2>2. call' = [call EXCEPT ![c] = [call[c] EXCEPT !.at = "unrecorded", !.todo = {}, !.vault = {}, !.index = <<>>]] /\ call[c] \in CallState
    BY <1>0, <1>13 DEF HistoryFails, Ends, At, AuthTypeOK, CallState
  <2>3. call'[c] = [call[c] EXCEPT !.at = "unrecorded", !.todo = {}, !.vault = {}, !.index = <<>>]
    BY <1>0, <2>2 DEF AuthTypeOK
  <2>4. \A d \in Calls : d # c => call'[d] = call[d]
    BY <1>0, <2>2 DEF AuthTypeOK
  <2>5. /\ call'[c].at = "unrecorded" /\ call'[c].does = call[c].does /\ call'[c].names = call[c].names /\ call'[c].todo = {}
        /\ call'[c].list = call[c].list /\ call'[c].vault = {} /\ call'[c].index = <<>>
    BY <1>0, <2>2, <2>3, IdleFacts DEF CallState, AuthTypeOK, Kinds
  <2>6. call'[c] \in CallState
    BY <1>0, <2>1, <2>2, <2>3, IdleFacts DEF CallState, AuthTypeOK, Kinds, Running, Ended
  <2>7. AuthTypeOK'
    BY <1>0, <2>1, <2>2, <2>6 DEF AuthTypeOK, CallState
  <2>8. AloneIsAlone'
    BY <1>0, <2>1, <2>4, <2>5 DEF AloneIsAlone, Under, Running, Ended
  <2>9. NamesAreImported'
    BY <1>0, <2>1, <2>4, <2>5 DEF NamesAreImported, Imported
  <2>10. ImportsAreKept'
    BY <1>0, <2>1, <2>4, <2>5 DEF ImportsAreKept, NamesAreImported, AloneIsAlone, Imported, KeptEverywhere, Untouched, Answered, Under, Running, Stale, Recording
  <2>11. DeletionsAreGone'
    BY <1>0, <2>1, <2>4, <2>5 DEF DeletionsAreGone, NamesAreImported, AloneIsAlone, Imported, GoneEverywhere, Removed, Answered, Under, Running, Stale, Recording
  <2>12. RecordsAreHeld'
    BY <1>0, <2>1, <2>4, <2>5 DEF RecordsAreHeld, AloneIsAlone, Holds, Sound, Under, Running
  <2> QED
    BY <2>7, <2>8, <2>9, <2>10, <2>11, <2>12 DEF AuthInv
<1>14. ASSUME Crash
       PROVE  AuthInv'
  <2>1. /\ call' = [c \in Calls |-> IF c \in Under THEN Ends(c, "lost") ELSE call[c]]
        /\ UNCHANGED <<listed, secrets, committed, trail, alone>>
    BY <1>14 DEF Crash
  <2>2. \A c \in Calls : call[c] \in CallState
    BY <1>0 DEF AuthTypeOK
  <2>3. \A c \in Calls \ Under : call'[c] = call[c]
    BY <2>1
  <2>4. \A c \in Under :
          /\ call'[c].at = "lost" /\ call'[c].does = call[c].does /\ call'[c].names = call[c].names
          /\ call'[c].todo = {} /\ call'[c].list = call[c].list /\ call'[c] \in CallState
    <3> TAKE c \in Under
    <3>1. c \in Calls /\ call[c] \in CallState
      BY <2>2 DEF Under
    <3>2. call'[c] = [call[c] EXCEPT !.at = "lost", !.todo = {}, !.vault = {}, !.index = <<>>]
      BY <2>1, <3>1 DEF Ends
    <3>3. <<>> \in Seq(Calls)
      OBVIOUS
    <3> QED
      BY <3>1, <3>2, <3>3 DEF CallState, Ended
  <2>5. AuthTypeOK'
    BY <1>0, <2>1, <2>2, <2>3, <2>4 DEF AuthTypeOK
  <2>6. AloneIsAlone'
    BY <1>0, <2>1, <2>3, <2>4 DEF AloneIsAlone, Under, Running, Ended
  <2>7. NamesAreImported'
    BY <1>0, <2>1, <2>3, <2>4 DEF NamesAreImported, Imported
  <2>8. ImportsAreKept'
    BY <1>0, <2>1, <2>3, <2>4 DEF ImportsAreKept, NamesAreImported, AloneIsAlone, Imported, KeptEverywhere, Untouched, Answered, Under, Running, Stale, Recording
  <2>9. DeletionsAreGone'
    BY <1>0, <2>1, <2>3, <2>4 DEF DeletionsAreGone, NamesAreImported, AloneIsAlone, Imported, GoneEverywhere, Removed, Answered, Under, Running, Stale, Recording
  <2>10. RecordsAreHeld'
    BY <1>0, <2>1, <2>3, <2>4 DEF RecordsAreHeld, AloneIsAlone, Holds, Sound, Under, Running
  <2> QED
    BY <2>5, <2>6, <2>7, <2>8, <2>9, <2>10 DEF AuthInv
<1>15. CASE UNCHANGED authVars
  BY <1>0, <1>15 DEF AuthInv, authVars, AuthTypeOK, AloneIsAlone, NamesAreImported, ImportsAreKept, DeletionsAreGone,
       RecordsAreHeld, KeptEverywhere, GoneEverywhere, Removed, Holds, Sound, Imported, Untouched, Answered, Under
<1> QED
  BY <1>1, <1>2, <1>3, <1>4, <1>5, <1>6, <1>7, <1>8, <1>9, <1>10, <1>11, <1>12, <1>13, <1>14, <1>15 DEF AuthNext

(* For any calls, any entries and any overlap, copies read before an await hold what was already answered. *)
THEOREM AuthStaysSound == AuthSpec => []AuthInv
BY AuthInvInit, AuthInvStep, PTL DEF AuthSpec

(* What the security screen has reported of a call that ran undisturbed is so  *)
(* for good: the entry it imported, the entry it deleted and its record.       *)
THEOREM UndisturbedStays == AuthSpec => []UndisturbedIsKept
<1>1. AuthInv => ImportedAloneIsKept
  BY DEF AuthInv, ImportsAreKept, KeptEverywhere, ImportedAloneIsKept, Answered, Recording
<1>2. AuthInv => DeletedAloneIsGone
  BY DEF AuthInv, DeletionsAreGone, GoneEverywhere, Removed, DeletedAloneIsGone, Answered, Recording
<1>3. AuthInv => RecordedAloneIsKept
  BY DEF AuthInv, RecordsAreHeld, Holds, Sound, RecordedAloneIsKept
<1> QED
  BY <1>1, <1>2, <1>3, AuthStaysSound, PTL DEF UndisturbedIsKept

-----------------------------------------------------------------------------
(* What the window draws of purchases.                                     *)
Targets == Rows \cup {Diesel}
Drawings == [id : Purchases, target : Targets, age : Nat, left : Int, coinBurst : BOOLEAN, buys : SUBSET Purchases]

(* A mint has its place once, and among the purchases there were. *)
QueueFits(waiting, upto) ==
  /\ waiting \in Seq(Purchases)
  /\ \A i \in DOMAIN waiting : waiting[i] <= upto
  /\ \A i, j \in DOMAIN waiting : waiting[i] = waiting[j] => i = j

(* A purchase plays in one effect, one pump plays, and coins fall apart. *)
EffectsFit(effects, upto) ==
  /\ effects \subseteq Drawings
  /\ \A e \in effects : e.id \in e.buys /\ (\A n \in e.buys : n <= upto)
  /\ \A e, f \in effects : e.buys \cap f.buys # {} => e = f
  /\ \A e, f \in effects : e.target = Diesel /\ f.target = Diesel => e = f
  /\ \A e, f \in effects : e.coinBurst /\ f.coinBurst /\ e.age <= f.age /\ e # f => f.age - e.age > GroupWindow

Apart(effects, waiting) == \A e \in effects : \A i \in DOMAIN waiting : waiting[i] \notin e.buys

(* What has not had its turn has not been drawn. *)
CountsFit(effects, waiting, upto, played, counts) ==
  /\ counts \in [Purchases -> Nat]
  /\ \A n \in Purchases : counts[n] <= 1 /\ (n > upto => counts[n] = 0)
  /\ \A i \in DOMAIN waiting : counts[waiting[i]] = 0
  /\ \A e \in effects : e.id \notin played => \A n \in e.buys : counts[n] = 0

AllFits(effects, waiting, upto, played, counts) ==
  /\ upto \in 0 .. MaxPurchases
  /\ QueueFits(waiting, upto) /\ EffectsFit(effects, upto) /\ Apart(effects, waiting)
  /\ CountsFit(effects, waiting, upto, played, counts)

LoopFits == frame \in Int /\ frame >= NoFrame /\ (frame # NoFrame <=> active # {} \/ pendingDiesel # <<>>)

FxInv == AllFits(active, pendingDiesel, requested, started, drawn) /\ LoopFits

(* Without two members there is at most one. *)
LEMMA NoTwo ==
  ASSUME NEW S, \A x, y \in S : x = y
  PROVE  /\ Cardinality(S) \in 0 .. 1
         /\ (\E x \in S : TRUE) => Cardinality(S) = 1
         /\ S = {} => Cardinality(S) = 0
<1>1. CASE S = {}
  BY <1>1, FS_EmptySet
<1>2. CASE S # {}
  <2>1. PICK x \in S : TRUE
    BY <1>2
  <2>2. S = {x}
    BY <2>1
  <2> QED
    BY <2>2, FS_Singleton
<1> QED
  BY <1>1, <1>2

(* Retiring what has ended keeps the rest in order. *)
LEMMA SomeFit ==
  ASSUME NEW effects, NEW waiting, NEW upto, NEW played, NEW counts, NEW some \in SUBSET effects,
         AllFits(effects, waiting, upto, played, counts)
  PROVE  AllFits(some, waiting, upto, played, counts)
BY DEF AllFits, EffectsFit, Apart, CountsFit

(* A purchase that has no place yet may start an effect; a mint, when no pump runs. *)
LEMMA StartFits ==
  ASSUME FxAssumption, reducedMotion \in BOOLEAN,
         NEW effects, NEW waiting, NEW upto, NEW played, NEW counts, NEW n \in Purchases, NEW target \in Targets,
         AllFits(effects, waiting, upto, played, counts),
         n <= upto, counts[n] = 0, \A e \in effects : n \notin e.buys, \A i \in DOMAIN waiting : waiting[i] # n,
         target = Diesel => ~PumpRuns(effects)
  PROVE  AllFits(Start(effects, n, target), waiting, upto, played, counts)
<1> DEFINE burst == InWindow(effects) = {}
           new == Effect(n, target, burst)
<1>1. /\ new \in Drawings /\ new.id = n /\ new.target = target /\ new.age = 0 /\ new.buys = {n}
      /\ new.coinBurst <=> InWindow(effects) = {}
  <2>1. DurationFor(target) \in Int
    BY DEF DurationFor, FxAssumption
  <2> QED
    BY <2>1 DEF Effect, Drawings
<1>2. Start(effects, n, target) = effects \cup {new}
  BY DEF Start
<1> HIDE DEF new
<1>3. GroupWindow \in Nat
  BY DEF FxAssumption
<1>4. \A e \in effects : e.age \in Nat
  BY DEF AllFits, EffectsFit, Drawings
<1>5. new.coinBurst => \A e \in effects : e.age > GroupWindow
  BY <1>1, <1>3, <1>4 DEF InWindow
<1>6. EffectsFit(effects \cup {new}, upto)
  <2>1. effects \cup {new} \subseteq Drawings
    BY <1>1 DEF AllFits, EffectsFit
  <2>2. \A e \in effects \cup {new} : e.id \in e.buys /\ (\A m \in e.buys : m <= upto)
    BY <1>1 DEF AllFits, EffectsFit
  <2>3. \A e, f \in effects \cup {new} : e.buys \cap f.buys # {} => e = f
    BY <1>1 DEF AllFits, EffectsFit
  <2>4. \A e, f \in effects \cup {new} : e.target = Diesel /\ f.target = Diesel => e = f
    BY <1>1 DEF AllFits, EffectsFit, PumpRuns
  <2>5. ASSUME NEW e \in effects \cup {new}, NEW f \in effects \cup {new}, e.coinBurst, f.coinBurst, e.age <= f.age, e # f
        PROVE  f.age - e.age > GroupWindow
    <3>1. CASE e \in effects /\ f \in effects
      BY <2>5, <3>1 DEF AllFits, EffectsFit
    <3>2. CASE e = new /\ f \in effects
      BY <2>5, <3>2, <1>1, <1>3, <1>4, <1>5
    <3>3. CASE e \in effects /\ f = new
      BY <2>5, <3>3, <1>1, <1>3, <1>4, <1>5
    <3> QED
      BY <2>5, <3>1, <3>2, <3>3
  <2> QED
    BY <2>1, <2>2, <2>3, <2>4, <2>5 DEF EffectsFit
<1>7. Apart(effects \cup {new}, waiting)
  BY <1>1 DEF AllFits, Apart
<1>8. CountsFit(effects \cup {new}, waiting, upto, played, counts)
  BY <1>1 DEF AllFits, CountsFit
<1> QED
  BY <1>2, <1>6, <1>7, <1>8 DEF AllFits

(* The mint at the head of the queue has no effect yet, and the rest keeps its order. *)
LEMMA TailFits ==
  ASSUME NEW effects, NEW waiting, NEW upto, NEW played, NEW counts,
         AllFits(effects, waiting, upto, played, counts), waiting # <<>>
  PROVE  /\ Head(waiting) \in Purchases /\ Head(waiting) <= upto /\ counts[Head(waiting)] = 0
         /\ \A e \in effects : Head(waiting) \notin e.buys
         /\ \A i \in DOMAIN Tail(waiting) : Tail(waiting)[i] # Head(waiting)
         /\ AllFits(effects, Tail(waiting), upto, played, counts)
<1>1. waiting \in Seq(Purchases)
  BY DEF AllFits, QueueFits
<1>2. Head(waiting) = waiting[1] /\ 1 \in DOMAIN waiting /\ Tail(waiting) \in Seq(Purchases)
  BY <1>1
<1>3. ASSUME NEW i \in DOMAIN Tail(waiting)
      PROVE  i \in Nat /\ i + 1 \in DOMAIN waiting /\ Tail(waiting)[i] = waiting[i + 1] /\ i + 1 # 1
  BY <1>1
<1>4. Head(waiting) \in Purchases /\ Head(waiting) <= upto /\ counts[Head(waiting)] = 0
  BY <1>1, <1>2 DEF AllFits, QueueFits, CountsFit
<1>5. \A e \in effects : Head(waiting) \notin e.buys
  BY <1>2 DEF AllFits, Apart
<1>6. \A i \in DOMAIN Tail(waiting) : Tail(waiting)[i] # Head(waiting)
  BY <1>2, <1>3 DEF AllFits, QueueFits
<1> HIDE DEF Purchases
<1>7. QueueFits(Tail(waiting), upto)
  <2>1. ASSUME NEW i \in DOMAIN Tail(waiting), NEW j \in DOMAIN Tail(waiting), Tail(waiting)[i] = Tail(waiting)[j]
        PROVE  i = j
    <3>1. i + 1 = j + 1
      BY <1>3, <2>1 DEF AllFits, QueueFits
    <3> QED
      BY <1>3, <3>1
  <2> QED
    BY <1>2, <1>3, <2>1 DEF AllFits, QueueFits
<1>8. Apart(effects, Tail(waiting))
  BY <1>3 DEF AllFits, Apart
<1>9. CountsFit(effects, Tail(waiting), upto, played, counts)
  BY <1>3 DEF AllFits, CountsFit
<1> QED
  BY <1>4, <1>5, <1>6, <1>7, <1>8, <1>9 DEF AllFits

(* A mint that finds the pump running waits behind all the others. *)
LEMMA AppendFits ==
  ASSUME NEW effects, NEW waiting, NEW upto, NEW played, NEW counts, NEW n \in Purchases,
         AllFits(effects, waiting, upto, played, counts),
         n <= upto, counts[n] = 0, \A e \in effects : n \notin e.buys, \A i \in DOMAIN waiting : waiting[i] # n
  PROVE  AllFits(effects, Append(waiting, n), upto, played, counts)
<1>1. waiting \in Seq(Purchases)
  BY DEF AllFits, QueueFits
<1>2. /\ Append(waiting, n) \in Seq(Purchases)
      /\ DOMAIN Append(waiting, n) = DOMAIN waiting \cup {Len(waiting) + 1}
      /\ \A i \in DOMAIN waiting : Append(waiting, n)[i] = waiting[i]
      /\ Append(waiting, n)[Len(waiting) + 1] = n
  BY <1>1
<1> DEFINE longer == Append(waiting, n)
<1> HIDE DEF longer
<1>3. QueueFits(longer, upto)
  BY <1>2 DEF AllFits, QueueFits, longer
<1>4. Apart(effects, longer)
  BY <1>2 DEF AllFits, Apart, longer
<1>5. CountsFit(effects, longer, upto, played, counts)
  BY <1>2 DEF AllFits, CountsFit, longer
<1> QED
  BY <1>3, <1>4, <1>5 DEF AllFits, longer

(* What one pass of the loop draws, how it goes on, and where what waited has gone. *)
Begins(n) == \E e \in active' : e.id \notin started /\ n \in e.buys
DrawsWhatBegins ==
  drawn' \in [Purchases -> Nat] /\ \A n \in Purchases : drawn'[n] = drawn[n] + (IF Begins(n) THEN 1 ELSE 0)
GoesOn ==
  IF active' = {} /\ pendingDiesel' = <<>>
  THEN frame' = NoFrame /\ started' = {}
  ELSE frame' = 0 /\ started' = started \cup {e.id : e \in active'}
MovesOn(effects, waiting) ==
  /\ Unfinished(effects) \subseteq active'
  /\ \A i \in DOMAIN waiting :
       \/ \E j \in DOMAIN pendingDiesel' : pendingDiesel'[j] = waiting[i]
       \/ \E e \in active' : e.id = waiting[i] /\ e.buys = {waiting[i]}
  /\ \A j \in DOMAIN pendingDiesel' : \E i \in DOMAIN waiting : waiting[i] = pendingDiesel'[j]

LEMMA PassFacts ==
  ASSUME FxAssumption, reducedMotion \in BOOLEAN,
         NEW effects, NEW waiting, NEW upto,
         AllFits(effects, waiting, upto, started, drawn), Drain(effects, waiting)
  PROVE  AllFits(active', pendingDiesel', upto, started, drawn) /\ DrawsWhatBegins /\ GoesOn /\ MovesOn(effects, waiting)
<1> DEFINE rest == Unfinished(effects)
           next == waiting # <<>> /\ ~PumpRuns(rest)
           playing == IF next THEN Start(rest, Head(waiting), Diesel) ELSE rest
           left == IF next THEN Tail(waiting) ELSE waiting
           new == {e \in playing : e.id \notin started}
<1>1. /\ active' = playing /\ pendingDiesel' = left
      /\ drawn' = [n \in Purchases |-> drawn[n] + Cardinality({e \in new : n \in e.buys})]
      /\ IF playing = {} /\ left = <<>>
         THEN frame' = NoFrame /\ started' = {}
         ELSE frame' = 0 /\ started' = started \cup {e.id : e \in new}
  BY DEF Drain
<1>2. AllFits(rest, waiting, upto, started, drawn)
  <2>1. rest \in SUBSET effects
    BY DEF Unfinished
  <2> QED
    BY <2>1, SomeFit
<1>3. waiting \in Seq(Purchases)
  BY DEF AllFits, QueueFits
<1>4. Unfinished(effects) = rest
  OBVIOUS
<1> HIDE DEF rest
<1>5. AllFits(playing, left, upto, started, drawn)
  <2>1. CASE next
    <3>1. /\ Head(waiting) \in Purchases /\ Head(waiting) <= upto /\ drawn[Head(waiting)] = 0
          /\ \A e \in rest : Head(waiting) \notin e.buys
          /\ \A i \in DOMAIN Tail(waiting) : Tail(waiting)[i] # Head(waiting)
          /\ AllFits(rest, Tail(waiting), upto, started, drawn)
      BY <1>2, <2>1, TailFits
    <3>2. Diesel \in Targets
      BY DEF Targets
    <3>3. AllFits(Start(rest, Head(waiting), Diesel), Tail(waiting), upto, started, drawn)
      BY <2>1, <3>1, <3>2, StartFits
    <3> QED
      BY <2>1, <3>3
  <2>2. CASE ~next
    BY <1>2, <2>2
  <2> QED
    BY <2>1, <2>2
<1>6. rest \subseteq playing
  BY DEF Start
<1>7. /\ \A i \in DOMAIN waiting :
           \/ \E j \in DOMAIN left : left[j] = waiting[i]
           \/ \E e \in playing : e.id = waiting[i] /\ e.buys = {waiting[i]}
      /\ \A j \in DOMAIN left : \E i \in DOMAIN waiting : waiting[i] = left[j]
  <2>1. CASE next
    <3>1. \E e \in playing : e.id = Head(waiting) /\ e.buys = {Head(waiting)}
      <4> DEFINE mint == Effect(Head(waiting), Diesel, InWindow(rest) = {})
      <4>1. mint \in playing /\ mint.id = Head(waiting) /\ mint.buys = {Head(waiting)}
        BY <2>1 DEF Start, Effect
      <4> QED
        BY <4>1
    <3>2. ASSUME NEW i \in DOMAIN waiting, i # 1
          PROVE  i - 1 \in DOMAIN left /\ left[i - 1] = waiting[i]
      BY <1>3, <2>1, <3>2
    <3>3. ASSUME NEW j \in DOMAIN left
          PROVE  j + 1 \in DOMAIN waiting /\ waiting[j + 1] = left[j]
      BY <1>3, <2>1
    <3>4. Head(waiting) = waiting[1]
      BY <1>3, <2>1
    <3> QED
      BY <3>1, <3>2, <3>3, <3>4
  <2>2. CASE ~next
    BY <2>2
  <2> QED
    BY <2>1, <2>2
<1> HIDE DEF playing, left
<1>8. ASSUME NEW n \in Purchases
      PROVE  drawn'[n] = drawn[n] + (IF \E e \in playing : e.id \notin started /\ n \in e.buys THEN 1 ELSE 0)
  <2> DEFINE mine == {e \in new : n \in e.buys}
  <2>1. drawn'[n] = drawn[n] + Cardinality(mine)
    BY <1>1
  <2>2. \A x, y \in mine : x = y
    BY <1>5 DEF AllFits, EffectsFit
  <2>3. mine = {} <=> ~\E e \in playing : e.id \notin started /\ n \in e.buys
    OBVIOUS
  <2> HIDE DEF mine
  <2>4. (mine = {} => Cardinality(mine) = 0) /\ (mine # {} => Cardinality(mine) = 1)
    BY <2>2, NoTwo
  <2> QED
    BY <2>1, <2>3, <2>4
<1>9. drawn' \in [Purchases -> Nat]
  <2>1. \A n \in Purchases : drawn[n] \in Nat
    BY <1>5 DEF AllFits, CountsFit
  <2>2. \A n \in Purchases : drawn'[n] \in Nat
    BY <1>8, <2>1
  <2> QED
    BY <1>1, <2>2
<1>10. started \cup {e.id : e \in new} = started \cup {e.id : e \in playing}
  OBVIOUS
<1> HIDE DEF new, next
<1>11. AllFits(active', pendingDiesel', upto, started, drawn)
  BY <1>1, <1>5
<1>12. DrawsWhatBegins
  <2>1. \A n \in Purchases : drawn'[n] = drawn[n] + (IF Begins(n) THEN 1 ELSE 0)
    BY <1>1, <1>8 DEF Begins
  <2> QED
    BY <1>9, <2>1 DEF DrawsWhatBegins
<1>13. GoesOn
  BY <1>1, <1>10 DEF GoesOn
<1>14. MovesOn(effects, waiting)
  BY <1>1, <1>4, <1>6, <1>7 DEF MovesOn
<1> QED
  BY <1>11, <1>12, <1>13, <1>14

(* One pass of the loop draws what is new once, and re-arms exactly while there is work. *)
LEMMA DrainKeepsOrder ==
  ASSUME FxAssumption, reducedMotion \in BOOLEAN,
         NEW effects, NEW waiting, NEW upto,
         AllFits(effects, waiting, upto, started, drawn), Drain(effects, waiting)
  PROVE  AllFits(active', pendingDiesel', upto, started', drawn') /\ LoopFits'
<1>1. AllFits(active', pendingDiesel', upto, started, drawn) /\ DrawsWhatBegins /\ GoesOn
  BY PassFacts
<1>2. upto \in Nat /\ \A n \in Purchases : n \in Nat
  BY <1>1 DEF AllFits, Purchases
<1>3. \A n \in Purchases : Begins(n) => drawn[n] = 0 /\ n <= upto
  BY <1>1 DEF Begins, AllFits, EffectsFit, CountsFit
<1>4. \A i \in DOMAIN pendingDiesel' : pendingDiesel'[i] \in Purchases /\ ~Begins(pendingDiesel'[i]) /\ drawn[pendingDiesel'[i]] = 0
  BY <1>1 DEF Begins, AllFits, QueueFits, Apart, CountsFit
<1>5. CountsFit(active', pendingDiesel', upto, started', drawn')
  <2>1. \A n \in Purchases : drawn[n] \in Nat /\ drawn[n] <= 1 /\ (n > upto => drawn[n] = 0)
    BY <1>1 DEF AllFits, CountsFit
  <2>2. \A n \in Purchases : drawn'[n] <= 1 /\ (n > upto => drawn'[n] = 0)
    BY <1>1, <1>2, <1>3, <2>1 DEF DrawsWhatBegins
  <2>3. \A i \in DOMAIN pendingDiesel' : drawn'[pendingDiesel'[i]] = 0
    BY <1>1, <1>4 DEF DrawsWhatBegins
  <2>4. \A e \in active' : e.id \in started'
    BY <1>1 DEF GoesOn
  <2> QED
    BY <1>1, <2>2, <2>3, <2>4 DEF CountsFit, DrawsWhatBegins
<1>6. LoopFits'
  <2>1. CASE active' = {} /\ pendingDiesel' = <<>>
    BY <1>1, <2>1 DEF GoesOn, LoopFits, NoFrame
  <2>2. CASE ~(active' = {} /\ pendingDiesel' = <<>>)
    BY <1>1, <2>2 DEF GoesOn, LoopFits, NoFrame
  <2> QED
    BY <2>1, <2>2
<1> QED
  BY <1>1, <1>5, <1>6 DEF AllFits

(* Either the loop is told at once, or its timer will find the change. *)
LEMMA NotifyKeepsOrder ==
  ASSUME FxAssumption, reducedMotion \in BOOLEAN,
         NEW effects, NEW waiting, NEW upto, LoopFits,
         AllFits(effects, waiting, upto, started, drawn), effects # {} \/ waiting # <<>>, Notify(effects, waiting)
  PROVE  AllFits(active', pendingDiesel', upto, started', drawn') /\ LoopFits'
<1>1. CASE frame = NoFrame
  BY <1>1, DrainKeepsOrder DEF Notify
<1>2. CASE frame # NoFrame
  BY <1>2 DEF Notify, LoopFits
<1> QED
  BY <1>1, <1>2

(* Before the first purchase there is nothing to tell apart. *)
LEMMA FxInvInit == FxAssumption /\ FxInit => FxInv
BY DEF FxInit, FxInv, AllFits, QueueFits, EffectsFit, Apart, CountsFit, LoopFits, FxAssumption, NoFrame, Purchases

(* What comes within the window of an effect rides along with it, and is drawn with it. *)
LEMMA GroupKeepsOrder ==
  ASSUME NEW effects, NEW upto, NEW n \in Purchases, NEW row, LoopFits, row # Diesel,
         AllFits(effects, pendingDiesel, upto, started, drawn),
         n <= upto, drawn[n] = 0, \A e \in effects : n \notin e.buys, \A i \in DOMAIN pendingDiesel : pendingDiesel[i] # n,
         \E e \in InWindow(effects) : e.target = row, Group(n, effects, row)
  PROVE  AllFits(active', pendingDiesel', upto, started', drawn') /\ active' # {}
<1> DEFINE existing == CHOOSE e \in InWindow(effects) : e.target = row
           grown == [existing EXCEPT !.buys = @ \cup {n}]
           others == effects \ {existing}
<1>1. existing \in effects /\ existing.target = row
  BY DEF InWindow
<1>2. /\ active' = others \cup {grown}
      /\ drawn' = [drawn EXCEPT ![n] = IF existing.id \in started THEN 1 ELSE 0]
      /\ UNCHANGED <<pendingDiesel, frame, started>>
  BY DEF Group
<1> HIDE DEF existing
<1>3. existing \in Drawings /\ drawn \in [Purchases -> Nat]
  BY <1>1 DEF AllFits, EffectsFit, CountsFit
<1>4. /\ grown \in Drawings /\ grown.id = existing.id /\ grown.target = row /\ grown.age = existing.age
      /\ grown.coinBurst = existing.coinBurst /\ grown.buys = existing.buys \cup {n}
  BY <1>1, <1>3 DEF Drawings
<1> HIDE DEF grown
<1>5. EffectsFit(others \cup {grown}, upto)
  <2>1. others \cup {grown} \subseteq Drawings
    BY <1>4 DEF AllFits, EffectsFit
  <2>2. \A e \in others \cup {grown} : e.id \in e.buys /\ (\A m \in e.buys : m <= upto)
    BY <1>1, <1>4 DEF AllFits, EffectsFit
  <2>3. ASSUME NEW e \in others \cup {grown}, NEW f \in others \cup {grown}, e.buys \cap f.buys # {}
        PROVE  e = f
    BY <1>1, <1>4, <2>3 DEF AllFits, EffectsFit
  <2>4. \A e, f \in others \cup {grown} : e.target = Diesel /\ f.target = Diesel => e = f
    BY <1>4 DEF AllFits, EffectsFit
  <2>5. ASSUME NEW e \in others \cup {grown}, NEW f \in others \cup {grown}, e.coinBurst, f.coinBurst, e.age <= f.age, e # f
        PROVE  f.age - e.age > GroupWindow
    <3>1. \A x, y \in effects : x.coinBurst /\ y.coinBurst /\ x.age <= y.age /\ x # y => y.age - x.age > GroupWindow
      BY DEF AllFits, EffectsFit
    <3>2. CASE e \in others /\ f \in others
      BY <2>5, <3>1, <3>2
    <3>3. CASE e = grown /\ f \in others
      BY <1>1, <1>4, <2>5, <3>1, <3>3
    <3>4. CASE e \in others /\ f = grown
      BY <1>1, <1>4, <2>5, <3>1, <3>4
    <3> QED
      BY <2>5, <3>2, <3>3, <3>4
  <2> QED
    BY <2>1, <2>2, <2>3, <2>4, <2>5 DEF EffectsFit
<1>6. Apart(others \cup {grown}, pendingDiesel)
  BY <1>1, <1>4 DEF AllFits, Apart
<1>7. /\ drawn' \in [Purchases -> Nat] /\ drawn'[n] \in 0 .. 1
      /\ existing.id \notin started => drawn'[n] = 0
      /\ \A m \in Purchases \ {n} : drawn'[m] = drawn[m]
  BY <1>2, <1>3
<1>8. CountsFit(others \cup {grown}, pendingDiesel, upto, started, drawn')
  <2>1. \A m \in Purchases : drawn'[m] <= 1 /\ (m > upto => drawn'[m] = 0)
    BY <1>7 DEF AllFits, CountsFit, Purchases
  <2>2. \A i \in DOMAIN pendingDiesel : drawn'[pendingDiesel[i]] = 0
    BY <1>7 DEF AllFits, QueueFits, CountsFit
  <2>3. ASSUME NEW e \in others \cup {grown}, e.id \notin started, NEW m \in e.buys
        PROVE  drawn'[m] = 0
    <3>1. m \in Purchases
      BY <1>4 DEF AllFits, EffectsFit, Drawings
    <3>2. CASE e \in others
      BY <1>7, <2>3, <3>1, <3>2 DEF AllFits, CountsFit
    <3>3. CASE e = grown
      BY <1>1, <1>4, <1>7, <2>3, <3>1, <3>3 DEF AllFits, CountsFit
    <3> QED
      BY <3>2, <3>3
  <2> QED
    BY <1>7, <2>1, <2>2, <2>3 DEF CountsFit
<1> QED
  BY <1>2, <1>5, <1>6, <1>8 DEF AllFits

(* The next purchase has no place yet, whatever has been retired. *)
LEMMA NextIsFresh ==
  ASSUME FxAssumption, AllFits(active, pendingDiesel, requested, started, drawn),
         NEW n \in Purchases, n = requested + 1, NEW playing \in SUBSET active
  PROVE  /\ AllFits(playing, pendingDiesel, n, started, drawn)
         /\ drawn[n] = 0 /\ (\A e \in playing : n \notin e.buys)
         /\ \A i \in DOMAIN pendingDiesel : pendingDiesel[i] # n
<1>1. n \in 0 .. MaxPurchases /\ n > requested
  BY DEF AllFits, Purchases, FxAssumption
<1>2. AllFits(active, pendingDiesel, n, started, drawn)
  <2>1. QueueFits(pendingDiesel, n)
    BY <1>1 DEF AllFits, QueueFits, Purchases
  <2>2. \A e \in active : \A m \in e.buys : m \in Int /\ m <= n
    BY <1>1 DEF AllFits, EffectsFit, Drawings, Purchases
  <2>3. EffectsFit(active, n)
    BY <2>2 DEF AllFits, EffectsFit
  <2>4. CountsFit(active, pendingDiesel, n, started, drawn)
    BY <1>1 DEF AllFits, CountsFit, Purchases
  <2> QED
    BY <1>1, <2>1, <2>3, <2>4 DEF AllFits
<1>3. AllFits(playing, pendingDiesel, n, started, drawn)
  BY <1>2, SomeFit
<1>4. drawn[n] = 0
  BY <1>1 DEF AllFits, CountsFit
<1>5. \A e \in playing : n \notin e.buys
  BY <1>1 DEF AllFits, EffectsFit
<1>6. \A i \in DOMAIN pendingDiesel : pendingDiesel[i] # n
  BY <1>1 DEF AllFits, QueueFits
<1> QED
  BY <1>3, <1>4, <1>5, <1>6

(* Every way to buy, a pass of the loop and the time between keep it. *)
LEMMA FxInvStep == FxAssumption /\ reducedMotion \in BOOLEAN /\ FxInv /\ [FxNext]_fxVars => FxInv'
<1> SUFFICES ASSUME FxAssumption, reducedMotion \in BOOLEAN, FxInv, [FxNext]_fxVars
             PROVE  FxInv'
  OBVIOUS
<1> USE DEF FxInv
<1>1. ASSUME NEW target \in Rows \cup {Diesel}, Buy(target)
      PROVE  FxInv'
  <2> DEFINE playing == Unfinished(active)
             n == requested + 1
  <2>1. n \in Purchases /\ requested' = n /\ n \in 0 .. MaxPurchases /\ n > requested
    BY <1>1 DEF Buy, AllFits, Purchases, FxAssumption
  <2>3. playing \in SUBSET active
    BY DEF Unfinished
  <2>4. AllFits(playing, pendingDiesel, n, started, drawn)
    BY <2>1, <2>3, NextIsFresh
  <2>5. /\ n <= n /\ drawn[n] = 0 /\ (\A e \in playing : n \notin e.buys)
        /\ \A i \in DOMAIN pendingDiesel : pendingDiesel[i] # n
    BY <2>1, <2>3, NextIsFresh
  <2> HIDE DEF playing, n
  <2>6. CASE target = Diesel
    <3>1. Mint(n, playing)
      BY <1>1, <2>6 DEF Buy, playing, n
    <3>2. CASE PumpRuns(playing)
      <4>1. AllFits(playing, Append(pendingDiesel, n), n, started, drawn)
        BY <2>1, <2>4, <2>5, AppendFits
      <4>2. Append(pendingDiesel, n) # <<>>
        BY <2>1 DEF AllFits, QueueFits
      <4>3. Notify(playing, Append(pendingDiesel, n))
        BY <3>1, <3>2 DEF Mint
      <4> QED
        BY <2>1, <4>1, <4>2, <4>3, NotifyKeepsOrder
    <3>3. CASE ~PumpRuns(playing)
      <4>1. AllFits(Start(playing, n, Diesel), pendingDiesel, n, started, drawn)
        BY <2>1, <2>4, <2>5, <3>3, StartFits DEF Targets
      <4>2. Start(playing, n, Diesel) # {}
        BY DEF Start
      <4>3. Notify(Start(playing, n, Diesel), pendingDiesel)
        BY <3>1, <3>3 DEF Mint
      <4> QED
        BY <2>1, <4>1, <4>2, <4>3, NotifyKeepsOrder
    <3> QED
      BY <3>2, <3>3
  <2>7. CASE target # Diesel /\ \E e \in InWindow(playing) : e.target = target
    <3>1. Group(n, playing, target)
      BY <1>1, <2>7 DEF Buy, playing, n
    <3>2. AllFits(active', pendingDiesel', n, started', drawn') /\ active' # {}
      BY <2>1, <2>4, <2>5, <2>7, <3>1, GroupKeepsOrder
    <3>3. frame # NoFrame /\ frame' = frame
      <4>1. active # {}
        BY <2>3, <2>7 DEF InWindow
      <4> QED
        BY <3>1, <4>1 DEF Group, LoopFits
    <3> QED
      BY <2>1, <3>2, <3>3 DEF LoopFits
  <2>8. CASE target # Diesel /\ ~(\E e \in InWindow(playing) : e.target = target)
    <3>1. Notify(Start(playing, n, target), pendingDiesel)
      BY <1>1, <2>8 DEF Buy, playing, n
    <3>2. AllFits(Start(playing, n, target), pendingDiesel, n, started, drawn)
      BY <2>1, <2>4, <2>5, <2>8, StartFits DEF Targets
    <3>3. Start(playing, n, target) # {}
      BY DEF Start
    <3> QED
      BY <2>1, <3>1, <3>2, <3>3, NotifyKeepsOrder
  <2> QED
    BY <2>6, <2>7, <2>8
<1>2. CASE Loop
  BY <1>2, DrainKeepsOrder DEF Loop
<1>3. CASE Pass
  <2> DEFINE Older(e) == [e EXCEPT !.age = @ + 1, !.left = @ - 1]
  <2>0. MaxLate \in Nat
    BY DEF FxAssumption
  <2>1. frame \in Nat /\ frame' = frame + 1
    <3>1. frame \in 0 .. MaxLate - 1 /\ frame' = frame + 1
      BY ONLY <1>3 DEF Pass
    <3> QED
      BY <2>0, <3>1
  <2>7. /\ active' = {Older(e) : e \in active}
        /\ pendingDiesel' = pendingDiesel /\ started' = started /\ requested' = requested /\ drawn' = drawn
    BY ONLY <1>3 DEF Pass
  <2>2. ASSUME NEW e \in active
        PROVE  /\ Older(e) \in Drawings /\ Older(e).id = e.id /\ Older(e).target = e.target /\ Older(e).age = e.age + 1
               /\ Older(e).coinBurst = e.coinBurst /\ Older(e).buys = e.buys /\ e.age \in Nat
    <3> DEFINE age == e.age + 1
               left == e.left - 1
    <3>1. e \in Drawings
      BY DEF AllFits, EffectsFit
    <3>2. age \in Nat /\ left \in Int /\ e.age \in Nat
      BY <3>1 DEF Drawings
    <3>3. age = e.age + 1 /\ Older(e) = [e EXCEPT !.age = age, !.left = left]
      OBVIOUS
    <3> HIDE DEF age, left, Older
    <3> QED
      BY <3>1, <3>2, <3>3 DEF Drawings
  <2> HIDE DEF Older
  <2>3. EffectsFit(active', requested)
    BY <2>2, <2>7 DEF AllFits, EffectsFit
  <2>4. Apart(active', pendingDiesel)
    BY <2>2, <2>7 DEF AllFits, Apart
  <2>5. CountsFit(active', pendingDiesel, requested, started, drawn)
    BY <2>2, <2>7 DEF AllFits, CountsFit
  <2>6. LoopFits'
    BY <2>1, <2>7 DEF LoopFits, NoFrame
  <2> QED
    BY <2>3, <2>4, <2>5, <2>6, <2>7 DEF AllFits
<1>4. CASE SetReducedMotion
  BY <1>4 DEF SetReducedMotion, LoopFits
<1>5. CASE UNCHANGED fxVars
  BY <1>5 DEF fxVars, LoopFits
<1> QED
  BY <1>1, <1>2, <1>3, <1>4, <1>5 DEF FxNext

(* Whatever is bought over whatever is playing, each purchase has one place:   *)
(* it waits for the pump, or it plays in one effect, or its turn has passed.   *)
THEOREM EveryPurchaseHasOnePlace == FxSpec => []FxInv
<1>1. FxInit => reducedMotion \in BOOLEAN
  BY DEF FxInit
<1>2. reducedMotion \in BOOLEAN /\ [FxNext]_fxVars => (reducedMotion \in BOOLEAN)'
  BY DEF FxNext, fxVars, Buy, Loop, Pass, SetReducedMotion
<1> QED
  BY <1>1, <1>2, FxAssumption, FxInvInit, FxInvStep, PTL DEF FxSpec

(* One pump at a time, one handful of coins per window, nothing drawn twice,   *)
(* and a loop that runs exactly while there is something to play: for any      *)
(* durations, any lateness of the timer and any number of purchases.           *)
THEOREM FeedbackIsAlwaysOrderly == FxSpec => []FeedbackIsOrderly
<1>1. FxInv => FeedbackIsOrderly
  <2> SUFFICES ASSUME FxInv
               PROVE  FeedbackIsOrderly
    OBVIOUS
  <2>1. Cardinality({e \in active : e.target = Diesel}) \in 0 .. 1
    <3>1. \A x, y \in {e \in active : e.target = Diesel} : x = y
      BY DEF FxInv, AllFits, EffectsFit
    <3> QED
      BY <3>1, NoTwo
  <2> QED
    BY <2>1 DEF FxInv, AllFits, EffectsFit, CountsFit, LoopFits, FeedbackIsOrderly
<1> QED
  BY <1>1, EveryPurchaseHasOnePlace, PTL

(***************************************************************************)
(* And none is forgotten, as a pass is never so late that an effect could  *)
(* end before it was played.                                               *)
(***************************************************************************)
(* A purchase of the set was drawn, or waits, or begins an effect at the next pass. *)
HasItsTurn(n, effects, waiting, played, counts) ==
  \/ counts[n] = 1
  \/ \E i \in DOMAIN waiting : waiting[i] = n
  \/ \E e \in effects : n \in e.buys /\ e.id \notin played
NoneIsForgotten == \A n \in 1 .. requested : HasItsTurn(n, active, pendingDiesel, started, drawn)

(* What waits for the pump, or is yet to come, was never played. *)
PlayedIsPast(waiting, upto, played) ==
  /\ \A n \in played : n \in Purchases /\ n <= upto
  /\ \A i \in DOMAIN waiting : waiting[i] \notin played

PassIsInTime == frame <= MaxLate /\ (frame # NoFrame => \A e \in active : e.id \notin started => e.left > MaxLate - frame)

TurnInv == FxInv /\ PlayedIsPast(pendingDiesel, requested, started) /\ PassIsInTime /\ NoneIsForgotten

(* A purchase keeps its turn through one pass of the loop, and what was played is past. *)
LEMMA DrainForgetsNone ==
  ASSUME FxAssumption, reducedMotion \in BOOLEAN,
         NEW effects, NEW waiting, NEW upto,
         AllFits(effects, waiting, upto, started, drawn), PlayedIsPast(waiting, upto, started),
         \A e \in effects : e.id \notin started => e.left > 0,
         \A n \in 1 .. upto : HasItsTurn(n, effects, waiting, started, drawn), Drain(effects, waiting)
  PROVE  /\ PlayedIsPast(pendingDiesel', upto, started') /\ PassIsInTime'
         /\ \A n \in 1 .. upto : HasItsTurn(n, active', pendingDiesel', started', drawn')
<1>1. AllFits(active', pendingDiesel', upto, started, drawn) /\ DrawsWhatBegins /\ GoesOn /\ MovesOn(effects, waiting)
  BY PassFacts
<1>2. AllFits(active', pendingDiesel', upto, started', drawn')
  BY DrainKeepsOrder
<1>3. MaxLate \in Nat
  BY DEF FxAssumption
<1>4. PassIsInTime'
  BY <1>1, <1>3 DEF GoesOn, PassIsInTime, NoFrame
<1>5. PlayedIsPast(pendingDiesel', upto, started')
  <2>1. \A e \in active' : e.id \in Purchases /\ e.id <= upto /\ (\A i \in DOMAIN pendingDiesel' : pendingDiesel'[i] # e.id)
    BY <1>1 DEF AllFits, EffectsFit, Drawings, Apart
  <2>2. \A i \in DOMAIN pendingDiesel' : pendingDiesel'[i] \notin started
    BY <1>1 DEF MovesOn, PlayedIsPast
  <2>3. \A n \in started' : n \in started \/ \E e \in active' : n = e.id
    BY <1>1 DEF GoesOn
  <2> QED
    BY <2>1, <2>2, <2>3 DEF PlayedIsPast
<1>6. ASSUME NEW n \in 1 .. upto
      PROVE  HasItsTurn(n, active', pendingDiesel', started', drawn')
  <2>1. n \in Purchases
    BY <1>6 DEF AllFits, Purchases, FxAssumption
  <2>2. drawn[n] \in 0 .. 1 /\ drawn'[n] \in Nat /\ drawn'[n] <= 1
    BY <1>1, <1>2, <2>1 DEF AllFits, CountsFit
  <2>3. drawn[n] = 1 \/ Begins(n) => drawn'[n] = 1
    BY <1>1, <2>1, <2>2 DEF DrawsWhatBegins
  <2>4. CASE drawn[n] = 1
    BY <2>3, <2>4 DEF HasItsTurn
  <2>5. ASSUME NEW i \in DOMAIN waiting, waiting[i] = n
        PROVE  HasItsTurn(n, active', pendingDiesel', started', drawn')
    <3>1. n \notin started
      BY <2>5 DEF PlayedIsPast
    <3>2. CASE \E j \in DOMAIN pendingDiesel' : pendingDiesel'[j] = n
      BY <3>2 DEF HasItsTurn
    <3>3. CASE \E e \in active' : e.id = n /\ e.buys = {n}
      BY <2>3, <3>1, <3>3 DEF Begins, HasItsTurn
    <3> QED
      BY <1>1, <2>5, <3>2, <3>3 DEF MovesOn
  <2>6. ASSUME NEW e \in effects, n \in e.buys, e.id \notin started
        PROVE  HasItsTurn(n, active', pendingDiesel', started', drawn')
    <3>1. e \in active'
      BY <1>1, <2>6 DEF MovesOn, Unfinished
    <3> QED
      BY <2>3, <2>6, <3>1 DEF Begins, HasItsTurn
  <2> QED
    BY <2>4, <2>5, <2>6 DEF HasItsTurn
<1> QED
  BY <1>4, <1>5, <1>6

(* Nor is it forgotten by a queue that tells the loop, or leaves it to its timer. *)
LEMMA NotifyForgetsNone ==
  ASSUME FxAssumption, reducedMotion \in BOOLEAN,
         NEW effects, NEW waiting, NEW upto, LoopFits, frame <= MaxLate,
         AllFits(effects, waiting, upto, started, drawn), PlayedIsPast(waiting, upto, started),
         \A e \in effects : e.id \notin started => e.left > 0 /\ (frame # NoFrame => e.left > MaxLate - frame),
         \A n \in 1 .. upto : HasItsTurn(n, effects, waiting, started, drawn), Notify(effects, waiting)
  PROVE  /\ PlayedIsPast(pendingDiesel', upto, started') /\ PassIsInTime'
         /\ \A n \in 1 .. upto : HasItsTurn(n, active', pendingDiesel', started', drawn')
<1>1. CASE frame = NoFrame
  BY <1>1, DrainForgetsNone DEF Notify
<1>2. CASE frame # NoFrame
  BY <1>2 DEF Notify, PassIsInTime
<1> QED
  BY <1>1, <1>2

(* What a purchase starts is new, and lasts longer than a pass can be late. *)
LEMMA StartIsInTime ==
  ASSUME FxAssumption, reducedMotion \in BOOLEAN, LoopFits, NEW effects, NEW n \in Purchases, NEW target \in Targets
  PROVE  /\ effects \subseteq Start(effects, n, target)
         /\ \E e \in Start(effects, n, target) : e.id = n /\ e.buys = {n}
         /\ \A e \in Start(effects, n, target) \ effects : e.left > 0 /\ (frame # NoFrame => e.left > MaxLate - frame)
<1> DEFINE new == Effect(n, target, InWindow(effects) = {})
<1>1. Start(effects, n, target) = effects \cup {new}
  BY DEF Start
<1>2. new.id = n /\ new.buys = {n} /\ new.left = DurationFor(target)
  BY DEF Effect
<1>3. MaxLate \in Nat /\ ReducedLasts \in Nat /\ RowLasts \in Nat /\ DieselLasts \in Nat
  BY DEF FxAssumption
<1>4. DurationFor(target) \in Nat /\ DurationFor(target) > MaxLate
  BY <1>3 DEF DurationFor, FxAssumption
<1> HIDE DEF new
<1>5. frame # NoFrame => frame >= 0
  BY DEF LoopFits, NoFrame
<1>6. new.left > 0 /\ (frame # NoFrame => new.left > MaxLate - frame)
  BY <1>2, <1>3, <1>4, <1>5 DEF LoopFits
<1> QED
  BY <1>1, <1>2, <1>6

(* A turn outlives the retirement of others and the start of another effect. *)
LEMMA TurnOutlives ==
  ASSUME NEW n, NEW effects, NEW waiting, NEW more,
         HasItsTurn(n, effects, waiting, started, drawn), \A e \in effects : e.id \notin started => e \in more
  PROVE  HasItsTurn(n, more, waiting, started, drawn)
BY DEF HasItsTurn

(* What has its turn to come keeps it through every step, and is played in time. *)
LEMMA TurnInvStep == FxAssumption /\ reducedMotion \in BOOLEAN /\ TurnInv /\ [FxNext]_fxVars => TurnInv'
<1> SUFFICES ASSUME FxAssumption, reducedMotion \in BOOLEAN, TurnInv, [FxNext]_fxVars
             PROVE  TurnInv'
  OBVIOUS
<1>0. /\ FxInv' /\ FxInv /\ LoopFits /\ AllFits(active, pendingDiesel, requested, started, drawn)
      /\ PlayedIsPast(pendingDiesel, requested, started)
      /\ frame <= MaxLate /\ \A n \in 1 .. requested : HasItsTurn(n, active, pendingDiesel, started, drawn)
  BY FxInvStep DEF TurnInv, FxInv, PassIsInTime, NoneIsForgotten
<1>1. \A e \in active : e.id \notin started => e.left > 0 /\ (frame # NoFrame => e.left > MaxLate - frame)
  <2>1. MaxLate \in Nat /\ frame \in Int
    BY <1>0 DEF FxAssumption, LoopFits
  <2>2. \A e \in active : e.left \in Int
    BY <1>0 DEF AllFits, EffectsFit, Drawings
  <2>3. active # {} => frame # NoFrame
    BY <1>0 DEF LoopFits
  <2>4. frame # NoFrame => \A e \in active : e.id \notin started => e.left > MaxLate - frame
    BY DEF TurnInv, PassIsInTime
  <2> QED
    BY <1>0, <2>1, <2>2, <2>3, <2>4
<1>2. SUFFICES /\ PlayedIsPast(pendingDiesel', requested', started') /\ PassIsInTime'
               /\ \A n \in 1 .. requested' : HasItsTurn(n, active', pendingDiesel', started', drawn')
  BY <1>0 DEF TurnInv, NoneIsForgotten
<1>3. ASSUME NEW target \in Rows \cup {Diesel}, Buy(target)
      PROVE  /\ PlayedIsPast(pendingDiesel', requested', started') /\ PassIsInTime'
             /\ \A n \in 1 .. requested' : HasItsTurn(n, active', pendingDiesel', started', drawn')
  <2> DEFINE playing == Unfinished(active)
             n == requested + 1
  <2>1. n \in Purchases /\ requested' = n /\ n \in Nat /\ requested \in Nat /\ n > requested /\ 1 .. n = (1 .. requested) \cup {n}
    BY <1>0, <1>3 DEF Buy, AllFits, Purchases, FxAssumption
  <2>2. playing \in SUBSET active /\ \A e \in active : e.id \notin started => e \in playing
    BY <1>1 DEF Unfinished
  <2>3. n \notin started /\ \A m \in started : m \in Purchases /\ m <= n
    BY <1>0, <2>1 DEF PlayedIsPast, Purchases
  <2>4. \A m \in 1 .. requested : HasItsTurn(m, playing, pendingDiesel, started, drawn)
    BY <1>0, <2>2, TurnOutlives
  <2>5. \A e \in playing : e.id \notin started => e.left > 0 /\ (frame # NoFrame => e.left > MaxLate - frame)
    BY <1>1, <2>2
  <2>6. pendingDiesel \in Seq(Purchases) /\ PlayedIsPast(pendingDiesel, n, started)
    BY <1>0, <2>3 DEF AllFits, QueueFits, PlayedIsPast
  <2>7. AllFits(active', pendingDiesel', n, started', drawn') /\ drawn \in [Purchases -> Nat]
    BY <1>0, <2>1 DEF FxInv, AllFits, CountsFit
  <2>8. /\ AllFits(playing, pendingDiesel, n, started, drawn)
        /\ drawn[n] = 0 /\ (\A e \in playing : n \notin e.buys)
        /\ \A i \in DOMAIN pendingDiesel : pendingDiesel[i] # n
    BY <1>0, <2>1, <2>2, NextIsFresh
  <2> HIDE DEF playing, n
  <2>9. ASSUME ~PumpRuns(playing) \/ target # Diesel, Notify(Start(playing, n, target), pendingDiesel)
        PROVE  /\ PlayedIsPast(pendingDiesel', requested', started') /\ PassIsInTime'
               /\ \A m \in 1 .. requested' : HasItsTurn(m, active', pendingDiesel', started', drawn')
    <3> DEFINE effects == Start(playing, n, target)
    <3>1. /\ playing \subseteq effects /\ \E e \in effects : e.id = n /\ e.buys = {n}
          /\ \A e \in effects \ playing : e.left > 0 /\ (frame # NoFrame => e.left > MaxLate - frame)
      BY <1>0, <2>1, StartIsInTime DEF Targets
    <3>2. AllFits(effects, pendingDiesel, n, started, drawn)
      BY <2>1, <2>8, <2>9, StartFits DEF Targets
    <3> HIDE DEF effects
    <3>3. \A m \in 1 .. requested : HasItsTurn(m, effects, pendingDiesel, started, drawn)
      BY <2>4, <3>1, TurnOutlives
    <3>4. HasItsTurn(n, effects, pendingDiesel, started, drawn)
      BY <2>3, <3>1 DEF HasItsTurn
    <3>5. \A m \in 1 .. n : HasItsTurn(m, effects, pendingDiesel, started, drawn)
      BY <2>1, <3>3, <3>4
    <3>6. \A e \in effects : e.id \notin started => e.left > 0 /\ (frame # NoFrame => e.left > MaxLate - frame)
      BY <2>5, <3>1
    <3>7. Notify(effects, pendingDiesel)
      BY <2>9 DEF effects
    <3>8. /\ PlayedIsPast(pendingDiesel', n, started') /\ PassIsInTime'
          /\ \A m \in 1 .. n : HasItsTurn(m, active', pendingDiesel', started', drawn')
      BY <1>0, <2>6, <3>2, <3>5, <3>6, <3>7, NotifyForgetsNone
    <3> QED
      BY <2>1, <3>8
  <2>10. CASE target = Diesel /\ PumpRuns(playing)
    <3> DEFINE longer == Append(pendingDiesel, n)
    <3>1. Notify(playing, longer)
      BY <1>3, <2>10 DEF Buy, Mint, playing, n
    <3>2. AllFits(playing, longer, n, started, drawn)
      BY <2>1, <2>8, AppendFits
    <3>3. /\ DOMAIN longer = DOMAIN pendingDiesel \cup {Len(pendingDiesel) + 1}
          /\ (\A i \in DOMAIN pendingDiesel : longer[i] = pendingDiesel[i]) /\ longer[Len(pendingDiesel) + 1] = n
      BY <2>1, <2>6
    <3> HIDE DEF longer
    <3>4. \A m \in 1 .. n : HasItsTurn(m, playing, longer, started, drawn)
      BY <2>1, <2>4, <3>3 DEF HasItsTurn
    <3>5. PlayedIsPast(longer, n, started)
      BY <2>3, <2>6, <3>3 DEF PlayedIsPast
    <3>6. /\ PlayedIsPast(pendingDiesel', n, started') /\ PassIsInTime'
          /\ \A m \in 1 .. n : HasItsTurn(m, active', pendingDiesel', started', drawn')
      BY <1>0, <2>5, <3>1, <3>2, <3>4, <3>5, NotifyForgetsNone
    <3> QED
      BY <2>1, <3>6
  <2>11. CASE target # Diesel /\ \E e \in InWindow(playing) : e.target = target
    <3> DEFINE existing == CHOOSE e \in InWindow(playing) : e.target = target
               grown == [existing EXCEPT !.buys = @ \cup {n}]
    <3>1. existing \in playing
      BY <2>11 DEF InWindow
    <3>2. Group(n, playing, target)
      BY <1>3, <2>11 DEF Buy, playing, n
    <3>3. /\ active' = (playing \ {existing}) \cup {grown}
          /\ drawn' = [drawn EXCEPT ![n] = IF existing.id \in started THEN 1 ELSE 0]
          /\ UNCHANGED <<pendingDiesel, frame, started>>
      BY <3>2 DEF Group
    <3> HIDE DEF existing
    <3>4. grown.id = existing.id /\ grown.left = existing.left /\ grown.buys = existing.buys \cup {n}
      <4>1. existing \in Drawings
        BY <2>8, <3>1 DEF AllFits, EffectsFit
      <4> QED
        BY <4>1 DEF Drawings
    <3> HIDE DEF grown
    <3>5. PlayedIsPast(pendingDiesel', n, started')
      BY <2>6, <3>3
    <3>6. PassIsInTime'
      BY <1>0, <2>5, <3>1, <3>3, <3>4 DEF PassIsInTime
    <3>7. (existing.id \in started => drawn'[n] = 1) /\ \A m \in 1 .. requested : drawn'[m] = drawn[m]
      BY <1>0, <2>1, <2>7, <3>3 DEF AllFits, Purchases
    <3>8. HasItsTurn(n, active', pendingDiesel', started', drawn')
      BY <3>3, <3>4, <3>7 DEF HasItsTurn
    <3>9. ASSUME NEW m \in 1 .. requested
          PROVE  HasItsTurn(m, active', pendingDiesel', started', drawn')
      <4>1. HasItsTurn(m, playing, pendingDiesel, started, drawn)
        BY <2>4
      <4> QED
        BY <3>3, <3>4, <3>7, <4>1 DEF HasItsTurn
    <3> QED
      BY <2>1, <3>5, <3>6, <3>8, <3>9
  <2>12. CASE ~(target = Diesel /\ PumpRuns(playing)) /\ ~(target # Diesel /\ \E e \in InWindow(playing) : e.target = target)
    <3>1. Notify(Start(playing, n, target), pendingDiesel)
      BY <1>3, <2>12 DEF Buy, Mint, playing, n
    <3> QED
      BY <2>9, <2>12, <3>1
  <2> QED
    BY <2>10, <2>11, <2>12
<1>4. CASE Loop
  <2>1. Drain(active, pendingDiesel) /\ requested' = requested
    BY <1>4 DEF Loop
  <2> QED
    BY <1>0, <1>1, <2>1, DrainForgetsNone
<1>5. CASE Pass
  <2> DEFINE Older(e) == [e EXCEPT !.age = @ + 1, !.left = @ - 1]
  <2>1. frame \in 0 .. MaxLate - 1 /\ frame' = frame + 1 /\ MaxLate \in Nat
    <3>1. frame \in 0 .. MaxLate - 1 /\ frame' = frame + 1
      BY ONLY <1>5 DEF Pass
    <3>2. MaxLate \in Nat
      BY DEF FxAssumption
    <3> QED
      BY <3>1, <3>2
  <2>2. /\ active' = {Older(e) : e \in active}
        /\ pendingDiesel' = pendingDiesel /\ started' = started /\ requested' = requested /\ drawn' = drawn
    BY ONLY <1>5 DEF Pass
  <2>3. ASSUME NEW e \in active
        PROVE  Older(e).id = e.id /\ Older(e).buys = e.buys /\ Older(e).left = e.left - 1 /\ e.left \in Int
    <3>1. e \in Drawings
      BY <1>0 DEF AllFits, EffectsFit
    <3> QED
      BY <3>1 DEF Drawings
  <2> HIDE DEF Older
  <2>4. PlayedIsPast(pendingDiesel', requested', started')
    BY <1>0, <2>2
  <2>5. \A e \in active : e.id \notin started => e.left > MaxLate - frame
    BY <1>1, <2>1 DEF NoFrame
  <2>6. \A e \in active' : e.id \notin started => e.left > MaxLate - frame'
    BY <2>1, <2>2, <2>3, <2>5
  <2>7. PassIsInTime'
    BY <2>1, <2>2, <2>6 DEF PassIsInTime
  <2>8. \A n \in 1 .. requested' : HasItsTurn(n, active', pendingDiesel', started', drawn')
    BY <1>0, <2>2, <2>3 DEF HasItsTurn
  <2> QED
    BY <2>4, <2>7, <2>8
<1>6. CASE SetReducedMotion
  BY <1>0, <1>6 DEF SetReducedMotion, TurnInv, PassIsInTime
<1>7. CASE UNCHANGED fxVars
  BY <1>0, <1>7 DEF fxVars, TurnInv, PassIsInTime
<1> QED
  BY <1>3, <1>4, <1>5, <1>6, <1>7 DEF FxNext

(* Nothing bought is forgotten: as long as a purchase has not been drawn it    *)
(* waits for the pump, or begins an effect that the next pass will play, which *)
(* cannot end before that pass. It is what PurchasesAreDrawn needs of safety.  *)
THEOREM NothingIsForgotten == FxSpec => []NoneIsForgotten
<1>1. FxInit => TurnInv
  <2>1. FxInit => NoneIsForgotten /\ PlayedIsPast(pendingDiesel, requested, started)
    BY DEF FxInit, NoneIsForgotten, PlayedIsPast
  <2>2. FxInit => PassIsInTime
    <3>1. MaxLate \in Nat
      BY FxAssumption DEF FxAssumption
    <3> QED
      BY <3>1 DEF FxInit, PassIsInTime, NoFrame
  <2> QED
    BY <2>1, <2>2, FxAssumption, FxInvInit DEF TurnInv
<1>2. FxInit => reducedMotion \in BOOLEAN
  BY DEF FxInit
<1>3. reducedMotion \in BOOLEAN /\ [FxNext]_fxVars => (reducedMotion \in BOOLEAN)'
  BY DEF FxNext, fxVars, Buy, Loop, Pass, SetReducedMotion
<1>4. TurnInv => NoneIsForgotten
  BY DEF TurnInv
<1> QED
  BY <1>1, <1>2, <1>3, <1>4, FxAssumption, TurnInvStep, PTL DEF FxSpec

-----------------------------------------------------------------------------
(* The way of an update to the player.                                     *)
StatusKinds == {"idle", "unsupported", "checking", "up-to-date", "downloading", "ready", "error"}
UpdateStatuses == [kind : StatusKinds, version : Nat \cup {Unnamed}]

UpdatesTyped ==
  /\ latest \in Nat /\ installed \in Nat /\ package \in Nat /\ requests \in {0, 1} /\ mounted \in BOOLEAN
  /\ squirrel \in {"idle", "checking", "fetching"}
  /\ status \in UpdateStatuses /\ view \in UpdateStatuses /\ pushed \in Seq(UpdateStatuses)

(* The service says what Squirrel does, and what it fetches is newer than what runs. *)
SquirrelIsFollowed ==
  /\ squirrel = "checking" => status.kind = "checking"
  /\ squirrel = "fetching" => status.kind = "downloading"
  /\ squirrel = "fetching" \/ status.kind = "ready" => installed < package /\ package <= latest
  /\ squirrel = "idle" => status.kind \notin {"checking", "downloading"}

(* What the notice will show when it has received all there is. *)
ToBeShown == IF pushed = <<>> THEN view ELSE pushed[Len(pushed)]
StatusIsOnItsWay ==
  /\ mounted /\ requests = 0 => ToBeShown = status
  /\ ~mounted => requests = 0

(* A message that says ready says so of the package that is there. *)
Truthful(message) ==
  message.kind = "ready" => status.kind = "ready" /\ message.version \in {package, Unnamed}
MessagesAreTruthful == Truthful(status) /\ Truthful(view) /\ \A i \in DOMAIN pushed : Truthful(pushed[i])

UpdatesInv == UpdatesTyped /\ SquirrelIsFollowed /\ StatusIsOnItsWay /\ MessagesAreTruthful

(* A notice that has heard all there is shows the status of the service, and   *)
(* what it offers is newer than what runs.                                     *)
NoticeIsCurrent ==
  /\ mounted /\ requests = 0 /\ pushed = <<>> => view = status
  /\ Offered => status.kind = "ready" /\ installed < package /\ view.version \in {package, Unnamed}

(* An update is never a step back. *)
UpdatesGoForward == [][installed' >= installed]_updatesVars

(* The application starts with nothing told and nothing heard. *)
LEMMA UpdatesInvInit == UpdatesInit => UpdatesInv
<1> SUFFICES ASSUME UpdatesInit
             PROVE  UpdatesInv
  OBVIOUS
<1>1. \A kind \in StatusKinds : Is(kind) \in UpdateStatuses /\ Is(kind).kind = kind
  BY DEF Is, UpdateStatuses
<1>2. /\ status \in UpdateStatuses /\ status.kind \in {"idle", "unsupported"}
      /\ view \in UpdateStatuses /\ view.kind = "idle"
  BY <1>1 DEF UpdatesInit, INITIAL_UPDATE_STATUS, StatusKinds
<1>3. latest \in Nat /\ installed \in Nat
  <2>1. MaxVersion \in Nat
    BY UpdatesAssumption DEF UpdatesAssumption
  <2> QED
    BY <2>1 DEF UpdatesInit
<1>4. pushed \in Seq(UpdateStatuses) /\ pushed = <<>> /\ DOMAIN pushed = {}
  BY DEF UpdatesInit
<1>5. squirrel = "idle" /\ package = 0 /\ mounted = FALSE /\ requests = 0
  BY DEF UpdatesInit
<1>6. UpdatesTyped
  BY <1>2, <1>3, <1>4, <1>5 DEF UpdatesTyped
<1>7. SquirrelIsFollowed /\ StatusIsOnItsWay
  BY <1>2, <1>5 DEF SquirrelIsFollowed, StatusIsOnItsWay
<1>8. MessagesAreTruthful
  BY <1>2, <1>4 DEF MessagesAreTruthful, Truthful
<1> QED
  BY <1>6, <1>7, <1>8 DEF UpdatesInv

(* A message that is put last is what will be shown, and the others stay before it. *)
LEMMA Pushed ==
  ASSUME NEW queue \in Seq(UpdateStatuses), NEW message \in UpdateStatuses, NEW longer, longer = Append(queue, message)
  PROVE  /\ longer \in Seq(UpdateStatuses) /\ longer # <<>> /\ longer[Len(longer)] = message
         /\ \A i \in DOMAIN longer : longer[i] = message \/ \E j \in DOMAIN queue : longer[i] = queue[j]
OBVIOUS

(* Before an update is ready no message says that one is. *)
LEMMA NothingReady ==
  ASSUME UpdatesInv, status.kind # "ready"
  PROVE  view.kind # "ready" /\ \A i \in DOMAIN pushed : pushed[i].kind # "ready"
BY DEF UpdatesInv, MessagesAreTruthful, Truthful

(* Where Squirrel is at work, or may be asked, a new status is told and is what will be shown. *)
LEMMA ApplyTells ==
  ASSUME UpdatesInv, NEW event \in UpdateStatuses, Apply(event), status.kind \notin {"ready", "unsupported"},
         mounted' = mounted, requests' = requests, view' = view,
         event.kind = "ready" => event.version \in {package', Unnamed}
  PROVE  /\ status' = event /\ status' \in UpdateStatuses /\ pushed' \in Seq(UpdateStatuses)
         /\ StatusIsOnItsWay' /\ MessagesAreTruthful'
<1>1. status' = event /\ pushed' = Append(pushed, event)
  BY DEF Apply
<1>2. pushed \in Seq(UpdateStatuses)
  BY DEF UpdatesInv, UpdatesTyped
<1>3. /\ pushed' \in Seq(UpdateStatuses) /\ pushed' # <<>> /\ pushed'[Len(pushed')] = event
      /\ \A i \in DOMAIN pushed' : pushed'[i] = event \/ \E j \in DOMAIN pushed : pushed'[i] = pushed[j]
  BY <1>1, <1>2, Pushed
<1>4. StatusIsOnItsWay'
  BY <1>1, <1>3 DEF UpdatesInv, StatusIsOnItsWay, ToBeShown
<1>5. MessagesAreTruthful'
  <2>1. view'.kind # "ready" /\ \A j \in DOMAIN pushed : pushed[j].kind # "ready"
    BY NothingReady
  <2>2. Truthful(event)'
    BY <1>1 DEF Truthful
  <2>3. \A i \in DOMAIN pushed' : pushed'[i] = event \/ pushed'[i].kind # "ready"
    BY <1>3, <2>1
  <2> QED
    BY <1>1, <2>1, <2>2, <2>3 DEF MessagesAreTruthful, Truthful
<1> QED
  BY <1>1, <1>3, <1>4, <1>5

(* Timers, Squirrel's answers, messages and restarts keep it. *)
LEMMA UpdatesInvStep == UpdatesInv /\ [UpdatesNext]_updatesVars => UpdatesInv'
<1> SUFFICES ASSUME UpdatesInv, [UpdatesNext]_updatesVars
             PROVE  UpdatesInv'
  OBVIOUS
<1>0. /\ UpdatesTyped /\ SquirrelIsFollowed /\ StatusIsOnItsWay /\ MessagesAreTruthful
      /\ Unnamed \notin Nat /\ status \in UpdateStatuses /\ pushed \in Seq(UpdateStatuses)
  BY UpdatesAssumption DEF UpdatesAssumption, UpdatesInv, UpdatesTyped
<1>t. \A kind \in StatusKinds : Is(kind) \in UpdateStatuses /\ Is(kind).kind = kind
  BY DEF Is, UpdateStatuses
<1>1. CASE Publish
  <2>1. latest' = latest + 1 /\ UNCHANGED <<installed, squirrel, package, status, pushed, mounted, requests, view, dismissed>>
    BY <1>1 DEF Publish, windowVars
  <2> QED
    BY <1>0, <2>1 DEF UpdatesInv, UpdatesTyped, SquirrelIsFollowed, StatusIsOnItsWay, MessagesAreTruthful, Truthful, ToBeShown
<1>2. CASE Check
  <2>0. /\ canCheckForUpdates /\ squirrel = "idle" /\ UNCHANGED <<latest, installed, package, mounted, requests, view, dismissed>>
        /\ \/ squirrel' = "checking" /\ Apply(Is("checking"))
           \/ squirrel' = squirrel /\ Apply(Is("error"))
    BY <1>2 DEF Check, windowVars
  <2>1. status.kind \notin {"ready", "unsupported"}
    BY <2>0 DEF canCheckForUpdates
  <2>2. ASSUME NEW kind \in {"checking", "error"}, Apply(Is(kind)), squirrel' = IF kind = "checking" THEN "checking" ELSE squirrel
        PROVE  UpdatesInv'
    <3>1. Is(kind) \in UpdateStatuses /\ Is(kind).kind = kind
      BY <1>t DEF StatusKinds
    <3>2. /\ status' = Is(kind) /\ status' \in UpdateStatuses /\ pushed' \in Seq(UpdateStatuses)
          /\ StatusIsOnItsWay' /\ MessagesAreTruthful'
      BY <2>0, <2>1, <2>2, <3>1, ApplyTells
    <3> QED
      BY <1>0, <2>0, <2>2, <3>1, <3>2 DEF UpdatesInv, UpdatesTyped, SquirrelIsFollowed
  <2> QED
    BY <2>0, <2>2
<1>3. CASE NothingNew
  <2>0. /\ squirrel = "checking" /\ squirrel' = "idle" /\ Apply(Is("up-to-date"))
        /\ UNCHANGED <<latest, installed, package, mounted, requests, view, dismissed>>
    BY <1>3 DEF NothingNew, windowVars
  <2>1. status.kind \notin {"ready", "unsupported"}
    BY <1>0, <2>0 DEF SquirrelIsFollowed
  <2>2. Is("up-to-date") \in UpdateStatuses /\ Is("up-to-date").kind = "up-to-date"
    BY <1>t DEF StatusKinds
  <2>3. /\ status' = Is("up-to-date") /\ status' \in UpdateStatuses /\ pushed' \in Seq(UpdateStatuses)
        /\ StatusIsOnItsWay' /\ MessagesAreTruthful'
    BY <2>0, <2>1, <2>2, ApplyTells
  <2> QED
    BY <1>0, <2>0, <2>2, <2>3 DEF UpdatesInv, UpdatesTyped, SquirrelIsFollowed
<1>4. CASE Found
  <2>0. /\ squirrel = "checking" /\ latest > installed /\ squirrel' = "fetching" /\ package' = latest /\ Apply(Is("downloading"))
        /\ UNCHANGED <<latest, installed, mounted, requests, view, dismissed>>
    BY <1>4 DEF Found, windowVars
  <2>1. status.kind \notin {"ready", "unsupported"}
    BY <1>0, <2>0 DEF SquirrelIsFollowed
  <2>2. Is("downloading") \in UpdateStatuses /\ Is("downloading").kind = "downloading"
    BY <1>t DEF StatusKinds
  <2>3. /\ status' = Is("downloading") /\ status' \in UpdateStatuses /\ pushed' \in Seq(UpdateStatuses)
        /\ StatusIsOnItsWay' /\ MessagesAreTruthful'
    BY <2>0, <2>1, <2>2, ApplyTells
  <2> QED
    BY <1>0, <2>0, <2>2, <2>3 DEF UpdatesInv, UpdatesTyped, SquirrelIsFollowed
<1>5. CASE Downloaded
  <2>0. squirrel = "fetching" /\ squirrel' = "idle" /\ UNCHANGED <<latest, installed, package, mounted, requests, view, dismissed>>
    BY <1>5 DEF Downloaded, windowVars
  <2>1. PICK name \in {package, Unnamed} : Apply([kind |-> "ready", version |-> name])
    BY <1>5 DEF Downloaded
  <2> DEFINE event == [kind |-> "ready", version |-> name]
  <2>2. event \in UpdateStatuses /\ event.kind = "ready" /\ event.version \in {package', Unnamed}
    BY <1>0, <2>0 DEF UpdatesTyped, UpdateStatuses, StatusKinds
  <2>3. Apply(event)
    BY <2>1
  <2> HIDE DEF event
  <2>4. status.kind \notin {"ready", "unsupported"}
    BY <1>0, <2>0 DEF SquirrelIsFollowed
  <2>5. /\ status' = event /\ status' \in UpdateStatuses /\ pushed' \in Seq(UpdateStatuses)
        /\ StatusIsOnItsWay' /\ MessagesAreTruthful'
    BY <2>0, <2>2, <2>3, <2>4, ApplyTells
  <2> QED
    BY <1>0, <2>0, <2>2, <2>5 DEF UpdatesInv, UpdatesTyped, SquirrelIsFollowed
<1>6. CASE SquirrelFails
  <2>0. /\ squirrel # "idle" /\ squirrel' = "idle" /\ package' = 0 /\ Apply(Is("error"))
        /\ UNCHANGED <<latest, installed, mounted, requests, view, dismissed>>
    BY <1>6 DEF SquirrelFails, windowVars
  <2>1. status.kind \notin {"ready", "unsupported"}
    BY <1>0, <2>0 DEF UpdatesTyped, SquirrelIsFollowed
  <2>2. Is("error") \in UpdateStatuses /\ Is("error").kind = "error"
    BY <1>t DEF StatusKinds
  <2>3. /\ status' = Is("error") /\ status' \in UpdateStatuses /\ pushed' \in Seq(UpdateStatuses)
        /\ StatusIsOnItsWay' /\ MessagesAreTruthful'
    BY <2>0, <2>1, <2>2, ApplyTells
  <2> QED
    BY <1>0, <2>0, <2>2, <2>3 DEF UpdatesInv, UpdatesTyped, SquirrelIsFollowed
<1>7. CASE Mount
  BY <1>0, <1>7 DEF Mount, UpdatesInv, UpdatesTyped, SquirrelIsFollowed, StatusIsOnItsWay, MessagesAreTruthful, Truthful, ToBeShown
<1>8. CASE AnswerRequest
  <2>1. /\ requests > 0 /\ requests' = requests - 1 /\ pushed' = Append(pushed, status)
        /\ UNCHANGED <<latest, installed, squirrel, package, status, mounted, view, dismissed>>
    BY <1>8 DEF AnswerRequest
  <2>2. /\ pushed' \in Seq(UpdateStatuses) /\ pushed' # <<>> /\ pushed'[Len(pushed')] = status
        /\ \A i \in DOMAIN pushed' : pushed'[i] = status \/ \E j \in DOMAIN pushed : pushed'[i] = pushed[j]
    BY <1>0, <2>1, Pushed
  <2>3. StatusIsOnItsWay'
    BY <1>0, <2>1, <2>2 DEF StatusIsOnItsWay, ToBeShown, UpdatesTyped
  <2>4. MessagesAreTruthful'
    BY <1>0, <2>1, <2>2 DEF MessagesAreTruthful, Truthful
  <2>5. UpdatesTyped'
    BY <1>0, <2>1, <2>2 DEF UpdatesTyped
  <2>6. SquirrelIsFollowed'
    BY <1>0, <2>1 DEF SquirrelIsFollowed
  <2> QED
    BY <2>3, <2>4, <2>5, <2>6 DEF UpdatesInv
<1>9. CASE Receive
  <2>1. /\ pushed # <<>> /\ pushed' = Tail(pushed) /\ view' = IF mounted THEN Head(pushed) ELSE view
        /\ UNCHANGED <<latest, installed, squirrel, package, status, mounted, requests, dismissed>>
    BY <1>9 DEF Receive
  <2>2. /\ 1 \in DOMAIN pushed /\ Head(pushed) = pushed[1] /\ Head(pushed) \in UpdateStatuses /\ Tail(pushed) \in Seq(UpdateStatuses)
        /\ \A i \in DOMAIN Tail(pushed) : i + 1 \in DOMAIN pushed /\ Tail(pushed)[i] = pushed[i + 1]
        /\ Tail(pushed) = <<>> => pushed[Len(pushed)] = Head(pushed)
        /\ Tail(pushed) # <<>> => Tail(pushed)[Len(Tail(pushed))] = pushed[Len(pushed)]
    <3>1. /\ Len(pushed) \in Nat \ {0} /\ Head(pushed) = pushed[1] /\ Head(pushed) \in UpdateStatuses
          /\ Tail(pushed) \in Seq(UpdateStatuses) /\ Len(Tail(pushed)) = Len(pushed) - 1
      BY <1>0, <2>1
    <3>2. \A i \in 1 .. Len(Tail(pushed)) : Tail(pushed)[i] = pushed[i + 1]
      BY <1>0, <2>1
    <3>3. DOMAIN pushed = 1 .. Len(pushed) /\ DOMAIN Tail(pushed) = 1 .. Len(Tail(pushed))
      BY <1>0, <3>1
    <3>4. Tail(pushed) = <<>> => Len(pushed) = 1
      <4> DEFINE rest == Tail(pushed)
      <4> HIDE DEF rest
      <4>1. rest = <<>> => Len(rest) = 0
        BY Len(<<>>) = 0
      <4> QED
        BY <3>1, <4>1 DEF rest
    <3>5. Tail(pushed) # <<>> => Len(Tail(pushed)) \in 1 .. Len(Tail(pushed))
      BY <3>1
    <3> QED
      BY <3>1, <3>2, <3>3, <3>4, <3>5
  <2>3. StatusIsOnItsWay'
    BY <1>0, <2>1, <2>2 DEF StatusIsOnItsWay, ToBeShown
  <2>4. MessagesAreTruthful'
    BY <1>0, <2>1, <2>2 DEF MessagesAreTruthful, Truthful
  <2>5. UpdatesTyped'
    BY <1>0, <2>1, <2>2 DEF UpdatesTyped
  <2>6. SquirrelIsFollowed'
    BY <1>0, <2>1 DEF SquirrelIsFollowed
  <2> QED
    BY <2>3, <2>4, <2>5, <2>6 DEF UpdatesInv
<1>10. CASE Later
  BY <1>0, <1>10 DEF Later, UpdatesInv, UpdatesTyped, SquirrelIsFollowed, StatusIsOnItsWay, MessagesAreTruthful, Truthful, ToBeShown
<1>11. CASE Relaunch
  <2>1. /\ installed' = (IF status.kind = "ready" THEN package ELSE installed)
        /\ squirrel' = "idle" /\ package' = 0 /\ mounted' = FALSE /\ requests' = 0 /\ pushed' = <<>>
        /\ status' = (IF status.kind = "unsupported" THEN status ELSE INITIAL_UPDATE_STATUS)
        /\ view' = INITIAL_UPDATE_STATUS /\ dismissed' = 0 /\ latest' = latest
    BY <1>11 DEF Relaunch
  <2>2. INITIAL_UPDATE_STATUS \in UpdateStatuses /\ INITIAL_UPDATE_STATUS.kind = "idle"
    BY <1>t DEF INITIAL_UPDATE_STATUS, StatusKinds
  <2>3. UpdatesTyped'
    <3>1. installed' \in Nat /\ latest' \in Nat /\ package' \in Nat
      BY <1>0, <2>1 DEF UpdatesTyped
    <3>2. status' \in UpdateStatuses /\ view' \in UpdateStatuses
      BY <1>0, <2>1, <2>2
    <3>3. pushed' \in Seq(UpdateStatuses)
      BY <2>1
    <3>4. squirrel' = "idle" /\ mounted' = FALSE /\ requests' = 0
      BY <2>1
    <3> QED
      BY <3>1, <3>2, <3>3, <3>4 DEF UpdatesTyped
  <2>4. status'.kind \in {"idle", "unsupported"}
    BY <2>1, <2>2
  <2>5. SquirrelIsFollowed' /\ StatusIsOnItsWay'
    BY <2>1, <2>4 DEF SquirrelIsFollowed, StatusIsOnItsWay
  <2>6. MessagesAreTruthful'
    <3>1. DOMAIN pushed' = {}
      BY <2>1
    <3> QED
      BY <2>1, <2>2, <2>4, <3>1 DEF MessagesAreTruthful, Truthful
  <2> QED
    BY <2>3, <2>5, <2>6 DEF UpdatesInv
<1>12. CASE UNCHANGED updatesVars
  BY <1>0, <1>12 DEF updatesVars, UpdatesInv, UpdatesTyped, SquirrelIsFollowed, StatusIsOnItsWay, MessagesAreTruthful, Truthful, ToBeShown
<1> QED
  BY <1>1, <1>2, <1>3, <1>4, <1>5, <1>6, <1>7, <1>8, <1>9, <1>10, <1>11, <1>12 DEF UpdatesNext

(* The window is told every status of the service in its order, or asks once   *)
(* it listens, for any number of messages, failures and relaunches.            *)
THEOREM UpdatesInvariant == UpdatesSpec => []UpdatesInv
BY UpdatesInvInit, UpdatesInvStep, PTL DEF UpdatesSpec

(* A notice that has heard all there is shows the status of the service, early *)
(* messages lost and all; and it offers what is fetched and newer than what    *)
(* runs, never a package that was given up (update-service.ts's push and       *)
(* requestStatus, nextUpdateStatus, UpdateNotice.tsx).                         *)
THEOREM NoticeStaysCurrent == UpdatesSpec => []NoticeIsCurrent
<1>1. UpdatesInv => NoticeIsCurrent
  BY DEF UpdatesInv, NoticeIsCurrent, StatusIsOnItsWay, ToBeShown, Offered, MessagesAreTruthful, Truthful, SquirrelIsFollowed
<1> QED
  BY <1>1, UpdatesInvariant, PTL

(* No restart goes back to an older version, as what is ready is newer than    *)
(* what runs, however often a fetch failed before (update-service.ts).         *)
THEOREM UpdatesNeverGoBack == UpdatesSpec => UpdatesGoForward
<1>1. UpdatesInv /\ [UpdatesNext]_updatesVars => [installed' >= installed]_updatesVars
  <2> SUFFICES ASSUME UpdatesInv, UpdatesNext
               PROVE  installed' >= installed
    BY DEF updatesVars
  <2>1. installed \in Nat /\ package \in Nat /\ (status.kind = "ready" => installed < package)
    BY DEF UpdatesInv, UpdatesTyped, SquirrelIsFollowed
  <2>2. CASE Relaunch
    BY <2>1, <2>2 DEF Relaunch
  <2>3. CASE ~Relaunch
    BY <2>1, <2>3 DEF UpdatesNext, Publish, Check, NothingNew, Found, Downloaded, SquirrelFails, Mount, AnswerRequest, Receive, Later
  <2> QED
    BY <2>2, <2>3
<1> QED
  BY <1>1, UpdatesInvariant, PTL DEF UpdatesSpec, UpdatesGoForward

=============================================================================
