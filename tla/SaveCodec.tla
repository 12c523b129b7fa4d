------------------------------ MODULE SaveCodec ------------------------------
(***************************************************************************)
(* The save file across builds: what encodeSave writes, and what decodeSave *)
(* makes of a file written by this build, an older or a newer one, whole or *)
(* with some of it damaged.                                                *)
(*                                                                         *)
(* A file is a set of parts.  Those of the versioned schema are all read or *)
(* the file is refused; two blocks ride along and are salvaged: the random *)
(* events' sidecar, and the mini-games'.  A part's content is abstracted to *)
(* whether there is any; the rungs a version's migration grants (modelled   *)
(* in ControlUnlocks) are one rung named for the version.                  *)
(***************************************************************************)
EXTENDS Naturals, FiniteSets

CONSTANTS
  Event,         \* the random events this build knows
  Future,        \* those of a newer build
  MaxStacked,    \* MAX_STACKED_EVENTS
  MaxChanges     \* bound: plays and damages

ASSUME CodecAssumption ==
  /\ Event \cap Future = {} /\ IsFiniteSet(Event \cup Future)
  /\ MaxStacked \in Nat /\ MaxChanges \in Nat

VARIABLES
  file,          \* the payload under the save's key
  app,           \* "down", or "up" with a game in memory ...
  game,          \* ... this one
  verdict,       \* what the last decodeSave came to
  fresh,         \* nothing was played or saved since (ghost)
  written,       \* the game the file's writer wrote (ghost)
  touched,       \* what of the file was spoiled since (ghost)
  changes        \* plays and damages (a bound's counter)

codecVars == <<file, app, game, verdict, fresh, written, touched, changes>>

SAVE_SCHEMA_VERSION == 9

(* the version whose schema first requires a part *)
Since == [core |-> 1, tools |-> 2, depot |-> 4, factory |-> 5]
RequiredPart == DOMAIN Since
DefaultedPart == {"home", "reborn"}
SidecarPart == {"schedule", "raids", "stock", "storage"}
MinigamePart == {"boards", "tokens", "rewards"}
Part == RequiredPart \cup DefaultedPart \cup SidecarPart \cup MinigamePart

Sidecar == SidecarPart \cup {"sidecar", "actives", "last"}
Schema == RequiredPart \cup DefaultedPart \cup {"version", "rungs"}
Name == Part \cup Sidecar \cup Schema \cup {"minigames"}

Content == {"none", "some"}
Legibility == {"good", "absent", "damaged"}
Grant == 6 .. SAVE_SCHEMA_VERSION

-----------------------------------------------------------------------------
(* The file a build writes of a game: the parts it knows, under its version. *)
Written(g, version, form, known) ==
  LET there == known \cup {"version"}
                 \cup (IF version >= 6 THEN {"rungs"} ELSE {})
                 \cup (IF "schedule" \in known THEN {"sidecar", "actives", "last"} ELSE {})
                 \cup (IF "boards" \in known THEN {"minigames"} ELSE {})
  IN  [ version |-> version, form |-> form, of |-> g,
        state |-> [n \in Name |-> IF n \in there THEN "good" ELSE "absent"] ]

EncodeSave_NoStorage(g) == Written(g, SAVE_SCHEMA_VERSION, 2, Part \ {"storage"})

EncodeSave(g) == Written(g, SAVE_SCHEMA_VERSION, 2, Part)

(* What is there is read; what is not reads as nothing. *)
Value(f, p) == IF f.state[p] = "good" THEN f.of.part[p] ELSE "none"

Good(f, names) == \A n \in names : f.state[n] = "good"
Sound(f, names) == \A n \in names : f.state[n] # "damaged"

Steps(f) == {v \in Grant : v > f.version}

(* Grants on every load, as a rule outside the version chain would. *)
Rungs_EveryLoad(f) ==
  (IF f.version >= 6 /\ Good(f, {"rungs"}) THEN f.of.rungs ELSE {}) \cup (IF f.of.played THEN Grant ELSE {})

(* The rungs after migrateToLatest: what is legible, and what the steps grant to a played save. *)
Rungs(f) ==
  (IF f.version >= 6 /\ Good(f, {"rungs"}) THEN f.of.rungs ELSE {}) \cup (IF f.of.played THEN Steps(f) ELSE {})

(* migrateToLatest: each step adds its version's part, empty. *)
Added(f) ==
  {p \in RequiredPart : Since[p] > f.version} \cup (IF f.version < SAVE_SCHEMA_VERSION THEN {"rungs"} ELSE {})

(* SaveDataLatestSchema, of what the migrations made of the file *)
SchemaHolds(f) ==
  /\ Good(f, (RequiredPart \cup {"rungs"}) \ Added(f))
  /\ Sound(f, DefaultedPart)

(* SaveVersionProbeSchema, and the versions there is a way from *)
Readable(f) ==
  Good(f, {"version"}) /\ f.version \in 1 .. SAVE_SCHEMA_VERSION /\ SchemaHolds(f)

(* migrateSidecarV1: the one slot becomes a list. *)
MigrateSidecarV1(f) == [f EXCEPT !.form = 2]

(* The layer that drops the events this build does not know. *)
WithoutUnknownIds(f) == [f EXCEPT !.of.actives = @ \cap Event, !.of.last = @ \cap Event]

(* RandomEventsStateSchema: the raids, the stock and the storage may be absent. *)
SidecarHolds(f) ==
  /\ f.form = 2
  /\ Good(f, {"schedule", "actives", "last"}) /\ Sound(f, SidecarPart)
  /\ f.of.actives \subseteq Event /\ Cardinality(f.of.actives) <= MaxStacked
  /\ f.of.last \subseteq Event

SidecarOf(f, names) ==
  [ part |-> [p \in SidecarPart |-> IF p \in names THEN Value(f, p) ELSE "none"],
    actives |-> IF "actives" \in names THEN f.of.actives ELSE {},
    last |-> IF "last" \in names THEN f.of.last ELSE {} ]

(* All of a sidecar that holds as it is or without the unknown events, which a sidecar that held *)
(* before has none of; else what was paid for, when the stock is legible.                        *)
DecodeRandomEvents(f) ==
  LET kept == WithoutUnknownIds(MigrateSidecarV1(f))
  IN  SidecarOf(kept, CASE ~Good(f, {"sidecar"})     -> {}
                        [] OTHER -> IF SidecarHolds(kept) THEN Sidecar
                                    ELSE IF Sound(f, {"stock"}) THEN {"stock", "storage"} ELSE {})

(* Of this block only the boards and the rewards are looked at; the tokens are taken as they are. *)
DecodeMinigames(f) ==
  [p \in MinigamePart |->
     IF ~Good(f, {"minigames"}) THEN "none"
     ELSE IF p = "tokens" /\ f.state[p] = "damaged" THEN "damaged" ELSE Value(f, p)]

InitialGame ==
  [part |-> [p \in Part |-> "none"], rungs |-> {}, actives |-> {}, last |-> {}, played |-> FALSE]

DecodeSave(f) ==
  LET events == DecodeRandomEvents(f)
      rounds == DecodeMinigames(f)
  IN  [ part |-> [p \in Part |-> IF p \in SidecarPart THEN events.part[p]
                                 ELSE IF p \in MinigamePart THEN rounds[p]
                                 ELSE IF p \in Added(f) THEN "none" ELSE Value(f, p)],
        rungs |-> Rungs(f), actives |-> events.actives, last |-> events.last, played |-> f.of.played ]

-----------------------------------------------------------------------------
(* What a build of a version knows, and of the parts without one those up to its age, in the     *)
(* order in which they came to the file.                                                         *)
KnownTo(version, age) ==
  UNION {{p \in RequiredPart : Since[p] <= version},
         IF age >= 1 THEN {"schedule"} ELSE {},
         IF age >= 2 THEN {"raids", "stock"} ELSE {},
         IF age >= 3 THEN {"storage", "home", "reborn"} ELSE {},
         IF age >= 4 THEN MinigamePart ELSE {}}

(* A game of such a build: some content in each of the parts it knows. *)
GameOf(known, rungs, actives, last, played) ==
  [ part |-> [p \in Part |-> IF p \in known THEN "some" ELSE "none"],
    rungs |-> rungs, actives |-> actives, last |-> last, played |-> played ]

(* The file is of an older build, of this one, or of a newer one, with events of its own or a    *)
(* later version.  The sidecar's first form has room for one event.                              *)
LeftBy(version, age, form) ==
  /\ \E rungs \in {{}, {v \in Grant : v <= version}}, played \in BOOLEAN,
        actives \in SUBSET (IF age = 0 THEN {} ELSE Event \cup Future),
        last \in {{}} \cup (IF age = 0 THEN {} ELSE {{e} : e \in Event \cup Future}) :
        /\ form = 1 => Cardinality(actives) <= 1
        /\ version < 6 => rungs = {}
        /\ written = GameOf(KnownTo(version, age), rungs, actives, last, played)
  /\ file = Written(written, version, form, KnownTo(version, age))

CodecInit ==
  /\ \E version \in 1 .. SAVE_SCHEMA_VERSION + 1, age \in 0 .. 4, form \in {1, 2} : LeftBy(version, age, form)
  /\ app = "down" /\ game = InitialGame /\ verdict = "none" /\ fresh = FALSE
  /\ touched = {} /\ changes = 0

LoadSaved ==
  /\ app = "down" /\ app' = "up"
  /\ Readable(file)
  /\ game' = DecodeSave(file) /\ verdict' = "ok" /\ fresh' = TRUE
  /\ UNCHANGED <<file, written, touched, changes>>

(* malformed, unmigratable or of a future version: the caller starts anew *)
LoadRefused ==
  /\ app = "down" /\ app' = "up"
  /\ ~Readable(file)
  /\ game' = InitialGame /\ verdict' = "refused" /\ fresh' = TRUE
  /\ UNCHANGED <<file, written, touched, changes>>

Change(g) ==
  /\ changes < MaxChanges /\ changes' = changes + 1
  /\ game' = g /\ fresh' = FALSE
  /\ UNCHANGED <<file, app, verdict, written, touched>>

Play ==
  /\ app = "up"
  /\ \/ \E p \in Part, c \in Content : Change([game EXCEPT !.part[p] = c])
     \/ \E v \in Grant : Change([game EXCEPT !.rungs = @ \cup {v}])
     \/ \E now \in SUBSET Event : Cardinality(now) <= MaxStacked /\ Change([game EXCEPT !.actives = now])
     \/ \E e \in Event : Change([game EXCEPT !.last = {e}])
     \/ Change([game EXCEPT !.played = TRUE])

Save ==
  /\ app = "up"
  /\ file' = EncodeSave(game) /\ written' = game /\ touched' = {} /\ fresh' = FALSE
  /\ UNCHANGED <<app, game, verdict, changes>>

Quit ==
  /\ app = "up" /\ app' = "down"
  /\ game' = InitialGame /\ fresh' = FALSE
  /\ UNCHANGED <<file, verdict, written, touched, changes>>

(* A part of the file is lost, or becomes what no reader expects: a bad disk, an edit by hand, a  *)
(* build that stores something else there.  Only a file at rest matters: a save rewrites it.      *)
Spoil(name, f) ==
  /\ app = "down" /\ changes < MaxChanges /\ changes' = changes + 1
  /\ file' = f /\ touched' = touched \cup {name}
  /\ UNCHANGED <<app, game, verdict, fresh, written>>

Damage ==
  \/ \E name \in Name, how \in {"absent", "damaged"} :
       file.state[name] = "good" /\ Spoil(name, [file EXCEPT !.state[name] = how])
  \/ Spoil("version", [file EXCEPT !.version = 0])

CodecNext == LoadSaved \/ LoadRefused \/ Play \/ Save \/ Quit \/ Damage

CodecSpec == CodecInit /\ [][CodecNext]_codecVars

-----------------------------------------------------------------------------
Untouched(names) == names \cap touched = {}

(* What this build must find of the game that was written.  A part of the schema or of the        *)
(* mini-games is read as it was written unless it is the one spoiled; the paid stock even when     *)
(* the sidecar around it is, and the storage too while the stock is legible; the rest of the      *)
(* sidecar, less the events of a newer build, when nothing of it is spoiled and the events fit.   *)
(* The migrations add what the versions between grant to a played save, once, and nothing else.   *)
ReadsWhatWasWritten ==
  LET same(p) == game.part[p] = written.part[p]
      grants  == IF written.played THEN Steps(file) ELSE {}
  IN  /\ \A p \in RequiredPart \cup DefaultedPart : Untouched({p}) => same(p)
      /\ \A p \in MinigamePart : Untouched({p, "minigames"}) => same(p)
      /\ Untouched({"stock", "sidecar"}) => same("stock")
      /\ Untouched({"stock", "storage", "sidecar"}) => same("storage")
      /\ Untouched(Sidecar) /\ Cardinality(written.actives \cap Event) <= MaxStacked =>
           /\ \A p \in SidecarPart : same(p)
           /\ game.actives = written.actives \cap Event /\ game.last = written.last \cap Event
      /\ Untouched({"rungs"}) => game.rungs = written.rungs \cup grants

(* A load gives back what was written, across versions, across blocks that came without one, and *)
(* around damage; and only damage to the schema's own parts, or a newer version, has it refused.  *)
WrittenIsRead ==
  fresh =>
    /\ verdict = "ok" => ReadsWhatWasWritten
    /\ verdict = "refused" =>
         file.version > SAVE_SCHEMA_VERSION
           \/ ~Untouched(Schema)

(* The comment on decodeRandomEvents (random-events.ts:2139): it "may never silently throw away   *)
(* something the player paid for".  The storage rungs are lost with an illegible stock.           *)
PaidForIsKept ==
  fresh /\ verdict = "ok" => \A p \in {"stock", "storage"} :
    Untouched({p, "sidecar"}) => game.part[p] = written.part[p]

=============================================================================
