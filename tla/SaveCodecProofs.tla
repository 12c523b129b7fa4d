--------------------------- MODULE SaveCodecProofs ---------------------------
(***************************************************************************)
(* A load gives back what was written, for any events, any limit of the    *)
(* stack, and any number of plays and damages.                             *)
(***************************************************************************)
EXTENDS SaveCodec, TLAPS

Games ==
  [ part : [Part -> Content \cup {"damaged"}], rungs : SUBSET Grant,
    actives : SUBSET (Event \cup Future), last : SUBSET (Event \cup Future), played : BOOLEAN ]

(* The file is of the game its writer wrote. *)
FileIsAFile ==
  /\ game \in Games /\ written \in Games
  /\ file \in [version : Nat, form : {1, 2}, of : {written}, state : [Name -> Legibility]]

(* What is not there was nothing in the game, and is a part the version has no need of. *)
WhatIsMissingWasNothing ==
  /\ \A p \in Part \ touched : \/ file.state[p] = "good"
                               \/ file.state[p] = "absent" /\ written.part[p] = "none"
  /\ "version" \notin touched => file.state["version"] = "good" /\ file.version # 0
  /\ file.version # 0 =>
       /\ \A p \in RequiredPart \ touched : file.state[p] = "good" <=> Since[p] <= file.version
       /\ "rungs" \notin touched => \/ file.version >= 6 /\ file.state["rungs"] = "good"
                                    \/ file.version < 6 /\ written.rungs = {}

(* A block that is not there had nothing in it. *)
MissingBlocksWereEmpty ==
  /\ "sidecar" \notin touched /\ file.state["sidecar"] # "good" =>
       /\ \A p \in SidecarPart : written.part[p] = "none"
       /\ written.actives = {} /\ written.last = {}
  /\ "minigames" \notin touched /\ file.state["minigames"] # "good" =>
       \A p \in MinigamePart : written.part[p] = "none"
  /\ Untouched(Sidecar) /\ file.state["sidecar"] = "good" => Good(file, {"schedule", "actives", "last"})

CodecInv ==
  /\ FileIsAFile
  /\ WhatIsMissingWasNothing
  /\ MissingBlocksWereEmpty
  /\ app = "down" => ~fresh
  /\ WrittenIsRead

USE DEF Part, RequiredPart, DefaultedPart, SidecarPart, MinigamePart, Since, Sidecar, Schema, Name, Legibility

(* The layers before the salvage touch only the events that run or ran last. *)
LEMMA KeptIsTheRest ==
  ASSUME FileIsAFile
  PROVE  LET kept == WithoutUnknownIds(MigrateSidecarV1(file))
         IN  /\ kept.state = file.state /\ kept.form = 2 /\ kept.of.part = written.part
             /\ kept.of.actives = written.actives \cap Event /\ kept.of.last = written.last \cap Event
<1> DEFINE m == MigrateSidecarV1(file)
           kept == WithoutUnknownIds(m)
<1>1. m = [version |-> file.version, form |-> 2, of |-> written, state |-> file.state]
  BY DEF FileIsAFile, MigrateSidecarV1
<1>2. kept = [m EXCEPT !.of.actives = written.actives \cap Event, !.of.last = written.last \cap Event]
  BY <1>1 DEF WithoutUnknownIds
<1> HIDE DEF m, kept
<1>3. /\ kept.state = file.state /\ kept.form = 2 /\ kept.of.part = written.part
      /\ kept.of.actives = written.actives \cap Event /\ kept.of.last = written.last \cap Event
  BY <1>1, <1>2 DEF FileIsAFile, Games
<1> QED BY <1>3 DEF kept, m

(* decodeSave gives back what the file's writer wrote. *)
LEMMA DecodedIsWritten ==
  ASSUME FileIsAFile, WhatIsMissingWasNothing, MissingBlocksWereEmpty, Readable(file)
  PROVE  LET g == DecodeSave(file)
             same(p) == g.part[p] = written.part[p]
             grants  == IF written.played THEN Steps(file) ELSE {}
         IN  /\ \A p \in RequiredPart \cup DefaultedPart : Untouched({p}) => same(p)
             /\ \A p \in MinigamePart : Untouched({p, "minigames"}) => same(p)
             /\ Untouched({"stock", "sidecar"}) => same("stock")
             /\ Untouched({"stock", "storage", "sidecar"}) => same("storage")
             /\ Untouched(Sidecar) /\ Cardinality(written.actives \cap Event) <= MaxStacked =>
                  /\ \A p \in SidecarPart : same(p)
                  /\ g.actives = written.actives \cap Event /\ g.last = written.last \cap Event
             /\ Untouched({"rungs"}) => g.rungs = written.rungs \cup grants
<1> DEFINE g == DecodeSave(file)
           events == DecodeRandomEvents(file)
           kept == WithoutUnknownIds(MigrateSidecarV1(file))
<1>1. /\ file.of = written /\ written \in Games
      /\ file \in [version : Nat, form : {1, 2}, of : {written}, state : [Name -> Legibility]]
      /\ file.version \in 1 .. 9 /\ file.state["version"] = "good"
  BY DEF FileIsAFile, Readable, SAVE_SCHEMA_VERSION, Good
<1>2. /\ kept.state = file.state /\ kept.form = 2 /\ kept.of.part = written.part
      /\ kept.of.actives = written.actives \cap Event /\ kept.of.last = written.last \cap Event
  BY KeptIsTheRest
<1> HIDE DEF kept
<1>3. ASSUME NEW p \in Part, Untouched({p})  PROVE  Value(file, p) = written.part[p]
  BY <1>1, <1>3 DEF WhatIsMissingWasNothing, Untouched, Value
<1>4. ASSUME NEW p \in RequiredPart \cup DefaultedPart, Untouched({p})  PROVE  g.part[p] = written.part[p]
  <2>1. p \in Part /\ p \notin SidecarPart /\ p \notin MinigamePart
    OBVIOUS
  <2>2. g.part[p] = IF p \in Added(file) THEN "none" ELSE Value(file, p)
    BY <2>1 DEF DecodeSave
  <2>3. p \in Added(file) => Value(file, p) = "none"
    BY <1>1, <1>4 DEF Added, WhatIsMissingWasNothing, Untouched, Value
  <2> QED BY <1>3, <1>4, <2>1, <2>2, <2>3
<1>5. ASSUME NEW p \in MinigamePart, Untouched({p, "minigames"})  PROVE  g.part[p] = written.part[p]
  <2>1. p \in Part /\ p \notin SidecarPart
    OBVIOUS
  <2>2. g.part[p] = DecodeMinigames(file)[p]
    BY <2>1 DEF DecodeSave
  <2>3. DecodeMinigames(file)[p] = IF file.state["minigames"] = "good" THEN Value(file, p) ELSE "none"
    <3>1. file.state[p] # "damaged"
      BY <2>1, <1>5 DEF WhatIsMissingWasNothing, Untouched
    <3> QED BY <3>1 DEF DecodeMinigames, Good
  <2> QED BY <1>3, <1>5, <2>1, <2>2, <2>3 DEF MissingBlocksWereEmpty, Untouched
<1>6. events = SidecarOf(kept, IF file.state["sidecar"] # "good" THEN {}
                               ELSE IF SidecarHolds(kept) THEN Sidecar
                               ELSE IF Sound(file, {"stock"}) THEN {"stock", "storage"} ELSE {})
  BY Zenon DEF DecodeRandomEvents, Good, kept
<1>7. ASSUME NEW p \in SidecarPart, Untouched({p, "sidecar"}),
             \/ file.state["sidecar"] = "good" => SidecarHolds(kept)
             \/ p = "stock"
             \/ p = "storage" /\ Untouched({"stock"})
      PROVE  g.part[p] = written.part[p]
  <2> DEFINE names == IF file.state["sidecar"] # "good" THEN {}
                      ELSE IF SidecarHolds(kept) THEN Sidecar
                      ELSE IF Sound(file, {"stock"}) THEN {"stock", "storage"} ELSE {}
  <2>1. p \in Part /\ Value(file, p) = written.part[p]
    BY <1>3, <1>7 DEF Untouched
  <2>2. g.part[p] = events.part[p]
    BY <2>1 DEF DecodeSave
  <2>3. events.part[p] = IF p \in names THEN Value(kept, p) ELSE "none"
    BY <1>6 DEF SidecarOf
  <2>4. Value(kept, p) = Value(file, p)
    BY <1>1, <1>2 DEF Value
  <2>5. CASE file.state["sidecar"] = "good"
    <3>1. Untouched({"stock"}) => Sound(file, {"stock"})
      BY DEF WhatIsMissingWasNothing, Untouched, Sound
    <3>2. p \in names
      BY <1>7, <2>5, <3>1 DEF Untouched
    <3> QED BY <2>1, <2>2, <2>3, <2>4, <3>2
  <2>6. CASE file.state["sidecar"] # "good"
    BY <1>7, <2>2, <2>3, <2>6 DEF MissingBlocksWereEmpty, Untouched
  <2> QED BY <2>5, <2>6
<1>8. ASSUME Untouched(Sidecar), Cardinality(written.actives \cap Event) <= MaxStacked
      PROVE  /\ file.state["sidecar"] = "good" => SidecarHolds(kept)
             /\ g.actives = written.actives \cap Event /\ g.last = written.last \cap Event
  <2>1. ASSUME file.state["sidecar"] = "good"  PROVE  SidecarHolds(kept)
    <3>1. Good(kept, {"schedule", "actives", "last"})
      BY <1>2, <1>8, <2>1 DEF MissingBlocksWereEmpty, Good
    <3>2. Sound(kept, SidecarPart)
      BY <1>2, <1>8 DEF WhatIsMissingWasNothing, Untouched, Sound
    <3> QED BY <1>2, <1>8, <3>1, <3>2 DEF SidecarHolds
  <2>2. g.actives = events.actives /\ g.last = events.last
    BY DEF DecodeSave
  <2>3. CASE file.state["sidecar"] = "good"
    BY <1>2, <1>6, <2>1, <2>2, <2>3 DEF SidecarOf
  <2>4. CASE file.state["sidecar"] # "good"
    BY <1>6, <1>8, <2>2, <2>4 DEF SidecarOf, MissingBlocksWereEmpty, Untouched
  <2> QED BY <2>1, <2>3, <2>4
<1>9. ASSUME Untouched({"rungs"})
      PROVE  g.rungs = written.rungs \cup (IF written.played THEN Steps(file) ELSE {})
  <2>1. g.rungs = Rungs(file)
    BY DEF DecodeSave
  <2>2. \/ file.version >= 6 /\ file.state["rungs"] = "good"
        \/ file.version < 6 /\ written.rungs = {}
    BY <1>1, <1>9 DEF WhatIsMissingWasNothing, Untouched
  <2> QED BY <1>1, <2>1, <2>2 DEF Rungs, Good
<1>10. Untouched({"stock", "sidecar"}) => g.part["stock"] = written.part["stock"]
  BY <1>7
<1>11. Untouched({"stock", "storage", "sidecar"}) => g.part["storage"] = written.part["storage"]
  BY <1>7 DEF Untouched
<1>12. Untouched(Sidecar) /\ Cardinality(written.actives \cap Event) <= MaxStacked =>
         \A p \in SidecarPart : g.part[p] = written.part[p]
  BY <1>7, <1>8 DEF Untouched
<1> HIDE DEF g
<1> QED BY <1>4, <1>5, <1>8, <1>9, <1>10, <1>11, <1>12 DEF g

(* What is decoded is a game, whoever wrote the file. *)
LEMMA DecodedIsAGame ==
  ASSUME FileIsAFile, Readable(file)
  PROVE  DecodeSave(file) \in Games
<1> DEFINE g == DecodeSave(file)
           values == Content \cup {"damaged"}
<1>1. ASSUME NEW p \in Part  PROVE  Value(file, p) \in values
  BY DEF FileIsAFile, Games, Value, Content
<1>2. \A p \in MinigamePart : DecodeMinigames(file)[p] \in values
  BY <1>1 DEF DecodeMinigames, Content
<1>3. /\ \A p \in SidecarPart : DecodeRandomEvents(file).part[p] \in values
      /\ DecodeRandomEvents(file).actives \in SUBSET (Event \cup Future)
      /\ DecodeRandomEvents(file).last \in SUBSET (Event \cup Future)
  <2> DEFINE kept == WithoutUnknownIds(MigrateSidecarV1(file))
  <2>1. PICK names : DecodeRandomEvents(file) = SidecarOf(kept, names)
    BY Zenon DEF DecodeRandomEvents
  <2>2. /\ kept.state = file.state /\ kept.of.part = written.part
        /\ kept.of.actives \in SUBSET (Event \cup Future) /\ kept.of.last \in SUBSET (Event \cup Future)
    BY KeptIsTheRest DEF FileIsAFile, Games
  <2>3. \A p \in SidecarPart : Value(kept, p) = Value(file, p)
    BY <2>2 DEF Value, FileIsAFile
  <2> HIDE DEF kept
  <2> QED BY <1>1, <2>1, <2>2, <2>3 DEF SidecarOf, Content
<1>4. \A p \in Part : g.part[p] \in values
  BY <1>1, <1>2, <1>3 DEF DecodeSave, Content
<1>5. g.rungs \in SUBSET Grant
  BY DEF FileIsAFile, Games, DecodeSave, Rungs, Steps, Grant
<1>6. g.played \in BOOLEAN
  BY DEF FileIsAFile, Games, DecodeSave
<1> QED BY <1>3, <1>4, <1>5, <1>6 DEF Games, DecodeSave

(* A file as a build writes it holds the game it wrote, if that knows of nothing else. *)
LEMMA WrittenTells ==
  ASSUME NEW g \in Games, NEW version \in Nat \ {0}, NEW form \in {1, 2}, NEW known \in SUBSET Part,
         \A p \in RequiredPart : p \in known <=> Since[p] <= version,
         \A p \in Part \ known : g.part[p] = "none",
         version < 6 => g.rungs = {},
         "schedule" \notin known => known \cap SidecarPart = {} /\ g.actives = {} /\ g.last = {},
         "boards" \notin known => known \cap MinigamePart = {}
  PROVE  LET f == Written(g, version, form, known)
         IN  /\ f \in [version : Nat, form : {1, 2}, of : {g}, state : [Name -> Legibility]]
             /\ f.version = version
             /\ \A p \in Part : f.state[p] = "good" \/ (f.state[p] = "absent" /\ g.part[p] = "none")
             /\ \A p \in RequiredPart : f.state[p] = "good" <=> Since[p] <= version
             /\ f.state["version"] = "good"
             /\ f.state["rungs"] = "good" <=> version >= 6
             /\ f.state["sidecar"] # "good" =>
                  (\A p \in SidecarPart : g.part[p] = "none") /\ g.actives = {} /\ g.last = {}
             /\ f.state["sidecar"] = "good" => Good(f, {"schedule", "actives", "last"})
             /\ f.state["minigames"] # "good" => \A p \in MinigamePart : g.part[p] = "none"
<1> DEFINE f == Written(g, version, form, known)
<1>1. /\ f.version = version
      /\ f \in [version : Nat, form : {1, 2}, of : {g}, state : [Name -> Legibility]]
      /\ \A p \in Part : f.state[p] = IF p \in known THEN "good" ELSE "absent"
      /\ f.state["version"] = "good"
      /\ f.state["rungs"] = "good" <=> version >= 6
      /\ \A n \in {"sidecar", "actives", "last"} : f.state[n] = "good" <=> "schedule" \in known
      /\ f.state["minigames"] = "good" <=> "boards" \in known
  BY DEF Written
<1> HIDE DEF f
<1>2. ASSUME NEW p \in Part  PROVE  f.state[p] = "good" \/ (f.state[p] = "absent" /\ g.part[p] = "none")
  <2>1. f.state[p] = IF p \in known THEN "good" ELSE "absent"
    BY <1>1
  <2>2. p \notin known => g.part[p] = "none"
    OBVIOUS
  <2> QED BY <2>1, <2>2
<1>3. \A p \in RequiredPart : f.state[p] = "good" <=> Since[p] <= version
  BY <1>1
<1>4. f.state["sidecar"] = "good" => Good(f, {"schedule", "actives", "last"})
  BY <1>1 DEF Good
<1>5. f.state["sidecar"] # "good" => \A p \in SidecarPart : g.part[p] = "none"
  BY <1>1
<1>6. f.state["minigames"] # "good" => \A p \in MinigamePart : g.part[p] = "none"
  BY <1>1
<1> QED BY <1>1, <1>2, <1>3, <1>4, <1>5, <1>6 DEF f

LEMMA InitEstablishes == CodecInit => CodecInv
<1> SUFFICES ASSUME CodecInit PROVE CodecInv
  OBVIOUS
<1>1. PICK version \in 1 .. SAVE_SCHEMA_VERSION + 1, age \in 0 .. 4, form \in {1, 2} : LeftBy(version, age, form)
  BY DEF CodecInit
<1> DEFINE known == KnownTo(version, age)
<1>2. /\ version \in Nat \ {0} /\ known \in SUBSET Part
      /\ \A p \in RequiredPart : p \in known <=> Since[p] <= version
      /\ "schedule" \notin known => age = 0 /\ known \cap SidecarPart = {}
      /\ "boards" \notin known => known \cap MinigamePart = {}
  BY DEF KnownTo, SAVE_SCHEMA_VERSION
<1>3. /\ written \in Games
      /\ \A p \in Part \ known : written.part[p] = "none"
      /\ version < 6 => written.rungs = {}
      /\ age = 0 => written.actives = {} /\ written.last = {}
  BY <1>1 DEF LeftBy, GameOf, Games, Content
<1>4. file = Written(written, version, form, known) /\ game = InitialGame /\ touched = {} /\ ~fresh
  BY <1>1 DEF LeftBy, CodecInit
<1> HIDE DEF known
<1>5. game \in Games
  BY <1>4 DEF InitialGame, Games, Content
<1>6. FileIsAFile /\ WhatIsMissingWasNothing /\ MissingBlocksWereEmpty
  <2> HIDE DEF Part, RequiredPart, DefaultedPart, SidecarPart, MinigamePart, Since, Sidecar, Schema, Name, Legibility
  <2> QED BY <1>2, <1>3, <1>4, <1>5, WrittenTells DEF FileIsAFile, WhatIsMissingWasNothing, MissingBlocksWereEmpty
<1> QED BY <1>4, <1>6 DEF CodecInv, WrittenIsRead

LEMMA StepPreserves == CodecInv /\ [CodecNext]_codecVars => CodecInv'
<1> SUFFICES ASSUME CodecInv, [CodecNext]_codecVars PROVE CodecInv'
  OBVIOUS
<1> USE DEF CodecInv
<1>1. CASE LoadSaved
  <2>1. game' = DecodeSave(file) /\ UNCHANGED <<file, written, touched>> /\ Readable(file)
        /\ app' = "up" /\ verdict' = "ok"
    BY <1>1 DEF LoadSaved
  <2>2. FileIsAFile' /\ WhatIsMissingWasNothing' /\ MissingBlocksWereEmpty'
    BY <2>1, DecodedIsAGame DEF FileIsAFile, WhatIsMissingWasNothing, MissingBlocksWereEmpty, Untouched, Good
  <2>3. ReadsWhatWasWritten'
    BY <2>1, DecodedIsWritten DEF ReadsWhatWasWritten, Untouched, Steps
  <2> QED BY <2>1, <2>2, <2>3 DEF WrittenIsRead
<1>2. CASE LoadRefused
  <2>1. game' = InitialGame /\ UNCHANGED <<file, written, touched>> /\ ~Readable(file)
        /\ app' = "up" /\ verdict' = "refused"
    BY <1>2 DEF LoadRefused
  <2>2. FileIsAFile' /\ WhatIsMissingWasNothing' /\ MissingBlocksWereEmpty'
    BY <2>1 DEF FileIsAFile, WhatIsMissingWasNothing, MissingBlocksWereEmpty, Untouched, Good, InitialGame, Games, Content
  <2>3. ASSUME Untouched(Schema), file.version <= SAVE_SCHEMA_VERSION  PROVE  Readable(file)
    <3>1. file.version \in 1 .. SAVE_SCHEMA_VERSION /\ file.state["version"] = "good"
      BY <2>3 DEF FileIsAFile, WhatIsMissingWasNothing, Untouched, SAVE_SCHEMA_VERSION
    <3>2. \A p \in RequiredPart : p \notin Added(file) => file.state[p] = "good"
      BY <2>3, <3>1 DEF FileIsAFile, WhatIsMissingWasNothing, Untouched, Added, SAVE_SCHEMA_VERSION
    <3>3. "rungs" \notin Added(file) => file.state["rungs"] = "good"
      BY <2>3, <3>1 DEF WhatIsMissingWasNothing, Untouched, Added, SAVE_SCHEMA_VERSION
    <3>4. Sound(file, DefaultedPart)
      BY <2>3 DEF WhatIsMissingWasNothing, Untouched, Sound
    <3> QED BY <3>1, <3>2, <3>3, <3>4 DEF Readable, SchemaHolds, Good
  <2> QED BY <2>1, <2>2, <2>3 DEF WrittenIsRead, FileIsAFile, Untouched, SAVE_SCHEMA_VERSION
<1>3. CASE Play
  <2>1. UNCHANGED <<file, app, written, touched>> /\ ~fresh' /\ app = "up"
    BY <1>3 DEF Play, Change
  <2>2. game' \in Games
    <3>1. CASE \E p \in Part, c \in Content : Change([game EXCEPT !.part[p] = c])
      BY <3>1 DEF Change, FileIsAFile, Games
    <3>2. CASE \E v \in Grant : Change([game EXCEPT !.rungs = @ \cup {v}])
      BY <3>2 DEF Change, FileIsAFile, Games
    <3>3. CASE \E now \in SUBSET Event : Change([game EXCEPT !.actives = now])
      BY <3>3 DEF Change, FileIsAFile, Games
    <3>4. CASE \E e \in Event : Change([game EXCEPT !.last = {e}])
      BY <3>4 DEF Change, FileIsAFile, Games
    <3>5. CASE Change([game EXCEPT !.played = TRUE])
      BY <3>5 DEF Change, FileIsAFile, Games
    <3> QED BY <1>3, <3>1, <3>2, <3>3, <3>4, <3>5 DEF Play
  <2> QED BY <2>1, <2>2 DEF FileIsAFile, WhatIsMissingWasNothing, MissingBlocksWereEmpty, WrittenIsRead, Untouched, Good
<1>4. CASE Save
  <2>1. /\ file' = Written(game, 9, 2, Part) /\ written' = game /\ touched' = {} /\ ~fresh' /\ UNCHANGED game
        /\ game \in Games
    BY <1>4 DEF Save, EncodeSave, SAVE_SCHEMA_VERSION, FileIsAFile
  <2>2. FileIsAFile' /\ WhatIsMissingWasNothing' /\ MissingBlocksWereEmpty'
    BY <2>1, WrittenTells DEF FileIsAFile, WhatIsMissingWasNothing, MissingBlocksWereEmpty, Good
  <2> QED BY <2>1, <2>2 DEF WrittenIsRead
<1>5. CASE Quit
  BY <1>5 DEF Quit, FileIsAFile, WhatIsMissingWasNothing, MissingBlocksWereEmpty, WrittenIsRead, Untouched, Good,
     InitialGame, Games, Content
<1>6. CASE Damage
  <2>1. UNCHANGED <<game, fresh, written>> /\ ~fresh
    BY <1>6 DEF Damage, Spoil
  <2>2. CASE \E name \in Name, how \in {"absent", "damaged"} :
               file.state[name] = "good" /\ Spoil(name, [file EXCEPT !.state[name] = how])
    <3>1. PICK name \in Name, how \in {"absent", "damaged"} :
            file' = [file EXCEPT !.state[name] = how] /\ touched' = touched \cup {name}
      BY <2>2 DEF Spoil
    <3>2. /\ file' \in [version : Nat, form : {1, 2}, of : {written}, state : [Name -> Legibility]]
          /\ file'.version = file.version
          /\ \A n \in Name : n # name => file'.state[n] = file.state[n]
      BY <3>1 DEF FileIsAFile
    <3> QED BY <2>1, <3>1, <3>2
            DEF FileIsAFile, WhatIsMissingWasNothing, MissingBlocksWereEmpty, WrittenIsRead, Untouched, Good
  <2>3. CASE Spoil("version", [file EXCEPT !.version = 0])
    <3>1. /\ file' \in [version : Nat, form : {1, 2}, of : {written}, state : [Name -> Legibility]]
          /\ file'.version = 0 /\ file'.state = file.state /\ touched' = touched \cup {"version"}
      BY <2>3 DEF Spoil, FileIsAFile
    <3> QED BY <2>1, <3>1
            DEF FileIsAFile, WhatIsMissingWasNothing, MissingBlocksWereEmpty, WrittenIsRead, Untouched, Good
  <2> QED BY <1>6, <2>2, <2>3 DEF Damage
<1>7. CASE UNCHANGED codecVars
  BY <1>7 DEF codecVars, FileIsAFile, WhatIsMissingWasNothing, MissingBlocksWereEmpty, WrittenIsRead,
     ReadsWhatWasWritten, Untouched, Good, Steps
<1> QED BY <1>1, <1>2, <1>3, <1>4, <1>5, <1>6, <1>7 DEF CodecNext

(* Whatever build wrote the file, whatever was spoiled of it and whatever was played, a load      *)
(* gives back what was written, and is refused for a reason (save-codec.ts, decodeSave).          *)
THEOREM LoadsAreFaithful == CodecSpec => []WrittenIsRead
<1>1. CodecInv => WrittenIsRead
  BY DEF CodecInv
<1> QED BY <1>1, InitEstablishes, StepPreserves, PTL DEF CodecSpec
=============================================================================
