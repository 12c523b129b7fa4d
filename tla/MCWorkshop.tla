---------------------------- MODULE MCWorkshop -----------------------------
(* Instances of Workshop for TLC: each run is about one place to spend in. *)
EXTENDS Workshop, TLC

CONSTANT Scenes

MCStart == <<1, 2, 3, 10 * Trillion>>
MCGenerators == [cursor |-> [base |-> 10, cps |-> 1, from |-> MaxMade - 9], office |-> [base |-> 20, cps |-> 3, from |-> MaxMade - 2]]
Rich == Trillion + 5
MCUpgrades ==
  [ sign     |-> [price |-> 600, needs |-> {}, from |-> 0],
    contract |-> [price |-> 2, needs |-> {"sign"}, from |-> Rich],
    deed     |-> [price |-> 2, needs |-> {"sign"}, from |-> Rich],
    kitten   |-> [price |-> 600, needs |-> {}, from |-> 0],
    golden   |-> [price |-> 3, needs |-> {}, from |-> Rich],
    gilded   |-> [price |-> 1, needs |-> {"golden"}, from |-> Rich] ]
MCTools ==
  [ bulk    |-> [price |-> 5, from |-> Rich + 1, off |-> 10],
    exports |-> [price |-> 7, from |-> Rich, off |-> 50] ]

MCRooms ==
  [ kitchen |-> [blueprint |-> 1, cost |-> 2, time |-> 2, needs |-> {}],
    pantry  |-> [blueprint |-> 2, cost |-> 3, time |-> 3, needs |-> {"kitchen"}] ]
MCFurniture ==
  [oven |-> [room |-> "kitchen", cost |-> 2, speed |-> 0], ladder |-> [room |-> "pantry", cost |-> 2, speed |-> 70]]

Line(cost, crude, refine, tank, yard, boost) ==
  [cost |-> cost, crude |-> crude, refine |-> refine, tank |-> tank, yard |-> yard, boost |-> boost]
MCEquipment ==
  [ well |-> Line(1, 2, 0, 0, 0, 0), still |-> Line(2, 0, 2, 0, 0, 0), tank |-> Line(1, 0, 0, 2, 2, 0),
    pump |-> Line(3, 0, 0, 0, 0, 50) ]
Fx(cost, kind, by, line, atLeast, after, made) ==
  [cost |-> cost, kind |-> kind, by |-> by, line |-> line, atLeast |-> atLeast, after |-> after, made |-> made]
MCFactoryUpgrades ==
  [ bore      |-> Fx(3, "intake", 2, "well", 2, {}, 0),
    spur      |-> Fx(2, "flatCrude", 1, "well", 1, {}, 0),
    feed      |-> Fx(3, "refining", 2, "still", 2, {}, 0),
    trays     |-> Fx(2, "efficiency", 50, "still", 1, {}, 0),
    roof      |-> Fx(2, "capacity", 2, "tank", 1, {}, 0),
    telemetry |-> Fx(1, "autoShip", 100, "tank", 0, {}, 1),
    desk      |-> Fx(1, "autoShip", 50, "tank", 0, {"telemetry"}, 0) ]

Bought(us) == [u \in {us[i] : i \in DOMAIN us} |-> LET i == CHOOSE i \in DOMAIN us : us[i] = u
                                                  IN [at |-> i \div 2, nth |-> i]]
Run(cookies, baked, lived, made, shelved, nodes, points, had, written) ==
  [cookies |-> cookies, baked |-> baked, lifetime |-> lived, generators |-> made, clicks |-> MaxClicks - 1,
   shelf |-> Bought(shelved), nodes |-> nodes, points |-> points, count |-> 1, rungs |-> had, version |-> written]
Played == 9 * Trillion

MCRuns ==
  UNION {CASE s = "shop"  -> {Run(26, MaxMade - 6, Rich, 1, <<>>, {}, 0, {}, Latest)}
           [] s = "house" -> {Run(24, Played, Trillion, 0, <<"sign", "deed">>, {}, 0, {}, Latest)}
           [] s = "plant" -> {[Run(6, Played, Trillion, 0, <<"sign", "contract">>, {}, 0, {}, Latest) EXCEPT !.clicks = MaxClicks]}
           [] s = "tree"  -> {[Run(0, Played, 8 * Trillion, 0, <<"sign", "golden", "gilded", "kitten">>, nodes, 14, {}, Latest) EXCEPT !.clicks = MaxClicks - 2] :
                                nodes \in {{}, {"dog_eared", "annotated", "memorised"}}}
           [] s = "doors" -> {run \in {Run(Min({lived, 500}), Played, lived, 0, <<>>, {}, 0, had, v) :
                                          lived \in {0, GrantAbove, GrantAbove + 1, Trillion}, v \in 5..Latest,
                                          had \in {{}, RungsOf({"stepper"})}} :
                                run.version = 5 => run.rungs = {}}
           : s \in Scenes}
=============================================================================
