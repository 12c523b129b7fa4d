---------------------------- MODULE StageProofs ----------------------------
(***************************************************************************)
(* Theorems about Stage: what is drawn together, what is counted, what is  *)
(* taken and what is paid, for every catalogue draw, window and delay.     *)
(***************************************************************************)
EXTENDS Stage, SumTheorems

-----------------------------------------------------------------------------
(* Arithmetic.  Division rounds down, and a share is not more than all.    *)
LEMMA QuotientIsNat ==
  ASSUME NEW a \in Nat, NEW b \in Nat \ {0}
  PROVE  a \div b \in Nat
OBVIOUS

LEMMA QuotientAtMost ==
  ASSUME NEW a \in Nat, NEW b \in Nat \ {0}, NEW q \in Nat, a <= b * q
  PROVE  a \div b <= q
<1>1. a \div b \in Nat /\ b * (a \div b) <= a
  OBVIOUS
<1>2. ASSUME a \div b >= q + 1 PROVE FALSE
  <2>1. b * (a \div b) >= b * (q + 1)
    BY <1>1, <1>2
  <2>2. b * (q + 1) > b * q
    OBVIOUS
  <2> QED BY <1>1, <2>1, <2>2
<1> QED BY <1>1, <1>2

(* What a share s of n mice takes, at a percentage p of c cookies.         *)
LEMMA ShareIsAtMost ==
  ASSUME NEW c \in Nat, NEW p \in 0..100, NEW s \in Nat, NEW n \in Nat \ {0}, s <= n
  PROVE  /\ (c * p * s) \div (100 * n) \in Nat
         /\ (c * p * s) \div (100 * n) <= (c * p) \div 100
         /\ (c * p) \div 100 \in Nat
         /\ (c * p) \div 100 <= c
<1> DEFINE m == c * p
           q == m \div 100
<1>1. m \in Nat /\ m <= c * 100
  OBVIOUS
<1>2. q \in Nat /\ 100 * q <= m /\ m < 100 * q + 100
  BY <1>1
<1>3. q <= c
  BY <1>1, <1>2
<1>4. m * s \in Nat /\ 100 * n \in Nat \ {0}
  BY <1>1
<1> HIDE DEF m, q
<1>5. m * s <= m * n
  BY <1>1
<1> DEFINE r == (m * s) \div (100 * n)
<1>6. r \in Nat /\ (100 * n) * r <= m * s
  BY <1>4
<1> HIDE DEF r
<1>7. ASSUME r >= q + 1 PROVE FALSE
  <2>1. (100 * n) * r >= (100 * n) * (q + 1)
    BY <1>2, <1>4, <1>6, <1>7
  <2>2. (100 * n) * (q + 1) = n * (100 * q + 100)
    BY <1>2
  <2>3. n * (100 * q + 100) > n * m
    BY <1>1, <1>2
  <2> QED BY <1>1, <1>2, <1>4, <1>5, <1>6, <2>1, <2>2, <2>3
<1>8. r <= q
  BY <1>2, <1>6, <1>7
<1> QED BY <1>2, <1>3, <1>6, <1>8 DEF m, q, r

(* The catalogue, whatever row is looked up.                               *)
RowsAreCounted(f) == \A id \in DOMAIN f : f[id].ms \in Nat /\ f[id].targets \in Nat /\ f[id].rebate \in Nat

LEMMA WithIsCounted ==
  ASSUME NEW f, NEW g, RowsAreCounted(f), RowsAreCounted(g)
  PROVE  RowsAreCounted(With(f, g))
BY DEF RowsAreCounted, With

LEMMA CatalogueIsCounted == RowsAreCounted(Catalogue)
<1>1. RowsAreCounted(FirstSix)
  BY DEF FirstSix, Row, RowsAreCounted
<1>2. RowsAreCounted(Frenzies)
  BY DEF Frenzies, Row, RowsAreCounted
<1>3. RowsAreCounted(Decisions)
  BY DEF Decisions, Row, RowsAreCounted
<1>4. RowsAreCounted(Showers)
  BY DEF Showers, Row, RowsAreCounted
<1>5. RowsAreCounted(Shifts)
  BY DEF Shifts, Row, RowsAreCounted
<1>6. RowsAreCounted(MouseRaid)
  BY DEF MouseRaid, Row, RowsAreCounted
<1> QED BY <1>1, <1>2, <1>3, <1>4, <1>5, <1>6, WithIsCounted DEF Catalogue

LEMMA RowsThatMatter ==
  /\ "mouse_raid" \in DOMAIN Catalogue /\ "taste_test" \in DOMAIN Catalogue
  /\ Catalogue["taste_test"].targets = 0
<1>1. Catalogue["taste_test"].targets = 0
  BY DEF Catalogue, With, FirstSix, Frenzies, Decisions, Showers, Shifts, MouseRaid, Row
<1>2. \A f, g : DOMAIN With(f, g) = DOMAIN f \cup DOMAIN g
  BY DEF With
<1>3. "mouse_raid" \in DOMAIN MouseRaid /\ "taste_test" \in DOMAIN Decisions
  BY DEF MouseRaid, Decisions
<1> DEFINE C5 == With(Shifts, MouseRaid)
           C4 == With(Showers, C5)
           C3 == With(Decisions, C4)
           C2 == With(Frenzies, C3)
<1>9. "mouse_raid" \in DOMAIN C5
  BY <1>2, <1>3, Zenon
<1> HIDE DEF C5
<1>4. "mouse_raid" \in DOMAIN C4
  BY <1>2, <1>9
<1> HIDE DEF C4
<1>5. "mouse_raid" \in DOMAIN C3 /\ "taste_test" \in DOMAIN C3
  BY <1>2, <1>3, <1>4
<1> HIDE DEF C3
<1>6. "mouse_raid" \in DOMAIN C2 /\ "taste_test" \in DOMAIN C2
  BY <1>2, <1>5
<1> HIDE DEF C2
<1>7. "mouse_raid" \in DOMAIN With(FirstSix, C2) /\ "taste_test" \in DOMAIN With(FirstSix, C2)
  BY <1>2, <1>6
<1>8. Catalogue = With(FirstSix, C2)
  BY DEF Catalogue, C2, C3, C4, C5
<1> QED BY <1>1, <1>7, <1>8

-----------------------------------------------------------------------------
(* The inductive invariant, a predicate on each part of the state.         *)

(* A wallet adds up: what it holds and what was drawn is what its awards are worth. *)
AddsUp(w) == w.balance + w.draws = Sum([k \in w.awards |-> Worth(k)])
WalletFits(w) ==
  /\ DOMAIN w = {"balance", "awards", "claimed", "draws"}
  /\ w.balance \in Nat /\ w.draws \in Nat /\ w.claimed \subseteq Rewards
  /\ IsFiniteSet(w.awards)
  /\ AddsUp(w)

(* Supplies fit their shelf, but for the gift of a draw among the rewards claimed. *)
GiftOf(claimed, c) == IF c = "whack_pass" /\ "raid_supplies" \in claimed THEN 1 ELSE 0
SuppliesFit(s, claimed) ==
  /\ DOMAIN s = {"stock", "bought", "level"}
  /\ s.stock \in [Consumables -> Nat] /\ s.bought \in [Consumables -> Nat]
  /\ s.level \in 0..(Len(StorageTiers) - 1)
  /\ \A c \in Consumables : /\ s.stock[c] <= StorageCap(s.level) + GiftOf(claimed, c)
                            /\ s.stock[c] <= s.bought[c] + GiftOf(claimed, c)

(* An event that runs has what it says it has. *)
EventFields == {"start", "end", "pending", "claimed", "mice", "fat", "share", "armed", "sentBack", "peak"}
RaidFits(e) ==
  /\ e.pending = DOMAIN e.mice /\ e.pending # {}
  /\ \A m \in e.pending : e.mice[m] \in Nat \ {0}
  /\ e.claimed + Cardinality(e.pending) \in MouseCounts
  /\ e.share \in Nat \ {0} /\ Share(e.pending, e.fat) <= e.share
TargetsFit(id, e) ==
  Catalogue[id].targets > 0 =>
    e.pending # {} /\ e.claimed + Cardinality(e.pending) = Cardinality(TargetsOf(id))
EventFits(id, e) ==
  /\ DOMAIN e = EventFields
  /\ IsFiniteSet(e.pending) /\ e.claimed \in Nat /\ e.peak \in Nat
  /\ IF id = "mouse_raid" THEN RaidFits(e) ELSE TargetsFit(id, e)

Legal(S) ==
  /\ Cardinality(S) <= 3
  /\ "mouse_raid" \in S => S = {"mouse_raid"}
  /\ \A a, b \in S : a # b =>
       /\ ~(Catalogue[a].setback /\ Catalogue[b].setback)
       /\ ~(Catalogue[a].targets > 0 /\ Catalogue[b].targets > 0)
       /\ Catalogue[a].shape # "choice"
EventsFit(ev) ==
  /\ DOMAIN ev = {"actives", "next", "raidNext", "lastRaid"}
  /\ ev.next \in Nat /\ ev.raidNext \in Nat
  /\ IsFiniteSet(DOMAIN ev.actives) /\ Legal(DOMAIN ev.actives)
  /\ DOMAIN ev.actives \subseteq Pool \cup {"mouse_raid"}
  /\ \A id \in DOMAIN ev.actives : EventFits(id, ev.actives[id])

(* No cookie waits from a time to come, and the cookies won before came well before this one: *)
(* a miss or two cannot bring its time back to one of theirs.                                  *)
Reach == GoldenWindow + 2 * MissPenalty
GoldenFits(g, now, awards) ==
  /\ g \in Golden
  /\ g.spawned => g.at <= now
  /\ \A t : <<"oven", t>> \in awards =>
       /\ t \in Int
       /\ g.spawned => t + Reach <= now /\ t < g.at
       /\ ~g.spawned => t + Reach <= g.next

StageInv ==
  /\ clock \in Nat /\ jar \in Jar /\ achieved \subseteq Milestones
  /\ GoldenFits(golden, clock, wallet.awards)
  /\ WalletFits(wallet)
  /\ EventsFit(events)
  /\ SuppliesFit(supplies, wallet.claimed)
  /\ DOMAIN games = {"active", "completed", "schedule"}

-----------------------------------------------------------------------------
(* The jar.                                                                *)
LEMMA JarKept ==
  ASSUME NEW j \in Jar, NEW n \in Nat
  PROVE  /\ Earned(j, n) \in Jar /\ Less(j, n) \in Jar
         /\ Earned(j, n).cookies = j.cookies + n /\ Earned(j, n).baked = j.baked + n
         /\ n <= j.cookies => Less(j, n).cookies = j.cookies - n
         /\ Less(j, n).baked = j.baked
<1>1. /\ j.cookies \in Nat /\ j.baked \in Nat /\ j = [cookies |-> j.cookies, baked |-> j.baked]
      /\ DOMAIN j = {"cookies", "baked"}
  BY DEF Jar
<1>2. Earned(j, n) = [cookies |-> j.cookies + n, baked |-> j.baked + n]
  <2>1. Earned(j, n) = [[j EXCEPT !.cookies = @ + n] EXCEPT !.baked = @ + n]
    BY <1>1 DEF Earned
  <2>2. [j EXCEPT !.cookies = @ + n] = [cookies |-> j.cookies + n, baked |-> j.baked]
    BY <1>1
  <2> QED BY <1>1, <2>1, <2>2
<1>3. Less(j, n) = [cookies |-> IF n > j.cookies THEN 0 ELSE j.cookies - n, baked |-> j.baked]
  BY <1>1 DEF Less
<1>4. Earned(j, n) \in Jar /\ Earned(j, n).cookies = j.cookies + n /\ Earned(j, n).baked = j.baked + n
  BY <1>1, <1>2 DEF Jar
<1>5. /\ Less(j, n) \in Jar /\ Less(j, n).baked = j.baked
      /\ n <= j.cookies => Less(j, n).cookies = j.cookies - n
  BY <1>1, <1>3 DEF Jar
<1> QED BY <1>4, <1>5

(* The wallet.  An award of keys that are worth their amount keeps it adding up. *)
LEMMA WorthIsCounted ==
  ASSUME NEW key
  PROVE  Worth(key) \in Nat
BY MinigamesAssumption DEF Worth

LEMMA AwardsAddUp ==
  ASSUME NEW A, IsFiniteSet(A), NEW keys, IsFiniteSet(keys), NEW amount \in Nat,
         \A k \in keys : Worth(k) = amount
  PROVE  /\ IsFiniteSet(A \cup keys) /\ Cardinality(keys \ A) \in Nat
         /\ Sum([k \in A |-> Worth(k)]) \in Int
         /\ Sum([k \in A \cup keys |-> Worth(k)]) = Sum([k \in A |-> Worth(k)]) + amount * Cardinality(keys \ A)
<1> DEFINE new == keys \ A
           f == [k \in A |-> Worth(k)]
           g == [k \in A \cup new |-> Worth(k)]
<1>1. IsFiniteSet(new) /\ IsFiniteSet(A \cup keys)
  BY FS_Difference, FS_Union
<1>2. Cardinality(new) \in Nat
  BY <1>1, FS_CardinalityType
<1>3. f \in [A -> Int] /\ g \in [A \cup new -> Int] /\ A \cap new = {} /\ amount \in Int
  BY WorthIsCounted
<1>4. (\A k \in A : g[k] = f[k]) /\ \A k \in new : g[k] = amount
  OBVIOUS
<1>5. A \cup new = A \cup keys
  OBVIOUS
<1>8. EachAdds(f, g, new, amount)
  <2>1. DOMAIN f = A
    OBVIOUS
  <2> HIDE DEF f, g, new
  <2> QED BY <1>1, <1>3, <1>4, <2>1 DEF EachAdds
<1> HIDE DEF f, g, new
<1>6. Sum(g) = Sum(f) + amount * Cardinality(new)
  BY <1>8, SumWithAll
<1>7. Sum(f) \in Int
  BY <1>3, SumIsTyped
<1> QED BY <1>1, <1>2, <1>5, <1>6, <1>7 DEF f, g, new

LEMMA AwardedFits ==
  ASSUME NEW w, WalletFits(w), NEW keys, IsFiniteSet(keys), NEW amount \in Nat,
         \A k \in keys : Worth(k) = amount
  PROVE  WalletFits(Awarded(w, keys, amount))
<1> DEFINE v == Awarded(w, keys, amount)
           n == Cardinality(keys \ w.awards)
<1>1. /\ DOMAIN v = DOMAIN w /\ v.balance = w.balance + amount * n
      /\ v.awards = w.awards \cup keys /\ v.claimed = w.claimed /\ v.draws = w.draws
  BY DEF Awarded, WalletFits
<1>2. /\ IsFiniteSet(w.awards \cup keys) /\ n \in Nat
      /\ Sum([k \in w.awards |-> Worth(k)]) \in Int
      /\ Sum([k \in w.awards \cup keys |-> Worth(k)]) = Sum([k \in w.awards |-> Worth(k)]) + amount * n
  BY AwardsAddUp DEF WalletFits
<1> HIDE DEF v, n
<1>3. amount * n \in Nat
  BY <1>2
<1>4. v.balance + v.draws = Sum([k \in v.awards |-> Worth(k)])
  BY <1>1, <1>2, <1>3 DEF WalletFits, AddsUp
<1>5. WalletFits(v)
  BY <1>1, <1>2, <1>3, <1>4 DEF WalletFits, AddsUp
<1> QED BY <1>5 DEF v

LEMMA DrawnFits ==
  ASSUME NEW w, WalletFits(w), w.balance >= 1, NEW r \in Rewards
  PROVE  WalletFits(Drawn(w, r)) /\ Drawn(w, r).awards = w.awards /\ Drawn(w, r).claimed = w.claimed \cup {r}
<1>1. /\ DOMAIN Drawn(w, r) = DOMAIN w /\ Drawn(w, r).balance = w.balance - 1 /\ Drawn(w, r).draws = w.draws + 1
      /\ Drawn(w, r).awards = w.awards /\ Drawn(w, r).claimed = w.claimed \cup {r}
  BY DEF Drawn, WalletFits
<1> QED BY <1>1 DEF WalletFits, AddsUp

(* The milestones a handler ends with.                                     *)
LEMMA MilestonesFit ==
  ASSUME NEW w, WalletFits(w), NEW j, achieved \subseteq Milestones, WithAchievements(w, j)
  PROVE  /\ WalletFits(wallet') /\ achieved' \subseteq Milestones
         /\ wallet'.claimed = w.claimed /\ wallet'.balance >= w.balance
         /\ \A t : <<"oven", t>> \in wallet'.awards => <<"oven", t>> \in w.awards
<1> DEFINE M == Reached(j) \ achieved
           keys == {<<"milestone", m>> : m \in M}
<1>1. IsFiniteSet(M)
  BY CounterAssumption, FS_Subset DEF Reached
<1>2. IsFiniteSet(keys)
  <2> DEFINE f == [m \in M |-> <<"milestone", m>>]
  <2> HIDE DEF M
  <2>1. f \in Surjection(M, keys)
    BY DEF Surjection
  <2> HIDE DEF f, keys
  <2> QED BY <1>1, <2>1, FS_Surjection
<1>3. \A k \in keys : Worth(k) = 1 /\ k[1] = "milestone"
  BY DEF Worth
<1>4. \A t : <<"oven", t>>[1] = "oven"
  OBVIOUS
<1>5. wallet' = Awarded(w, keys, 1) /\ achieved' \subseteq Milestones
  BY DEF WithAchievements, Reached
<1> HIDE DEF keys
<1>6. WalletFits(wallet')
  BY <1>2, <1>3, <1>5, AwardedFits
<1>8. /\ wallet'.awards = w.awards \cup keys /\ wallet'.claimed = w.claimed
      /\ wallet'.balance = w.balance + 1 * Cardinality(keys \ w.awards)
      /\ Cardinality(keys \ w.awards) \in Nat /\ w.balance \in Nat
  <2>1. 1 \in Nat /\ w.balance \in Nat
    BY DEF WalletFits
  <2>2. IsFiniteSet(keys \ w.awards)
    BY <1>2, FS_Difference
  <2>3. Cardinality(keys \ w.awards) \in Nat
    BY <2>2, FS_CardinalityType
  <2> QED BY <1>5, <2>1, <2>3 DEF Awarded, WalletFits
<1>7. wallet'.awards = w.awards \cup keys /\ wallet'.claimed = w.claimed /\ wallet'.balance >= w.balance
  BY <1>8
<1> QED BY <1>3, <1>4, <1>5, <1>6, <1>7

-----------------------------------------------------------------------------
(* The golden cookie.                                                      *)
LEMMA ReachIsLong == Reach \in Nat \ {0} /\ \A d \in GoldenDelays : d \in Nat /\ d >= Reach
BY GoldenAssumption DEF Reach

LEMMA AwayIsGolden ==
  ASSUME NEW effect \in Effect, NEW next \in Nat
  PROVE  Away(effect, next) \in Golden /\ ~Away(effect, next).spawned /\ Away(effect, next).next = next
BY DEF Away, Golden

LEMMA EffectsAreEffects ==
  ASSUME NEW now \in Nat
  PROVE  Effects(now) \subseteq Effect
BY GoldenAssumption DEF Effects, Effect

LEMMA GoldenFields ==
  ASSUME NEW g \in Golden
  PROVE  /\ g.spawned \in BOOLEAN /\ g.at \in Int /\ g.dial \in Dial \cup {NoDial}
         /\ g.effect \in Effect /\ g.next \in Nat
BY DEF Golden

(* A cookie goes at the time now, by whatever way, and the next is a delay away. *)
LEMMA GoneFits ==
  ASSUME NEW g, NEW now \in Nat, NEW A, GoldenFits(g, now, A), g.spawned, NEW effect \in Effect, NEW d \in GoldenDelays
  PROVE  GoldenFits(Away(effect, now + d), now, A)
<1>1. Away(effect, now + d) \in Golden /\ ~Away(effect, now + d).spawned /\ Away(effect, now + d).next = now + d
  BY ReachIsLong, AwayIsGolden
<1>2. \A t : <<"oven", t>> \in A => t \in Int /\ t + Reach <= now
  BY DEF GoldenFits
<1>3. d \in Nat /\ Reach \in Nat
  BY ReachIsLong
<1> QED BY <1>1, <1>2, <1>3 DEF GoldenFits

(* Time passes, and a cookie may come.                                     *)
LEMMA WaitingFits ==
  ASSUME NEW g, NEW clk \in Nat, NEW A, GoldenFits(g, clk, A), NEW now \in Nat, now >= clk
  PROVE  GoldenFits(g, now, A)
BY ReachIsLong, GoldenFields DEF GoldenFits

LEMMA ComingFits ==
  ASSUME NEW g, NEW now \in Nat, NEW A, GoldenFits(g, now, A)
  PROVE  GoldenFits(MaybeSpawn(g, now), now, A)
<1>1. CASE g.spawned \/ now < g.next
  BY <1>1 DEF MaybeSpawn
<1>2. CASE ~(g.spawned \/ now < g.next)
  <2> DEFINE h == [g EXCEPT !.spawned = TRUE, !.at = now, !.dial = NoDial]
  <2>1. g \in Golden /\ g.next \in Nat /\ g.next <= now
    BY <1>2, GoldenFields DEF GoldenFits
  <2>2. h \in Golden /\ h.spawned /\ h.at = now
    <3> DEFINE h1 == [g EXCEPT !.spawned = TRUE]
               h2 == [h1 EXCEPT !.at = now]
    <3>1. h1 \in Golden /\ h1.spawned
      BY <2>1 DEF Golden
    <3>2. h2 \in Golden /\ h2.spawned /\ h2.at = now
      <4> HIDE DEF h1
      <4> QED BY <3>1 DEF Golden
    <3>3. h = [h2 EXCEPT !.dial = NoDial]
      BY <2>1 DEF Golden
    <3> HIDE DEF h, h2
    <3> QED BY <3>2, <3>3 DEF Golden
  <2>3. \A t : <<"oven", t>> \in A => t \in Int /\ t + Reach <= g.next
    BY <1>2 DEF GoldenFits
  <2>4. Reach \in Nat \ {0}
    BY ReachIsLong
  <2>5. MaybeSpawn(g, now) = h
    BY <1>2 DEF MaybeSpawn
  <2> HIDE DEF h
  <2>6. GoldenFits(h, now, A)
    BY <2>1, <2>2, <2>3, <2>4 DEF GoldenFits
  <2> QED BY <2>5, <2>6
<1> QED BY <1>1, <1>2

LEMMA FewerAwardsFit ==
  ASSUME NEW g, NEW now, NEW A, NEW B, GoldenFits(g, now, A), \A t : <<"oven", t>> \in B => <<"oven", t>> \in A
  PROVE  GoldenFits(g, now, B)
BY DEF GoldenFits

LEMMA GoldenTickFits ==
  ASSUME NEW A, clock \in Nat, GoldenFits(golden, clock, A), NEW now \in Nat, now >= clock, GoldenTick(now)
  PROVE  GoldenFits(golden', now, A)
<1>1. GoldenFits(golden, now, A)
  BY WaitingFits
<1>2. PICK g \in DespawnIfExpired(golden, now) : golden' = MaybeSpawn(g, now)
  BY DEF GoldenTick
<1>3. golden.effect \in Effect
  BY <1>1, GoldenFields DEF GoldenFits
<1>4. GoldenFits(g, now, A)
  <2>1. CASE golden.spawned /\ WindowOver(golden, now)
    <3>1. PICK d \in GoldenDelays : g = Away(golden.effect, now + d)
      BY <1>2, <2>1 DEF DespawnIfExpired
    <3> QED BY <1>1, <1>3, <2>1, <3>1, GoneFits
  <2>2. CASE ~(golden.spawned /\ WindowOver(golden, now))
    BY <1>1, <1>2, <2>2 DEF DespawnIfExpired
  <2> QED BY <2>1, <2>2
<1> QED BY <1>2, <1>4, ComingFits

(* A press, of whatever kind, but the last one.                            *)
LEMMA DialFields ==
  ASSUME NEW d \in Dial \cup {NoDial}
  PROVE  /\ d.won \in Nat /\ d.progress \in Nat /\ d.since \in Nat
         /\ d # NoDial => d \in Dial
BY DEF Dial, NoDial

LEMMA PressFits ==
  ASSUME NEW A, clock \in Nat, GoldenFits(golden, clock, A), golden.spawned,
         NEW dial \in Dial \cup {NoDial}, NEW at \in Int, at <= golden.at,
         at > clock - Reach \/ at = golden.at,
         golden' = [golden EXCEPT !.dial = dial, !.at = at]
  PROVE  GoldenFits(golden', clock, A)
<1>1. golden' \in Golden
  BY DEF GoldenFits, Golden
<1>2. golden'.spawned /\ golden'.at = at
  BY DEF GoldenFits, Golden
<1>3. \A t : <<"oven", t>> \in A => t \in Int /\ t + Reach <= clock /\ t < golden.at
  BY DEF GoldenFits
<1>4. golden.at \in Int /\ golden.at <= clock /\ Reach \in Nat
  BY GoldenFields, ReachIsLong DEF GoldenFits
<1> QED BY <1>1, <1>2, <1>3, <1>4 DEF GoldenFits

LEMMA GoldenStep ==
  ASSUME StageInv, GoldenNext
  PROVE  /\ clock' = clock /\ jar' \in Jar /\ achieved' \subseteq Milestones
         /\ GoldenFits(golden', clock', wallet'.awards)
         /\ WalletFits(wallet') /\ wallet'.claimed = wallet.claimed
<1> DEFINE A == wallet.awards
<1>1. /\ clock \in Nat /\ GoldenFits(golden, clock, A) /\ WalletFits(wallet)
      /\ golden \in Golden /\ golden.dial \in Dial \cup {NoDial} /\ golden.effect \in Effect /\ golden.at \in Int
      /\ jar \in Jar /\ achieved \subseteq Milestones
  BY GoldenFields DEF StageInv, GoldenFits
<1>2. ASSUME UNCHANGED <<clock, jar, achieved, wallet>>, GoldenFits(golden', clock, A)
      PROVE  /\ clock' = clock /\ jar' \in Jar /\ achieved' \subseteq Milestones
             /\ GoldenFits(golden', clock', wallet'.awards)
             /\ WalletFits(wallet') /\ wallet'.claimed = wallet.claimed
  BY <1>1, <1>2
<1> HIDE DEF A
<1>3. CASE GoldenCatch
  <2>1. PICK c \in Challenges :
          golden' = [golden EXCEPT !.dial = [won |-> 0, progress |-> 0, since |-> clock, challenge |-> c]]
    BY <1>3 DEF GoldenCatch
  <2> DEFINE dial == [won |-> 0, progress |-> 0, since |-> clock, challenge |-> c]
             at == golden.at
  <2>2. dial \in Dial
    BY <1>1 DEF Dial
  <2>5. at \in Int /\ at <= golden.at /\ at = golden.at
    BY <1>1
  <2> HIDE DEF dial, at
  <2>3. golden' = [golden EXCEPT !.dial = dial, !.at = at]
    BY <1>1, <2>1 DEF Golden, dial, at
  <2>4. GoldenFits(golden', clock, A)
    BY <1>1, <1>3, <2>2, <2>3, <2>5, PressFits DEF GoldenCatch
  <2> QED BY <1>2, <1>3, <2>4 DEF GoldenCatch
<1>4. CASE GoldenFlee
  <2>1. GoldenFits(golden', clock, A)
    BY <1>1, <1>4, GoneFits DEF GoldenFlee
  <2> QED BY <1>2, <1>4, <2>1 DEF GoldenFlee
<1>5. CASE GoldenMiss
  <2> DEFINE dial == [golden.dial EXCEPT !.progress = IF golden.dial.challenge.family = "mash" THEN @ ELSE 0]
             at == golden.at - MissPenalty
  <2>1. golden.dial \in Dial /\ golden.dial # NoDial
    BY <1>1, <1>5, DialFields DEF GoldenMiss, MayMiss
  <2>2. dial \in Dial
    BY <2>1 DEF Dial
  <2>3. golden' = [golden EXCEPT !.dial = dial, !.at = at]
    BY <1>1, <1>5 DEF GoldenMiss, Golden
  <2>4. at \in Int /\ at <= golden.at /\ at > clock - Reach
    BY <1>1, <1>5, GoldenAssumption DEF GoldenMiss, Reach
  <2> HIDE DEF dial, at
  <2>5. GoldenFits(golden', clock, A)
    BY <1>1, <1>5, <2>2, <2>3, <2>4, PressFits DEF GoldenMiss
  <2> QED BY <1>2, <1>5, <2>5 DEF GoldenMiss
<1>6. CASE GoldenHit
  <2> DEFINE dial == [golden.dial EXCEPT !.progress = @ + 1]
             at == golden.at
  <2>1. golden.dial \in Dial /\ golden.dial # NoDial
    BY <1>1, <1>6, DialFields DEF GoldenHit, MayHit
  <2>2. dial \in Dial
    BY <2>1 DEF Dial
  <2>3. golden' = [golden EXCEPT !.dial = dial, !.at = at]
    BY <1>1, <1>6 DEF GoldenHit, Golden
  <2>5. at \in Int /\ at <= golden.at /\ at = golden.at
    BY <1>1
  <2> HIDE DEF dial, at
  <2>4. GoldenFits(golden', clock, A)
    BY <1>1, <1>6, <2>2, <2>3, <2>5, PressFits DEF GoldenHit
  <2> QED BY <1>2, <1>6, <2>4 DEF GoldenHit
<1>7. CASE GoldenRoundWon
  <2> DEFINE dial == [golden.dial EXCEPT !.won = @ + 1, !.since = clock, !.progress = 0]
             at == golden.at
  <2>1. golden.dial \in Dial /\ golden.dial # NoDial
    BY <1>1, <1>7, DialFields DEF GoldenRoundWon, MayHit
  <2>2. dial \in Dial
    <3> DEFINE d1 == [golden.dial EXCEPT !.won = @ + 1]
               d2 == [d1 EXCEPT !.since = clock]
    <3>1. d1 \in Dial /\ d1.progress = golden.dial.progress
      BY <2>1 DEF Dial
    <3>2. d2 \in Dial
      <4> HIDE DEF d1
      <4> QED BY <1>1, <3>1 DEF Dial
    <3>3. dial = [d2 EXCEPT !.progress = 0]
      BY <2>1 DEF Dial
    <3> HIDE DEF d2, dial
    <3> QED BY <3>2, <3>3 DEF Dial
  <2>3. golden' = [golden EXCEPT !.dial = dial, !.at = at]
    BY <1>1, <1>7 DEF GoldenRoundWon, Golden
  <2>5. at \in Int /\ at <= golden.at /\ at = golden.at
    BY <1>1
  <2> HIDE DEF dial, at
  <2>4. GoldenFits(golden', clock, A)
    BY <1>1, <1>7, <2>2, <2>3, <2>5, PressFits DEF GoldenRoundWon
  <2> QED BY <1>2, <1>7, <2>4 DEF GoldenRoundWon
<1>8. CASE GoldenWon
  <2> DEFINE keys == {<<"oven", golden.at>>}
             paid == Awarded(wallet, keys, 1)
  <2>1. PICK e \in Effects(clock), d \in GoldenDelays :
          golden' = Away(e, clock + d) /\ jar' = Earned(jar, IF e.kind = "windfall" THEN Windfall ELSE 0)
    BY <1>8 DEF GoldenWon
  <2>2. e \in Effect /\ jar' \in Jar
    BY <1>1, <2>1, EffectsAreEffects, JarKept, GoldenAssumption
  <2>3. WalletFits(paid) /\ paid.awards = wallet.awards \cup keys /\ paid.claimed = wallet.claimed
    <3>1. IsFiniteSet(keys) /\ \A k \in keys : Worth(k) = 1
      <4>1. IsFiniteSet(keys)
        BY FS_Singleton
      <4>2. Worth(<<"oven", golden.at>>) = 1
        BY DEF Worth
      <4> QED BY <4>1, <4>2
    <3> HIDE DEF keys
    <3> QED BY <1>1, <3>1, AwardedFits DEF Awarded, WalletFits
  <2>4. WithAchievements(paid, jar') /\ clock' = clock /\ golden.spawned
    BY <1>8 DEF GoldenWon
  <2> HIDE DEF paid
  <2>5. /\ WalletFits(wallet') /\ achieved' \subseteq Milestones /\ wallet'.claimed = paid.claimed
        /\ \A t : <<"oven", t>> \in wallet'.awards => <<"oven", t>> \in paid.awards
    BY <1>1, <2>3, <2>4, MilestonesFit
  <2>6. GoldenFits(golden', clock, A)
    BY <1>1, <2>1, <2>2, <2>4, GoneFits
  <2>7. GoldenFits(golden', clock, paid.awards)
    <3>1. ASSUME NEW t, <<"oven", t>> \in paid.awards, <<"oven", t>> \notin A PROVE t = golden.at
      BY <2>3, <3>1 DEF A
    <3>2. golden' \in Golden /\ ~golden'.spawned /\ golden'.next = clock + d
      BY <1>1, <2>1, <2>2, AwayIsGolden, ReachIsLong
    <3>3. golden.at <= clock /\ d \in Nat /\ d >= Reach /\ Reach \in Nat
      BY <1>1, <2>4, ReachIsLong DEF GoldenFits
    <3>4. golden.at + Reach <= golden'.next
      BY <1>1, <3>2, <3>3
    <3>5. \A t : <<"oven", t>> \in A => t \in Int /\ t + Reach <= golden'.next
      BY <2>6, <3>2 DEF GoldenFits
    <3>6. \A t : <<"oven", t>> \in paid.awards => t \in Int /\ t + Reach <= golden'.next
      BY <1>1, <3>1, <3>4, <3>5
    <3> QED BY <3>2, <3>6 DEF GoldenFits
  <2>8. GoldenFits(golden', clock', wallet'.awards)
    BY <2>4, <2>5, <2>7, FewerAwardsFit
  <2> QED BY <2>2, <2>3, <2>4, <2>5, <2>8
<1> QED BY <1>3, <1>4, <1>5, <1>6, <1>7, <1>8 DEF GoldenNext

-----------------------------------------------------------------------------
(* The supplies.                                                           *)
LEMMA CapsAreCaps ==
  /\ \A level \in 0..(Len(StorageTiers) - 1) : StorageCap(level) \in Nat
  /\ \A level \in 0..(Len(StorageTiers) - 2) : StorageCap(level) <= StorageCap(level + 1)
  /\ Len(StorageTiers) \in Nat \ {0}
<1>1. StorageTiers \in Seq([cap : Nat, cost : Nat]) /\ StorageTiers # <<>>
  BY EventsAssumption
<1>2. Len(StorageTiers) \in Nat \ {0}
  BY <1>1
<1>3. ASSUME NEW level \in 0..(Len(StorageTiers) - 1) PROVE StorageCap(level) \in Nat
  <2>1. level + 1 \in 1..Len(StorageTiers)
    BY <1>2
  <2>2. StorageTiers[level + 1] \in [cap : Nat, cost : Nat]
    <3>1. \A R : StorageTiers \in Seq(R) => \A i \in 1..Len(StorageTiers) : StorageTiers[i] \in R
      OBVIOUS
    <3> QED BY <1>1, <2>1, <3>1
  <2> QED BY <2>2 DEF StorageCap
<1>4. ASSUME NEW level \in 0..(Len(StorageTiers) - 2) PROVE StorageCap(level) <= StorageCap(level + 1)
  <2>1. level + 1 \in 1..(Len(StorageTiers) - 1)
    BY <1>2
  <2> QED BY <2>1, EventsAssumption DEF StorageCap
<1> QED BY <1>2, <1>3, <1>4

LEMMA GiftIsCounted ==
  ASSUME NEW claimed, NEW c
  PROVE  GiftOf(claimed, c) \in {0, 1}
BY DEF GiftOf

(* The stock changes, as its shelf and what was bought of it allow.        *)
LEMMA StockFits ==
  ASSUME NEW s, NEW claimed, SuppliesFit(s, claimed), NEW t, DOMAIN t = DOMAIN s, t.level = s.level,
         t.stock \in [Consumables -> Nat], t.bought \in [Consumables -> Nat],
         \A c \in Consumables : t.stock[c] <= s.stock[c] /\ t.bought[c] >= s.bought[c]
  PROVE  SuppliesFit(t, claimed)
<1>1. \A c \in Consumables :
        /\ s.stock[c] \in Nat /\ s.bought[c] \in Nat /\ t.stock[c] \in Nat /\ t.bought[c] \in Nat
        /\ GiftOf(claimed, c) \in {0, 1} /\ StorageCap(s.level) \in Nat
  BY GiftIsCounted, CapsAreCaps DEF SuppliesFit
<1>2. ASSUME NEW c \in Consumables
      PROVE  t.stock[c] <= StorageCap(t.level) + GiftOf(claimed, c) /\ t.stock[c] <= t.bought[c] + GiftOf(claimed, c)
  <2>1. s.stock[c] <= StorageCap(s.level) + GiftOf(claimed, c) /\ s.stock[c] <= s.bought[c] + GiftOf(claimed, c)
    BY DEF SuppliesFit
  <2>2. t.stock[c] <= s.stock[c] /\ t.bought[c] >= s.bought[c] /\ t.level = s.level
    OBVIOUS
  <2> QED BY <1>1, <2>1, <2>2
<1> QED BY <1>2 DEF SuppliesFit

LEMMA SpentFits ==
  ASSUME NEW s, NEW claimed, SuppliesFit(s, claimed)
  PROVE  /\ \A c \in Consumables : SuppliesFit(SpendOne(s, c), claimed)
         /\ \A S \in SUBSET {c \in Consumables : s.stock[c] > 0} : SuppliesFit(SpendAll(s, S), claimed)
<1>1. DOMAIN s = {"stock", "bought", "level"} /\ s.stock \in [Consumables -> Nat] /\ s.bought \in [Consumables -> Nat]
  BY DEF SuppliesFit
<1>2. ASSUME NEW c \in Consumables PROVE SuppliesFit(SpendOne(s, c), claimed)
  <2> DEFINE t == SpendOne(s, c)
  <2>1. /\ DOMAIN t = DOMAIN s /\ t.level = s.level /\ t.bought = s.bought
        /\ t.stock = [s.stock EXCEPT ![c] = IF @ <= 0 THEN @ ELSE @ - 1]
    BY <1>1 DEF SpendOne
  <2> HIDE DEF t
  <2>2. t.stock \in [Consumables -> Nat] /\ \A x \in Consumables : t.stock[x] <= s.stock[x]
    BY <1>1, <2>1
  <2>3. \A x \in Consumables : t.bought[x] >= s.bought[x]
    BY <1>1, <2>1
  <2>4. SuppliesFit(t, claimed)
    BY <1>1, <2>1, <2>2, <2>3, StockFits
  <2> QED BY <2>4 DEF t
<1>3. ASSUME NEW S \in SUBSET {c \in Consumables : s.stock[c] > 0} PROVE SuppliesFit(SpendAll(s, S), claimed)
  <2> DEFINE t == SpendAll(s, S)
  <2>1. /\ DOMAIN t = DOMAIN s /\ t.level = s.level /\ t.bought = s.bought
        /\ t.stock = [c \in Consumables |-> IF c \in S THEN s.stock[c] - 1 ELSE s.stock[c]]
    BY <1>1 DEF SpendAll
  <2> HIDE DEF t
  <2>2. t.stock \in [Consumables -> Nat] /\ \A x \in Consumables : t.stock[x] <= s.stock[x]
    BY <1>1, <2>1
  <2>3. \A x \in Consumables : t.bought[x] >= s.bought[x]
    BY <1>1, <2>1
  <2>4. SuppliesFit(t, claimed)
    BY <1>1, <2>1, <2>2, <2>3, StockFits
  <2> QED BY <2>4 DEF t
<1> QED BY <1>2, <1>3

(* A consumable is bought, one is given by a draw, the storage grows.      *)
LEMMA BoughtFits ==
  ASSUME NEW s, NEW claimed, SuppliesFit(s, claimed), NEW c \in Consumables, s.stock[c] < StorageCap(s.level)
  PROVE  SuppliesFit([s EXCEPT !.stock[c] = @ + 1, !.bought[c] = @ + 1], claimed)
<1> DEFINE t == [s EXCEPT !.stock[c] = @ + 1, !.bought[c] = @ + 1]
<1>1. DOMAIN s = {"stock", "bought", "level"} /\ s.stock \in [Consumables -> Nat] /\ s.bought \in [Consumables -> Nat]
  BY DEF SuppliesFit
<1>2. /\ DOMAIN t = DOMAIN s /\ t.level = s.level
      /\ t.stock = [s.stock EXCEPT ![c] = @ + 1] /\ t.bought = [s.bought EXCEPT ![c] = @ + 1]
  BY <1>1
<1> HIDE DEF t
<1>3. t.stock \in [Consumables -> Nat] /\ t.bought \in [Consumables -> Nat]
  BY <1>1, <1>2
<1>4. \A x \in Consumables :
        /\ s.stock[x] \in Nat /\ s.bought[x] \in Nat
        /\ GiftOf(claimed, x) \in {0, 1} /\ StorageCap(s.level) \in Nat
        /\ t.stock[x] = (IF x = c THEN s.stock[x] + 1 ELSE s.stock[x])
        /\ t.bought[x] = (IF x = c THEN s.bought[x] + 1 ELSE s.bought[x])
  BY <1>1, <1>2, GiftIsCounted, CapsAreCaps DEF SuppliesFit
<1>5. \A x \in Consumables : /\ t.stock[x] <= StorageCap(t.level) + GiftOf(claimed, x)
                             /\ t.stock[x] <= t.bought[x] + GiftOf(claimed, x)
  BY <1>2, <1>4 DEF SuppliesFit
<1>6. SuppliesFit(t, claimed)
  BY <1>2, <1>3, <1>5 DEF SuppliesFit
<1> QED BY <1>6 DEF t

LEMMA GiftFits ==
  ASSUME NEW s, NEW claimed, SuppliesFit(s, claimed), "raid_supplies" \notin claimed
  PROVE  SuppliesFit([s EXCEPT !.stock["whack_pass"] = @ + 1], claimed \cup {"raid_supplies"})
<1> DEFINE t == [s EXCEPT !.stock["whack_pass"] = @ + 1]
<1>1. DOMAIN s = {"stock", "bought", "level"} /\ s.stock \in [Consumables -> Nat] /\ s.bought \in [Consumables -> Nat]
  BY DEF SuppliesFit
<1>2. /\ DOMAIN t = DOMAIN s /\ t.level = s.level /\ t.bought = s.bought
      /\ t.stock = [s.stock EXCEPT !["whack_pass"] = @ + 1]
  BY <1>1
<1> HIDE DEF t
<1>3. t.stock \in [Consumables -> Nat]
  BY <1>1, <1>2 DEF Consumables
<1>4. \A x \in Consumables :
        /\ s.stock[x] \in Nat /\ s.bought[x] \in Nat /\ StorageCap(s.level) \in Nat
        /\ t.stock[x] = (IF x = "whack_pass" THEN s.stock[x] + 1 ELSE s.stock[x])
        /\ GiftOf(claimed, x) = 0 /\ GiftOf(claimed \cup {"raid_supplies"}, x) = (IF x = "whack_pass" THEN 1 ELSE 0)
  BY <1>1, <1>2, CapsAreCaps DEF SuppliesFit, GiftOf
<1>5. ASSUME NEW x \in Consumables
      PROVE  /\ t.stock[x] <= StorageCap(t.level) + GiftOf(claimed \cup {"raid_supplies"}, x)
             /\ t.stock[x] <= t.bought[x] + GiftOf(claimed \cup {"raid_supplies"}, x)
  <2>1. s.stock[x] <= StorageCap(s.level) + GiftOf(claimed, x) /\ s.stock[x] <= s.bought[x] + GiftOf(claimed, x)
    BY DEF SuppliesFit
  <2> QED BY <1>2, <1>4, <2>1
<1>6. SuppliesFit(t, claimed \cup {"raid_supplies"})
  BY <1>1, <1>2, <1>3, <1>5 DEF SuppliesFit
<1> QED BY <1>6 DEF t

LEMMA LargerStorageFits ==
  ASSUME NEW s, NEW claimed, SuppliesFit(s, claimed), s.level + 1 < Len(StorageTiers)
  PROVE  SuppliesFit([s EXCEPT !.level = @ + 1], claimed)
<1> DEFINE t == [s EXCEPT !.level = @ + 1]
<1>1. /\ DOMAIN s = {"stock", "bought", "level"} /\ s.stock \in [Consumables -> Nat] /\ s.bought \in [Consumables -> Nat]
      /\ s.level \in Nat /\ s.level <= Len(StorageTiers) - 2 /\ Len(StorageTiers) \in Nat
  BY CapsAreCaps DEF SuppliesFit
<1>2. DOMAIN t = DOMAIN s /\ t.level = s.level + 1 /\ t.bought = s.bought /\ t.stock = s.stock
  BY <1>1
<1> HIDE DEF t
<1>3. StorageCap(s.level) \in Nat /\ StorageCap(t.level) \in Nat /\ StorageCap(s.level) <= StorageCap(t.level)
  BY <1>1, <1>2, CapsAreCaps
<1>4. \A x \in Consumables : s.stock[x] \in Nat /\ GiftOf(claimed, x) \in {0, 1}
  BY <1>1, GiftIsCounted
<1>5. \A x \in Consumables : /\ t.stock[x] <= StorageCap(t.level) + GiftOf(claimed, x)
                             /\ t.stock[x] <= t.bought[x] + GiftOf(claimed, x)
  BY <1>2, <1>3, <1>4 DEF SuppliesFit
<1>6. SuppliesFit(t, claimed)
  BY <1>1, <1>2, <1>5 DEF SuppliesFit
<1> QED BY <1>6 DEF t

(* Another reward claimed takes no gift back.                              *)
LEMMA MoreClaimedFits ==
  ASSUME NEW s, NEW claimed, SuppliesFit(s, claimed), NEW more, claimed \subseteq more
  PROVE  SuppliesFit(s, more)
<1>1. \A x \in Consumables :
        /\ s.stock[x] \in Nat /\ s.bought[x] \in Nat /\ StorageCap(s.level) \in Nat
        /\ GiftOf(claimed, x) \in {0, 1} /\ GiftOf(more, x) \in {0, 1} /\ GiftOf(claimed, x) <= GiftOf(more, x)
  BY CapsAreCaps DEF SuppliesFit, GiftOf
<1> QED BY <1>1 DEF SuppliesFit

-----------------------------------------------------------------------------
(* What may run together: a drawn stack is legal, and so is what is left of one. *)
Mutual(S) ==
  /\ \A a \in S : Stackable(a)
  /\ \A a, b \in S : a # b => CanStackWith(a, b)
GoodStack(S, n) == S \subseteq Pool /\ IsFiniteSet(S) /\ Cardinality(S) <= n /\ Mutual(S)

LEMMA JoinedIsGood ==
  ASSUME NEW stacks, NEW n \in Nat, \A S \in stacks : GoodStack(S, n), NEW T \in Joined(stacks)
  PROVE  GoodStack(T, n + 1)
<1>1. T \in Grown(stacks) /\ \E id \in T : T \ {id} \in stacks /\ CanJoinStack(T \ {id}, id)
  BY DEF Joined
<1>2. PICK id \in T : T \ {id} \in stacks /\ CanJoinStack(T \ {id}, id)
  BY <1>1
<1>3. PICK S \in stacks, new \in Pool : T = S \cup {new}
  BY <1>1 DEF Grown
<1>4. T \subseteq Pool
  BY <1>3 DEF GoodStack
<1> DEFINE rest == T \ {id}
<1>5. GoodStack(rest, n) /\ T = rest \cup {id} /\ id \notin rest
  BY <1>2
<1>6. CanJoinStack(rest, id)
  BY <1>2
<1> HIDE DEF rest
<1>7. IsFiniteSet(T) /\ Cardinality(T) = Cardinality(rest) + 1 /\ Cardinality(rest) \in Nat
  BY <1>5, FS_AddElement, FS_CardinalityType DEF GoodStack
<1>8. Mutual(T)
  <2>1. \A a \in T : Stackable(a)
    BY <1>5, <1>6 DEF GoodStack, Mutual, CanJoinStack
  <2>2. \A a \in rest : CanStackWith(a, id) /\ CanStackWith(id, a)
    BY <1>6 DEF CanJoinStack, CanStackWith
  <2>3. \A a, b \in rest : a # b => CanStackWith(a, b)
    BY <1>5 DEF GoodStack, Mutual
  <2>4. \A a, b \in T : a # b => CanStackWith(a, b)
    BY <1>5, <2>2, <2>3
  <2> QED BY <2>1, <2>4 DEF Mutual
<1> QED BY <1>4, <1>5, <1>7, <1>8 DEF GoodStack

LEMMA DrawnIsLegal ==
  ASSUME NEW S \in DrawnStacks
  PROVE  Legal(S) /\ IsFiniteSet(S) /\ S \subseteq Pool /\ S # {}
<1>1. ASSUME NEW T \in StackHeads PROVE GoodStack(T, 1)
  <2>1. PICK id \in Pool : T = {id} /\ Stackable(id)
    BY <1>1 DEF StackHeads
  <2>2. IsFiniteSet(T) /\ Cardinality(T) = 1
    BY <2>1, FS_Singleton
  <2>3. Mutual(T)
    BY <2>1 DEF Mutual
  <2> QED BY <2>1, <2>2, <2>3 DEF GoodStack
<1>2. ASSUME NEW T \in Joined(StackHeads) PROVE GoodStack(T, 2)
  BY <1>1, <1>2, JoinedIsGood, 1 + 1 = 2
<1>3. ASSUME NEW T \in Joined(Joined(StackHeads)) PROVE GoodStack(T, 3)
  BY <1>2, <1>3, JoinedIsGood, 2 + 1 = 3
<1>4. ASSUME NEW n \in {2, 3}, GoodStack(S, n) PROVE Legal(S) /\ IsFiniteSet(S) /\ S \subseteq Pool
  <2>1. Cardinality(S) <= 3
    BY <1>4, FS_CardinalityType DEF GoodStack
  <2>2. "mouse_raid" \notin S
    BY <1>4 DEF GoodStack, Mutual, Stackable
  <2>3. \A a, b \in S : a # b =>
          /\ ~(Catalogue[a].setback /\ Catalogue[b].setback)
          /\ ~(Catalogue[a].targets > 0 /\ Catalogue[b].targets > 0)
          /\ Catalogue[a].shape # "choice"
    BY <1>4 DEF GoodStack, Mutual, CanStackWith, Stackable
  <2> QED BY <1>4, <2>1, <2>2, <2>3 DEF Legal, GoodStack
<1>5. CASE S \in Singles
  <2>1. PICK id \in Pool : S = {id}
    BY <1>5 DEF Singles
  <2>2. IsFiniteSet(S) /\ Cardinality(S) = 1
    BY <2>1, FS_Singleton
  <2> QED BY <2>1, <2>2 DEF Legal
<1>6. ASSUME NEW stacks, S \in Joined(stacks) PROVE S # {}
  BY <1>6 DEF Joined
<1> QED BY <1>2, <1>3, <1>4, <1>5, <1>6 DEF DrawnStacks

LEMMA LessIsLegal ==
  ASSUME NEW S, Legal(S), IsFiniteSet(S), NEW T \in SUBSET S
  PROVE  Legal(T) /\ IsFiniteSet(T)
<1>1. IsFiniteSet(T) /\ Cardinality(T) \in Nat /\ Cardinality(S) \in Nat /\ Cardinality(T) <= Cardinality(S)
  BY FS_Subset, FS_CardinalityType
<1>2. Cardinality(T) <= 3
  BY <1>1 DEF Legal
<1>3. "mouse_raid" \in T => T = {"mouse_raid"}
  BY DEF Legal
<1> QED BY <1>1, <1>2, <1>3 DEF Legal

LEMMA AloneIsLegal == Legal({}) /\ Legal({"mouse_raid"}) /\ IsFiniteSet({}) /\ IsFiniteSet({"mouse_raid"})
<1>1. Cardinality({}) = 0 /\ Cardinality({"mouse_raid"}) = 1 /\ IsFiniteSet({}) /\ IsFiniteSet({"mouse_raid"})
  BY FS_EmptySet, FS_Singleton
<1> QED BY <1>1 DEF Legal

-----------------------------------------------------------------------------
(* An event of the pool, as it starts and while it runs.                   *)
LEMMA TargetsAreFinite ==
  ASSUME NEW id \in DOMAIN Catalogue
  PROVE  /\ IsFiniteSet(TargetsOf(id)) /\ Cardinality(TargetsOf(id)) \in Nat
         /\ Catalogue[id].targets > 0 => TargetsOf(id) # {}
<1>1. Catalogue[id].targets \in Nat /\ MaxTargets \in Nat \ {0}
  BY CatalogueIsCounted, EventsAssumption DEF RowsAreCounted
<1> DEFINE n == IF Catalogue[id].targets > MaxTargets THEN MaxTargets ELSE Catalogue[id].targets
<1>2. n \in Nat /\ (Catalogue[id].targets > 0 => n > 0) /\ TargetsOf(id) = 1..n
  BY <1>1 DEF TargetsOf
<1> HIDE DEF n
<1>3. IsFiniteSet(1..n) /\ Cardinality(1..n) \in Nat
  BY <1>2, FS_Interval, FS_CardinalityType
<1>4. n > 0 => 1 \in 1..n
  BY <1>2
<1> QED BY <1>2, <1>3, <1>4

LEMMA ActiveFits ==
  ASSUME NEW id \in DOMAIN Catalogue, id # "mouse_raid", NEW now
  PROVE  EventFits(id, Active(id, now))
<1> DEFINE e == Active(id, now)
<1>1. DOMAIN e = EventFields /\ e.pending = TargetsOf(id) /\ e.claimed = 0 /\ e.peak = 1
  BY DEF Active, EventFields
<1> HIDE DEF e
<1>2. /\ IsFiniteSet(TargetsOf(id)) /\ Cardinality(TargetsOf(id)) \in Nat
      /\ Catalogue[id].targets > 0 => TargetsOf(id) # {}
  BY TargetsAreFinite
<1>3. 0 + Cardinality(TargetsOf(id)) = Cardinality(TargetsOf(id))
  BY <1>2
<1>4. EventFits(id, e)
  BY <1>1, <1>2, <1>3 DEF EventFits, TargetsFit
<1> QED BY <1>4 DEF e

(* What a step may change of an event, and leave it fit.                   *)
LEMMA TimesFit ==
  ASSUME NEW id, NEW e, EventFits(id, e), NEW p \in Nat, NEW end
  PROVE  EventFits(id, [e EXCEPT !.peak = p]) /\ EventFits(id, [e EXCEPT !.end = end])
<1> DEFINE a == [e EXCEPT !.peak = p]
           b == [e EXCEPT !.end = end]
<1>1. DOMAIN e = EventFields
  BY DEF EventFits
<1>2. /\ DOMAIN a = EventFields /\ a.pending = e.pending /\ a.claimed = e.claimed /\ a.peak = p
      /\ a.mice = e.mice /\ a.fat = e.fat /\ a.share = e.share
  BY <1>1 DEF EventFields
<1>3. /\ DOMAIN b = EventFields /\ b.pending = e.pending /\ b.claimed = e.claimed /\ b.peak = e.peak
      /\ b.mice = e.mice /\ b.fat = e.fat /\ b.share = e.share
  BY <1>1 DEF EventFields
<1> HIDE DEF a, b
<1>4. EventFits(id, a)
  BY <1>2 DEF EventFits, RaidFits, TargetsFit
<1>5. EventFits(id, b)
  BY <1>3 DEF EventFits, RaidFits, TargetsFit
<1> QED BY <1>4, <1>5 DEF a, b

LEMMA SentBackFits ==
  ASSUME NEW e, EventFits("taste_test", e), NEW start, NEW end
  PROVE  EventFits("taste_test", [e EXCEPT !.start = start, !.end = end, !.claimed = 1, !.sentBack = TRUE])
<1> DEFINE a == [e EXCEPT !.start = start, !.end = end, !.claimed = 1, !.sentBack = TRUE]
<1>1. DOMAIN e = EventFields
  BY DEF EventFits
<1>2. DOMAIN a = EventFields /\ a.pending = e.pending /\ a.claimed = 1 /\ a.peak = e.peak
  BY <1>1 DEF EventFields
<1> HIDE DEF a
<1>3. EventFits("taste_test", a)
  BY <1>2, RowsThatMatter DEF EventFits, TargetsFit
<1> QED BY <1>3 DEF a

LEMMA TargetHitFits ==
  ASSUME NEW id, id # "mouse_raid", NEW e, EventFits(id, e), NEW t \in e.pending, e.pending # {t}
  PROVE  EventFits(id, [e EXCEPT !.pending = @ \ {t}, !.claimed = @ + 1])
<1> DEFINE a == [e EXCEPT !.pending = @ \ {t}, !.claimed = @ + 1]
<1>1. DOMAIN e = EventFields /\ IsFiniteSet(e.pending) /\ e.claimed \in Nat /\ e.peak \in Nat /\ TargetsFit(id, e)
  BY DEF EventFits
<1>2. DOMAIN a = EventFields /\ a.pending = e.pending \ {t} /\ a.claimed = e.claimed + 1 /\ a.peak = e.peak
  BY <1>1 DEF EventFields
<1> HIDE DEF a
<1>3. IsFiniteSet(a.pending) /\ Cardinality(a.pending) = Cardinality(e.pending) - 1 /\ Cardinality(e.pending) \in Nat
  BY <1>1, <1>2, FS_RemoveElement, FS_CardinalityType
<1>4. a.pending # {} /\ a.claimed + Cardinality(a.pending) = e.claimed + Cardinality(e.pending)
  BY <1>1, <1>2, <1>3
<1>5. EventFits(id, a)
  BY <1>1, <1>2, <1>3, <1>4 DEF EventFits, TargetsFit
<1> QED BY <1>5 DEF a

-----------------------------------------------------------------------------
(* A raid, as it comes and as its mice are hit.                            *)
LEMMA ShareIsCounted ==
  ASSUME NEW M, IsFiniteSet(M), NEW fat, NEW L \in SUBSET M
  PROVE  /\ Share(M, fat) \in Nat /\ Share(L, fat) \in Nat /\ Share(L, fat) <= Share(M, fat)
         /\ M # {} => Share(M, fat) > 0
<1>1. /\ IsFiniteSet(L) /\ Cardinality(L) \in Nat /\ Cardinality(M) \in Nat
      /\ Cardinality(L) <= Cardinality(M)
  BY FS_Subset, FS_CardinalityType
<1>2. M # {} => Cardinality(M) > 0
  BY <1>1, FS_EmptySet
<1> QED BY <1>1, <1>2 DEF Share

LEMMA RaidIsFit ==
  ASSUME NEW now, NEW n \in MouseCounts, NEW hp \in FatHps, NEW armed
  PROVE  EventFits("mouse_raid", Raid(now, n, hp, armed))
<1> DEFINE e == Raid(now, n, hp, armed)
           hits(m) == IF m = FatMouse(n) THEN hp ELSE 1
           mice == [m \in 1..n |-> IF "half_hp_whack" \in armed THEN Halved(hits(m)) ELSE hits(m)]
           r == Active("mouse_raid", now)
<1>1. n \in 3..5 /\ hp \in 2..3
  BY EventsAssumption
<1>2. DOMAIN r = EventFields /\ r.claimed = 0 /\ r.peak = 1
  BY DEF Active, EventFields
<1>3. e = [r EXCEPT !.pending = 1..n, !.fat = FatMouse(n), !.armed = armed, !.mice = mice,
                    !.share = Share(1..n, FatMouse(n))]
  BY DEF Raid
<1>4. \A m \in 1..n : mice[m] \in Nat \ {0}
  <2>1. ASSUME NEW m \in 1..n PROVE hits(m) \in 1..3 /\ Halved(hits(m)) \in Nat \ {0}
    <3>1. hits(m) \in {1, 2, 3}
      BY <1>1
    <3> HIDE DEF hits
    <3> QED BY <3>1 DEF Halved
  <2> HIDE DEF hits
  <2> QED BY <2>1
<1>5. DOMAIN mice = 1..n
  OBVIOUS
<1> HIDE DEF r, mice, hits
<1>6. /\ DOMAIN e = EventFields /\ e.pending = 1..n /\ e.fat = FatMouse(n) /\ e.mice = mice
      /\ e.share = Share(1..n, FatMouse(n)) /\ e.claimed = 0 /\ e.peak = 1
  BY <1>2, <1>3 DEF EventFields
<1> HIDE DEF e
<1>7. IsFiniteSet(1..n) /\ Cardinality(1..n) = n /\ 1 \in 1..n
  BY <1>1, FS_Interval
<1>8. e.share \in Nat \ {0}
  <2>1. 1..n # {} /\ 1..n \in SUBSET (1..n)
    BY <1>7
  <2>2. Share(1..n, FatMouse(n)) \in Nat /\ Share(1..n, FatMouse(n)) > 0
    BY <1>7, <2>1, ShareIsCounted
  <2> QED BY <1>6, <2>2
<1>9. RaidFits(e)
  <2>1. e.pending = DOMAIN e.mice /\ e.pending # {} /\ \A m \in e.pending : e.mice[m] \in Nat \ {0}
    BY <1>4, <1>5, <1>6, <1>7
  <2>2. e.claimed + Cardinality(e.pending) = n
    BY <1>1, <1>6, <1>7
  <2>3. Share(e.pending, e.fat) = e.share
    BY <1>6
  <2> QED BY <1>8, <2>1, <2>2, <2>3 DEF RaidFits
<1>10. EventFits("mouse_raid", e)
  BY <1>6, <1>7, <1>9 DEF EventFits
<1> QED BY <1>10 DEF e

LEMMA WhackedFits ==
  ASSUME NEW e, EventFits("mouse_raid", e), NEW S, Survivors(e.mice, S) # {}
  PROVE  EventFits("mouse_raid", Whacked(e, S))
<1> DEFINE left == Survivors(e.mice, S)
           mice == [m \in left |-> IF m \in S THEN e.mice[m] - 1 ELSE e.mice[m]]
           a == [e EXCEPT !.mice = mice, !.pending = left,
                          !.claimed = @ + Cardinality(DOMAIN e.mice) - Cardinality(left)]
<1>1. DOMAIN e = EventFields /\ IsFiniteSet(e.pending) /\ e.claimed \in Nat /\ e.peak \in Nat /\ RaidFits(e)
  BY DEF EventFits
<1>2. left \subseteq e.pending /\ DOMAIN e.mice = e.pending /\ \A m \in left \cap S : e.mice[m] > 1
  BY <1>1 DEF Survivors, RaidFits
<1>3. DOMAIN mice = left /\ \A m \in left : mice[m] \in Nat \ {0}
  <2>1. \A m \in left : e.mice[m] \in Nat \ {0} /\ (m \in S => e.mice[m] > 1)
    BY <1>1, <1>2 DEF RaidFits
  <2> HIDE DEF left
  <2> QED BY <2>1
<1> HIDE DEF left, mice
<1>4. /\ DOMAIN a = EventFields /\ a.pending = left /\ a.mice = mice /\ a.fat = e.fat /\ a.share = e.share
      /\ a.peak = e.peak /\ a.claimed = e.claimed + Cardinality(e.pending) - Cardinality(left)
  BY <1>1, <1>2 DEF EventFields
<1>5. /\ IsFiniteSet(left) /\ Cardinality(left) \in Nat /\ Cardinality(e.pending) \in Nat
      /\ Cardinality(left) <= Cardinality(e.pending)
  BY <1>1, <1>2, FS_Subset, FS_CardinalityType
<1>6. Share(left, e.fat) \in Nat /\ Share(e.pending, e.fat) \in Nat /\ Share(left, e.fat) <= Share(e.pending, e.fat)
  BY <1>1, <1>2, ShareIsCounted
<1>10. left # {}
  BY DEF left
<1>7. a.claimed + Cardinality(a.pending) = e.claimed + Cardinality(e.pending) /\ a.claimed \in Nat
  BY <1>1, <1>4, <1>5
<1> HIDE DEF a
<1>8. RaidFits(a)
  BY <1>1, <1>3, <1>4, <1>6, <1>7, <1>10 DEF RaidFits
<1>9. EventFits("mouse_raid", a)
  BY <1>1, <1>4, <1>5, <1>7, <1>8 DEF EventFits
<1> QED BY <1>9 DEF a, mice, left, Whacked

-----------------------------------------------------------------------------
(* The ways the record of the events moves.                                *)
EventsFields == {"actives", "next", "raidNext", "lastRaid"}
Rested(now) ==
  Running # {} /\ Running' = {} =>
    /\ events'.next >= now + PoolCooldown
    /\ "mouse_raid" \in Running => events'.raidNext >= now + RaidGrace

LEMMA PoolIsKnown ==
  /\ Pool \cup {"mouse_raid"} \subseteq DOMAIN Catalogue /\ "mouse_raid" \notin Pool
  /\ PoolCooldown \in Nat /\ RaidGrace \in Nat /\ PoolGrace \in Nat /\ PoolDelays \subseteq Nat /\ RaidDelays \subseteq Nat
BY PoolAssumption, RowsThatMatter, EventsAssumption

LEMMA RaidOverFits ==
  ASSUME EventsFit(events), NEW now \in Nat, NEW d \in RaidDelays, NEW outcome
  PROVE  LET f == RaidOver(now, d, outcome)
         IN EventsFit(f) /\ DOMAIN f.actives = {} /\ f.next >= now + PoolCooldown /\ f.raidNext >= now + RaidGrace
<1> DEFINE f == RaidOver(now, d, outcome)
<1>1. /\ DOMAIN f = EventsFields /\ f.actives = <<>> /\ f.next = Larger(events.next, now + PoolCooldown)
      /\ f.raidNext = now + Larger(RaidGrace, d)
  BY DEF RaidOver, EventsFields
<1> HIDE DEF f
<1>2. DOMAIN f.actives = {}
  BY <1>1
<1>3. f.next \in Nat /\ f.next >= now + PoolCooldown /\ f.raidNext \in Nat /\ f.raidNext >= now + RaidGrace
  BY <1>1, PoolIsKnown DEF EventsFit, Larger
<1>4. EventsFit(f)
  BY <1>1, <1>2, <1>3, AloneIsLegal DEF EventsFit, EventsFields
<1> QED BY <1>2, <1>3, <1>4 DEF f

LEMMA EndedFits ==
  ASSUME EventsFit(events), NEW now \in Nat, NEW d \in PoolDelays, NEW S
  PROVE  LET f == Ended(S, now, d)
         IN /\ EventsFit(f) /\ DOMAIN f.actives = Running \ S
            /\ Running \ S = {} => f.next >= now + PoolCooldown
<1> DEFINE f == Ended(S, now, d)
<1>1. DOMAIN events = EventsFields
  BY DEF EventsFit, EventsFields
<1>2. /\ DOMAIN f = EventsFields /\ f.actives = [id \in Running \ S |-> events.actives[id]]
      /\ f.next = (IF Running \ S = {} THEN now + PoolCooldown + d ELSE events.next) /\ f.raidNext = events.raidNext
  BY <1>1 DEF Ended, EventsFields, Restrict
<1> HIDE DEF f
<1>3. DOMAIN f.actives = Running \ S /\ \A id \in Running \ S : f.actives[id] = events.actives[id]
  BY <1>2
<1>4. f.next \in Nat /\ (Running \ S = {} => f.next >= now + PoolCooldown) /\ f.raidNext \in Nat
  BY <1>2, PoolIsKnown DEF EventsFit
<1>5. Legal(Running \ S) /\ IsFiniteSet(Running \ S)
  BY LessIsLegal DEF EventsFit, Running
<1>6. /\ Running \ S \subseteq Pool \cup {"mouse_raid"}
      /\ \A id \in Running \ S : EventFits(id, f.actives[id])
  BY <1>3 DEF EventsFit, Running
<1>7. EventsFit(f)
  BY <1>2, <1>3, <1>4, <1>5, <1>6 DEF EventsFit, EventsFields
<1> QED BY <1>3, <1>4, <1>7 DEF f

LEMMA SameRunningFits ==
  ASSUME EventsFit(events), NEW f, DOMAIN f = EventsFields, f.next \in Nat, f.raidNext \in Nat,
         DOMAIN f.actives = Running, \A id \in Running : EventFits(id, f.actives[id])
  PROVE  EventsFit(f)
BY DEF EventsFit, EventsFields, Running

LEMMA OneChangedFits ==
  ASSUME EventsFit(events), NEW id \in Running, NEW e, EventFits(id, e)
  PROVE  LET f == [events EXCEPT !.actives[id] = e] IN EventsFit(f) /\ DOMAIN f.actives = Running
<1> DEFINE f == [events EXCEPT !.actives[id] = e]
           others == [events.actives EXCEPT ![id] = e]
<1>1. DOMAIN events = EventsFields /\ events.next \in Nat /\ events.raidNext \in Nat
  BY DEF EventsFit, EventsFields
<1>2. DOMAIN f = EventsFields /\ f.actives = others /\ f.next = events.next /\ f.raidNext = events.raidNext
  BY <1>1 DEF EventsFields
<1>3. DOMAIN others = Running /\ \A i \in Running : others[i] = IF i = id THEN e ELSE events.actives[i]
  BY DEF Running
<1> HIDE DEF f, others
<1>4. \A i \in Running : EventFits(i, f.actives[i])
  BY <1>2, <1>3 DEF EventsFit, Running
<1>5. EventsFit(f)
  BY <1>1, <1>2, <1>3, <1>4, SameRunningFits
<1> QED BY <1>2, <1>3, <1>5 DEF f

LEMMA TheftIsCounted ==
  ASSUME NEW j \in Jar, NEW raid, EventFits("mouse_raid", raid)
  PROVE  /\ Theft(j, raid) \in Nat /\ Theft(j, raid) <= j.cookies
         /\ Theft(j, raid) <= (j.cookies * RaidStealPercent) \div 100
         /\ (j.cookies * RaidStealPercent) \div 100 \in Nat
<1> DEFINE s == Share(raid.pending, raid.fat)
           n == raid.share
           c == j.cookies
           t == (c * RaidStealPercent * s) \div (100 * n)
<1>1. IsFiniteSet(raid.pending) /\ raid.share \in Nat \ {0} /\ s <= raid.share
  BY DEF EventFits, RaidFits
<1>2. s \in Nat /\ n \in Nat \ {0} /\ s <= n
  BY <1>1, ShareIsCounted
<1>3. c \in Nat /\ RaidStealPercent \in 0..100
  BY EventsAssumption DEF Jar
<1>4. Theft(j, raid) = t
  BY DEF Theft
<1> HIDE DEF s, n, c
<1>5. /\ t \in Nat /\ t <= (c * RaidStealPercent) \div 100
      /\ (c * RaidStealPercent) \div 100 \in Nat /\ (c * RaidStealPercent) \div 100 <= c
  BY <1>2, <1>3, ShareIsAtMost
<1> HIDE DEF t
<1>6. t <= c
  BY <1>3, <1>5
<1> QED BY <1>4, <1>5, <1>6 DEF c

-----------------------------------------------------------------------------
(* One tick of the scheduler, step by step.                                *)
LEMMA FrenzyIsCounted ==
  ASSUME NEW g \in Golden, NEW now, NEW p \in Nat
  PROVE  Larger(p, LiveFrenzy(g, now)) \in Nat
<1>1. g.effect.times \in Nat
  BY GoldenFields DEF Effect
<1> QED BY <1>1 DEF Larger, LiveFrenzy

EventsGood(now, claimed) ==
  EventsFit(events') /\ SuppliesFit(supplies', claimed) /\ jar' \in Jar /\ Rested(now)

LEMMA RaidEscapesFits ==
  ASSUME NEW claimed, EventsFit(events), SuppliesFit(supplies, claimed), NEW now \in Nat, NEW j \in Jar, NEW later \in Nat,
         RaidEscapes(now, j, later)
  PROVE  EventsGood(now, claimed)
<1> DEFINE raid == events.actives["mouse_raid"]
           stolen == IF supplies.stock["whack_pass"] > 0 THEN 0 ELSE Theft(j, raid)
<1>1. "mouse_raid" \in Running
  BY DEF RaidEscapes, Expired
<1>2. EventFits("mouse_raid", raid)
  BY <1>1 DEF EventsFit, Running
<1>3. stolen \in Nat
  BY <1>2, TheftIsCounted
<1>4. PICK d \in RaidDelays : \E outcome : events' = RaidOver(now, d, outcome)
  BY DEF RaidEscapes
<1>5. jar' = Earned(Less(j, stolen), later)
  BY DEF RaidEscapes
<1> HIDE DEF stolen
<1>6. jar' \in Jar
  BY <1>3, <1>5, JarKept
<1>7. supplies' = supplies \/ supplies' = SpendOne(supplies, "whack_pass")
  BY DEF RaidEscapes
<1>8. SuppliesFit(supplies', claimed)
  BY <1>7, SpentFits DEF Consumables
<1>9. EventsFit(events') /\ events'.next >= now + PoolCooldown /\ events'.raidNext >= now + RaidGrace
  BY <1>4, RaidOverFits
<1> QED BY <1>6, <1>8, <1>9 DEF EventsGood, Rested

LEMMA EventsExpireFits ==
  ASSUME NEW claimed, EventsFit(events), SuppliesFit(supplies, claimed), NEW now \in Nat, NEW j \in Jar, NEW later \in Nat,
         golden' \in Golden, EventsExpire(now, j, later)
  PROVE  /\ EventsGood(now, claimed) /\ Running' = Running \ Expired(now)
         /\ \E n \in Nat : n >= later /\ jar' = Earned(j, n)
<1>1. PICK d \in PoolDelays : events' = Ended(Expired(now), now, d)
  BY DEF EventsExpire
<1>2. EventsFit(events') /\ Running' = Running \ Expired(now) /\ (Running' = {} => events'.next >= now + PoolCooldown)
  BY <1>1, EndedFits DEF Running
<1>3. "mouse_raid" \in Running => "mouse_raid" \in Running'
  BY <1>2 DEF EventsExpire
<1> DEFINE pay == IF "flour_shortage" \in Expired(now)
                  THEN EventPay * Larger(events.actives["flour_shortage"].peak, LiveFrenzy(golden', now)) ELSE 0
<1>4. pay \in Nat
  <2>1. ASSUME "flour_shortage" \in Expired(now)
        PROVE  Larger(events.actives["flour_shortage"].peak, LiveFrenzy(golden', now)) \in Nat
    <3>1. events.actives["flour_shortage"].peak \in Nat
      BY <2>1 DEF Expired, EventsFit, EventFits, Running
    <3> QED BY <3>1, FrenzyIsCounted
  <2> DEFINE m == Larger(events.actives["flour_shortage"].peak, LiveFrenzy(golden', now))
  <2>2. EventPay \in Nat
    BY EventsAssumption
  <2>3. "flour_shortage" \in Expired(now) => m \in Nat
    BY <2>1
  <2> HIDE DEF m
  <2>4. "flour_shortage" \in Expired(now) => EventPay * m \in Nat
    BY <2>2, <2>3
  <2> QED BY <2>4 DEF m
<1>5. jar' = Earned(j, later + pay) /\ supplies' = supplies
  BY DEF EventsExpire
<1> HIDE DEF pay
<1>6. later + pay \in Nat /\ later + pay >= later
  BY <1>4
<1>7. jar' \in Jar
  BY <1>5, <1>6, JarKept
<1> QED BY <1>2, <1>3, <1>5, <1>6, <1>7 DEF EventsGood, Rested

LEMMA EventsRunFits ==
  ASSUME NEW claimed, EventsFit(events), SuppliesFit(supplies, claimed), NEW now \in Nat, NEW j \in Jar, NEW later \in Nat,
         golden' \in Golden, EventsRun(now, j, later)
  PROVE  EventsGood(now, claimed) /\ Running' = Running
<1> DEFINE peaked == [id \in Running |-> IF id = "flour_shortage"
                                       THEN WithPeak(events.actives[id], LiveFrenzy(golden', now))
                                       ELSE events.actives[id]]
<1>1. DOMAIN events = EventsFields /\ events.next \in Nat /\ events.raidNext \in Nat
  BY DEF EventsFit, EventsFields
<1>2. events' = [events EXCEPT !.actives = peaked]
  BY DEF EventsRun
<1>3. ASSUME NEW id \in Running PROVE EventFits(id, peaked[id])
  <2>1. EventFits(id, events.actives[id])
    BY DEF EventsFit, Running
  <2>2. Larger(events.actives[id].peak, LiveFrenzy(golden', now)) \in Nat
    BY <2>1, FrenzyIsCounted DEF EventFits
  <2> QED BY <2>1, <2>2, TimesFit DEF WithPeak
<1>4. DOMAIN peaked = Running
  OBVIOUS
<1> HIDE DEF peaked
<1>5. /\ DOMAIN events' = EventsFields /\ events'.next \in Nat /\ events'.raidNext \in Nat
      /\ events'.actives = peaked
  BY <1>1, <1>2 DEF EventsFields
<1>6. EventsFit(events') /\ Running' = Running
  BY <1>3, <1>4, <1>5, SameRunningFits DEF Running
<1>7. jar' = Earned(j, later) /\ supplies' = supplies /\ Running # {}
  BY DEF EventsRun
<1>8. jar' \in Jar
  BY <1>7, JarKept
<1> QED BY <1>6, <1>7, <1>8 DEF EventsGood, Rested

(* On a free stage only a clock moves, or something starts.                *)
LEMMA ClockMovesFit ==
  ASSUME EventsFit(events), NEW f, DOMAIN f = EventsFields, f.actives = events.actives, f.next \in Nat, f.raidNext \in Nat
  PROVE  EventsFit(f)
BY DEF EventsFit, EventsFields

LEMMA StartsFit ==
  ASSUME EventsFit(events), NEW S, Legal(S), IsFiniteSet(S), S \subseteq Pool \cup {"mouse_raid"},
         NEW started, DOMAIN started = S, \A id \in S : EventFits(id, started[id])
  PROVE  LET f == [events EXCEPT !.actives = started] IN EventsFit(f) /\ DOMAIN f.actives = S
<1> DEFINE f == [events EXCEPT !.actives = started]
<1>1. DOMAIN events = EventsFields /\ events.next \in Nat /\ events.raidNext \in Nat
  BY DEF EventsFit, EventsFields
<1>2. DOMAIN f = EventsFields /\ f.actives = started /\ f.next = events.next /\ f.raidNext = events.raidNext
  BY <1>1 DEF EventsFields
<1> HIDE DEF f
<1>3. EventsFit(f)
  BY <1>1, <1>2 DEF EventsFit, EventsFields
<1> QED BY <1>2, <1>3 DEF f

LEMMA ClocksFit ==
  ASSUME EventsFit(events), NEW now \in Nat, NEW j \in Jar, NEW later \in Nat,
         \/ SeedRaidClock(now, j, later) \/ SeedPoolClock(now, j, later)
         \/ PoolWaits(now, j, later) \/ InstantPays(now, j, later) \/ EventsBlocked(j, later)
  PROVE  EventsFit(events') /\ Running' = Running /\ supplies' = supplies /\ jar' \in Jar
<1>1. DOMAIN events = EventsFields /\ events.next \in Nat /\ events.raidNext \in Nat
  BY DEF EventsFit, EventsFields
<1>2. jar' = Earned(j, later) \/ jar' = Earned(j, later + EventPay)
  BY DEF SeedRaidClock, SeedPoolClock, PoolWaits, InstantPays, EventsBlocked
<1>3. jar' \in Jar
  <2>1. later + EventPay \in Nat
    BY EventsAssumption
  <2> QED BY <1>2, <2>1, JarKept
<1>4. supplies' = supplies
  BY DEF SeedRaidClock, SeedPoolClock, PoolWaits, InstantPays, EventsBlocked, eventVars
<1>5. ASSUME NEW n \in Nat, events' = [events EXCEPT !.next = n] \/ events' = [events EXCEPT !.raidNext = n]
      PROVE  EventsFit(events') /\ Running' = Running
  <2>1. /\ DOMAIN events' = EventsFields /\ events'.actives = events.actives
        /\ events'.next \in Nat /\ events'.raidNext \in Nat
    BY <1>1, <1>5 DEF EventsFields
  <2> QED BY <2>1, ClockMovesFit DEF Running
<1>6. CASE SeedRaidClock(now, j, later)
  <2>1. PICK d \in RaidDelays : events' = [events EXCEPT !.raidNext = now + Larger(RaidGrace, d)]
    BY <1>6 DEF SeedRaidClock
  <2>2. now + Larger(RaidGrace, d) \in Nat
    BY PoolIsKnown DEF Larger
  <2> QED BY <1>3, <1>4, <1>5, <2>1, <2>2
<1>7. CASE SeedPoolClock(now, j, later)
  <2>1. PICK d \in PoolDelays : events' = [events EXCEPT !.next = now + PoolGrace + d]
    BY <1>7 DEF SeedPoolClock
  <2>2. now + PoolGrace + d \in Nat
    BY PoolIsKnown
  <2> QED BY <1>3, <1>4, <1>5, <2>1, <2>2
<1>8. CASE PoolWaits(now, j, later) \/ EventsBlocked(j, later)
  <2>1. events' = events
    BY <1>8 DEF PoolWaits, EventsBlocked, eventVars
  <2> QED BY <1>3, <1>4, <2>1 DEF Running
<1>9. CASE InstantPays(now, j, later)
  <2>1. PICK d \in PoolDelays : events' = [events EXCEPT !.next = now + PoolCooldown + d]
    BY <1>9 DEF InstantPays
  <2>2. now + PoolCooldown + d \in Nat
    BY PoolIsKnown
  <2> QED BY <1>3, <1>4, <1>5, <2>1, <2>2
<1> QED BY <1>6, <1>7, <1>8, <1>9

LEMMA SpawnRaidFits ==
  ASSUME NEW claimed, EventsFit(events), SuppliesFit(supplies, claimed), NEW now \in Nat, NEW j \in Jar, NEW later \in Nat,
         SpawnRaid(now, j, later)
  PROVE  EventsFit(events') /\ SuppliesFit(supplies', claimed) /\ jar' \in Jar
<1>1. PICK n \in MouseCounts, hp \in FatHps :
        events' = [events EXCEPT !.actives = [id \in {"mouse_raid"} |-> Raid(now, n, hp, ToArm)]]
  BY DEF SpawnRaid
<1> DEFINE raid == Raid(now, n, hp, ToArm)
           started == [id \in {"mouse_raid"} |-> raid]
<1>2. EventFits("mouse_raid", raid)
  BY RaidIsFit
<1> HIDE DEF raid
<1>3. DOMAIN started = {"mouse_raid"} /\ \A id \in {"mouse_raid"} : EventFits(id, started[id])
  BY <1>2
<1>4. events' = [events EXCEPT !.actives = started]
  BY <1>1 DEF raid
<1> HIDE DEF started
<1>5. EventsFit(events')
  BY <1>3, <1>4, AloneIsLegal, StartsFit
<1>6. SuppliesFit(supplies', claimed)
  <2>1. supplies' = SpendAll(supplies, ToArm) /\ ToArm \in SUBSET {c \in Consumables : supplies.stock[c] > 0}
    BY DEF SpawnRaid, ToArm, ArmedAtSpawn, Consumables
  <2> QED BY <2>1, SpentFits
<1>7. jar' \in Jar
  BY JarKept DEF SpawnRaid
<1> QED BY <1>5, <1>6, <1>7

LEMMA SpawnStackFits ==
  ASSUME EventsFit(events), NEW now \in Nat, NEW j \in Jar, NEW later \in Nat, SpawnStack(now, j, later)
  PROVE  EventsFit(events') /\ supplies' = supplies /\ jar' \in Jar
<1>1. PICK S \in DrawnStacks : events' = [events EXCEPT !.actives = [id \in S |-> Active(id, now)]]
  BY DEF SpawnStack
<1>2. Legal(S) /\ IsFiniteSet(S) /\ S \subseteq Pool
  BY DrawnIsLegal
<1> DEFINE started == [id \in S |-> Active(id, now)]
<1>3. DOMAIN started = S /\ \A id \in S : EventFits(id, started[id])
  <2>1. ASSUME NEW id \in S PROVE id \in DOMAIN Catalogue /\ id # "mouse_raid"
    BY <1>2, PoolIsKnown
  <2> QED BY <2>1, ActiveFits
<1> HIDE DEF started
<1>4. EventsFit(events')
  BY <1>1, <1>2, <1>3, StartsFit DEF started
<1> QED BY <1>4, JarKept DEF SpawnStack

LEMMA SettleFits ==
  ASSUME NEW claimed, EventsFit(events), SuppliesFit(supplies, claimed), NEW now \in Nat, NEW j \in Jar, NEW later \in Nat,
         golden' \in Golden, EventsSettle(now, j, later)
  PROVE  EventsGood(now, claimed)
BY RaidEscapesFits, EventsExpireFits, EventsRunFits DEF EventsSettle

LEMMA FreeStageRests ==
  ASSUME NEW claimed, Running = {}, EventsFit(events'), SuppliesFit(supplies', claimed), jar' \in Jar, NEW now
  PROVE  EventsGood(now, claimed)
BY DEF EventsGood, Rested

LEMMA BlockedFits ==
  ASSUME NEW claimed, EventsFit(events), SuppliesFit(supplies, claimed), NEW now \in Nat, NEW j \in Jar, NEW later \in Nat,
         EventsBlocked(j, later)
  PROVE  EventsGood(now, claimed)
<1>1. EventsFit(events') /\ supplies' = supplies /\ jar' \in Jar
  BY ClocksFit
<1>2. Running = {}
  BY DEF EventsBlocked
<1> QED BY <1>1, <1>2, FreeStageRests

LEMMA EventsTickFits ==
  ASSUME NEW claimed, EventsFit(events), SuppliesFit(supplies, claimed), NEW now \in Nat, NEW j \in Jar, NEW later \in Nat,
         golden' \in Golden, NEW blocked, NEW hidden, EventsTick(now, j, later, blocked, hidden)
  PROVE  EventsGood(now, claimed)
<1>1. CASE EventsSettle(now, j, later)
  BY <1>1, SettleFits
<1>2. CASE EventsBlocked(j, later)
  BY <1>2, BlockedFits
<1>3. CASE Running = {} /\ SpawnRaid(now, j, later)
  BY <1>3, SpawnRaidFits, FreeStageRests
<1>4. CASE Running = {} /\ SpawnStack(now, j, later)
  BY <1>4, SpawnStackFits, FreeStageRests
<1>5. CASE Running = {} /\ (\/ SeedRaidClock(now, j, later) \/ SeedPoolClock(now, j, later)
                            \/ PoolWaits(now, j, later) \/ InstantPays(now, j, later))
  <2>1. EventsFit(events') /\ supplies' = supplies /\ jar' \in Jar
    BY <1>5, ClocksFit
  <2> QED BY <1>5, <2>1, FreeStageRests
<1> QED BY <1>1, <1>2, <1>3, <1>4, <1>5 DEF EventsTick, PoolTick

-----------------------------------------------------------------------------
(* What the player does.                                                   *)

LEMMA EventsFinish ==
  ASSUME StageInv, WithAchievements(wallet, jar'), UNCHANGED <<clock, golden, supplies>>,
         EventsFit(events'), jar' \in Jar, Rested(clock)
  PROVE  /\ clock' = clock /\ achieved' \subseteq Milestones /\ GoldenFits(golden', clock', wallet'.awards)
         /\ WalletFits(wallet') /\ EventsGood(clock, wallet'.claimed)
<1>1. /\ WalletFits(wallet') /\ achieved' \subseteq Milestones /\ wallet'.claimed = wallet.claimed
      /\ \A t : <<"oven", t>> \in wallet'.awards => <<"oven", t>> \in wallet.awards
  BY MilestonesFit DEF StageInv
<1>2. GoldenFits(golden', clock', wallet'.awards)
  BY <1>1, FewerAwardsFit DEF StageInv
<1> QED BY <1>1, <1>2 DEF EventsGood, StageInv

LEMMA TargetClickFits ==
  ASSUME StageInv, NEW id \in Running, NEW t \in events.actives[id].pending, TargetClick(id, t)
  PROVE  EventsFit(events') /\ jar' \in Jar /\ Rested(clock)
<1> DEFINE e == events.actives[id]
           hit == [e EXCEPT !.pending = @ \ {t}, !.claimed = @ + 1]
<1>1. EventsFit(events) /\ clock \in Nat /\ jar \in Jar /\ id # "mouse_raid"
  BY DEF StageInv, TargetClick
<1>2. EventFits(id, e)
  BY <1>1 DEF EventsFit, Running
<1>3. jar' \in Jar
  <2>1. jar' = Earned(jar, 0) \/ jar' = Earned(jar, EventPay)
    BY DEF TargetClick
  <2>2. Earned(jar, 0) \in Jar /\ Earned(jar, EventPay) \in Jar
    BY <1>1, JarKept, EventsAssumption
  <2> QED BY <2>1, <2>2
<1>4. CASE \E d \in PoolDelays : events' = Ended({id}, clock, d)
  <2>1. EventsFit(events') /\ Running' = Running \ {id} /\ (Running' = {} => events'.next >= clock + PoolCooldown)
    BY <1>1, <1>4, EndedFits DEF Running
  <2>2. "mouse_raid" \in Running => "mouse_raid" \in Running'
    BY <1>1, <2>1
  <2> QED BY <1>3, <2>1, <2>2 DEF Rested
<1>5. CASE /\ e.pending # {t}
           /\ events' = [events EXCEPT !.actives[id].pending = @ \ {t}, !.actives[id].claimed = @ + 1]
  <2>1. DOMAIN events = EventsFields /\ DOMAIN e = EventFields
    BY <1>1, <1>2 DEF EventsFit, EventsFields, EventFits
  <2>2. events' = [events EXCEPT !.actives[id] = hit]
    BY <1>5, <2>1 DEF EventsFields, EventFields, Running
  <2>3. EventFits(id, hit)
    BY <1>1, <1>2, <1>5, TargetHitFits
  <2> HIDE DEF hit
  <2>4. EventsFit(events') /\ Running' = Running
    BY <1>1, <2>2, <2>3, OneChangedFits DEF Running
  <2> QED BY <1>3, <2>4 DEF Rested
<1> QED BY <1>4, <1>5 DEF TargetClick

LEMMA WhackFits ==
  ASSUME StageInv, NEW S, Whack(S)
  PROVE  EventsFit(events') /\ jar' \in Jar /\ Rested(clock)
<1> DEFINE raid == events.actives["mouse_raid"]
<1>1. EventsFit(events) /\ clock \in Nat /\ jar \in Jar /\ "mouse_raid" \in Running
  BY DEF StageInv, Whack, Live
<1>2. EventFits("mouse_raid", raid)
  BY <1>1 DEF EventsFit, Running
<1>3. CASE Survivors(raid.mice, S) = {}
  <2>1. PICK d \in RaidDelays : events' = RaidOver(clock, d, Outcome(0, TRUE, FALSE))
    BY <1>3 DEF Whack
  <2>2. jar' = Earned(jar, EventPay)
    BY <1>3 DEF Whack
  <2>3. jar' \in Jar
    BY <1>1, <2>2, JarKept, EventsAssumption
  <2>4. EventsFit(events') /\ events'.next >= clock + PoolCooldown /\ events'.raidNext >= clock + RaidGrace
    BY <1>1, <2>1, RaidOverFits
  <2> QED BY <2>3, <2>4 DEF Rested
<1>4. CASE Survivors(raid.mice, S) # {}
  <2>1. events' = [events EXCEPT !.actives["mouse_raid"] = Whacked(raid, S)] /\ jar' = jar
    BY <1>4 DEF Whack
  <2>2. EventFits("mouse_raid", Whacked(raid, S))
    BY <1>2, <1>4, WhackedFits
  <2>3. EventsFit(events') /\ Running' = Running
    BY <1>1, <2>1, <2>2, OneChangedFits DEF Running
  <2> QED BY <1>1, <2>1, <2>3 DEF Rested
<1> QED BY <1>3, <1>4

LEMMA TasteFits ==
  ASSUME StageInv, Serve \/ SendBack
  PROVE  EventsFit(events') /\ jar' \in Jar /\ Rested(clock)
<1> DEFINE e == events.actives["taste_test"]
<1>1. EventsFit(events) /\ clock \in Nat /\ jar \in Jar /\ "taste_test" \in Running
  BY DEF StageInv, Serve, SendBack, Live
<1>2. EventFits("taste_test", e)
  BY <1>1 DEF EventsFit, Running
<1>3. CASE Serve
  <2>1. PICK d \in PoolDelays : events' = Ended({"taste_test"}, clock, d)
    BY <1>3 DEF Serve
  <2>2. EventsFit(events') /\ Running' = Running \ {"taste_test"} /\ (Running' = {} => events'.next >= clock + PoolCooldown)
    BY <1>1, <2>1, EndedFits DEF Running
  <2>3. "mouse_raid" \in Running => "mouse_raid" \in Running'
    BY <2>2
  <2>4. jar' \in Jar
    BY <1>1, <1>3, JarKept, EventsAssumption DEF Serve
  <2> QED BY <2>2, <2>3, <2>4 DEF Rested
<1>4. CASE SendBack
  <2> DEFINE back == [e EXCEPT !.start = clock, !.end = clock + TasteBuff, !.claimed = 1, !.sentBack = TRUE]
  <2>1. DOMAIN events = EventsFields /\ DOMAIN e = EventFields
    BY <1>1, <1>2 DEF EventsFit, EventsFields, EventFits
  <2>2. events' = [events EXCEPT !.actives["taste_test"] = back]
    BY <1>4 DEF SendBack
  <2>3. EventFits("taste_test", back)
    BY <1>2, SentBackFits
  <2> HIDE DEF back
  <2>4. EventsFit(events') /\ Running' = Running
    BY <1>1, <2>2, <2>3, OneChangedFits DEF Running
  <2> QED BY <1>1, <1>4, <2>4 DEF Rested, SendBack
<1> QED BY <1>3, <1>4

LEMMA ClickFits ==
  ASSUME StageInv, Click
  PROVE  EventsFit(events') /\ jar' \in Jar /\ Rested(clock)
<1>1. EventsFit(events) /\ jar \in Jar
  BY DEF StageInv
<1>2. jar' \in Jar
  BY <1>1, JarKept DEF Click
<1>3. EventsFit(events') /\ Running' = Running
  <2>1. CASE ~Live("combo_window")
    BY <1>1, <2>1 DEF Click, ComboExtended, Running
  <2>2. CASE Live("combo_window")
    <3> DEFINE e == events.actives["combo_window"]
    <3>1. "combo_window" \in Running
      BY <2>2 DEF Live
    <3>2. EventFits("combo_window", e)
      BY <1>1, <3>1 DEF EventsFit, Running
    <3>3. PICK end : events' = [events EXCEPT !.actives["combo_window"].end = end]
      BY <2>2 DEF Click, ComboExtended
    <3> DEFINE longer == [e EXCEPT !.end = end]
    <3>4. DOMAIN events = EventsFields /\ DOMAIN e = EventFields
      BY <1>1, <3>2 DEF EventsFit, EventsFields, EventFits
    <3>5. events' = [events EXCEPT !.actives["combo_window"] = longer]
      BY <3>1, <3>3, <3>4 DEF EventsFields, EventFields, Running
    <3>6. EventFits("combo_window", longer)
      BY <3>2, TimesFit
    <3> HIDE DEF longer
    <3> QED BY <1>1, <3>1, <3>5, <3>6, OneChangedFits DEF Running
  <2> QED BY <2>1, <2>2
<1> QED BY <1>2, <1>3 DEF Rested

-----------------------------------------------------------------------------
(* Purchases, and the part of a price that a market day gives back.        *)
LEMMA RebateIsCapped ==
  ASSUME EventsFit(events)
  PROVE  Rebate \in 0..50
<1> DEFINE running == {id \in Running : Live(id)}
           market(id) == IF id \in running THEN Catalogue[id].rebate ELSE 0
<1>1. ASSUME NEW id \in running PROVE Catalogue[id].rebate \in Nat
  <2>1. id \in DOMAIN Catalogue
    BY PoolIsKnown DEF EventsFit, Running
  <2> QED BY <2>1, CatalogueIsCounted DEF RowsAreCounted
<1>2. market("market_day") \in Nat /\ market("bakers_dozen") \in Nat
  <2> HIDE DEF running
  <2> QED BY <1>1
<1> DEFINE total == market("market_day") + market("bakers_dozen")
<1>3. total \in Nat
  <2> HIDE DEF market
  <2> QED BY <1>2
<1>4. Rebate = IF total > RebateCap THEN RebateCap ELSE total
  BY DEF Rebate
<1> HIDE DEF total
<1> QED BY <1>3, <1>4 DEF RebateCap

(* Whatever the price, as long as it can be paid.                          *)
LEMMA PaidBack ==
  ASSUME NEW c \in Nat, NEW p \in Int, p <= c, NEW r \in 0..50
  PROVE  c - p + (p * r) \div 100 \in Nat
<1>1. p * r \in Int
  OBVIOUS
<1>2. p >= 0 => p * r >= 0
  OBVIOUS
<1>3. p < 0 => p * r >= 100 * p
  <2>1. ASSUME p < 0 PROVE p * (100 - r) <= 0
    BY <2>1
  <2>2. p * (100 - r) = 100 * p - p * r
    OBVIOUS
  <2> QED BY <1>1, <2>1, <2>2
<1> DEFINE m == p * r
           q == m \div 100
<1>4. q \in Int /\ 100 * q <= m /\ m < 100 * q + 100
  BY <1>1
<1> HIDE DEF m, q
<1>5. c - p + q \in Nat
  <2>1. CASE p >= 0
    BY <1>2, <1>4, <2>1 DEF m
  <2>2. CASE p < 0
    BY <1>3, <1>4, <2>2 DEF m
  <2> QED BY <2>1, <2>2
<1> QED BY <1>5 DEF m, q

LEMMA PurchaseIsJar ==
  ASSUME NEW j \in Jar, NEW price \in Int, price <= j.cookies, EventsFit(events)
  PROVE  Bought(j, price) \in Jar
<1>1. j.cookies \in Nat /\ Rebate \in 0..50
  BY RebateIsCapped DEF Jar
<1>2. j.cookies - price + (price * Rebate) \div 100 \in Nat
  BY <1>1, PaidBack
<1> DEFINE less == Less(j, price)
           back == (price * Rebate) \div 100
<1>3. less = [j EXCEPT !.cookies = j.cookies - price]
  BY <1>1 DEF Less
<1>4. DOMAIN less = {"cookies", "baked"} /\ less.cookies = j.cookies - price /\ less.baked = j.baked
  BY <1>3 DEF Jar
<1>5. Bought(j, price) = [less EXCEPT !.cookies = @ + back]
  BY DEF Bought
<1>6. j.cookies - price + back \in Nat
  BY <1>2
<1> HIDE DEF less, back
<1>7. Bought(j, price) = [cookies |-> j.cookies - price + back, baked |-> j.baked]
  BY <1>4, <1>5, <1>3 DEF Jar
<1> QED BY <1>6, <1>7 DEF Jar

LEMMA PriceIsInt ==
  ASSUME NEW claimed, SuppliesFit(supplies, claimed), NEW c \in Consumables
  PROVE  ConsumablePrice(c) \in Int
<1>1. supplies.bought[c] \in Nat
  BY DEF SuppliesFit
<1>2. 4 ^ supplies.bought[c] \in Int
  BY <1>1, SMT
<1>3. ConsumableBase \in Nat /\ (5 * ConsumableBase) \div 2 \in Int
  BY EventsAssumption
<1> DEFINE b == IF c = "whack_pass" THEN ConsumableBase ELSE (5 * ConsumableBase) \div 2
           f == 4 ^ supplies.bought[c]
<1>4. b \in Int /\ f \in Int
  BY <1>2, <1>3
<1>5. ConsumablePrice(c) = b * f
  BY DEF ConsumablePrice
<1> HIDE DEF b, f
<1> QED BY <1>4, <1>5

LEMMA PurchaseFits ==
  ASSUME StageInv, BuyStorage \/ \E c \in Consumables : BuyConsumable(c)
  PROVE  SuppliesFit(supplies', wallet.claimed) /\ jar' \in Jar /\ UNCHANGED <<clock, achieved, wallet, golden, events>>
<1>1. EventsFit(events) /\ jar \in Jar /\ SuppliesFit(supplies, wallet.claimed)
  BY DEF StageInv
<1>2. CASE BuyStorage
  <2>1. supplies.level + 1 < Len(StorageTiers) /\ supplies' = [supplies EXCEPT !.level = @ + 1]
    BY <1>2 DEF BuyStorage
  <2>2. SuppliesFit(supplies', wallet.claimed)
    BY <1>1, <2>1, LargerStorageFits
  <2>3. StorageTiers[supplies.level + 2].cost \in Int
    <3>1. supplies.level + 2 \in 1..Len(StorageTiers)
      BY <1>1, <2>1, CapsAreCaps DEF SuppliesFit
    <3>2. StorageTiers \in Seq([cap : Nat, cost : Nat])
      BY EventsAssumption
    <3>3. \A R : StorageTiers \in Seq(R) => \A i \in 1..Len(StorageTiers) : StorageTiers[i] \in R
      OBVIOUS
    <3>4. StorageTiers[supplies.level + 2] \in [cap : Nat, cost : Nat]
      BY <3>1, <3>2, <3>3
    <3> QED BY <3>4
  <2>4. jar.cookies >= StorageTiers[supplies.level + 2].cost /\ jar' = Bought(jar, StorageTiers[supplies.level + 2].cost)
    BY <1>2 DEF BuyStorage
  <2> DEFINE price == StorageTiers[supplies.level + 2].cost
  <2>5. price \in Int /\ price <= jar.cookies /\ jar' = Bought(jar, price)
    BY <1>1, <2>3, <2>4 DEF Jar
  <2> HIDE DEF price
  <2>6. jar' \in Jar
    BY <1>1, <2>5, PurchaseIsJar
  <2> QED BY <1>2, <2>2, <2>6 DEF BuyStorage
<1>3. CASE \E c \in Consumables : BuyConsumable(c)
  <2>1. PICK c \in Consumables : BuyConsumable(c)
    BY <1>3
  <2>2. /\ supplies.stock[c] < StorageCap(supplies.level)
        /\ supplies' = [supplies EXCEPT !.stock[c] = @ + 1, !.bought[c] = @ + 1]
    BY <2>1 DEF BuyConsumable
  <2>3. SuppliesFit(supplies', wallet.claimed)
    BY <1>1, <2>2, BoughtFits
  <2> DEFINE price == ConsumablePrice(c)
  <2>4. price \in Int
    BY <1>1, PriceIsInt
  <2>5. jar.cookies >= price /\ jar' = Bought(jar, price)
    BY <2>1 DEF BuyConsumable
  <2> HIDE DEF price
  <2>6. price <= jar.cookies
    BY <1>1, <2>4, <2>5 DEF Jar
  <2>7. jar' \in Jar
    BY <1>1, <2>4, <2>5, <2>6, PurchaseIsJar
  <2> QED BY <2>1, <2>3, <2>7 DEF BuyConsumable
<1> QED BY <1>2, <1>3

(* The step of the events and their supplies.                              *)
EventsActs ==
  (\E id \in Running : \E t \in events.actives[id].pending : TargetClick(id, t)) \/ (\E S \in SUBSET (1..5) : Whack(S))
  \/ Serve \/ SendBack \/ Click

LEMMA EventsStep ==
  ASSUME StageInv, EventsNext
  PROVE  /\ clock' = clock /\ achieved' \subseteq Milestones /\ GoldenFits(golden', clock', wallet'.awards)
         /\ WalletFits(wallet') /\ EventsGood(clock, wallet'.claimed)
<1>1. CASE EventsActs
  <2>1. EventsFit(events') /\ jar' \in Jar /\ Rested(clock)
    BY <1>1, TargetClickFits, WhackFits, TasteFits, ClickFits DEF EventsActs
  <2>2. UNCHANGED <<clock, golden, supplies>>
    BY <1>1 DEF EventsActs, TargetClick, Whack, Serve, SendBack, Click
  <2>3. WithAchievements(wallet, jar')
    <3>1. SendBack => jar' = jar /\ WithAchievements(wallet, jar)
      BY DEF SendBack
    <3>2. SendBack => WithAchievements(wallet, jar')
      BY <3>1
    <3> QED BY <1>1, <3>2 DEF EventsActs, TargetClick, Whack, Serve, Click
  <2> QED BY <2>1, <2>2, <2>3, EventsFinish
<1>2. CASE BuyStorage \/ \E c \in Consumables : BuyConsumable(c)
  <2>1. SuppliesFit(supplies', wallet.claimed) /\ jar' \in Jar /\ UNCHANGED <<clock, achieved, wallet, golden, events>>
    BY <1>2, PurchaseFits
  <2>2. Running' = Running
    BY <2>1 DEF Running
  <2> QED BY <2>1, <2>2 DEF StageInv, EventsGood, Rested
<1>3. CASE DismissRaid
  <2>1. /\ events' = [events EXCEPT !.lastRaid = NoRaid]
        /\ UNCHANGED <<clock, jar, achieved, wallet, golden, supplies>>
    BY <1>3 DEF DismissRaid
  <2>2. DOMAIN events = EventsFields /\ events.next \in Nat /\ events.raidNext \in Nat /\ EventsFit(events)
    BY DEF StageInv, EventsFit, EventsFields
  <2>3. /\ DOMAIN events' = EventsFields /\ events'.actives = events.actives
        /\ events'.next \in Nat /\ events'.raidNext \in Nat
    BY <2>1, <2>2 DEF EventsFields
  <2>4. EventsFit(events') /\ Running' = Running
    BY <2>2, <2>3, ClockMovesFit DEF Running
  <2> QED BY <2>1, <2>4 DEF StageInv, EventsGood, Rested
<1> QED BY <1>1, <1>2, <1>3 DEF EventsNext, EventsActs

-----------------------------------------------------------------------------
(* Boards, chains and days, and lucky draws.                               *)
OtherAwards(w, v) ==
  WalletFits(v) /\ v.claimed = w.claimed /\ \A t : <<"oven", t>> \in v.awards => <<"oven", t>> \in w.awards

LEMMA AwardedElsewhere ==
  ASSUME NEW w, WalletFits(w), NEW keys, IsFiniteSet(keys), NEW amount \in Nat,
         \A k \in keys : Worth(k) = amount /\ k[1] # "oven"
  PROVE  OtherAwards(w, Awarded(w, keys, amount))
<1>1. WalletFits(Awarded(w, keys, amount))
  BY AwardedFits
<1>2. Awarded(w, keys, amount).awards = w.awards \cup keys /\ Awarded(w, keys, amount).claimed = w.claimed
  BY DEF Awarded, WalletFits
<1>3. \A t : <<"oven", t>>[1] = "oven"
  OBVIOUS
<1> QED BY <1>1, <1>2, <1>3 DEF OtherAwards

LEMMA GamesStep ==
  ASSUME StageInv, GamesNext
  PROVE  /\ UNCHANGED <<clock, jar, achieved>> /\ OtherAwards(wallet, wallet')
         /\ DOMAIN games' = {"active", "completed", "schedule"}
<1>1. WalletFits(wallet) /\ DOMAIN games = {"active", "completed", "schedule"} /\ Grade \in Nat /\ 2 \in Nat
  BY MinigamesAssumption DEF StageInv
<1>2. UNCHANGED <<clock, jar, achieved>>
  BY DEF GamesNext, MinigameStart, MinigameMinimize, MinigameResume, MinigameRestart, MinigameAbandon, MinigameComplete,
         DailyObjective
<1>3. CASE (\E id \in MinigameIds : MinigameStart(id)) \/ MinigameMinimize \/ MinigameResume \/ MinigameRestart \/ MinigameAbandon
  <2>1. wallet' = wallet
    BY <1>3 DEF MinigameStart, MinigameMinimize, MinigameResume, MinigameRestart, MinigameAbandon
  <2>2. DOMAIN games' = {"active", "completed", "schedule"}
    BY <1>1, <1>3 DEF MinigameStart, Started, MinigameMinimize, MinigameResume, MinigameRestart, MinigameAbandon
  <2> QED BY <1>1, <1>2, <2>1, <2>2 DEF OtherAwards
<1>4. CASE MinigameComplete
  <2> DEFINE done == games.completed \cup {games.active.id}
             grade == {<<"grade", games.active.id, clock>>}
             chain == ChainKeys(done)
             once == Awarded(wallet, grade, Grade)
  <2>1. wallet' = Awarded(once, chain, 2)
    BY <1>4 DEF MinigameComplete
  <2>2. IsFiniteSet(grade) /\ \A k \in grade : Worth(k) = Grade /\ k[1] # "oven"
    <3>1. IsFiniteSet(grade)
      BY FS_Singleton
    <3>2. <<"grade", games.active.id, clock>>[1] = "grade"
      OBVIOUS
    <3> QED BY <3>1, <3>2 DEF Worth
  <2>3. IsFiniteSet(chain) /\ \A k \in chain : Worth(k) = 2 /\ k[1] # "oven"
    <3>1. chain = {} \/ chain = {<<"three", Cardinality(done)>>}
      BY DEF ChainKeys
    <3>2. <<"three", Cardinality(done)>>[1] = "three" /\ Worth(<<"three", Cardinality(done)>>) = 2
      BY DEF Worth
    <3>3. IsFiniteSet({}) /\ IsFiniteSet({<<"three", Cardinality(done)>>})
      BY FS_Singleton, FS_EmptySet
    <3> HIDE DEF chain, done
    <3> QED BY <3>1, <3>2, <3>3
  <2> HIDE DEF grade, chain
  <2>4. OtherAwards(wallet, once)
    BY <1>1, <2>2, AwardedElsewhere
  <2> HIDE DEF once
  <2>5. OtherAwards(once, wallet')
    BY <1>1, <2>1, <2>3, <2>4, AwardedElsewhere DEF OtherAwards
  <2>6. DOMAIN games' = {"active", "completed", "schedule"}
    BY <1>1, <1>4 DEF MinigameComplete
  <2> QED BY <1>2, <2>4, <2>5, <2>6 DEF OtherAwards
<1>5. CASE DailyObjective
  <2> DEFINE keys == {<<"daily", clock \div DayLength>>}
  <2>1. wallet' = Awarded(wallet, keys, 2) /\ games' = games
    BY <1>5 DEF DailyObjective
  <2>2. IsFiniteSet(keys) /\ \A k \in keys : Worth(k) = 2 /\ k[1] # "oven"
    <3>1. IsFiniteSet(keys)
      BY FS_Singleton
    <3>2. <<"daily", clock \div DayLength>>[1] = "daily"
      OBVIOUS
    <3> QED BY <3>1, <3>2 DEF Worth
  <2> HIDE DEF keys
  <2> QED BY <1>1, <1>2, <2>1, <2>2, AwardedElsewhere
<1> QED BY <1>3, <1>4, <1>5 DEF GamesNext

LEMMA LuckyStep ==
  ASSUME StageInv, LuckyDraw
  PROVE  /\ UNCHANGED <<clock, achieved, events, games>> /\ jar' \in Jar /\ WalletFits(wallet')
         /\ GoldenFits(golden', clock, wallet'.awards) /\ SuppliesFit(supplies', wallet'.claimed)
<1>1. /\ clock \in Nat /\ jar \in Jar /\ WalletFits(wallet) /\ GoldenFits(golden, clock, wallet.awards)
      /\ SuppliesFit(supplies, wallet.claimed)
  BY DEF StageInv
<1>2. PICK r \in DrawPool :
        /\ wallet' = Drawn(wallet, r)
        /\ jar' = Earned(jar, IF r \in wallet.claimed THEN 0 ELSE BundleOf(r))
        /\ golden' = IF r = "timed_boost" /\ r \notin wallet.claimed
                     THEN [golden EXCEPT !.effect = [kind |-> "frenzy", until |-> clock + BoostFor, times |-> 2]]
                     ELSE golden
        /\ supplies' = IF r = "raid_supplies" /\ r \notin wallet.claimed
                       THEN [supplies EXCEPT !.stock["whack_pass"] = @ + 1] ELSE supplies
  BY DEF LuckyDraw
<1>3. WalletFits(wallet') /\ wallet'.awards = wallet.awards /\ wallet'.claimed = wallet.claimed \cup {r}
  <2>1. r \in Rewards
    BY DEF DrawPool
  <2>2. wallet.balance >= 1
    BY DEF LuckyDraw
  <2> QED BY <1>1, <1>2, <2>1, <2>2, DrawnFits
<1>4. jar' \in Jar
  <2>1. (IF r \in wallet.claimed THEN 0 ELSE BundleOf(r)) \in Nat
    BY MinigamesAssumption DEF BundleOf
  <2> QED BY <1>1, <1>2, <2>1, JarKept
<1>5. GoldenFits(golden', clock, wallet.awards)
  <2> DEFINE boost == [kind |-> "frenzy", until |-> clock + BoostFor, times |-> 2]
  <2>1. boost \in Effect
    BY <1>1, GoldenAssumption DEF Effect
  <2> HIDE DEF boost
  <2>2. CASE golden' = golden
    BY <1>1, <2>2
  <2>3. CASE golden' = [golden EXCEPT !.effect = boost]
    <3>1. /\ golden' \in Golden /\ golden'.spawned = golden.spawned /\ golden'.at = golden.at /\ golden'.next = golden.next
      BY <1>1, <2>1, <2>3 DEF GoldenFits, Golden
    <3> QED BY <1>1, <3>1 DEF GoldenFits
  <2> QED BY <1>2, <2>2, <2>3 DEF boost
<1>6. SuppliesFit(supplies', wallet'.claimed)
  <2>1. CASE r = "raid_supplies" /\ r \notin wallet.claimed
    BY <1>1, <1>2, <1>3, <2>1, GiftFits
  <2>2. CASE ~(r = "raid_supplies" /\ r \notin wallet.claimed)
    <3>1. supplies' = supplies /\ wallet.claimed \subseteq wallet'.claimed
      BY <1>2, <1>3, <2>2
    <3> QED BY <1>1, <3>1, MoreClaimedFits
  <2> QED BY <2>1, <2>2
<1>7. UNCHANGED <<clock, achieved, events, games>>
  BY DEF LuckyDraw
<1> QED BY <1>3, <1>4, <1>5, <1>6, <1>7

-----------------------------------------------------------------------------
(* Time passes: a tick, or a night the game was closed.                    *)
LEMMA GamesTickFits ==
  ASSUME DOMAIN games = {"active", "completed", "schedule"}, NEW now, NEW j, NEW taken, GamesTick(now, j, taken)
  PROVE  /\ DOMAIN games' = {"active", "completed", "schedule"}
         /\ taken \/ OccupiesStage(games.active) => games'.active = games.active
<1>1. CASE ~MinigamesUnlocked(j)
  BY <1>1 DEF GamesTick
<1>2. CASE MinigamesUnlocked(j)
  <2>1. PICK seeded :
          IF taken \/ OccupiesStage(games.active) \/ now < seeded
          THEN games' = [games EXCEPT !.schedule = seeded]
          ELSE \E id \in MinigameIds, d \in GameDelays : games' = Started(games, id, now + d)
    BY <1>2 DEF GamesTick
  <2>2. CASE games' = [games EXCEPT !.schedule = seeded]
    BY <2>2
  <2>3. CASE ~taken /\ ~OccupiesStage(games.active) /\ \E id, s : games' = Started(games, id, s)
    BY <2>3 DEF Started
  <2> QED BY <2>1, <2>2, <2>3
<1> QED BY <1>1, <1>2

LEMMA TickStep ==
  ASSUME StageInv, NEW k \in Steps, NEW hidden \in BOOLEAN, Tick(k, hidden)
  PROVE  StageInv' /\ Rested(clock')
<1> DEFINE j == Earned(jar, k * Rate)
<1>1. /\ clock \in Nat /\ jar \in Jar /\ WalletFits(wallet) /\ GoldenFits(golden, clock, wallet.awards)
      /\ SuppliesFit(supplies, wallet.claimed) /\ EventsFit(events) /\ achieved \subseteq Milestones
      /\ DOMAIN games = {"active", "completed", "schedule"}
  BY DEF StageInv
<1>2. k \in Nat /\ Rate \in Nat /\ k * Rate \in Nat
  BY StageAssumption, CounterAssumption
<1>3. clock' \in Nat /\ clock' = clock + k /\ clock' >= clock
  BY <1>1, <1>2 DEF Tick
<1>4. GoldenFits(golden', clock', wallet.awards)
  BY <1>1, <1>3, GoldenTickFits DEF Tick
<1>5. golden' \in Golden /\ j \in Jar
  BY <1>1, <1>2, <1>4, JarKept DEF GoldenFits
<1>6. EventsTick(clock', j, 0, golden'.spawned \/ OccupiesStage(games.active), hidden)
  BY DEF Tick
<1> HIDE DEF j
<1>7. EventsGood(clock', wallet.claimed)
  BY <1>1, <1>3, <1>5, <1>6, EventsTickFits
<1>8. OtherAwards(wallet, wallet') /\ achieved' \subseteq Milestones
  <2>1. WithAchievements(wallet, jar')
    BY DEF Tick
  <2> QED BY <1>1, <2>1, MilestonesFit DEF OtherAwards
<1>9. GoldenFits(golden', clock', wallet'.awards)
  BY <1>4, <1>8, FewerAwardsFit DEF OtherAwards
<1>10. DOMAIN games' = {"active", "completed", "schedule"}
  BY <1>1, GamesTickFits DEF Tick
<1> QED BY <1>3, <1>7, <1>8, <1>9, <1>10 DEF StageInv, EventsGood, OtherAwards

LEMMA ReopenStep ==
  ASSUME StageInv, NEW k \in Absences, Reopen(k)
  PROVE  StageInv' /\ Rested(clock')
<1>1. /\ clock \in Nat /\ jar \in Jar /\ WalletFits(wallet) /\ GoldenFits(golden, clock, wallet.awards)
      /\ SuppliesFit(supplies, wallet.claimed) /\ EventsFit(events) /\ achieved \subseteq Milestones
      /\ DOMAIN games = {"active", "completed", "schedule"}
  BY DEF StageInv
<1>2. k \in Nat /\ Rate \in Nat /\ k * Rate \in Nat
  BY StageAssumption, CounterAssumption
<1>3. clock' \in Nat /\ clock' = clock + k /\ clock' >= clock
  BY <1>1, <1>2 DEF Reopen
<1>4. golden' = golden /\ UNCHANGED <<wallet, games>> /\ achieved' = achieved \cup Reached(jar')
  BY DEF Reopen
<1>5. GoldenFits(golden, clock', wallet.awards) /\ golden' \in Golden
  BY <1>1, <1>3, <1>4, WaitingFits DEF GoldenFits
<1>6. EventsGood(clock', wallet.claimed)
  <2>1. EventsSettle(clock', jar, k * Rate) \/ EventsBlocked(jar, k * Rate)
    BY DEF Reopen
  <2>2. CASE EventsSettle(clock', jar, k * Rate)
    BY <1>1, <1>2, <1>3, <1>5, <2>2, SettleFits
  <2>3. CASE EventsBlocked(jar, k * Rate)
    BY <1>1, <1>2, <1>3, <2>3, BlockedFits
  <2> QED BY <2>1, <2>2, <2>3
<1>7. achieved' \subseteq Milestones
  BY <1>1, <1>4 DEF Reached
<1> QED BY <1>1, <1>3, <1>4, <1>5, <1>6, <1>7 DEF StageInv, EventsGood

-----------------------------------------------------------------------------
(* The invariant holds at first and is kept by every step.                 *)
LEMMA StartFits == Init => StageInv
<1> SUFFICES ASSUME Init PROVE StageInv
  OBVIOUS
<1>1. PICK save \in Saves :
        /\ clock = save.clock
        /\ jar = [cookies |-> save.cookies, baked |-> save.baked]
        /\ achieved = Reached(jar)
        /\ wallet = [balance |-> 0, awards |-> {}, claimed |-> {}, draws |-> 0]
        /\ golden = Away(NoEffect, save.golden)
        /\ events = [actives |-> <<>>, next |-> save.pool, raidNext |-> save.raid, lastRaid |-> NoRaid]
        /\ supplies = [stock |-> save.stock, bought |-> save.stock, level |-> 0]
        /\ games = [active |-> NoGame, completed |-> {}, schedule |-> save.game]
  BY DEF Init
<1>2. /\ save.clock \in Nat /\ save.cookies \in Nat /\ save.baked \in Nat /\ save.golden \in Nat /\ save.pool \in Nat
      /\ save.raid \in Nat /\ save.stock \in [Consumables -> Nat]
  BY StageAssumption
<1>3. clock \in Nat /\ jar \in Jar /\ achieved \subseteq Milestones
  BY <1>1, <1>2 DEF Jar, Reached
<1>4. WalletFits(wallet)
  <2>1. /\ DOMAIN wallet = {"balance", "awards", "claimed", "draws"}
        /\ wallet.balance = 0 /\ wallet.awards = {} /\ wallet.claimed = {} /\ wallet.draws = 0
    BY <1>1
  <2>2. DOMAIN [k \in wallet.awards |-> Worth(k)] = {}
    BY <2>1
  <2>3. Sum([k \in wallet.awards |-> Worth(k)]) = 0
    BY <2>2, SumOfEmpty
  <2> QED BY <2>1, <2>3, FS_EmptySet DEF WalletFits, AddsUp
<1>5. GoldenFits(golden, clock, wallet.awards)
  <2>1. NoEffect \in Effect
    BY DEF NoEffect, Effect
  <2>2. golden \in Golden /\ ~golden.spawned
    BY <1>1, <1>2, <2>1, AwayIsGolden
  <2> QED BY <1>1, <2>2 DEF GoldenFits
<1>6. EventsFit(events)
  <2>1. /\ DOMAIN events = EventsFields /\ events.next \in Nat /\ events.raidNext \in Nat
        /\ DOMAIN events.actives = {}
    BY <1>1, <1>2 DEF EventsFields
  <2> QED BY <2>1, AloneIsLegal DEF EventsFit, EventsFields
<1>7. SuppliesFit(supplies, wallet.claimed)
  <2>1. /\ DOMAIN supplies = {"stock", "bought", "level"} /\ supplies.stock = save.stock /\ supplies.bought = save.stock
        /\ supplies.level = 0
    BY <1>1
  <2>2. /\ Len(StorageTiers) \in Nat \ {0}
        /\ 0 \in 0..(Len(StorageTiers) - 1)
        /\ StorageCap(0) = StorageTiers[1].cap
        /\ StorageCap(0) \in Nat
    <3>1. Len(StorageTiers) \in Nat \ {0}
      BY CapsAreCaps
    <3>2. 0 \in 0..(Len(StorageTiers) - 1)
      BY <3>1
    <3>3. 0 + 1 = 1
      OBVIOUS
    <3>4. StorageCap(0) = StorageTiers[1].cap
      BY <3>3 DEF StorageCap
    <3> QED BY <3>1, <3>2, <3>4, CapsAreCaps
  <2>3. \A c \in Consumables : save.stock[c] \in Nat /\ save.stock[c] <= StorageCap(0) /\ GiftOf(wallet.claimed, c) \in {0, 1}
    BY <1>2, <2>2, StageAssumption, GiftIsCounted
  <2>4. \A c \in Consumables : /\ supplies.stock[c] <= StorageCap(supplies.level) + GiftOf(wallet.claimed, c)
                               /\ supplies.stock[c] <= supplies.bought[c] + GiftOf(wallet.claimed, c)
    BY <2>1, <2>2, <2>3
  <2> QED BY <1>2, <2>1, <2>2, <2>4 DEF SuppliesFit
<1>8. DOMAIN games = {"active", "completed", "schedule"}
  BY <1>1
<1> QED BY <1>3, <1>4, <1>5, <1>6, <1>7, <1>8 DEF StageInv

LEMMA StepFits == StageInv /\ [Next]_vars => StageInv' /\ Rested(clock')
<1> SUFFICES ASSUME StageInv, [Next]_vars PROVE StageInv' /\ Rested(clock')
  OBVIOUS
<1>1. ASSUME NEW k \in Steps, NEW hidden \in BOOLEAN, Tick(k, hidden) PROVE StageInv' /\ Rested(clock')
  BY <1>1, TickStep
<1>2. ASSUME NEW k \in Absences, Reopen(k) PROVE StageInv' /\ Rested(clock')
  BY <1>2, ReopenStep
<1>3. CASE GoldenNext /\ UNCHANGED <<events, supplies, games>>
  <2>1. Running' = Running
    BY <1>3 DEF Running
  <2> QED BY <1>3, <2>1, GoldenStep DEF StageInv, Rested
<1>4. CASE EventsNext /\ UNCHANGED games
  BY <1>4, EventsStep DEF StageInv, EventsGood
<1>5. CASE GamesNext /\ UNCHANGED <<golden, events, supplies>>
  <2>1. Running' = Running
    BY <1>5 DEF Running
  <2>2. /\ UNCHANGED <<clock, jar, achieved>> /\ OtherAwards(wallet, wallet')
        /\ DOMAIN games' = {"active", "completed", "schedule"}
    BY <1>5, GamesStep
  <2>3. GoldenFits(golden', clock', wallet'.awards)
    BY <1>5, <2>2, FewerAwardsFit DEF StageInv, OtherAwards
  <2> QED BY <1>5, <2>1, <2>2, <2>3 DEF StageInv, Rested, OtherAwards
<1>6. CASE LuckyDraw
  <2>1. Running' = Running
    BY <1>6, LuckyStep DEF Running
  <2> QED BY <1>6, <2>1, LuckyStep DEF StageInv, Rested
<1>7. CASE UNCHANGED vars
  <2>1. Running' = Running
    BY <1>7 DEF Running, vars
  <2> QED BY <1>7, <2>1 DEF StageInv, Rested, vars
<1> QED BY <1>1, <1>2, <1>3, <1>4, <1>5, <1>6, <1>7 DEF Next

-----------------------------------------------------------------------------
(* What always holds.                                                      *)

(* Every state of the stage, however ticks, presses, purchases, nights and draws interleave,   *)
(* satisfies the inductive invariant (the handlers of reducer.ts over random-events.ts).       *)
THEOREM StageInvariant == Spec => []StageInv
<1>1. Init => StageInv
  BY StartFits
<1>2. StageInv /\ [Next]_vars => StageInv'
  BY StepFits
<1> QED BY <1>1, <1>2, PTL DEF Spec

LEMMA InvariantIsTyped == StageInv => TypeOK
BY DEF StageInv, TypeOK, GoldenFits, WalletFits, SuppliesFit, EventsFit, Running

(* The state is what it is declared to be: no field of the jar, the wallet, the cookie, the    *)
(* supplies or the clocks of the events leaves its type (types.ts#GameState).                  *)
THEOREM StageIsTyped == Spec => []TypeOK
<1>1. StageInv => TypeOK
  BY InvariantIsTyped
<1> QED BY <1>1, StageInvariant, PTL

LEMMA InvariantIsLegal == StageInv => StackIsLegal
BY DEF StageInv, EventsFit, Legal, StackIsLegal, Running

(* Whatever the pool holds and the draw picks, no more than three events run, a raid runs      *)
(* alone, and no two setbacks, no two events with targets and no choice run beside another     *)
(* (random-events.ts#canStackWith, #drawRandomEventStack).                                     *)
THEOREM StacksAreLegal == Spec => []StackIsLegal
<1>1. StageInv => StackIsLegal
  BY InvariantIsLegal
<1> QED BY <1>1, StageInvariant, PTL

LEMMA InvariantCountsTargets == StageInv => TargetsAreCountedOnce
<1> SUFFICES ASSUME StageInv, NEW id \in Running
             PROVE  LET e == events.actives[id]
                    IN IF id = "mouse_raid"
                       THEN /\ e.pending = DOMAIN e.mice /\ e.pending # {}
                            /\ \A m \in e.pending : e.mice[m] >= 1
                            /\ e.claimed + Cardinality(e.pending) \in MouseCounts
                            /\ Share(e.pending, e.fat) <= e.share
                       ELSE Catalogue[id].targets > 0 =>
                              e.pending # {} /\ e.claimed + Cardinality(e.pending) = Cardinality(TargetsOf(id))
  BY Zenon DEF TargetsAreCountedOnce
<1> DEFINE e == events.actives[id]
<1>1. EventFits(id, e)
  BY DEF StageInv, EventsFit, Running
<1> HIDE DEF e
<1>2. CASE id = "mouse_raid"
  <2>1. RaidFits(e)
    BY <1>1, <1>2 DEF EventFits
  <2>2. \A m \in e.pending : e.mice[m] >= 1
    BY <2>1 DEF RaidFits
  <2> QED BY <1>2, <2>1, <2>2 DEF RaidFits, e
<1>3. CASE id # "mouse_raid"
  BY <1>1, <1>3 DEF EventFits, TargetsFit, e
<1> QED BY <1>2, <1>3

(* Every target is claimed at most once and every mouse counted once, by any order of clicks,  *)
(* wide whacks, sends back and expiries, for any number of mice and hits                       *)
(* (random-events.ts#clickRandomEventTarget, #whackMice).                                     *)
THEOREM TargetsCountedOnce == Spec => []TargetsAreCountedOnce
<1>1. StageInv => TargetsAreCountedOnce
  BY InvariantCountsTargets
<1> QED BY <1>1, StageInvariant, PTL

LEMMA InvariantPaysForStock == StageInv => StockIsPaidFor
<1>1. \A c : Gifts(c) = GiftOf(wallet.claimed, c)
  BY DEF Gifts, GiftOf
<1> QED BY <1>1 DEF StageInv, SuppliesFit, StockIsPaidFor

(* No shelf holds more than its storage takes or than was bought, but for the one pass a draw  *)
(* gives, whichever raids armed or spent what is on it (reducer.ts#handleBuyRaidConsumable,        *)
(* #handleLuckyChanceDraw).                                                                    *)
THEOREM StockPaidFor == Spec => []StockIsPaidFor
<1>1. StageInv => StockIsPaidFor
  BY InvariantPaysForStock
<1> QED BY <1>1, StageInvariant, PTL

LEMMA InvariantConservesTokens == StageInv => TokensAreConserved
BY DEF StageInv, WalletFits, AddsUp, TokensAreConserved

(* No token appears or vanishes: the balance and the draws are what the awards made are worth, *)
(* each key once, for any set of milestones and any grade (minigames.ts#applyGoldenTokenAward).  *)
THEOREM TokensConserved == Spec => []TokensAreConserved
<1>1. StageInv => TokensAreConserved
  BY InvariantConservesTokens
<1> QED BY <1>1, StageInvariant, PTL

(* One stack is one interruption: whichever way the last event of a stack goes, the pool rests *)
(* for its cooldown, and after a raid the next raid keeps its grace.                           *)
THEOREM StageAlwaysRests == Spec => StageRests
<1>1. StageInv /\ [Next]_vars =>
        [Running # {} /\ Running' = {} =>
           /\ events'.next >= clock' + PoolCooldown
           /\ "mouse_raid" \in Running => events'.raidNext >= clock' + RaidGrace]_vars
  BY StepFits DEF Rested
<1> QED BY <1>1, StageInvariant, PTL DEF Spec, StageRests

-----------------------------------------------------------------------------
(* What a step may never do.                                               *)
LEMMA ClockStands ==
  ASSUME StageInv, [Next]_vars, clock' # clock
  PROVE  (\E k \in Steps, hidden \in BOOLEAN : Tick(k, hidden)) \/ \E k \in Absences : Reopen(k)
<1>1. GoldenNext => clock' = clock
  BY DEF GoldenNext, GoldenCatch, GoldenFlee, GoldenMiss, GoldenHit, GoldenRoundWon, GoldenWon
<1>2. EventsNext => clock' = clock
  BY EventsStep
<1>3. GamesNext => clock' = clock
  BY GamesStep
<1>4. LuckyDraw => clock' = clock
  BY LuckyStep
<1>5. UNCHANGED vars => clock' = clock
  BY DEF vars
<1> QED BY <1>1, <1>2, <1>3, <1>4, <1>5 DEF Next

LEMMA NothingSettlesAlone ==
  ASSUME Running = {}, NEW now, NEW j, NEW later
  PROVE  ~EventsSettle(now, j, later)
BY DEF EventsSettle, RaidEscapes, EventsExpire, EventsRun, Expired

LEMMA StepStartsAlone ==
  ASSUME StageInv, [Next]_vars, clock' > clock, EventStarts \/ BoardStarts
  PROVE  ~golden'.spawned /\ (Running' # {} => ~OccupiesStage(games'.active))
<1>1. DOMAIN games = {"active", "completed", "schedule"} /\ clock' # clock
  BY DEF StageInv
<1>2. ASSUME NEW k \in Steps, NEW hidden \in BOOLEAN, Tick(k, hidden)
      PROVE  ~golden'.spawned /\ (Running' # {} => ~OccupiesStage(games'.active))
  <2>1. golden'.spawned \/ Running' # {} \/ OccupiesStage(games.active) => games'.active = games.active
    BY <1>1, <1>2, GamesTickFits DEF Tick
  <2>2. CASE EventStarts
    <3> DEFINE j == Earned(jar, k * Rate)
               blocked == golden'.spawned \/ OccupiesStage(games.active)
    <3>1. EventsTick(clock', j, 0, blocked, hidden)
      BY <1>2 DEF Tick
    <3> HIDE DEF j, blocked
    <3>2. ~EventsSettle(clock', j, 0)
      BY <2>2, NothingSettlesAlone DEF EventStarts
    <3>3. ~EventsBlocked(j, 0)
      BY <2>2 DEF EventStarts, EventsBlocked, eventVars, Running
    <3>4. ~blocked
      BY <3>1, <3>2, <3>3 DEF EventsTick
    <3> QED BY <2>1, <2>2, <3>4 DEF blocked, EventStarts
  <2>3. CASE BoardStarts
    BY <2>1, <2>3 DEF BoardStarts
  <2> QED BY <2>2, <2>3
<1>3. ASSUME NEW k \in Absences, Reopen(k) PROVE FALSE
  <2>1. games' = games
    BY <1>3 DEF Reopen
  <2>2. EventStarts
    BY <2>1 DEF BoardStarts
  <2>3. ~EventsSettle(clock', jar, k * Rate)
    BY <2>2, NothingSettlesAlone DEF EventStarts
  <2>4. EventsBlocked(jar, k * Rate)
    BY <1>3, <2>3 DEF Reopen
  <2> QED BY <2>2, <2>4 DEF EventStarts, EventsBlocked, eventVars, Running
<1> QED BY <1>1, <1>2, <1>3, ClockStands

(* No tick starts an event, a raid or a board over anything else, a golden cookie that came on *)
(* that very tick included, and no night starts one (reducer.ts#handleTick passes the cookie   *)
(* it just ticked, and the events it just started, to what it ticks next).                     *)
THEOREM NothingStartsOver == Spec => NothingStartsOverAnything
<1>1. StageInv /\ [Next]_vars =>
        [clock' > clock /\ (EventStarts \/ BoardStarts) =>
           /\ ~golden'.spawned
           /\ Running' # {} => ~OccupiesStage(games'.active)]_vars
  BY StepStartsAlone
<1> QED BY <1>1, StageInvariant, PTL DEF Spec, NothingStartsOverAnything

LEMMA RaidTakes ==
  ASSUME EventsFit(events), NEW now, NEW j \in Jar, NEW later \in Nat, RaidEscapes(now, j, later)
  PROVE  /\ events'.lastRaid.stolen \in Nat
         /\ events'.lastRaid.stolen <= (j.cookies * RaidStealPercent) \div 100
         /\ (j.cookies * RaidStealPercent) \div 100 \in Nat
         /\ events'.lastRaid.passSpent => events'.lastRaid.stolen = 0
         /\ jar'.cookies = j.cookies - events'.lastRaid.stolen + later
         /\ jar'.baked = j.baked + later
<1> DEFINE raid == events.actives["mouse_raid"]
           pass == supplies.stock["whack_pass"] > 0
           stolen == IF pass THEN 0 ELSE Theft(j, raid)
           most == (j.cookies * RaidStealPercent) \div 100
<1>1. EventFits("mouse_raid", raid)
  BY DEF RaidEscapes, Expired, EventsFit, Running
<1>2. Theft(j, raid) \in Nat /\ Theft(j, raid) <= j.cookies /\ Theft(j, raid) <= most /\ most \in Nat
  BY <1>1, TheftIsCounted
<1> HIDE DEF raid, most
<1>3. stolen \in Nat /\ stolen <= j.cookies /\ stolen <= most /\ (pass => stolen = 0) /\ j.cookies \in Nat
  BY <1>2 DEF Jar
<1>4. events'.lastRaid.stolen = stolen /\ events'.lastRaid.passSpent = pass
  BY DEF RaidEscapes, RaidOver, Outcome, raid
<1>5. jar' = Earned(Less(j, stolen), later)
  BY DEF RaidEscapes, raid
<1> HIDE DEF stolen, pass
<1>6. /\ jar'.cookies = Less(j, stolen).cookies + later /\ jar'.baked = Less(j, stolen).baked + later
      /\ Less(j, stolen).cookies = j.cookies - stolen /\ Less(j, stolen).baked = j.baked
  <2>1. Less(j, stolen) \in Jar /\ Less(j, stolen).cookies = j.cookies - stolen /\ Less(j, stolen).baked = j.baked
    BY <1>3, JarKept
  <2> QED BY <1>5, <2>1, JarKept
<1> QED BY <1>2, <1>3, <1>4, <1>6 DEF most

(* Only its own escape ends a raid that time ends. *)
LEMMA OnlyEscapesEnd ==
  ASSUME StageInv, NEW now \in Nat, NEW j \in Jar, NEW later \in Nat, golden' \in Golden,
         EventsSettle(now, j, later), "mouse_raid" \in Running, "mouse_raid" \notin Running'
  PROVE  RaidEscapes(now, j, later)
<1>1. EventsFit(events) /\ SuppliesFit(supplies, wallet.claimed)
  BY DEF StageInv
<1>2. ~EventsRun(now, j, later)
  BY <1>1, EventsRunFits
<1>3. ~EventsExpire(now, j, later)
  <2> SUFFICES ASSUME EventsExpire(now, j, later) PROVE FALSE
    OBVIOUS
  <2>1. Running' = Running \ Expired(now)
    BY <1>1, EventsExpireFits
  <2> QED BY <2>1 DEF EventsExpire
<1> QED BY <1>2, <1>3 DEF EventsSettle

LEMMA TimeIsTyped ==
  ASSUME StageInv
  PROVE  /\ \A k \in Steps \cup Absences : k \in Nat /\ k * Rate \in Nat
         /\ clock \in Nat /\ jar \in Jar /\ EventsFit(events) /\ SuppliesFit(supplies, wallet.claimed)
         /\ golden \in Golden
BY StageAssumption, CounterAssumption DEF StageInv, GoldenFits

LEMMA StepStealsWhatItReports ==
  ASSUME StageInv, [Next]_vars, RaidEscaped
  PROVE  TheftReported
<1>1. clock' # clock /\ "mouse_raid" \in Running /\ "mouse_raid" \notin Running'
  BY TimeIsTyped DEF RaidEscaped
<1>2. ASSUME NEW k \in Steps, NEW hidden \in BOOLEAN, Tick(k, hidden) PROVE TheftReported
  <2> DEFINE n == k * Rate
             j == Earned(jar, n)
             blocked == golden'.spawned \/ OccupiesStage(games.active)
  <2>1. k \in Nat /\ n \in Nat /\ clock \in Nat /\ clock' = clock + k /\ jar \in Jar /\ EventsFit(events)
    BY <1>2, TimeIsTyped DEF Tick
  <2>2. golden' \in Golden
    <3>1. StageInv'
      BY <1>2, TickStep
    <3> QED BY <3>1 DEF StageInv, GoldenFits
  <2>3. EventsTick(clock', j, 0, blocked, hidden)
    BY <1>2 DEF Tick
  <2> HIDE DEF n, blocked
  <2>4. j \in Jar /\ j.cookies = jar.cookies + n /\ j.baked = jar.baked + n
    BY <2>1, JarKept
  <2> HIDE DEF j
  <2>5. EventsSettle(clock', j, 0)
    BY <1>1, <2>3 DEF EventsTick, EventsBlocked
  <2>6. RaidEscapes(clock', j, 0)
    BY <1>1, <2>1, <2>2, <2>4, <2>5, OnlyEscapesEnd
  <2>7. /\ events'.lastRaid.stolen \in Nat /\ (events'.lastRaid.passSpent => events'.lastRaid.stolen = 0)
        /\ jar'.cookies = j.cookies - events'.lastRaid.stolen + 0
        /\ jar'.baked = j.baked + 0
    BY <2>1, <2>4, <2>6, RaidTakes
  <2>8. Rate * (clock' - clock) = n
    BY <2>1, CounterAssumption DEF n
  <2> QED BY <2>1, <2>4, <2>7, <2>8 DEF TheftReported, Jar
<1>3. ASSUME NEW k \in Absences, Reopen(k) PROVE TheftReported
  <2> DEFINE n == k * Rate
  <2>1. k \in Nat /\ n \in Nat /\ clock \in Nat /\ clock' = clock + k /\ jar \in Jar /\ EventsFit(events) /\ golden' \in Golden
    BY <1>3, TimeIsTyped DEF Reopen
  <2>2. EventsSettle(clock', jar, n) \/ EventsBlocked(jar, n)
    BY <1>3 DEF Reopen
  <2> HIDE DEF n
  <2>3. RaidEscapes(clock', jar, n)
    BY <1>1, <2>1, <2>2, OnlyEscapesEnd DEF EventsBlocked
  <2>4. /\ events'.lastRaid.stolen \in Nat /\ (events'.lastRaid.passSpent => events'.lastRaid.stolen = 0)
        /\ jar'.cookies = jar.cookies - events'.lastRaid.stolen + n
        /\ jar'.baked = jar.baked + n
    BY <2>1, <2>3, RaidTakes
  <2>5. Rate * (clock' - clock) = n
    BY <2>1, CounterAssumption DEF n
  <2> QED BY <2>1, <2>4, <2>5 DEF TheftReported, Jar
<1> QED BY <1>1, <1>2, <1>3, ClockStands

LEMMA NightIsSpared ==
  ASSUME StageInv, NEW k \in Absences, Reopen(k)
  PROVE  NightSpared(k)
<1> DEFINE n == k * Rate
           most == (jar.cookies * RaidStealPercent) \div 100
<1>1. /\ k \in Nat /\ n \in Nat /\ clock' \in Nat /\ jar \in Jar /\ EventsFit(events) /\ golden' \in Golden
      /\ SuppliesFit(supplies, wallet.claimed)
  BY TimeIsTyped DEF Reopen
<1>2. EventsSettle(clock', jar, n) \/ EventsBlocked(jar, n)
  BY DEF Reopen
<1>3. most \in Nat
  <2>1. jar.cookies * RaidStealPercent \in Nat
    BY <1>1, EventsAssumption DEF Jar
  <2> QED BY <2>1, QuotientIsNat
<1> HIDE DEF n, most
<1>4. ASSUME NEW m \in Nat, m >= n, jar' = Earned(jar, m) PROVE jar'.cookies >= jar.cookies - most + n
  <2>1. jar'.cookies = jar.cookies + m /\ jar.cookies \in Nat
    BY <1>1, <1>4, JarKept DEF Jar
  <2> QED BY <1>1, <1>3, <1>4, <2>1
<1>5. CASE RaidEscapes(clock', jar, n)
  <2>1. events'.lastRaid.stolen \in Nat /\ events'.lastRaid.stolen <= most
        /\ jar'.cookies = jar.cookies - events'.lastRaid.stolen + n
    BY <1>1, <1>5, RaidTakes DEF most
  <2>2. jar.cookies \in Nat
    BY <1>1 DEF Jar
  <2> QED BY <1>1, <1>3, <2>1, <2>2 DEF NightSpared, n, most
<1>6. CASE EventsExpire(clock', jar, n)
  <2>1. \E m \in Nat : m >= n /\ jar' = Earned(jar, m)
    BY <1>1, <1>6, EventsExpireFits
  <2> QED BY <1>4, <2>1 DEF NightSpared, n, most
<1>7. CASE EventsRun(clock', jar, n) \/ EventsBlocked(jar, n)
  <2>1. jar' = Earned(jar, n)
    BY <1>7 DEF EventsRun, EventsBlocked
  <2> QED BY <1>1, <1>4, <2>1 DEF NightSpared, n, most
<1> QED BY <1>2, <1>5, <1>6, <1>7 DEF EventsSettle

(* Mice that escape take exactly what is reported, at most the percentage of the jar they saw, *)
(* and nothing of the night's earnings; a spent pass saves all of it, whatever the mice, their *)
(* hits and the length of the night (reducer.ts#handleTick, #settleExpiredEventsOnLoad).       *)
THEOREM TheftStaysFair == Spec => TheftIsFair
<1>1. StageInv /\ [Next]_vars =>
        [/\ RaidEscaped => TheftReported
         /\ \A k \in Absences : Reopen(k) => NightSpared(k)]_vars
  BY StepStealsWhatItReports, NightIsSpared
<1> QED BY <1>1, StageInvariant, PTL DEF Spec, TheftIsFair

LEMMA WinPays ==
  ASSUME StageInv, GoldenWon
  PROVE  wallet'.balance > wallet.balance
<1> DEFINE keys == {<<"oven", golden.at>>}
           paid == Awarded(wallet, keys, 1)
<1>1. WalletFits(wallet) /\ GoldenFits(golden, clock, wallet.awards) /\ achieved \subseteq Milestones
  BY DEF StageInv
<1>2. golden.spawned /\ golden.at \in Int
  BY <1>1 DEF GoldenWon, GoldenFits, Golden
<1>3. <<"oven", golden.at>> \notin wallet.awards
  BY <1>1, <1>2 DEF GoldenFits
<1>4. IsFiniteSet(keys) /\ Cardinality(keys \ wallet.awards) = 1
  <2>1. keys \ wallet.awards = keys
    BY <1>3
  <2> QED BY <2>1, FS_Singleton
<1>5. \A key \in keys : Worth(key) = 1
  <2>1. <<"oven", golden.at>>[1] = "oven"
    OBVIOUS
  <2> QED BY <2>1 DEF Worth
<1>6. WithAchievements(paid, jar')
  BY DEF GoldenWon
<1> HIDE DEF keys
<1>7. WalletFits(paid)
  BY <1>1, <1>4, <1>5, AwardedFits
<1>8. paid.balance = wallet.balance + 1 * 1 /\ wallet.balance \in Nat
  BY <1>1, <1>4 DEF Awarded, WalletFits
<1> HIDE DEF paid
<1>9. wallet'.balance >= paid.balance /\ wallet'.balance \in Nat
  BY <1>1, <1>6, <1>7, MilestonesFit DEF WalletFits
<1> QED BY <1>8, <1>9

(* Every golden cookie redeemed pays its token: no key is met twice although misses move the   *)
(* time it is made of, because the next cookie comes later than two misses can take back       *)
(* (golden-cookie.ts#pressGoldenDial, reducer.ts#handleGoldenDialPress).                       *)
THEOREM WinsArePaid == Spec => EveryWinIsPaid
<1>1. StageInv /\ [Next]_vars => [GoldenWon => wallet'.balance > wallet.balance]_vars
  BY WinPays
<1> QED BY <1>1, StageInvariant, PTL DEF Spec, EveryWinIsPaid

=============================================================================
