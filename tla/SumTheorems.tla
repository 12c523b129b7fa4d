---------------------------- MODULE SumTheorems ----------------------------
(***************************************************************************)
(* What a fold over a finite set is: that of the community modules is a    *)
(* recursive function on the subsets, taken element by element in an order *)
(* nobody knows.  It is shown to exist, and to depend on no order, by      *)
(* descent: of the subsets that would be counterexamples one is minimal.   *)
(***************************************************************************)
EXTENDS Sums, FiniteSetTheorems, WellFoundedInduction, TLAPS

(* one step of a fold, which combines as op says and begins with n, and the table of its results *)
(* on the subsets of S                                                                           *)
Chosen(s) == CHOOSE x \in s : TRUE
Combined(op, x, y) == IF op = "sum" THEN x + y ELSE IF op = "product" THEN x * y ELSE (y * x) \div 100
Step(op, n, f, h, s) == IF s = {} THEN n ELSE Combined(op, f[Chosen(s)], h[s \ {Chosen(s)}])
Defines(op, n, f, S, h) == h = [s \in SUBSET S |-> Step(op, n, f, h, s)]
Table(op, n, f, S) == CHOOSE h : Defines(op, n, f, S, h)

LEMMA ChosenIsIn ==
  ASSUME NEW s, s # {}
  PROVE  Chosen(s) \in s
BY DEF Chosen

(* A set of subsets of a finite set has a minimal one.                     *)
LEMMA MinimalSubset ==
  ASSUME NEW S, IsFiniteSet(S), NEW B, B \subseteq SUBSET S, B # {}
  PROVE  \E T \in B : \A U \in B : U \subseteq T => U = T
<1>1. IsWellFoundedOn(StrictSubsetOrdering(S), SUBSET S)
  BY FS_StrictSubsetOrderingWellFounded, FS_FiniteSubsetsOfFinite
<1>2. PICK T \in B : \A U \in B : ~ (<<U, T>> \in StrictSubsetOrdering(S))
  BY <1>1, WFMin
<1>3. ASSUME NEW U \in B, U \subseteq T PROVE U = T
  BY <1>2, <1>3 DEF StrictSubsetOrdering
<1> QED BY <1>2, <1>3

(* Two tables agree where both are defined and their functions agree.      *)
LEMMA TablesAgree ==
  ASSUME NEW op, NEW n, NEW f, NEW g, NEW S, NEW T, NEW h, NEW k, Defines(op, n, f, S, h), Defines(op, n, g, T, k),
         NEW U, U \subseteq S, U \subseteq T, IsFiniteSet(U), \A x \in U : f[x] = g[x]
  PROVE  h[U] = k[U]
<1> DEFINE Bad == {V \in SUBSET U : h[V] # k[V]}
<1>1. ASSUME Bad # {} PROVE FALSE
  <2>1. PICK V \in Bad : \A W \in Bad : W \subseteq V => W = V
    <3>1. Bad \subseteq SUBSET U
      OBVIOUS
    <3> HIDE DEF Bad
    <3> QED BY <1>1, <3>1, MinimalSubset
  <2>2. V \subseteq U /\ V \subseteq S /\ V \subseteq T
    OBVIOUS
  <2>3. h[V] = Step(op, n, f, h, V) /\ k[V] = Step(op, n, g, k, V)
    BY <2>2 DEF Defines
  <2>4. V # {}
    BY <2>3 DEF Step
  <2>5. Chosen(V) \in V
    BY <2>4, ChosenIsIn
  <2>6. V \ {Chosen(V)} \notin Bad
    BY <2>1, <2>5
  <2>7. h[V \ {Chosen(V)}] = k[V \ {Chosen(V)}]
    BY <2>2, <2>6
  <2> QED BY <2>2, <2>3, <2>4, <2>5, <2>7 DEF Step
<1> QED BY <1>1

(* A fold over a finite set has a table.                                   *)
LEMMA TableExists ==
  ASSUME NEW op, NEW n, NEW f, NEW S, IsFiniteSet(S)
  PROVE  Defines(op, n, f, S, Table(op, n, f, S))
<1> DEFINE Bad == {T \in SUBSET S : ~ Defines(op, n, f, T, Table(op, n, f, T))}
<1>1. ASSUME Bad # {} PROVE FALSE
  <2>1. PICK T \in Bad : \A W \in Bad : W \subseteq T => W = T
    <3>1. Bad \subseteq SUBSET S
      OBVIOUS
    <3> HIDE DEF Bad
    <3> QED BY <1>1, <3>1, MinimalSubset
  <2> DEFINE Rest(s) == s \ {Chosen(s)}
             h == [s \in SUBSET T |-> IF s = {} THEN n ELSE Combined(op, f[Chosen(s)], Table(op, n, f, Rest(s))[Rest(s)])]
  <2>2. ASSUME NEW u \in SUBSET T, u # T PROVE Defines(op, n, f, u, Table(op, n, f, u))
    BY <2>1, <2>2
  <2>3. ASSUME NEW u \in SUBSET T, u # T PROVE h[u] = Table(op, n, f, u)[u]
    <3>1. Table(op, n, f, u)[u] = Step(op, n, f, Table(op, n, f, u), u)
      BY <2>2, <2>3 DEF Defines
    <3>2. CASE u = {}
      BY <3>1, <3>2 DEF Step
    <3>3. CASE u # {}
      <4>1. Chosen(u) \in u /\ Rest(u) \subseteq u /\ Rest(u) \in SUBSET T /\ Rest(u) # T
        BY <3>3, ChosenIsIn
      <4>2. IsFiniteSet(Rest(u))
        BY <4>1, FS_Subset
      <4>3. Table(op, n, f, u)[Rest(u)] = Table(op, n, f, Rest(u))[Rest(u)]
        <5>1. Defines(op, n, f, u, Table(op, n, f, u)) /\ Defines(op, n, f, Rest(u), Table(op, n, f, Rest(u)))
          BY <2>2, <2>3, <4>1
        <5> HIDE DEF Rest
        <5> QED BY <5>1, <4>1, <4>2, TablesAgree
      <4> QED BY <3>1, <3>3, <4>3 DEF Step
    <3> QED BY <3>2, <3>3
  <2>4. Defines(op, n, f, T, h)
    <3>1. ASSUME NEW s \in SUBSET T PROVE h[s] = Step(op, n, f, h, s)
      <4>1. CASE s = {}
        BY <4>1 DEF Step
      <4>2. CASE s # {}
        <5>1. Rest(s) \in SUBSET T /\ Rest(s) # T
          BY <4>2, ChosenIsIn
        <5>2. h[Rest(s)] = Table(op, n, f, Rest(s))[Rest(s)]
          BY <2>3, <5>1
        <5> QED BY <4>2, <5>2 DEF Step
      <4> QED BY <4>1, <4>2
    <3> HIDE DEF h
    <3>2. h = [s \in SUBSET T |-> h[s]]
      BY DEF h
    <3> QED BY <3>1, <3>2 DEF Defines
  <2>5. Defines(op, n, f, T, Table(op, n, f, T))
    BY <2>4 DEF Table
  <2> QED BY <2>1, <2>5
<1> QED BY <1>1

-----------------------------------------------------------------------------
(* An entry of the table, from its parts.                                  *)
LEMMA TableOfEmpty ==
  ASSUME NEW op, NEW n, NEW f, NEW S, NEW h, Defines(op, n, f, S, h)
  PROVE  h[{}] = n
BY DEF Defines, Step

LEMMA TableOfMore ==
  ASSUME NEW op, NEW n, NEW f, NEW S, NEW h, Defines(op, n, f, S, h), NEW U, U \subseteq S, U # {}
  PROVE  h[U] = Combined(op, f[Chosen(U)], h[U \ {Chosen(U)}])
BY DEF Defines, Step

(* A fold stays in every set that it does not lead out of.                 *)
Closed(op, f, A) == \A x \in DOMAIN f, y \in A : Combined(op, f[x], y) \in A

LEMMA TableIsTyped ==
  ASSUME NEW op, NEW n, NEW f, NEW h, Defines(op, n, f, DOMAIN f, h), IsFiniteSet(DOMAIN f),
         NEW A, n \in A, Closed(op, f, A), NEW U, U \subseteq DOMAIN f
  PROVE  h[U] \in A
<1> DEFINE S == DOMAIN f
           Bad == {V \in SUBSET S : h[V] \notin A}
<1>1. ASSUME Bad # {} PROVE FALSE
  <2>1. PICK V \in Bad : \A W \in Bad : W \subseteq V => W = V
    <3>1. Bad \subseteq SUBSET S
      OBVIOUS
    <3> HIDE DEF Bad
    <3> QED BY <1>1, <3>1, MinimalSubset
  <2>2. V # {}
    BY <2>1, TableOfEmpty
  <2>3. Chosen(V) \in V /\ V \ {Chosen(V)} \subseteq S /\ V \ {Chosen(V)} # V
    BY <2>1, <2>2, ChosenIsIn
  <2>4. h[V \ {Chosen(V)}] \in A
    BY <2>1, <2>3
  <2>5. h[V] = Combined(op, f[Chosen(V)], h[V \ {Chosen(V)}])
    BY <2>1, <2>2, TableOfMore
  <2>6. Combined(op, f[Chosen(V)], h[V \ {Chosen(V)}]) \in A
    BY <2>1, <2>3, <2>4 DEF Closed
  <2> QED BY <2>1, <2>5, <2>6
<1> QED BY <1>1

(* Where the order does not matter any element may be taken first.         *)
Commutes(op, f, A) ==
  \A x, y \in DOMAIN f, w \in A : Combined(op, f[x], Combined(op, f[y], w)) = Combined(op, f[y], Combined(op, f[x], w))

LEMMA AnyFirst ==
  ASSUME NEW op, NEW n, NEW f, NEW h, Defines(op, n, f, DOMAIN f, h), IsFiniteSet(DOMAIN f),
         NEW A, n \in A, Closed(op, f, A), Commutes(op, f, A),
         NEW U, U \subseteq DOMAIN f, NEW x \in U
  PROVE  h[U] = Combined(op, f[x], h[U \ {x}])
<1> DEFINE S == DOMAIN f
           First(V, y) == h[V] = Combined(op, f[y], h[V \ {y}])
           Bad == {V \in SUBSET S : \E y \in V : ~ First(V, y)}
<1>1. ASSUME Bad # {} PROVE FALSE
  <2>1. PICK V \in Bad : \A W \in Bad : W \subseteq V => W = V
    <3>1. Bad \subseteq SUBSET S
      OBVIOUS
    <3> HIDE DEF Bad
    <3> QED BY <1>1, <3>1, MinimalSubset
  <2>2. PICK y \in V : ~ First(V, y)
    BY <2>1
  <2>a. V \in SUBSET S
    BY <2>1
  <2> DEFINE c == Chosen(V)
  <2>3. c \in V
    BY <2>2, ChosenIsIn
  <2> HIDE DEF c
  <2>4. First(V, c)
    BY <2>1, <2>2, TableOfMore DEF c
  <2>5. c # y
    BY <2>2, <2>4
  <2>11. ASSUME NEW W \in SUBSET S, W \subseteq V, W # V, NEW z \in W PROVE First(W, z)
    BY <2>1, <2>11
  <2> HIDE DEF First, Bad
  <2>6. First(V \ {c}, y)
    <3>1. V \ {c} \in SUBSET S /\ V \ {c} # V /\ y \in V \ {c}
      BY <2>a, <2>2, <2>3, <2>5
    <3> QED BY <2>11, <3>1
  <2>7. First(V \ {y}, c)
    <3>1. V \ {y} \in SUBSET S /\ V \ {y} # V /\ c \in V \ {y}
      BY <2>a, <2>2, <2>3, <2>5
    <3> QED BY <2>11, <3>1
  <2>8. (V \ {c}) \ {y} = (V \ {y}) \ {c} /\ (V \ {c}) \ {y} \subseteq S
    BY <2>a
  <2> DEFINE w == h[(V \ {c}) \ {y}]
  <2>9. w \in A
    BY <2>8, TableIsTyped
  <2>12. h[V] = Combined(op, f[c], Combined(op, f[y], w)) /\ h[V \ {y}] = Combined(op, f[c], w)
    BY <2>4, <2>6, <2>7, <2>8 DEF First
  <2> HIDE DEF w
  <2>13. Combined(op, f[c], Combined(op, f[y], w)) = Combined(op, f[y], Combined(op, f[c], w))
    BY <2>a, <2>2, <2>3, <2>9 DEF Commutes
  <2> QED BY <2>2, <2>12, <2>13 DEF First
<1> QED BY <1>1

-----------------------------------------------------------------------------
(* The folds of the module are the last entries of tables.                 *)
LEMMA SumIsTable ==
  ASSUME NEW f, IsFiniteSet(DOMAIN f)
  PROVE  Sum(f) = Table("sum", 0, f, DOMAIN f)[DOMAIN f]
<1> DEFINE S == DOMAIN f
           Entries(h) == h = [s \in SUBSET S |-> IF s = {} THEN 0 ELSE f[Chosen(s)] + h[s \ {Chosen(s)}]]
           t == CHOOSE h : Entries(h)
<1>1. Defines("sum", 0, f, S, Table("sum", 0, f, S))
  BY TableExists
<1>2. Entries(Table("sum", 0, f, S))
  BY <1>1 DEF Defines, Step, Combined
<1>3. Entries(t)
  <2> HIDE DEF Entries
  <2> QED BY <1>2
<1>4. Defines("sum", 0, f, S, t)
  <2> HIDE DEF t
  <2> QED BY <1>3 DEF Defines, Step, Combined
<1>5. Sum(f) = t[S]
  BY DEF Sum, MapThenSumSet, MapThenFoldSet, Chosen
<1> HIDE DEF t, Entries
<1> QED BY <1>1, <1>4, <1>5, TablesAgree

LEMMA ProductIsTable ==
  ASSUME NEW f, IsFiniteSet(DOMAIN f)
  PROVE  Product(f) = Table("product", 1, f, DOMAIN f)[DOMAIN f]
<1> DEFINE S == DOMAIN f
           Entries(h) == h = [s \in SUBSET S |-> IF s = {} THEN 1 ELSE f[Chosen(s)] * h[s \ {Chosen(s)}]]
           t == CHOOSE h : Entries(h)
<1>1. Defines("product", 1, f, S, Table("product", 1, f, S))
  BY TableExists
<1>2. Entries(Table("product", 1, f, S))
  BY <1>1 DEF Defines, Step, Combined
<1>3. Entries(t)
  <2> HIDE DEF Entries
  <2> QED BY <1>2
<1>4. Defines("product", 1, f, S, t)
  <2> HIDE DEF t
  <2> QED BY <1>3 DEF Defines, Step, Combined
<1>5. Product(f) = t[S]
  BY DEF Product, MapThenFoldSet, Chosen
<1> HIDE DEF t, Entries
<1> QED BY <1>1, <1>4, <1>5, TablesAgree

LEMMA ScaledIsTable ==
  ASSUME NEW n, NEW f, IsFiniteSet(DOMAIN f)
  PROVE  Scaled(n, f) = Table("percent", n, f, DOMAIN f)[DOMAIN f]
<1> DEFINE S == DOMAIN f
           Entries(h) ==
             h = [s \in SUBSET S |-> IF s = {} THEN n ELSE (h[s \ {Chosen(s)}] * f[Chosen(s)]) \div 100]
           t == CHOOSE h : Entries(h)
<1>1. Defines("percent", n, f, S, Table("percent", n, f, S))
  BY TableExists
<1>2. Entries(Table("percent", n, f, S))
  BY <1>1 DEF Defines, Step, Combined
<1>3. Entries(t)
  <2> HIDE DEF Entries
  <2> QED BY <1>2
<1>4. Defines("percent", n, f, S, t)
  <2> HIDE DEF t
  <2> QED BY <1>3 DEF Defines, Step, Combined
<1>5. Scaled(n, f) = t[S]
  BY DEF Scaled, MapThenFoldSet, Chosen
<1> HIDE DEF t, Entries
<1> QED BY <1>1, <1>4, <1>5, TablesAgree

-----------------------------------------------------------------------------
(* Two functions with one domain and the same values have one sum; the sum *)
(* of integers is an integer, and of naturals a natural.                   *)
LEMMA SumIsTyped ==
  ASSUME NEW S, IsFiniteSet(S), NEW f \in [S -> Int]
  PROVE  /\ Sum(f) \in Int
         /\ (\A x \in S : f[x] \in Nat) => Sum(f) \in Nat
<1>1. Defines("sum", 0, f, S, Table("sum", 0, f, S)) /\ DOMAIN f = S
  BY TableExists
<1>2. Closed("sum", f, Int) /\ ((\A x \in S : f[x] \in Nat) => Closed("sum", f, Nat))
  BY DEF Closed, Combined
<1> QED BY <1>1, <1>2, SumIsTable, TableIsTyped

LEMMA SumOfZeros ==
  ASSUME NEW S, IsFiniteSet(S), NEW f \in [S -> Int], \A x \in S : f[x] = 0
  PROVE  Sum(f) = 0
<1>1. Defines("sum", 0, f, S, Table("sum", 0, f, S)) /\ DOMAIN f = S
  BY TableExists
<1>2. Closed("sum", f, {0})
  BY DEF Closed, Combined
<1>3. Table("sum", 0, f, S)[S] \in {0}
  BY <1>1, <1>2, TableIsTyped
<1> QED BY <1>1, <1>3, SumIsTable

LEMMA SumOfEmpty ==
  ASSUME NEW f, DOMAIN f = {}
  PROVE  Sum(f) = 0
<1>1. Defines("sum", 0, f, {}, Table("sum", 0, f, {})) /\ IsFiniteSet({})
  BY TableExists, FS_EmptySet
<1> QED BY <1>1, SumIsTable, TableOfEmpty

(* A sum is any one of its terms and the sum of the others.                *)
LEMMA SumWithout ==
  ASSUME NEW S, IsFiniteSet(S), NEW f \in [S -> Int], NEW x \in S,
         NEW g \in [S \ {x} -> Int], \A y \in S \ {x} : g[y] = f[y]
  PROVE  Sum(f) = f[x] + Sum(g)
<1> DEFINE R == S \ {x}
           t == Table("sum", 0, f, S)
           r == Table("sum", 0, g, R)
<1>1. IsFiniteSet(R) /\ DOMAIN f = S /\ DOMAIN g = R
  BY FS_RemoveElement
<1>2. Defines("sum", 0, f, S, t) /\ Defines("sum", 0, g, R, r)
  BY <1>1, TableExists
<1>5. Sum(f) = t[S] /\ Sum(g) = r[R]
  BY <1>1, SumIsTable
<1> HIDE DEF t, r
<1>3. t[S] = f[x] + t[R]
  <2>1. Closed("sum", f, Int) /\ Commutes("sum", f, Int)
    BY DEF Closed, Commutes, Combined
  <2>2. t[S] = Combined("sum", f[x], t[S \ {x}])
    BY <1>1, <1>2, <2>1, AnyFirst
  <2> QED BY <2>2 DEF Combined
<1>4. t[R] = r[R]
  BY <1>1, <1>2, TablesAgree
<1> QED BY <1>3, <1>4, <1>5

(* A sum over one element more.                                            *)
LEMMA SumWith ==
  ASSUME NEW S, IsFiniteSet(S), NEW f \in [S -> Int], NEW x, x \notin S,
         NEW g \in [S \cup {x} -> Int], \A y \in S : g[y] = f[y]
  PROVE  Sum(g) = Sum(f) + g[x]
<1>1. IsFiniteSet(S \cup {x}) /\ (S \cup {x}) \ {x} = S
  BY FS_AddElement
<1>2. Sum(g) = g[x] + Sum(f)
  BY <1>1, SumWithout
<1>3. Sum(f) \in Int /\ g[x] \in Int
  BY SumIsTyped
<1> QED BY <1>2, <1>3

(* A sum of which one term is changed.                                     *)
LEMMA SumChanged ==
  ASSUME NEW S, IsFiniteSet(S), NEW f \in [S -> Int], NEW x \in S,
         NEW g \in [S -> Int], \A y \in S \ {x} : g[y] = f[y]
  PROVE  Sum(g) = Sum(f) + g[x] - f[x]
<1> DEFINE r == [y \in S \ {x} |-> f[y]]
<1>1. r \in [S \ {x} -> Int]
  OBVIOUS
<1>5. \A y \in S \ {x} : r[y] = f[y] /\ r[y] = g[y]
  OBVIOUS
<1> HIDE DEF r
<1>6. Sum(f) = f[x] + Sum(r)
  BY <1>1, <1>5, SumWithout
<1>7. Sum(g) = g[x] + Sum(r)
  BY <1>1, <1>5, SumWithout
<1>2. Sum(f) = f[x] + Sum(r) /\ Sum(g) = g[x] + Sum(r)
  BY <1>6, <1>7
<1>8. IsFiniteSet(S \ {x})
  BY FS_RemoveElement
<1>3. Sum(r) \in Int
  BY <1>1, <1>8, SumIsTyped
<1>4. f[x] \in Int /\ g[x] \in Int
  OBVIOUS
<1> QED BY <1>2, <1>3, <1>4

LEMMA SumLess ==
  ASSUME NEW S, IsFiniteSet(S), NEW f \in [S -> Int], NEW x \in S
  PROVE  Sum(f) = Sum([y \in S \ {x} |-> f[y]]) + f[x]
<1> DEFINE g == [y \in S \ {x} |-> f[y]]
<1>1. g \in [S \ {x} -> Int] /\ \A y \in S \ {x} : g[y] = f[y]
  OBVIOUS
<1>2. IsFiniteSet(S \ {x})
  BY FS_RemoveElement
<1> HIDE DEF g
<1>3. Sum(f) = f[x] + Sum(g)
  BY <1>1, SumWithout
<1>4. Sum(g) \in Int /\ f[x] \in Int
  BY <1>1, <1>2, SumIsTyped
<1>5. Sum(f) = Sum(g) + f[x]
  BY <1>3, <1>4
<1> QED BY <1>5 DEF g

(* A sum over more elements, each of which adds the same.                  *)
EachAdds(f, g, T, c) ==
  LET S == DOMAIN f
  IN /\ IsFiniteSet(S) /\ IsFiniteSet(T) /\ S \cap T = {} /\ c \in Int
     /\ f \in [S -> Int] /\ g \in [S \cup T -> Int]
     /\ (\A y \in S : g[y] = f[y]) /\ \A y \in T : g[y] = c

LEMMA SumWithAll ==
  ASSUME NEW f, NEW g, NEW T, NEW c, EachAdds(f, g, T, c)
  PROVE  Sum(g) = Sum(f) + c * Cardinality(T)
<1> DEFINE S == DOMAIN f
<1>0. /\ IsFiniteSet(S) /\ IsFiniteSet(T) /\ S \cap T = {} /\ c \in Int
      /\ f \in [S -> Int] /\ g \in [S \cup T -> Int]
      /\ (\A y \in S : g[y] = f[y]) /\ \A y \in T : g[y] = c
  BY DEF EachAdds
<1> HIDE DEF S
<1> USE <1>0
<1> DEFINE On(V) == [y \in S \cup V |-> g[y]]
           Fine(V) == Sum(On(V)) = Sum(f) + c * Cardinality(V)
           Bad == {V \in SUBSET T : ~ Fine(V)}
<1>1. \A V \in SUBSET T : On(V) \in [S \cup V -> Int] /\ IsFiniteSet(S \cup V) /\ IsFiniteSet(V)
  BY FS_Subset, FS_Union
<1>2. Sum(f) \in Int
  BY SumIsTyped
<1>3. Fine({})
  <2>1. On({}) = f
    OBVIOUS
  <2>2. c * Cardinality({}) = 0
    BY FS_EmptySet
  <2> HIDE DEF On
  <2> QED BY <1>2, <2>1, <2>2
<1>4. ASSUME Bad # {} PROVE FALSE
  <2>1. PICK V \in Bad : \A W \in Bad : W \subseteq V => W = V
    <3>1. Bad \subseteq SUBSET T
      OBVIOUS
    <3> HIDE DEF Bad
    <3> QED BY <1>4, <3>1, MinimalSubset
  <2>2. V \in SUBSET T /\ ~ Fine(V)
    OBVIOUS
  <2>3. V # {}
    BY <1>3, <2>2
  <2>4. PICK x \in V : TRUE
    BY <2>3
  <2> DEFINE W == V \ {x}
  <2>5. W \in SUBSET T /\ Fine(W)
    <3>1. W \in SUBSET T /\ W \subseteq V /\ W # V
      BY <2>2, <2>4
    <3>2. W \notin Bad
      BY <2>1, <3>1
    <3> HIDE DEF Fine, W
    <3> QED BY <3>1, <3>2
  <2> HIDE DEF Fine
  <2>6. Sum(On(V)) = Sum(On(W)) + c
    <3>1. S \cup V = (S \cup W) \cup {x} /\ x \notin S \cup W
      BY <2>2, <2>4
    <3>2. On(V) \in [(S \cup W) \cup {x} -> Int] /\ On(W) \in [S \cup W -> Int] /\ IsFiniteSet(S \cup W)
      BY <1>1, <2>2, <2>5, <3>1
    <3>3. On(V)[x] = c /\ \A y \in S \cup W : On(V)[y] = On(W)[y]
      BY <2>2, <2>4
    <3>4. [y \in (S \cup V) \ {x} |-> On(V)[y]] = On(W)
      BY <2>2, <3>1
    <3>5. On(V) \in [S \cup V -> Int] /\ IsFiniteSet(S \cup V) /\ x \in S \cup V
      BY <1>1, <2>2
    <3> HIDE DEF On, W, Bad
    <3>6. Sum(On(V)) = Sum([y \in (S \cup V) \ {x} |-> On(V)[y]]) + On(V)[x]
      BY ONLY <3>5, SumLess
    <3> QED BY <3>3, <3>4, <3>6
  <2>7. Cardinality(V) = Cardinality(W) + 1 /\ Cardinality(W) \in Nat
    <3>1. IsFiniteSet(W) /\ x \notin W /\ W \cup {x} = V
      BY <1>1, <2>4, <2>5
    <3> HIDE DEF W
    <3> QED BY <3>1, FS_AddElement, FS_CardinalityType
  <2> HIDE DEF W, On
  <2>8. Sum(On(V)) = Sum(f) + c * Cardinality(W) + c
    BY <2>5, <2>6 DEF Fine
  <2>9. c * (Cardinality(W) + 1) = c * Cardinality(W) + c /\ c * Cardinality(W) \in Int
    <3> DEFINE n == Cardinality(W)
    <3>1. n \in Nat /\ c \in Int
      BY <2>7
    <3> HIDE DEF n
    <3>2. c * (n + 1) = c * n + c /\ c * n \in Int
      BY ONLY <3>1
    <3> QED BY <3>2 DEF n
  <2>10. Fine(V)
    BY <1>2, <2>7, <2>8, <2>9 DEF Fine
  <2> QED BY <2>2, <2>10
<1>5. Fine(T)
  BY <1>4
<1>6. On(T) = g
  OBVIOUS
<1> HIDE DEF On
<1> QED BY <1>5, <1>6

(* Values that are each one of those of g, and none of them twice, sum up to no more than g does. *)
EachOnce(f, g, e) ==
  LET S == DOMAIN f
      T == DOMAIN g
  IN /\ IsFiniteSet(S) /\ IsFiniteSet(T)
     /\ f \in [S -> Nat] /\ g \in [T -> Nat] /\ e \in [S -> T]
     /\ (\A x, y \in S : e[x] = e[y] => x = y) /\ \A x \in S : f[x] = g[e[x]]

LEMMA SumOfSome ==
  ASSUME NEW f, NEW g, NEW e, EachOnce(f, g, e)
  PROVE  Sum(f) <= Sum(g)
<1> DEFINE S == DOMAIN f
           T == DOMAIN g
<1>0. /\ IsFiniteSet(S) /\ IsFiniteSet(T)
      /\ f \in [S -> Nat] /\ g \in [T -> Nat] /\ e \in [S -> T]
      /\ (\A x, y \in S : e[x] = e[y] => x = y) /\ \A x \in S : f[x] = g[e[x]]
  BY DEF EachOnce
<1> HIDE DEF S, T
<1> USE <1>0
<1> DEFINE On(V) == [x \in V |-> f[x]]
           Left(V) == T \ {e[x] : x \in V}
           Off(V) == [y \in Left(V) |-> g[y]]
           Fine(V) == Sum(On(V)) + Sum(Off(V)) = Sum(g)
           Bad == {V \in SUBSET S : ~ Fine(V)}
<1>1. ASSUME NEW V \in SUBSET S
      PROVE  /\ IsFiniteSet(V) /\ On(V) \in [V -> Int] /\ On(V) \in [V -> Nat]
             /\ IsFiniteSet(Left(V)) /\ Off(V) \in [Left(V) -> Int] /\ Off(V) \in [Left(V) -> Nat]
  <2>1. IsFiniteSet(V) /\ IsFiniteSet(Left(V))
    BY FS_Subset, FS_Difference
  <2> QED BY <2>1
<1>2. Sum(g) \in Int
  BY SumIsTyped
<1>3. Fine({})
  <2>1. Off({}) = g /\ DOMAIN On({}) = {}
    OBVIOUS
  <2> HIDE DEF On, Off
  <2>2. Sum(On({})) = 0
    BY <2>1, SumOfEmpty
  <2> QED BY <1>2, <2>1, <2>2
<1>4. ASSUME Bad # {} PROVE FALSE
  <2>1. PICK V \in Bad : \A W \in Bad : W \subseteq V => W = V
    <3>1. Bad \subseteq SUBSET S
      OBVIOUS
    <3> HIDE DEF Bad
    <3> QED BY <1>4, <3>1, MinimalSubset
  <2>2. V \in SUBSET S /\ ~ Fine(V)
    OBVIOUS
  <2>3. PICK x \in V : TRUE
    BY <1>3, <2>2
  <2> DEFINE W == V \ {x}
  <2>4. W \in SUBSET S /\ Fine(W)
    <3>1. W \in SUBSET S /\ W \subseteq V /\ W # V
      BY <2>2, <2>3
    <3>2. W \notin Bad
      BY <2>1, <3>1
    <3> HIDE DEF Fine, W
    <3> QED BY <3>1, <3>2
  <2> HIDE DEF Fine
  <2>5. Sum(On(V)) = Sum(On(W)) + f[x]
    <3>1. On(V) \in [V -> Int] /\ IsFiniteSet(V) /\ x \in V
      BY <1>1, <2>2, <2>3
    <3>2. [y \in V \ {x} |-> On(V)[y]] = On(W) /\ On(V)[x] = f[x]
      BY <2>3
    <3> HIDE DEF On, W, Bad
    <3>3. Sum(On(V)) = Sum([y \in V \ {x} |-> On(V)[y]]) + On(V)[x]
      BY ONLY <3>1, SumLess
    <3> QED BY <3>2, <3>3
  <2>6. Sum(Off(W)) = Sum(Off(V)) + f[x]
    <3>1. e[x] \in Left(W) /\ Left(V) = Left(W) \ {e[x]}
      BY <2>2, <2>3
    <3>2. Off(W) \in [Left(W) -> Int] /\ IsFiniteSet(Left(W))
      BY <1>1, <2>4
    <3>3. [y \in Left(W) \ {e[x]} |-> Off(W)[y]] = Off(V) /\ Off(W)[e[x]] = f[x]
      BY <2>2, <2>3, <3>1
    <3> HIDE DEF Off, Left, W, Bad
    <3>4. Sum(Off(W)) = Sum([y \in Left(W) \ {e[x]} |-> Off(W)[y]]) + Off(W)[e[x]]
      BY ONLY <3>1, <3>2, SumLess
    <3> QED BY <3>3, <3>4
  <2>7. Sum(On(W)) \in Int /\ Sum(Off(V)) \in Int /\ Sum(On(V)) \in Int /\ Sum(Off(W)) \in Int /\ f[x] \in Int
    <3>1. /\ On(W) \in [W -> Int] /\ IsFiniteSet(W) /\ On(V) \in [V -> Int] /\ IsFiniteSet(V)
          /\ Off(W) \in [Left(W) -> Int] /\ IsFiniteSet(Left(W)) /\ Off(V) \in [Left(V) -> Int] /\ IsFiniteSet(Left(V))
      BY <1>1, <2>2, <2>4
    <3>2. f[x] \in Int
      BY <2>2, <2>3
    <3> HIDE DEF On, Off, Left, W, Bad
    <3> QED BY <3>1, <3>2, SumIsTyped
  <2> HIDE DEF On, Off, W
  <2>8. Sum(On(V)) + Sum(Off(V)) = Sum(g)
    BY <2>4, <2>5, <2>6, <2>7 DEF Fine
  <2> QED BY <2>2, <2>8 DEF Fine
<1>5. Fine(S)
  BY <1>4
<1>6. Sum(On(S)) \in Nat /\ Sum(Off(S)) \in Nat
  <2>1. /\ IsFiniteSet(S) /\ On(S) \in [S -> Int] /\ \A y \in S : On(S)[y] \in Nat
        /\ IsFiniteSet(Left(S)) /\ Off(S) \in [Left(S) -> Int] /\ \A y \in Left(S) : Off(S)[y] \in Nat
    BY <1>1
  <2> HIDE DEF On, Off, Left
  <2> QED BY <2>1, SumIsTyped
<1>7. On(S) = f
  OBVIOUS
<1> HIDE DEF On, Off
<1> QED BY <1>2, <1>5, <1>6, <1>7


-----------------------------------------------------------------------------
(* A product of positive numbers is one, and is any one of its factors times the others.         *)
Positive == Nat \ {0}

LEMMA ProductIsTyped ==
  ASSUME NEW S, IsFiniteSet(S), NEW f \in [S -> Positive]
  PROVE  Product(f) \in Positive
<1>1. Defines("product", 1, f, S, Table("product", 1, f, S)) /\ DOMAIN f = S
  BY TableExists
<1>2. Closed("product", f, Positive)
  <2>1. \A x, y \in Positive : x * y \in Positive
    BY DEF Positive
  <2> QED BY <2>1 DEF Closed, Combined
<1>3. 1 \in Positive
  BY DEF Positive
<1> QED BY <1>1, <1>2, <1>3, ProductIsTable, TableIsTyped

LEMMA ProductOfNone ==
  ASSUME NEW f, DOMAIN f = {}
  PROVE  Product(f) = 1
<1>1. Defines("product", 1, f, {}, Table("product", 1, f, {})) /\ IsFiniteSet({})
  BY TableExists, FS_EmptySet
<1> QED BY <1>1, ProductIsTable, TableOfEmpty

LEMMA ProductWith ==
  ASSUME NEW S, IsFiniteSet(S), NEW f \in [S -> Positive], NEW x, x \notin S,
         NEW g \in [S \cup {x} -> Positive], \A y \in S : g[y] = f[y]
  PROVE  Product(g) = g[x] * Product(f)
<1> DEFINE T == S \cup {x}
           t == Table("product", 1, g, T)
           r == Table("product", 1, f, S)
<1>1. IsFiniteSet(T) /\ DOMAIN f = S /\ DOMAIN g = T /\ T \ {x} = S /\ x \in T
  BY FS_AddElement
<1>2. Defines("product", 1, g, T, t) /\ Defines("product", 1, f, S, r)
  BY <1>1, TableExists
<1>5. Product(g) = t[T] /\ Product(f) = r[S]
  BY <1>1, ProductIsTable
<1> HIDE DEF t, r, T
<1>3. t[T] = g[x] * t[S]
  <2>1. \A u, v, w \in Positive : u * (v * w) = v * (u * w)
    BY DEF Positive
  <2>2. \A y \in T : g[y] \in Positive
    BY DEF T
  <2>3. \A u, v \in Positive : u * v \in Positive
    BY DEF Positive
  <2>4. Closed("product", g, Positive) /\ Commutes("product", g, Positive) /\ 1 \in Positive
    BY <1>1, <2>1, <2>2, <2>3 DEF Closed, Commutes, Combined, Positive
  <2>5. t[T] = Combined("product", g[x], t[T \ {x}])
    BY <1>1, <1>2, <2>4, AnyFirst
  <2> QED BY <1>1, <2>5 DEF Combined
<1>4. t[S] = r[S]
  BY <1>1, <1>2, TablesAgree
<1> QED BY <1>3, <1>4, <1>5

(* A number scaled by percentages stays a natural.                         *)
LEMMA ScaledIsTyped ==
  ASSUME NEW S, IsFiniteSet(S), NEW f \in [S -> Nat], NEW n \in Nat
  PROVE  Scaled(n, f) \in Nat
<1>1. Defines("percent", n, f, S, Table("percent", n, f, S)) /\ DOMAIN f = S
  BY TableExists
<1>2. Closed("percent", f, Nat)
  <2>1. ASSUME NEW x \in Nat, NEW y \in Nat PROVE (y * x) \div 100 \in Nat
    <3> DEFINE z == y * x
    <3>1. z \in Nat
      OBVIOUS
    <3> HIDE DEF z
    <3> QED BY <3>1
  <2> QED BY <2>1 DEF Closed, Combined
<1> QED BY <1>1, <1>2, ScaledIsTable, TableIsTyped

-----------------------------------------------------------------------------
(* Descent among the naturals.                                             *)
LEMMA LeastNatural ==
  ASSUME NEW B, B \subseteq Nat, B # {}
  PROVE  \E m \in B : \A n \in B : m <= n
<1>1. PICK b \in B : TRUE
  OBVIOUS
<1> DEFINE Low == {m \in B : m <= b}
           C == {1..m : m \in Low}
<1>2. b \in Nat /\ IsFiniteSet(1..b)
  BY <1>1, FS_Interval
<1>3. \A m \in Low : m \in Nat /\ m <= b /\ 1..m \subseteq 1..b
  BY <1>2
<1>4. C \subseteq SUBSET (1..b) /\ C # {}
  BY <1>1, <1>2, <1>3
<1>5. PICK T \in C : \A U \in C : U \subseteq T => U = T
  <2> DEFINE A == 1..b
  <2>1. IsFiniteSet(A) /\ C \subseteq SUBSET A /\ C # {}
    BY <1>2, <1>4
  <2> HIDE DEF C, A
  <2> QED BY ONLY <2>1, MinimalSubset
<1>6. PICK m \in Low : T = 1..m
  BY <1>5
<1>7. ASSUME NEW n \in B PROVE m <= n
  <2>1. CASE n <= b
    <3>1. 1..n \in C /\ n \in Nat /\ m \in Nat
      BY <2>1, <1>3
    <3>2. 1..n \subseteq 1..m => 1..n = 1..m
      BY <1>5, <1>6, <3>1
    <3>3. n < m => 1..n \subseteq 1..m /\ m \in 1..m /\ m \notin 1..n
      BY <3>1
    <3> QED BY <3>1, <3>2, <3>3
  <2>2. CASE ~ (n <= b)
    BY <1>2, <1>3, <2>2
  <2> QED BY <2>1, <2>2
<1> QED BY <1>6, <1>7

(* Powers: none, one more, and so many more.                               *)
LEMMA PowerIsTyped ==
  ASSUME NEW r \in Positive, NEW n \in Nat
  PROVE  Power(r, n) \in Positive
<1>1. IsFiniteSet(1..n) /\ [i \in 1..n |-> r] \in [1..n -> Positive]
  BY FS_Interval
<1> QED BY <1>1, ProductIsTyped DEF Power

LEMMA PowerZero ==
  ASSUME NEW r
  PROVE  Power(r, 0) = 1
BY ProductOfNone DEF Power

LEMMA PowerNext ==
  ASSUME NEW r \in Positive, NEW n \in Nat
  PROVE  Power(r, n + 1) = r * Power(r, n)
<1> DEFINE f == [i \in 1..n |-> r]
           g == [i \in 1..(n + 1) |-> r]
<1>1. IsFiniteSet(1..n) /\ n + 1 \notin 1..n /\ 1..(n + 1) = (1..n) \cup {n + 1}
  BY FS_Interval
<1>2. f \in [1..n -> Positive] /\ g \in [(1..n) \cup {n + 1} -> Positive]
  BY <1>1
<1>3. (\A y \in 1..n : g[y] = f[y]) /\ g[n + 1] = r
  BY <1>1
<1> DEFINE I == 1..n
<1>5. /\ IsFiniteSet(I) /\ n + 1 \notin I /\ f \in [I -> Positive] /\ g \in [I \cup {n + 1} -> Positive]
      /\ \A y \in I : g[y] = f[y]
  BY <1>1, <1>2, <1>3
<1> HIDE DEF f, g, I
<1> DEFINE m == n + 1
<1>6. m \notin I /\ g \in [I \cup {m} -> Positive]
  BY <1>5
<1> HIDE DEF m
<1>4. Product(g) = g[m] * Product(f)
  BY ONLY <1>5, <1>6, ProductWith
<1> QED BY <1>3, <1>4 DEF Power, f, g, m

LEMMA PowerAdds ==
  ASSUME NEW r \in Positive, NEW m \in Nat, NEW n \in Nat
  PROVE  Power(r, m + n) = Power(r, m) * Power(r, n)
<1> DEFINE Bad == {k \in Nat : Power(r, m + k) # Power(r, m) * Power(r, k)}
<1>1. ASSUME Bad # {} PROVE FALSE
  <2>1. PICK k \in Bad : \A l \in Bad : k <= l
    <3>1. Bad \subseteq Nat
      OBVIOUS
    <3> HIDE DEF Bad
    <3> QED BY <1>1, <3>1, LeastNatural
  <2>2. k \in Nat /\ Power(r, m + k) # Power(r, m) * Power(r, k)
    OBVIOUS
  <2>3. k # 0
    <3>1. Power(r, m) \in Nat
      BY PowerIsTyped DEF Positive
    <3> QED BY <2>2, <3>1, PowerZero
  <2> DEFINE l == k - 1
  <2>4. l \in Nat /\ k = l + 1 /\ m + k = (m + l) + 1 /\ m + l \in Nat
    BY <2>2, <2>3
  <2>5. l \notin Bad
    BY <2>1, <2>4
  <2> HIDE DEF l
  <2>6. Power(r, m + l) = Power(r, m) * Power(r, l)
    BY <2>4, <2>5
  <2> DEFINE a == Power(r, m)
             b == Power(r, l)
             c == Power(r, m + l)
  <2>7. a \in Positive /\ b \in Positive /\ c \in Positive
    BY <2>4, PowerIsTyped
  <2>8. Power(r, k) = r * b /\ Power(r, m + k) = r * c
    BY <2>4, PowerNext
  <2>9. Power(r, m + k) # a * Power(r, k) /\ c = a * b
    BY <2>2, <2>6
  <2> HIDE DEF a, b, c
  <2>10. r * (a * b) = a * (r * b)
    BY <2>7 DEF Positive
  <2> QED BY <2>8, <2>9, <2>10
<1> QED BY <1>1

(* The geometric series: prices that grow by r add up to what the closed form says.              *)
LEMMA SeriesIsWhole ==
  ASSUME NEW r \in Positive, NEW n \in Nat
  PROVE  \E k \in Nat : Power(r, n) - 1 = (r - 1) * k
<1> DEFINE Whole(m) == \E k \in Nat : Power(r, m) - 1 = (r - 1) * k
           Bad == {m \in Nat : ~ Whole(m)}
<1>1. ASSUME Bad # {} PROVE FALSE
  <2>1. PICK m \in Bad : \A l \in Bad : m <= l
    <3>1. Bad \subseteq Nat
      OBVIOUS
    <3> HIDE DEF Bad
    <3> QED BY <1>1, <3>1, LeastNatural
  <2>2. m \in Nat /\ ~ Whole(m)
    OBVIOUS
  <2>3. m # 0
    <3>1. 1 - 1 = (r - 1) * 0
      BY DEF Positive
    <3> QED BY <2>2, <3>1, PowerZero
  <2> DEFINE l == m - 1
  <2>4. l \in Nat /\ m = l + 1 /\ l \notin Bad
    BY <2>1, <2>2, <2>3
  <2> HIDE DEF l
  <2>5. PICK k \in Nat : Power(r, l) - 1 = (r - 1) * k
    BY <2>4
  <2>6. Power(r, m) = r * Power(r, l) /\ Power(r, l) \in Nat
    BY <2>4, PowerNext, PowerIsTyped DEF Positive
  <2> DEFINE b == Power(r, l)
  <2>7. b - 1 = (r - 1) * k /\ b \in Nat /\ Power(r, m) = r * b
    BY <2>5, <2>6
  <2> HIDE DEF b
  <2>8. r * b - 1 = (r - 1) * (b + k)
    <3>1. (r - 1) * (b + k) = (r - 1) * b + (r - 1) * k
      BY <2>7 DEF Positive
    <3>2. (r - 1) * b = r * b - b /\ r * b \in Int
      BY <2>7 DEF Positive
    <3> DEFINE u == r * b
               v == (r - 1) * k
               w == (r - 1) * b
    <3>3. (r - 1) * (b + k) = w + v /\ w = u - b /\ b - 1 = v /\ u \in Int
      BY <3>1, <3>2, <2>7
    <3> HIDE DEF u, v, w
    <3>4. u - 1 = w + v
      BY <2>7, <3>3
    <3> QED BY <3>3, <3>4 DEF u
  <2> QED BY <2>2, <2>7, <2>8
<1> QED BY <1>1

(* The library's greatest and least of a finite set of numbers.            *)
LEMMA MaxIsGreatest ==
  ASSUME NEW S, IsFiniteSet(S), S # {}, S \subseteq Int
  PROVE  Max(S) \in S /\ \A y \in S : Max(S) >= y
<1> DEFINE Bounded(V) == \E x \in V : \A y \in V : x >= y
           Bad == {V \in SUBSET S : V # {} /\ ~ Bounded(V)}
<1>1. ASSUME Bad # {} PROVE FALSE
  <2>1. PICK V \in Bad : \A W \in Bad : W \subseteq V => W = V
    <3>1. Bad \subseteq SUBSET S /\ IsFiniteSet(S)
      OBVIOUS
    <3> HIDE DEF Bad, Bounded
    <3> QED BY ONLY <1>1, <3>1, MinimalSubset
  <2>2. V # {} /\ V \subseteq Int /\ ~ Bounded(V) /\ V \subseteq S
    OBVIOUS
  <2>3. PICK x \in V : TRUE
    BY <2>2
  <2> DEFINE W == V \ {x}
  <2>4. CASE W = {}
    BY <2>2, <2>3, <2>4
  <2>5. CASE W # {}
    <3>1. W \notin Bad
      BY <2>1, <2>3
    <3>2. Bounded(W)
      BY <2>2, <2>5, <3>1
    <3>3. PICK w \in W : \A y \in W : w >= y
      BY <3>2
    <3>4. x \in Int /\ w \in Int /\ \A y \in V : y \in Int /\ (y = x \/ w >= y)
      BY <2>2, <2>3, <3>3
    <3>5. \A y \in V : (w >= x => w >= y) /\ (x >= w => x >= y)
      BY <3>4
    <3>6. w >= x \/ x >= w
      BY <3>4
    <3> QED BY <2>2, <2>3, <3>3, <3>5, <3>6
  <2> QED BY <2>4, <2>5
<1>2. Bounded(S)
  BY <1>1
<1> QED BY <1>2 DEF Max

LEMMA MaxOfTwo ==
  ASSUME NEW a \in Int, NEW b \in Int
  PROVE  Max({a, b}) \in Int /\ Max({a, b}) = IF a >= b THEN a ELSE b
<1>1. \A x \in {a, b} : (\A y \in {a, b} : x >= y) <=> x = (IF a >= b THEN a ELSE b)
  OBVIOUS
<1>2. (IF a >= b THEN a ELSE b) \in {a, b}
  OBVIOUS
<1> QED BY <1>1, <1>2 DEF Max

LEMMA MinOfTwo ==
  ASSUME NEW a \in Int, NEW b \in Int
  PROVE  Min({a, b}) \in Int /\ Min({a, b}) = IF a <= b THEN a ELSE b
<1>1. \A x \in {a, b} : (\A y \in {a, b} : x <= y) <=> x = (IF a <= b THEN a ELSE b)
  OBVIOUS
<1>2. (IF a <= b THEN a ELSE b) \in {a, b}
  OBVIOUS
<1> QED BY <1>1, <1>2 DEF Min

=============================================================================
