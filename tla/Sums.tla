-------------------------------- MODULE Sums --------------------------------
(* Folds of the values of a function with a finite domain: what they add up to, what they make    *)
(* multiplied, and what they leave of a number as percentages of it, one after the other and each *)
(* rounded down.                                                                                  *)
EXTENDS Integers, FiniteSets, FiniteSetsExt

Sum(f) == MapThenSumSet(LAMBDA x : f[x], DOMAIN f)

Product(f) ==
  MapThenFoldSet(LAMBDA x, y : x * y, 1, LAMBDA x : f[x], LAMBDA s : CHOOSE x \in s : TRUE, DOMAIN f)

Scaled(n, f) ==
  MapThenFoldSet(LAMBDA x, y : (y * x) \div 100, n, LAMBDA x : f[x], LAMBDA s : CHOOSE x \in s : TRUE, DOMAIN f)

(* r to the n *)
Power(r, n) == Product([i \in 1..n |-> r])

=============================================================================
