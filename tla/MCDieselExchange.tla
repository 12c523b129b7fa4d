--------------------------- MODULE MCDieselExchange ---------------------------
(* Instances of DieselExchange for TLC.                                    *)
EXTENDS DieselExchange, TLC

Symmetry == Permutations(Calls)

=============================================================================
