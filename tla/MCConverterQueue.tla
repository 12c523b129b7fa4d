--------------------------- MODULE MCConverterQueue ---------------------------
(* Instances of ConverterQueue for TLC.                                    *)
EXTENDS ConverterQueue, TLC

Symmetry == Permutations(Items) \cup Permutations(Workers)

=============================================================================
