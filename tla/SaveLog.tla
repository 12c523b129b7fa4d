-------------------------------- MODULE SaveLog -------------------------------
(***************************************************************************)
(* What a save history promises: a log of deleted saves that only grows,   *)
(* one save at a time and never the same one twice.                        *)
(***************************************************************************)
EXTENDS Naturals, Sequences

CONSTANT Saves   \* the saves that may be deleted

VARIABLE log

LogTypeOK == log \in Seq(Saves)

LogInit == log = <<>>

Keep(s) ==
    /\ \A i \in DOMAIN log : log[i] # s
    /\ log' = Append(log, s)

LogNext == \E s \in Saves : Keep(s)

LogSpec == LogInit /\ [][LogNext]_log

=============================================================================
