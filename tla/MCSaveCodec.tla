---------------------------- MODULE MCSaveCodec ------------------------------
(* Instances of SaveCodec for TLC: files of some of the versions, and of the    *)
(* last events only one, which the sidecar's layers treat as they treat those   *)
(* that run.                                                                    *)
EXTENDS SaveCodec, TLC

CONSTANT Versions

Init == CodecInit /\ file.version \in Versions /\ written.last \cap Event = {}

Spec == Init /\ [][CodecNext]_codecVars
=============================================================================
