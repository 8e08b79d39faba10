------------------------------- MODULE MCContent -------------------------------
(* A small instance of Content for TLC: an empty file, a short and a long one.*)
EXTENDS Content

CONSTANTS v1, v2, v3

MCKinds == {"local", "remote"}
MCVersions == {v1, v2, v3}
MCSizeOf == [v \in MCVersions |-> CASE v = v1 -> 0 [] v = v2 -> 2 [] v = v3 -> 4]
===============================================================================
