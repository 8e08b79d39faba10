---------------------------- MODULE MCUploadCommit ----------------------------
(* UploadCommit on small instances: a file sent twice and another file of the *)
(* same name.                                                                 *)
EXTENDS UploadCommit

CONSTANTS first, again, other, k1, k2, n1

MCRequests == {first, again, other}
MCTwoRequests == {first, other}
MCKeys == {k1, k2}
MCKeyOf == [r \in Requests |-> IF r = other THEN k2 ELSE k1]
MCNames == {n1}
MCNameOf == [r \in Requests |-> n1]

AllKinds == {"local", "webdav", "baidu"}
OnlyLocal == {"local"}
===============================================================================
