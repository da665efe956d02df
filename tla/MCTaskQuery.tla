----------------------------- MODULE MCTaskQuery -----------------------------
(* An instance of TaskQuery for TLC: two tasks of different owners.        *)
EXTENDS TaskQuery, TLC

CONSTANTS t1, t2, o1, o2

MCOwner == t1 :> o1 @@ t2 :> o2
=============================================================================
