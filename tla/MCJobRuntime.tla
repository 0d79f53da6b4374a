---------------------------- MODULE MCJobRuntime ----------------------------
(* Values for the constants of JobRuntime, named for what they exercise. *)
EXTENDS JobRuntime, TLC

CONSTANTS j1, j2, j3, w1, w2, e1, e2

OneEach == (e1 :> w1) @@ (e2 :> w2)        \* two hosts, one process each
Siblings == (e1 :> w1) @@ (e2 :> w1)       \* one host, two pool processes
Single == [w \in Workers |-> 1]
Double == [w \in Workers |-> 2]
SiblingSymmetry == Permutations({e1, e2})   \* sound: the two share their host
Independent == [j \in Jobs |-> NoJob]
Chain == (j1 :> NoJob) @@ (j2 :> j1)       \* two stages in a row
=============================================================================
