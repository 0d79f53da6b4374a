--------------------------- MODULE MCSessionAnalysis ---------------------------
(* A batch keeps its best image, the one with the smallest number.   *)
EXTENDS SessionAnalysis, TLC

MCImages == 1..4
MCUnfit == {4}
MCDull == {3}
Best(S) == {i \in S : ~ \E j \in S : j < i}
ProcSymmetry == Permutations(Procs)
=============================================================================
