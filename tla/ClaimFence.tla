----------------------------- MODULE ClaimFence -----------------------------
(***************************************************************************)
(* What the claim fence promises, with nothing of how.  A job goes through *)
(* generations; a verdict (the outcome of an attempt) is recorded only for *)
(* the generation the job is in, and at most once for each generation.  So *)
(* a worker whose claim was superseded can never record one.  JobRuntime   *)
(* is shown to implement this module.                                      *)
(***************************************************************************)
EXTENDS Integers

CONSTANTS Jobs,          \* the job rows
          Generations,   \* the generations a claim can have
          Verdicts       \* the outcomes an attempt can have

VARIABLES generation,    \* the generation a job is in
          verdict        \* the outcome recorded for each generation, or "none"

fenceVars == <<generation, verdict>>

Init ==
    /\ generation = [j \in Jobs |-> 0]
    /\ verdict = [j \in Jobs |-> [g \in Generations |-> "none"]]

\* Some jobs enter their next generation: the older claims are superseded.
Advance(S) ==
    /\ generation' = [j \in Jobs |-> IF j \in S THEN generation[j] + 1
                                     ELSE generation[j]]
    /\ UNCHANGED verdict

\* The holder of the current generation records the outcome of its attempt.
Settle(j, v) ==
    /\ generation[j] \in Generations
    /\ verdict[j][generation[j]] = "none"
    /\ verdict' = [verdict EXCEPT ![j][generation[j]] = v]
    /\ UNCHANGED generation

Next ==
    \/ \E S \in SUBSET Jobs : Advance(S)
    \/ \E j \in Jobs, v \in Verdicts : Settle(j, v)

Spec == Init /\ [][Next]_fenceVars
=============================================================================
