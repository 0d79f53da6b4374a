---------------------------- MODULE BoundedLane ----------------------------
(***************************************************************************)
(* What a lane of bounded size promises, with nothing of how.  A call is   *)
(* turned away, or takes one of the slots, once, and gives it back, once;  *)
(* after that the lane knows it no more.  InferenceQueue and               *)
(* AgentInferScheduler, where several threads may be the one that gives    *)
(* the slot back, are shown to implement this module.                      *)
(***************************************************************************)
EXTENDS Integers

CONSTANTS Calls,   \* the calls made
          Slots    \* how many of them the lane takes at a time

VARIABLES free,    \* the slots nobody has
          inside,  \* the calls that have one
          over     \* the calls that were turned away or have given theirs back

laneVars == <<free, inside, over>>

Init == free = Slots /\ inside = {} /\ over = {}

TurnAway(c) ==
    /\ c \notin inside \cup over
    /\ over' = over \cup {c}
    /\ UNCHANGED <<free, inside>>

Enter(c) ==
    /\ c \notin inside \cup over
    /\ free > 0
    /\ free' = free - 1
    /\ inside' = inside \cup {c}
    /\ UNCHANGED over

Leave(c) ==
    /\ c \in inside
    /\ free' = free + 1
    /\ inside' = inside \ {c}
    /\ over' = over \cup {c}

Next == \E c \in Calls : TurnAway(c) \/ Enter(c) \/ Leave(c)

Spec == Init /\ [][Next]_laneVars
=============================================================================
