--------------------- MODULE AgentInferScheduler_proofs ---------------------
(***************************************************************************)
(* Proofs about AgentInferScheduler, for any number of calls, workers and  *)
(* slots.                                                                  *)
(***************************************************************************)
EXTENDS AgentInferScheduler, FiniteSetTheorems, TLAPS

Outside == {"new", "checked", "rejected", "holding", "numbered"}

\* A call that is not in the lane yet has left no trace there.
CallsInv ==
    \A r \in Requests :
        /\ call[r] \in Outside =>
            /\ r \notin queue /\ r \notin cancelled /\ r \notin started
            /\ r \notin released /\ passed[r] = 0
            /\ \A w \in Workers : job[w] # r
        /\ call[r] = "expiring" => r \in cancelled /\ r \notin started
        /\ call[r] = "expired" => r \in cancelled
        /\ r \in cancelled => call[r] \in {"expiring", "expired"}
        /\ r \in cancelled /\ r \in started => r \in caught
        /\ r \in admitted => r \in started
        /\ call[r] \in {"awaiting", "answered"} => r \in admitted

\* A job is in the heap, in one worker's hands, or settled; a slot given back is that of
\* a job that was run, or that was withdrawn before.
JobsInv ==
    /\ \A r \in Requests :
        /\ r \in queue => r \notin started /\ \A w \in Workers : job[w] # r
        /\ r \in released => r \in started \/ r \in cancelled
    /\ \A w \in Workers :
        /\ job[w] = None <=> phase[w] \in {"top", "get", "off"}
        /\ phase[w] = "took" => job[w] \notin started
        /\ phase[w] \in {"claimed", "running"} =>
            job[w] \in started /\ job[w] \notin released
        /\ phase[w] = "ending" => job[w] \in started \/ job[w] \in cancelled
        /\ \A v \in Workers : job[v] = job[w] /\ job[w] # None => v = w

LaneInv == Shapes /\ CallsInv /\ JobsInv

LEMMA LaneInit == Init => LaneInv
PROOF
  <1> SUFFICES ASSUME Init PROVE LaneInv
      OBVIOUS
  <1>1. Shapes
    <2>1. /\ call \in [Requests -> Calls] /\ ticket \in [Requests -> Nat]
          /\ passed \in [Requests -> Nat]
        BY DEF Init, Calls
    <2>2. phase \in [Workers -> Phases] /\ job \in [Workers -> Requests \cup {None}]
        BY DEF Init, Phases
    <2> QED BY <2>1, <2>2 DEF Init, Shapes
  <1>2. CallsInv
      BY RequestsAssumption DEF Init, CallsInv
  <1>3. JobsInv
      BY RequestsAssumption DEF Init, JobsInv
  <1> QED BY <1>1, <1>2, <1>3 DEF LaneInv

LEMMA ShapesStep == LaneInv /\ [Next]_vars => Shapes'
PROOF
  <1> SUFFICES ASSUME LaneInv, [Next]_vars PROVE Shapes'
      OBVIOUS
  <1> USE DEF LaneInv, Shapes, Advance, Goto, Calls, Ended, Phases, flags, work, history
  <1>1. ASSUME NEW r \in Requests, Number(r) PROVE Shapes'
    <2> DEFINE before == {s \in Requests : call[s] \notin {"new", "checked", "rejected",
                                                           "holding"}}
    <2>1. Cardinality(before) \in Nat
        BY FS_Subset, FS_CardinalityType, RequestsAssumption
    <2>2. ticket' = [ticket EXCEPT ![r] = Cardinality(before)]
        BY <1>1 DEF Number
    <2> HIDE DEF before
    <2> QED BY <1>1, <2>1, <2>2 DEF Number
  <1>2. ASSUME NEW r \in Requests, CallStep(r), ~Number(r) PROVE Shapes'
      BY <1>2 DEF CallStep, CheckStop, Acquire, Refuse, Put, Admitted, TimeOut,
                  AdmittedLate, GiveUp, Expire, Release, Result
  <1>3. ASSUME NEW w \in Workers, WorkerStep(w) PROVE Shapes'
    <2>1. ASSUME NEW r \in Requests, Take(w, r) PROVE Shapes'
        BY <2>1 DEF Take
    <2>2. CASE Claim(w)
      <3>1. job[w] \in Requests
          BY <2>2 DEF Claim, JobsInv
      <3>2. passed' \in [Requests -> Nat]
          BY <2>2 DEF Claim
      <3> QED BY <2>2, <3>1, <3>2 DEF Claim
    <2>3. ASSUME SetAdmitted(w) \/ End(w) \/ (\E ok \in BOOLEAN : Run(w, ok)) PROVE Shapes'
      <3>1. job[w] \in Requests
          BY <2>3 DEF SetAdmitted, End, Run, JobsInv
      <3> QED BY <2>3, <3>1 DEF SetAdmitted, End, Run, Release
    <2>4. CASE LoopTop(w) \/ GetEmpty(w) \/ Skip(w)
        BY <2>4 DEF LoopTop, GetEmpty, Skip
    <2> QED BY <1>3, <2>1, <2>2, <2>3, <2>4 DEF WorkerStep
  <1>4. CASE Stop \/ UNCHANGED vars
      BY <1>4 DEF Stop, vars
  <1> QED BY <1>1, <1>2, <1>3, <1>4 DEF Next

LEMMA LaneStep == LaneInv /\ [Next]_vars => LaneInv'
PROOF
  <1> SUFFICES ASSUME LaneInv, [Next]_vars PROVE CallsInv' /\ JobsInv'
      BY ShapesStep DEF LaneInv
  <1> USE RequestsAssumption
      DEF LaneInv, Shapes, CallsInv, JobsInv, Advance, Goto, Outside, flags, work, history
  <1> DEFINE Goal == CallsInv' /\ JobsInv'
  <1>1. ASSUME NEW r \in Requests,
               \/ CheckStop(r) \/ Acquire(r) \/ Refuse(r) \/ Number(r) \/ TimeOut(r)
               \/ Admitted(r) \/ AdmittedLate(r) \/ Result(r)
        PROVE Goal
    <2>1. /\ UNCHANGED <<queue, flags, work, history>>
          /\ \E to : call' = [call EXCEPT ![r] = to] /\
                \/ call[r] \in {"new", "checked", "holding"} /\ to \in Outside
                \/ call[r] = "waiting" /\ to = "late"
                \/ call[r] \in {"waiting", "late"} /\ to = "awaiting" /\ r \in admitted
                \/ call[r] = "awaiting" /\ to = "answered"
        BY <1>1 DEF CheckStop, Acquire, Refuse, Number, TimeOut, Admitted, AdmittedLate,
                    Result
    <2> QED BY <2>1
  <1>2. ASSUME NEW r \in Requests, Put(r) PROVE Goal
      BY <1>2 DEF Put
  <1>3. ASSUME NEW r \in Requests, GiveUp(r) PROVE Goal
      BY <1>3 DEF GiveUp
  <1>4. ASSUME NEW r \in Requests, Expire(r) PROVE Goal
      BY <1>4 DEF Expire, Release
  <1>5. ASSUME NEW w \in Workers, NEW r \in Requests, Take(w, r) PROVE Goal
      BY <1>5 DEF Take
  <1>6. ASSUME NEW w \in Workers, Claim(w) PROVE Goal
    <2>1. /\ CallsInv'
          BY <1>6 DEF Claim
    <2>2. JobsInv'
          BY <1>6 DEF Claim
    <2> QED BY <2>1, <2>2
  <1>7. ASSUME NEW w \in Workers, LoopTop(w) \/ GetEmpty(w) \/ Skip(w) PROVE Goal
      BY <1>7 DEF LoopTop, GetEmpty, Skip
  <1>8. ASSUME NEW w \in Workers, SetAdmitted(w) PROVE Goal
      BY <1>8 DEF SetAdmitted
  <1>9. ASSUME NEW w \in Workers, NEW ok \in BOOLEAN, Run(w, ok) PROVE Goal
      BY <1>9 DEF Run
  <1>10. ASSUME NEW w \in Workers, End(w) PROVE Goal
      BY <1>10 DEF End, Release
  <1>11. CASE Stop \/ UNCHANGED vars
      BY <1>11 DEF Stop, vars
  <1> QED BY <1>1, <1>2, <1>3, <1>4, <1>5, <1>6, <1>7, <1>8, <1>9, <1>10, <1>11
           DEF Next, CallStep, WorkerStep

\* A call withdrawn before the worker's lock is never run.
THEOREM ExpiredCallsStayDown == Spec => []ExpiredStaysDown
PROOF
  <1>1. LaneInv => ExpiredStaysDown
      BY DEF LaneInv, CallsInv, Shapes, ExpiredStaysDown
  <1> QED BY LaneInit, LaneStep, <1>1, PTL DEF Spec

-----------------------------------------------------------------------------
(* Slots.                                                                  *)

SlotsInv == LaneInv /\ SlotsConserved /\ free \in Nat

LEMMA HoldersFinite ==
    /\ IsFiniteSet(Holders) /\ Cardinality(Holders) \in Nat
    /\ IsFiniteSet(Holders') /\ Cardinality(Holders') \in Nat
PROOF
  <1>1. Holders \subseteq Requests /\ Holders' \subseteq Requests
      BY DEF Holders
  <1> QED BY <1>1, FS_Subset, FS_CardinalityType, RequestsAssumption

LEMMA SlotsInit == Init => SlotsInv
PROOF
  <1> SUFFICES ASSUME Init PROVE SlotsInv
      OBVIOUS
  <1>1. Holders = {}
      BY DEF Init, Holders
  <1> QED BY <1>1, LaneInit, FS_EmptySet, SlotsAssumption DEF SlotsInv, SlotsConserved, Init

\* A call takes a slot, gives its slot back, or neither; free follows.
LEMMA SlotsMove ==
  ASSUME SlotsInv,
         \/ Holders' = Holders /\ free' = free
         \/ \E r \in Requests \ Holders :
                free > 0 /\ Holders' = Holders \cup {r} /\ free' = free - 1
         \/ \E r \in Holders : Holders' = Holders \ {r} /\ free' = free + 1
  PROVE  SlotsConserved' /\ free' \in Nat
PROOF
  <1> USE DEF SlotsInv, SlotsConserved
  <1>1. CASE Holders' = Holders /\ free' = free
      BY <1>1
  <1>2. ASSUME NEW r \in Requests \ Holders,
               free > 0, Holders' = Holders \cup {r}, free' = free - 1
        PROVE SlotsConserved' /\ free' \in Nat
    <2>1. Cardinality(Holders') = Cardinality(Holders) + 1
        BY <1>2, HoldersFinite, FS_AddElement
    <2> QED BY <1>2, <2>1, HoldersFinite, SlotsAssumption
  <1>3. ASSUME NEW r \in Holders, Holders' = Holders \ {r}, free' = free + 1
        PROVE SlotsConserved' /\ free' \in Nat
    <2>1. Cardinality(Holders') = Cardinality(Holders) - 1
        BY <1>3, HoldersFinite, FS_RemoveElement
    <2> QED BY <1>3, <2>1, HoldersFinite, SlotsAssumption
  <1> QED BY <1>1, <1>2, <1>3

LEMMA SlotsStep == SlotsInv /\ [Next]_vars => SlotsInv'
PROOF
  <1> SUFFICES ASSUME SlotsInv, [Next]_vars PROVE SlotsInv'
      OBVIOUS
  <1> USE DEF SlotsInv, LaneInv, Shapes, Advance, Goto, flags, work, history
  <1> DEFINE Kept == Holders' = Holders /\ free' = free
             Taken(r) == /\ r \in Requests \ Holders /\ free > 0
                         /\ Holders' = Holders \cup {r} /\ free' = free - 1
             Given(r) == r \in Holders /\ Holders' = Holders \ {r} /\ free' = free + 1
             Goal == Kept \/ \E r \in Requests : Taken(r) \/ Given(r)
  <1>1. Goal
    <2>1. ASSUME NEW r \in Requests, Acquire(r) PROVE Goal
      <3>1. Taken(r)
          BY <2>1 DEF Acquire, Holders, CallsInv, Outside
      <3> QED BY <3>1
    <2>2. ASSUME NEW r \in Requests, Expire(r) PROVE Goal
      <3>1. Kept \/ Given(r)
          BY <2>2 DEF Expire, Release, Holders
      <3> QED BY <3>1
    <2>3. ASSUME NEW w \in Workers, End(w) PROVE Goal
      <3>1. job[w] \in Requests /\ call[job[w]] \notin {"new", "checked", "rejected"}
          BY <2>3 DEF End, JobsInv, CallsInv, Outside
      <3>2. Kept \/ Given(job[w])
          BY <2>3, <3>1 DEF End, Release, Holders
      <3> QED BY <3>1, <3>2
    <2>4. ASSUME NEW r \in Requests, CallStep(r), ~Acquire(r), ~Expire(r) PROVE Kept
        BY <2>4 DEF CallStep, CheckStop, Refuse, Number, Put, Admitted, TimeOut,
                    AdmittedLate, GiveUp, Result, Holders
    <2>5. ASSUME NEW w \in Workers, WorkerStep(w), ~End(w) PROVE Kept
      <3>1. UNCHANGED <<call, released, free>>
          BY <2>5 DEF WorkerStep, LoopTop, GetEmpty, Take, Claim, Skip, SetAdmitted, Run
      <3> QED BY <3>1 DEF Holders
    <2>6. CASE Stop \/ UNCHANGED vars
        BY <2>6 DEF Stop, vars, Holders
    <2> QED BY <2>1, <2>2, <2>3, <2>4, <2>5, <2>6 DEF Next
  <1>2. SlotsConserved' /\ free' \in Nat
      BY <1>1, SlotsMove
  <1> QED BY <1>2, LaneStep

\* Slots are conserved, whoever gives a job's slot back.
THEOREM SlotsAreConserved == Spec => []SlotsConserved
PROOF
  <1>1. SlotsInv => SlotsConserved
      BY DEF SlotsInv
  <1> QED BY SlotsInit, SlotsStep, <1>1, PTL DEF Spec

\* The semaphore stays within its bounds: its release never raises.
THEOREM LaneTypesHold == Spec => []TypeOK
PROOF
  <1>1. SlotsInv => TypeOK
      BY HoldersFinite, SlotsAssumption DEF SlotsInv, LaneInv, SlotsConserved, TypeOK
  <1> QED BY SlotsInit, SlotsStep, <1>1, PTL DEF Spec

\* Queued and running jobs are never more than the slots.
THEOREM LaneIsBounded == Spec => []LaneBounded
PROOF
  <1>1. SlotsInv => LaneBounded
    <2> SUFFICES ASSUME SlotsInv PROVE LaneBounded
        OBVIOUS
    <2>1. Alive \subseteq Holders
        BY DEF SlotsInv, LaneInv, Shapes, CallsInv, JobsInv, Outside, Alive, Holders
    <2>2. Cardinality(Alive) <= Cardinality(Holders) /\ Cardinality(Alive) \in Nat
        BY <2>1, HoldersFinite, FS_Subset, FS_CardinalityType
    <2> QED BY <2>2, HoldersFinite, SlotsAssumption DEF SlotsInv, SlotsConserved, LaneBounded
  <1> QED BY SlotsInit, SlotsStep, <1>1, PTL DEF Spec

-----------------------------------------------------------------------------
(* The lane implements BoundedLane.                                        *)

LEMMA EntersOrLeaves ==
    ASSUME SlotsInv, [Next]_vars PROVE [Lane!Next]_(Lane!laneVars)
PROOF
  <1> USE DEF SlotsInv, LaneInv, Shapes, Advance, Goto, flags, work, history
  <1> DEFINE Kept == UNCHANGED <<free, Holders, Through>>
             Goal == [Lane!Next]_(Lane!laneVars)
  <1>1. ASSUME NEW r \in Requests, Acquire(r) PROVE Goal
    <2>1. Lane!Enter(r)
        BY <1>1 DEF Acquire, Lane!Enter, Holders, Through, CallsInv, Outside
    <2> QED BY <2>1 DEF Lane!Next
  <1>2. ASSUME NEW r \in Requests, Expire(r) PROVE Goal
    <2>1. Kept \/ Lane!Leave(r)
        BY <1>2 DEF Expire, Release, Holders, Through, Lane!Leave
    <2> QED BY <2>1 DEF Lane!Next, Lane!laneVars
  <1>3. ASSUME NEW w \in Workers, End(w) PROVE Goal
    <2>1. job[w] \in Requests /\ call[job[w]] \notin {"new", "checked", "rejected"}
        BY <1>3 DEF End, JobsInv, CallsInv, Outside
    <2>2. Kept \/ Lane!Leave(job[w])
        BY <1>3, <2>1 DEF End, Release, Holders, Through, Lane!Leave
    <2> QED BY <2>1, <2>2 DEF Lane!Next, Lane!laneVars
  <1>4. ASSUME NEW r \in Requests, CheckStop(r) \/ Refuse(r) PROVE Goal
    <2>1. CASE call' = [call EXCEPT ![r] = "checked"]
      <3>1. Kept
          BY <1>4, <2>1 DEF CheckStop, Refuse, Holders, Through
      <3> QED BY <3>1 DEF Lane!laneVars
    <2>2. CASE call' = [call EXCEPT ![r] = "rejected"]
      <3>1. Lane!TurnAway(r)
          BY <1>4, <2>2 DEF CheckStop, Refuse, Holders, Through, CallsInv, Outside,
             Lane!TurnAway
      <3> QED BY <3>1 DEF Lane!Next
    <2> QED BY <1>4, <2>1, <2>2 DEF CheckStop, Refuse
  <1>5. ASSUME NEW r \in Requests, CallStep(r), ~Acquire(r), ~Expire(r), ~CheckStop(r),
               ~Refuse(r)
        PROVE  Kept
      BY <1>5 DEF CallStep, Number, Put, Admitted, TimeOut, AdmittedLate, GiveUp, Result,
                  Holders, Through
  <1>6. ASSUME NEW w \in Workers, WorkerStep(w), ~End(w) PROVE Kept
    <2>1. UNCHANGED <<call, released, free>>
        BY <1>6 DEF WorkerStep, LoopTop, GetEmpty, Take, Claim, Skip, SetAdmitted, Run
    <2> QED BY <2>1 DEF Holders, Through
  <1>7. CASE Stop \/ UNCHANGED vars
    <2>1. UNCHANGED <<call, released, free>>
        BY <1>7 DEF Stop, vars
    <2> QED BY <2>1 DEF Holders, Through, Lane!laneVars
  <1>8. ASSUME Kept PROVE Goal
      BY <1>8 DEF Lane!laneVars
  <1> HIDE DEF Goal, Kept
  <1> QED BY <1>1, <1>2, <1>3, <1>4, <1>5, <1>6, <1>7, <1>8 DEF Next, Goal

\* A call takes a slot at most once, when there is one, and either the worker or the
\* caller that gave up gives it back, never both.
THEOREM ImplementsLane == Spec => LaneSpec
PROOF
  <1>1. Init => Lane!Init
      BY DEF Init, Lane!Init, Holders, Through
  <1>2. SlotsInv /\ [Next]_vars => [Lane!Next]_(Lane!laneVars)
      BY EntersOrLeaves
  <1> QED BY <1>1, <1>2, SlotsInit, SlotsStep, PTL DEF Spec, LaneSpec, Lane!Spec

-----------------------------------------------------------------------------
(* The order of the heap.  While a call is in it, no worker takes a less   *)
(* urgent one: only those taken before can still be started.               *)

Ahead(r) == {w \in Workers : phase[w] = "took" /\ Priority(job[w]) > Priority(r)}

OrderInv ==
    \A r \in Requests :
        /\ passed[r] <= Cardinality(Workers)
        /\ r \in queue => passed[r] + Cardinality(Ahead(r)) <= Cardinality(Workers)

LEMMA AheadFinite ==
  ASSUME NEW r \in Requests
  PROVE  /\ IsFiniteSet(Ahead(r)) /\ Cardinality(Ahead(r)) \in Nat
         /\ Cardinality(Ahead(r)) <= Cardinality(Workers)
         /\ IsFiniteSet(Ahead(r)') /\ Cardinality(Ahead(r)') \in Nat
         /\ Cardinality(Ahead(r)') <= Cardinality(Workers)
         /\ Cardinality(Workers) \in Nat
PROOF
  <1>1. Ahead(r) \subseteq Workers /\ Ahead(r)' \subseteq Workers
      BY DEF Ahead
  <1> QED BY <1>1, FS_Subset, FS_CardinalityType, WorkersAssumption

\* A step in which the workers ahead of r become no more.
LEMMA AheadShrinks ==
  ASSUME NEW r \in Requests, LaneInv, OrderInv, r \in queue, passed'[r] = passed[r],
         Ahead(r)' \subseteq Ahead(r)
  PROVE  passed'[r] + Cardinality(Ahead(r)') <= Cardinality(Workers)
PROOF
  <1>1. Cardinality(Ahead(r)') <= Cardinality(Ahead(r))
      BY AheadFinite, FS_Subset
  <1> QED BY <1>1, AheadFinite DEF LaneInv, Shapes, OrderInv

LEMMA OrderStep == LaneInv /\ OrderInv /\ [Next]_vars => OrderInv'
PROOF
  <1> SUFFICES ASSUME LaneInv, OrderInv, [Next]_vars PROVE OrderInv'
      OBVIOUS
  <1> DEFINE Goal(r) == /\ passed'[r] <= Cardinality(Workers)
                        /\ r \in queue' => passed'[r] + Cardinality(Ahead(r)')
                                                <= Cardinality(Workers)
  <1>0. SUFFICES ASSUME NEW r \in Requests PROVE Goal(r)
      BY DEF OrderInv
  <1> HIDE DEF Goal
  \* Steps that start nothing and take nothing from the heap.
  <1>1. ASSUME UNCHANGED passed, queue' \subseteq queue, Ahead(r)' \subseteq Ahead(r)
        PROVE Goal(r)
      BY <1>1, AheadShrinks DEF OrderInv, Goal
  <1> USE DEF LaneInv, Shapes, Advance, Goto, flags, work, history
  <1>2. ASSUME NEW s \in Requests, Put(s) PROVE Goal(r)
    <2>1. UNCHANGED <<passed, phase, job>> /\ queue' = queue \cup {s}
        BY <1>2 DEF Put
    <2>2. Ahead(r)' = Ahead(r)
        BY <2>1 DEF Ahead
    <2>3. CASE r = s
      <3>1. passed[r] = 0
          BY <1>2, <2>3 DEF Put, CallsInv, Outside
      <3> QED BY <2>1, <3>1, AheadFinite DEF OrderInv, Goal
    <2>4. CASE r # s
        BY <2>1, <2>2, <2>4, AheadShrinks DEF OrderInv, Goal
    <2> QED BY <2>3, <2>4
  <1>3. ASSUME NEW w \in Workers, Claim(w) PROVE Goal(r)
    <2>1. /\ phase[w] = "took" /\ phase' = [phase EXCEPT ![w] = "claimed"]
          /\ UNCHANGED <<queue, job>>
          /\ passed'[r] = IF r \in queue /\ Priority(r) < Priority(job[w])
                          THEN passed[r] + 1 ELSE passed[r]
        BY <1>3 DEF Claim
    <2>2. CASE r \in queue /\ Priority(r) < Priority(job[w])
      <3>1. w \in Ahead(r) /\ Ahead(r)' = Ahead(r) \ {w}
        <4>1. job[w] \in Requests
            BY <2>1 DEF JobsInv
        <4> QED BY <2>1, <2>2, <4>1, PriorityAssumption DEF Ahead
      <3>2. Cardinality(Ahead(r)') = Cardinality(Ahead(r)) - 1
          BY <3>1, AheadFinite, FS_RemoveElement
      <3>3. passed'[r] = passed[r] + 1 /\ passed[r] \in Nat
          BY <2>1, <2>2
      <3>4. passed[r] + Cardinality(Ahead(r)) <= Cardinality(Workers)
          BY <2>2 DEF OrderInv
      <3> QED BY <3>2, <3>3, <3>4, AheadFinite DEF Goal
    <2>3. CASE ~(r \in queue /\ Priority(r) < Priority(job[w]))
      <3>1. Ahead(r)' \subseteq Ahead(r)
          BY <2>1 DEF Ahead
      <3>2. passed'[r] = passed[r]
          BY <2>1, <2>3
      <3> QED BY <2>1, <3>1, <3>2, AheadShrinks DEF OrderInv, Goal
    <2> QED BY <2>2, <2>3
  <1>4. ASSUME NEW w \in Workers, NEW s \in Requests, Take(w, s) PROVE Goal(r)
    <2>1. CASE r \in queue'
      <3>1. /\ r \in queue \ {s} /\ Before(s, r)
            /\ UNCHANGED passed /\ queue' = queue \ {s}
            /\ job' = [job EXCEPT ![w] = s] /\ phase' = [phase EXCEPT ![w] = "took"]
          BY <1>4, <2>1 DEF Take
      <3>2. ~(Priority(s) > Priority(r))
          BY <3>1, PriorityAssumption DEF Before
      <3>3. Ahead(r)' \subseteq Ahead(r)
          BY <3>1, <3>2 DEF Ahead
      <3> QED BY <1>1, <3>1, <3>3
    <2>2. CASE r \notin queue'
        BY <1>4, <2>2 DEF Take, OrderInv, Goal
    <2> QED BY <2>1, <2>2
  <1>5. ASSUME NEW s \in Requests, CallStep(s), ~Put(s) PROVE Goal(r)
    <2>1. UNCHANGED <<passed, queue, phase, job>>
        BY <1>5 DEF CallStep, CheckStop, Acquire, Refuse, Number, Admitted, TimeOut,
                    AdmittedLate, GiveUp, Expire, Result
    <2> QED BY <1>1, <2>1 DEF Ahead
  <1>6. ASSUME NEW w \in Workers, WorkerStep(w), ~Claim(w),
               ~ \E s \in Requests : Take(w, s)
        PROVE Goal(r)
    <2>1. /\ UNCHANGED <<passed, queue>>
          /\ \A v \in Workers : phase'[v] = "took" => phase[v] = "took" /\ job'[v] = job[v]
        BY <1>6 DEF WorkerStep, LoopTop, GetEmpty, Skip, SetAdmitted, Run, End
    <2> QED BY <1>1, <2>1 DEF Ahead
  <1>7. CASE Stop \/ UNCHANGED vars
    <2>1. UNCHANGED <<passed, queue, phase, job>>
        BY <1>7 DEF Stop, vars
    <2> QED BY <1>1, <2>1 DEF Ahead
  <1> QED BY <1>2, <1>3, <1>4, <1>5, <1>6, <1>7 DEF Next, WorkerStep

\* An urgent call is overtaken by at most one less urgent call per worker.
THEOREM CallsAreOvertakenOnce == Spec => []OvertakenOnce
PROOF
  <1>1. Init => OrderInv
      BY AheadFinite DEF Init, OrderInv
  <1>2. OrderInv => OvertakenOnce
      BY DEF OrderInv, OvertakenOnce
  <1> QED BY LaneInit, LaneStep, <1>1, OrderStep, <1>2, PTL DEF Spec
=============================================================================
