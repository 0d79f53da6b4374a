-------------------------- MODULE Inference_proofs --------------------------
(***************************************************************************)
(* Proofs about a lane of the inference queue, for any number of requests  *)
(* and workers, slots, batch size and grouping of the requests, and about  *)
(* the router its workers call, for any number of threads and threshold.   *)
(***************************************************************************)
EXTENDS InferenceQueue, InferenceRouter, FiniteSetTheorems, TLAPS

\* A worker's hands are empty outside the part of the loop that fills them.
HandsInv ==
    \A w \in Workers :
        /\ phase[w] \in {"top", "get", "off"} => batch[w] = {}
        /\ phase[w] \notin {"collect", "return"} => deferred[w] = {}

\* Only a request that was put into the lane is ever answered.
AnsweredWereSent == \A r \in answered : call[r] = "sent"

HomeInv == Shapes /\ HandsInv /\ AnsweredWereSent /\ OneHome

LEMMA HomeInit == Init => HomeInv
PROOF
  <1> SUFFICES ASSUME Init PROVE HomeInv
      OBVIOUS
  <1>1. Shapes
    <2>1. /\ call \in [Requests -> Calls]
          /\ phase \in [Workers -> Phases]
          /\ result \in [Requests -> Outcomes]
        BY DEF Init, Calls, Phases, Outcomes
    <2>2. /\ batch \in [Workers -> SUBSET Requests]
          /\ deferred \in [Workers -> SUBSET Requests]
          /\ ledger \in [Requests -> {"none", "STARTED", "SUCCEEDED", "FAILED"}]
        BY DEF Init
    <2>3. /\ queue \subseteq Requests /\ answered \subseteq Requests
          /\ ledgerFault \in BOOLEAN /\ stopping \in BOOLEAN /\ contested \in BOOLEAN
          /\ drain \in {"idle", "skipped", "draining", "done"}
        BY DEF Init
    <2> QED BY <2>1, <2>2, <2>3 DEF Shapes
  <1>2. HandsInv /\ AnsweredWereSent /\ OneHome
      BY DEF Init, HandsInv, AnsweredWereSent, OneHome, Held
  <1> QED BY <1>1, <1>2 DEF HomeInv

LEMMA ShapesStep == Shapes /\ [Next]_vars => Shapes'
PROOF
  <1> SUFFICES ASSUME Shapes, [Next]_vars PROVE Shapes'
      OBVIOUS
  <1> USE DEF Shapes, Goto, Advance, callVars, jobVars, workVars, stopVars
  <1>1. ASSUME NEW r \in Requests, CallStep(r) PROVE Shapes'
      BY <1>1 DEF CallStep, TurnAway, PassDoor, Acquire, AdmissionTimeout, BackOut,
                  Admit, Put, Calls
  <1>2. ASSUME NEW w \in Workers,
               \/ LoopTop(w) \/ GetEmpty(w) \/ CloseWindow(w) \/ ReturnedAll(w)
               \/ BatchDone(w)
        PROVE Shapes'
      BY <1>2 DEF LoopTop, GetEmpty, CloseWindow, ReturnedAll, BatchDone, Phases
  <1>3. ASSUME NEW w \in Workers, NEW r \in Requests, NEW tooLate \in BOOLEAN,
               Take(w, r, tooLate) \/ Collect(w, r, tooLate)
        PROVE Shapes'
    <2>1. CASE Take(w, r, tooLate)
        BY <1>3, <2>1 DEF Take, Phases
    <2>2. CASE Collect(w, r, tooLate)
        BY <1>3, <2>2 DEF Collect
    <2> QED BY <1>3, <2>1, <2>2
  <1>4. ASSUME NEW w \in Workers, NEW r \in Requests, PutBack(w, r) \/ Answer(w, r)
        PROVE Shapes'
      BY <1>4 DEF PutBack, Answer
  <1>5. ASSUME NEW w \in Workers, OpenRuns(w) PROVE Shapes'
      BY <1>5 DEF OpenRuns, Phases
  <1>6. ASSUME NEW w \in Workers, NEW some \in SUBSET (batch[w] \cap Ledgered),
               OpenFails(w, some)
        PROVE Shapes'
      BY <1>6 DEF OpenFails, Phases, Outcomes
  <1>7. ASSUME NEW w \in Workers, NEW ok \in SUBSET batch[w],
               NEW written \in SUBSET (batch[w] \cap Ledgered), Infer(w, ok, written)
        PROVE Shapes'
      BY <1>7 DEF Infer, Phases, Outcomes
  <1>8. CASE DrainStep
      BY <1>8 DEF DrainStep, DrainDone, Reject, Outcomes
  <1>9. ASSUME NEW cancelQueued \in BOOLEAN, Shutdown(cancelQueued) PROVE Shapes'
      BY <1>9 DEF Shutdown
  <1>10. CASE UNCHANGED vars
      BY <1>10 DEF vars
  <1> QED BY <1>1, <1>2, <1>3, <1>4, <1>5, <1>6, <1>7, <1>8, <1>9, <1>10
           DEF Next, WorkerStep

\* The steps of a caller, of the shutdown and of a worker, one by one.
LEMMA HomeStep == HomeInv /\ [Next]_vars => HomeInv'
PROOF
  <1> SUFFICES ASSUME HomeInv, [Next]_vars
               PROVE HandsInv' /\ AnsweredWereSent' /\ OneHome'
      BY ShapesStep DEF HomeInv
  <1> USE DEF HomeInv, Shapes, HandsInv, AnsweredWereSent, OneHome, Held, Goto, Advance,
              callVars, jobVars, workVars, stopVars
  <1> DEFINE Goal == HandsInv' /\ AnsweredWereSent' /\ OneHome'
  <1>1. ASSUME NEW r \in Requests, CallStep(r) PROVE Goal
    <2>1. CASE Put(r)
        BY <2>1 DEF Put
    <2>2. CASE ~Put(r)
        BY <1>1, <2>2 DEF CallStep, TurnAway, PassDoor, Acquire, AdmissionTimeout,
                          BackOut, Admit
    <2> QED BY <2>1, <2>2
  <1>2. ASSUME NEW w \in Workers,
               \/ LoopTop(w) \/ GetEmpty(w) \/ CloseWindow(w) \/ ReturnedAll(w)
               \/ BatchDone(w)
        PROVE Goal
      BY <1>2 DEF LoopTop, GetEmpty, CloseWindow, ReturnedAll, BatchDone
  <1>3. ASSUME NEW w \in Workers, NEW r \in Requests, NEW tooLate \in BOOLEAN,
               Take(w, r, tooLate)
        PROVE Goal
      BY <1>3 DEF Take
  <1>4. ASSUME NEW w \in Workers, NEW r \in Requests, NEW tooLate \in BOOLEAN,
               Collect(w, r, tooLate)
        PROVE Goal
      BY <1>4 DEF Collect
  <1>5. ASSUME NEW w \in Workers, NEW r \in Requests, PutBack(w, r) PROVE Goal
      BY <1>5 DEF PutBack
  <1>6. ASSUME NEW w \in Workers, NEW r \in Requests, Answer(w, r) PROVE Goal
      BY <1>6 DEF Answer
  <1>7. ASSUME NEW w \in Workers,
               \/ OpenRuns(w)
               \/ \E some \in SUBSET (batch[w] \cap Ledgered) : OpenFails(w, some)
               \/ \E ok \in SUBSET batch[w], written \in SUBSET (batch[w] \cap Ledgered) :
                    Infer(w, ok, written)
        PROVE Goal
    <2>1. /\ phase[w] \in {"open", "infer"}
          /\ \/ phase' = [phase EXCEPT ![w] = "infer"]
             \/ phase' = [phase EXCEPT ![w] = "answer"]
          /\ UNCHANGED <<call, queue, batch, deferred, answered>>
        BY <1>7 DEF OpenRuns, OpenFails, Infer
    <2> QED BY <2>1
  <1>8. CASE DrainStep
      BY <1>8 DEF DrainStep, DrainDone, Reject
  <1>9. ASSUME NEW cancelQueued \in BOOLEAN, Shutdown(cancelQueued) PROVE Goal
      BY <1>9 DEF Shutdown
  <1>10. CASE UNCHANGED vars
      BY <1>10 DEF vars
  <1> QED BY <1>1, <1>2, <1>3, <1>4, <1>5, <1>6, <1>7, <1>8, <1>9, <1>10
           DEF Next, WorkerStep

-----------------------------------------------------------------------------
(* Slots                                                                   *)

SlotsInv == HomeInv /\ free \in Nat /\ SlotsConserved

LEMMA HoldersFinite == IsFiniteSet(Holders) /\ Cardinality(Holders) \in Nat
PROOF
  <1>1. Holders \subseteq Requests
      BY DEF Holders
  <1> QED BY <1>1, FS_Subset, FS_CardinalityType, RequestsAssumption

LEMMA SlotsInit == Init => SlotsInv
PROOF
  <1> SUFFICES ASSUME Init PROVE SlotsInv
      OBVIOUS
  <1>1. Holders = {}
      BY DEF Init, Holders
  <1> QED BY <1>1, HomeInit, FS_EmptySet, SizeAssumption DEF SlotsInv, SlotsConserved, Init

\* A request takes a slot, gives one back, or neither; free follows.
LEMMA SlotsMove ==
  ASSUME SlotsInv, free' \in Nat,
         \/ Holders' = Holders /\ free' = free
         \/ \E r \in Requests \ Holders : Holders' = Holders \cup {r} /\ free' = free - 1
         \/ \E r \in Holders : Holders' = Holders \ {r} /\ free' = free + 1
  PROVE  SlotsConserved'
PROOF
  <1> USE DEF SlotsInv, SlotsConserved
  <1>1. CASE Holders' = Holders /\ free' = free
      BY <1>1
  <1>2. ASSUME NEW r \in Requests \ Holders, Holders' = Holders \cup {r}, free' = free - 1
        PROVE SlotsConserved'
    <2>1. Cardinality(Holders') = Cardinality(Holders) + 1
        BY <1>2, HoldersFinite, FS_AddElement
    <2> QED BY <1>2, <2>1, HoldersFinite, SizeAssumption
  <1>3. ASSUME NEW r \in Holders, Holders' = Holders \ {r}, free' = free + 1
        PROVE SlotsConserved'
    <2>1. Cardinality(Holders') = Cardinality(Holders) - 1
        BY <1>3, HoldersFinite, FS_RemoveElement
    <2> QED BY <1>3, <2>1, HoldersFinite, SizeAssumption
  <1> QED BY <1>1, <1>2, <1>3

LEMMA SlotsStep == SlotsInv /\ [Next]_vars => SlotsInv'
PROOF
  <1> SUFFICES ASSUME SlotsInv, [Next]_vars PROVE SlotsInv'
      OBVIOUS
  <1> USE DEF SlotsInv, HomeInv, Shapes, Advance, callVars, jobVars, workVars, stopVars
  <1> DEFINE Same == UNCHANGED <<call, answered, free>>
             Taken(r) == r \notin Holders /\ Holders' = Holders \cup {r} /\ free' = free - 1
             Given(r) == r \in Holders /\ Holders' = Holders \ {r} /\ free' = free + 1
             Goal == \/ Holders' = Holders /\ free' = free
                     \/ \E r \in Requests \ Holders :
                            Holders' = Holders \cup {r} /\ free' = free - 1
                     \/ \E r \in Holders : Holders' = Holders \ {r} /\ free' = free + 1
  <1>1. Goal /\ free' \in Nat
    <2>1. ASSUME NEW r \in Requests, Acquire(r) PROVE Goal /\ free' \in Nat
      <3>1. Taken(r)
          BY <2>1 DEF Acquire, Holders
      <3> QED BY <2>1, <3>1 DEF Acquire
    <2>2. ASSUME NEW r \in Requests, BackOut(r) PROVE Goal /\ free' \in Nat
      <3>1. Given(r)
          BY <2>2 DEF BackOut, Holders
      <3> QED BY <3>1
    <2>3. ASSUME NEW w \in Workers, NEW r \in Requests, Answer(w, r)
          PROVE Goal /\ free' \in Nat
      <3>1. Given(r)
          BY <2>3 DEF Answer, Holders, OneHome, Held
      <3> QED BY <3>1
    <2>4. ASSUME NEW r \in Requests, Reject(r) PROVE Goal /\ free' \in Nat
      <3>1. Given(r)
          BY <2>4 DEF Reject, Holders, OneHome
      <3> QED BY <3>1
    <2>5. ASSUME NEW r \in Requests,
                 \/ TurnAway(r) \/ PassDoor(r) \/ AdmissionTimeout(r) \/ Admit(r) \/ Put(r)
          PROVE Goal /\ free' \in Nat
      <3>1. /\ Holders' = Holders
            /\ free' = free
          BY <2>5 DEF TurnAway, PassDoor, AdmissionTimeout, Admit, Put, Holders,
                      AnsweredWereSent
      <3> QED BY <3>1
    <2>6. ASSUME Same PROVE Goal /\ free' \in Nat
        BY <2>6 DEF Holders
    <2>7. ASSUME NEW w \in Workers, WorkerStep(w),
                 \A r \in Requests : ~Answer(w, r)
          PROVE Same
        BY <2>7 DEF WorkerStep, LoopTop, GetEmpty, CloseWindow, ReturnedAll, BatchDone,
                    Take, Collect, PutBack, OpenRuns, OpenFails, Infer
    <2>8. ASSUME DrainDone \/ (\E c \in BOOLEAN : Shutdown(c)) \/ UNCHANGED vars
          PROVE Same
        BY <2>8 DEF DrainDone, Shutdown, vars
    <2> QED BY <2>1, <2>2, <2>3, <2>4, <2>5, <2>6, <2>7, <2>8
             DEF Next, CallStep, DrainStep
  <1>2. HomeInv'
      BY HomeStep
  <1>3. SlotsConserved'
      BY <1>1, SlotsMove
  <1> QED BY <1>1, <1>2, <1>3

\* Slots are conserved, whatever becomes of the requests.
THEOREM SlotsAreConserved == Spec => []SlotsConserved
PROOF
  <1>1. SlotsInv => SlotsConserved
      BY DEF SlotsInv
  <1> QED BY SlotsInit, SlotsStep, <1>1, PTL DEF Spec

\* Every unanswered request is in exactly one place.
THEOREM RequestsHaveOneHome == Spec => []OneHome
PROOF
  <1>1. HomeInv => OneHome
      BY DEF HomeInv
  <1> QED BY HomeInit, HomeStep, <1>1, PTL DEF Spec

\* The semaphore stays within its bounds, so its release never raises.
THEOREM QueueTypesHold == Spec => []TypeOK
PROOF
  <1>1. SlotsInv => TypeOK
      BY HoldersFinite, SizeAssumption DEF SlotsInv, HomeInv, SlotsConserved, TypeOK
  <1> QED BY SlotsInit, SlotsStep, <1>1, PTL DEF Spec

-----------------------------------------------------------------------------
(* The lane implements BoundedLane.                                        *)

LEMMA EntersOrLeaves ==
    ASSUME SlotsInv, [Next]_vars PROVE [Lane!Next]_(Lane!laneVars)
PROOF
  <1> USE DEF SlotsInv, HomeInv, Shapes, Advance, callVars, jobVars, workVars, stopVars
  <1> DEFINE Same == UNCHANGED <<call, answered, free>>
             Goal == [Lane!Next]_(Lane!laneVars)
  <1>1. ASSUME NEW r \in Requests, Acquire(r) PROVE Goal
    <2>1. Lane!Enter(r)
        BY <1>1 DEF Acquire, Lane!Enter, Holders, Through, AnsweredWereSent
    <2> QED BY <2>1 DEF Lane!Next
  <1>2. ASSUME NEW r \in Requests, BackOut(r) PROVE Goal
    <2>1. Lane!Leave(r)
        BY <1>2 DEF BackOut, Lane!Leave, Holders, Through
    <2> QED BY <2>1 DEF Lane!Next
  <1>3. ASSUME NEW w \in Workers, NEW r \in Requests, Answer(w, r) PROVE Goal
    <2>1. Lane!Leave(r)
        BY <1>3 DEF Answer, Lane!Leave, Holders, Through, OneHome, Held
    <2> QED BY <2>1 DEF Lane!Next
  <1>4. ASSUME NEW r \in Requests, Reject(r) PROVE Goal
    <2>1. Lane!Leave(r)
        BY <1>4 DEF Reject, Lane!Leave, Holders, Through, OneHome
    <2> QED BY <2>1 DEF Lane!Next
  <1>5. ASSUME NEW r \in Requests, TurnAway(r) \/ AdmissionTimeout(r) PROVE Goal
    <2>1. Lane!TurnAway(r)
        BY <1>5 DEF TurnAway, AdmissionTimeout, Lane!TurnAway, Holders, Through,
           AnsweredWereSent
    <2> QED BY <2>1 DEF Lane!Next
  <1>6. ASSUME NEW r \in Requests, PassDoor(r) \/ Admit(r) \/ Put(r) PROVE Goal
    <2>1. UNCHANGED <<free, Holders, Through>>
        BY <1>6 DEF PassDoor, Admit, Put, Holders, Through, AnsweredWereSent
    <2> QED BY <2>1 DEF Lane!laneVars
  <1>7. ASSUME Same PROVE Goal
    <2>1. UNCHANGED <<free, Holders, Through>>
        BY <1>7 DEF Holders, Through
    <2> QED BY <2>1 DEF Lane!laneVars
  <1>8. ASSUME NEW w \in Workers, WorkerStep(w), \A r \in Requests : ~Answer(w, r)
        PROVE  Same
      BY <1>8 DEF WorkerStep, LoopTop, GetEmpty, CloseWindow, ReturnedAll, BatchDone,
                  Take, Collect, PutBack, OpenRuns, OpenFails, Infer
  <1>9. ASSUME DrainDone \/ (\E c \in BOOLEAN : Shutdown(c)) \/ UNCHANGED vars
        PROVE  Same
      BY <1>9 DEF DrainDone, Shutdown, vars
  <1> HIDE DEF Goal
  <1> QED BY <1>1, <1>2, <1>3, <1>4, <1>5, <1>6, <1>7, <1>8, <1>9
           DEF Next, CallStep, DrainStep, Goal

\* A request takes a slot at most once, when there is one, and it is given back exactly
\* as often, whoever ends the request.
THEOREM ImplementsLane == Spec => LaneSpec
PROOF
  <1>1. Init => Lane!Init
      BY DEF Init, Lane!Init, Holders, Through
  <1>2. SlotsInv /\ [Next]_vars => [Lane!Next]_(Lane!laneVars)
      BY EntersOrLeaves
  <1> QED BY <1>1, <1>2, SlotsInit, SlotsStep, PTL DEF Spec, LaneSpec, Lane!Spec

-----------------------------------------------------------------------------
(* Shutdown                                                                *)

\* Once the stop flag is up nobody is between the second look at it and the lane,
\* except those that the stop has counted as contested.
DrainInv ==
    /\ drain \in {"draining", "done"} => stopping
    /\ stopping /\ ~contested => \A r \in Requests : call[r] # "admitted"
    /\ DrainedStaysEmpty

LEMMA DrainInvStep == Shapes /\ DrainInv /\ [Next]_vars => DrainInv'
PROOF
  <1> SUFFICES ASSUME Shapes, DrainInv, [Next]_vars PROVE DrainInv'
      OBVIOUS
  <1> USE DEF DrainInv, DrainedStaysEmpty, Shapes, Advance, callVars, jobVars, workVars,
              stopVars
  <1>1. ASSUME NEW r \in Requests, CallStep(r) PROVE DrainInv'
      BY <1>1 DEF CallStep, TurnAway, PassDoor, Acquire, AdmissionTimeout, BackOut,
                  Admit, Put
  <1>2. ASSUME NEW w \in Workers, NEW r \in Requests, PutBack(w, r) PROVE DrainInv'
      BY <1>2 DEF PutBack
  <1>3. ASSUME NEW w \in Workers, WorkerStep(w), \A r \in Requests : ~PutBack(w, r)
        PROVE DrainInv'
    <2>1. queue' \subseteq queue /\ UNCHANGED <<call, stopping, drain, contested>>
        BY <1>3 DEF WorkerStep, LoopTop, GetEmpty, CloseWindow, ReturnedAll, BatchDone,
                    Take, Collect, Answer, OpenRuns, OpenFails, Infer
    <2> QED BY <2>1
  <1>4. CASE DrainStep
      BY <1>4 DEF DrainStep, DrainDone, Reject
  <1>5. ASSUME NEW cancelQueued \in BOOLEAN, Shutdown(cancelQueued) PROVE DrainInv'
      BY <1>5 DEF Shutdown
  <1>6. CASE UNCHANGED vars
      BY <1>6 DEF vars
  <1> QED BY <1>1, <1>2, <1>3, <1>4, <1>5, <1>6 DEF Next

\* A shutdown nobody raced with leaves the lane empty for good.
THEOREM DrainsHold == Spec => []DrainedStaysEmpty
PROOF
  <1>1. Init => Shapes /\ DrainInv
      BY HomeInit DEF HomeInv, Init, DrainInv, DrainedStaysEmpty
  <1>2. Shapes /\ DrainInv /\ [Next]_vars => (Shapes /\ DrainInv)'
      BY ShapesStep, DrainInvStep
  <1>3. DrainInv => DrainedStaysEmpty
      BY DEF DrainInv
  <1> QED BY <1>1, <1>2, <1>3, PTL DEF Spec

-----------------------------------------------------------------------------
(* Ledger                                                                  *)

\* How far the ledger row of a request is, by where the request is.
RowInv ==
    \A r \in Requests :
        /\ call[r] # "sent" \/ r \in queue => ledger[r] = "none"
        /\ \A w \in Workers :
            /\ r \in deferred[w] => ledger[r] = "none"
            /\ r \in batch[w] /\ phase[w] \in {"collect", "return", "open"}
                => ledger[r] = "none"
            /\ r \in batch[w] /\ phase[w] = "infer"
                => ledger[r] = IF r \in Ledgered THEN "STARTED" ELSE "none"
            /\ r \in batch[w] /\ phase[w] = "answer" => Agree(r)
        /\ r \in answered => Agree(r)

LEMMA RowStep == HomeInv /\ RowInv /\ [Next]_vars => RowInv'
PROOF
  <1> SUFFICES ASSUME HomeInv, RowInv, [Next]_vars PROVE RowInv'
      OBVIOUS
  <1> USE DEF HomeInv, Shapes, HandsInv, RowInv, Agree, Goto, Advance, callVars, jobVars,
              workVars, stopVars
  <1>1. ASSUME NEW r \in Requests, CallStep(r) PROVE RowInv'
      BY <1>1 DEF CallStep, TurnAway, PassDoor, Acquire, AdmissionTimeout, BackOut,
                  Admit, Put, AnsweredWereSent
  <1>2. ASSUME NEW w \in Workers,
               \/ LoopTop(w) \/ GetEmpty(w) \/ CloseWindow(w) \/ ReturnedAll(w)
               \/ BatchDone(w)
        PROVE RowInv'
      BY <1>2 DEF LoopTop, GetEmpty, CloseWindow, ReturnedAll, BatchDone
  <1>3. ASSUME NEW w \in Workers, NEW r \in Requests, NEW tooLate \in BOOLEAN,
               Take(w, r, tooLate)
        PROVE RowInv'
      BY <1>3 DEF Take
  <1>4. ASSUME NEW w \in Workers, NEW r \in Requests, NEW tooLate \in BOOLEAN,
               Collect(w, r, tooLate)
        PROVE RowInv'
      BY <1>4 DEF Collect
  <1>5. ASSUME NEW w \in Workers, NEW r \in Requests, PutBack(w, r) PROVE RowInv'
      BY <1>5 DEF PutBack
  <1>6. ASSUME NEW w \in Workers, NEW r \in Requests, Answer(w, r) PROVE RowInv'
      BY <1>6 DEF Answer
  <1>7. ASSUME NEW w \in Workers, OpenRuns(w) PROVE RowInv'
      BY <1>7 DEF OpenRuns, OneHome, Held
  <1>8. ASSUME NEW w \in Workers, NEW begun \in SUBSET (batch[w] \cap Ledgered),
               OpenFails(w, begun)
        PROVE RowInv'
      BY <1>8 DEF OpenFails, OneHome, Held
  <1>9. ASSUME NEW w \in Workers, NEW ok \in SUBSET batch[w],
               NEW written \in SUBSET (batch[w] \cap Ledgered), Infer(w, ok, written)
        PROVE RowInv'
    <2>1. /\ \A r \in batch[w] : Agree(r)'
          /\ \A r \in Requests \ batch[w] :
                result'[r] = result[r] /\ ledger'[r] = ledger[r]
          /\ ledgerFault => ledgerFault'
      <3>1. phase[w] = "infer" /\ ledgerFault' \in BOOLEAN
          BY <1>9 DEF Infer
      <3>2. ASSUME NEW r \in written PROVE Agree(r)'
          BY <1>9, <3>2 DEF Infer
      <3>3. ASSUME NEW r \in batch[w] \ written PROVE Agree(r)'
        <4>1. ledger'[r] = ledger[r] /\ ledger[r] \in {"none", "STARTED"}
            BY <1>9, <3>1, <3>3 DEF Infer
        <4>2. r \in Ledgered => ledgerFault'
            BY <1>9, <3>3 DEF Infer
        <4>3. r \notin Ledgered => ledger[r] = "none"
            BY <3>1, <3>3
        <4> QED BY <4>1, <4>2, <4>3
      <3>4. \A r \in Requests \ batch[w] :
                result'[r] = result[r] /\ ledger'[r] = ledger[r]
          BY <1>9 DEF Infer
      <3>5. ledgerFault => ledgerFault'
          BY <1>9 DEF Infer
      <3> QED BY <3>2, <3>3, <3>4, <3>5
    <2>2. /\ phase' = [phase EXCEPT ![w] = "answer"]
          /\ UNCHANGED <<call, queue, batch, deferred, answered>>
        BY <1>9 DEF Infer
    <2>3. ASSUME NEW r \in batch[w] PROVE r \notin queue /\ r \notin answered
        BY <2>3 DEF OneHome, Held
    <2>4. ASSUME NEW r \in batch[w], NEW v \in Workers, v # w
          PROVE r \notin batch[v] /\ r \notin deferred[v] /\ r \notin deferred[w]
        BY <2>4 DEF OneHome, Held
    <2> QED BY <1>9, <2>1, <2>2, <2>3, <2>4 DEF OneHome, Held
  <1>10. CASE DrainStep
      BY <1>10 DEF DrainStep, DrainDone, Reject, OneHome
  <1>11. ASSUME NEW cancelQueued \in BOOLEAN, Shutdown(cancelQueued) PROVE RowInv'
      BY <1>11 DEF Shutdown
  <1>12. CASE UNCHANGED vars
      BY <1>12 DEF vars
  <1> QED BY <1>1, <1>2, <1>3, <1>4, <1>5, <1>6, <1>7, <1>8, <1>9, <1>10, <1>11, <1>12
           DEF Next, WorkerStep

\* The ledger never contradicts the answer the caller got.
THEOREM LedgerAgreesAlways == Spec => []LedgerAgrees
PROOF
  <1>1. Init => HomeInv /\ RowInv
      BY HomeInit DEF Init, RowInv
  <1>2. HomeInv /\ RowInv /\ [Next]_vars => (HomeInv /\ RowInv)'
      BY HomeStep, RowStep
  <1>3. HomeInv /\ RowInv => LedgerAgrees
      BY DEF HomeInv, Shapes, RowInv, LedgerAgrees
  <1> QED BY <1>1, <1>2, <1>3, PTL DEF Spec

-----------------------------------------------------------------------------
(* The router's circuit breaker                                            *)

\* While nothing is muddled, a probe in flight is the one that is marked.
ProbesAreMarked == ~muddled => \A t \in Threads : at[t] = "probe" => probing

BreakerInv ==
    /\ RouterTypes /\ CircuitConsistent
    /\ ProbeIsLive /\ ProbesAreAlone /\ ProbesAreMarked

LEMMA BreakerInit == RouterInit => BreakerInv
PROOF
  <1> SUFFICES ASSUME RouterInit PROVE BreakerInv
      OBVIOUS
  <1>1. RouterTypes /\ CircuitConsistent
    <2>1. at \in [Threads -> {"idle", "primary", "probe", "waiting", "fallback"}]
        BY DEF RouterInit
    <2>2. /\ failures \in 0..Threshold
          /\ opened = "no" <=> failures < Threshold
        BY RouterAssumption DEF RouterInit
    <2>3. opened \in {"no", "hot", "cool"} /\ probing = FALSE /\ muddled = FALSE
        BY DEF RouterInit
    <2> QED BY <2>1, <2>2, <2>3 DEF RouterTypes, CircuitConsistent
  <1>2. ProbeIsLive /\ ProbesAreAlone /\ ProbesAreMarked
      BY DEF RouterInit, ProbeIsLive, ProbesAreAlone, ProbesAreMarked
  <1> QED BY <1>1, <1>2 DEF BreakerInv

\* A result that closes the circuit clears the mark; no probe is left unless muddled.
LEMMA CloseKeeps ==
  ASSUME BreakerInv, NEW t \in Threads, Calling(t), Close(t), Muddle(t),
         NEW to \in {"idle", "waiting"}, Proceed(t, to)
  PROVE  BreakerInv'
PROOF
  <1> USE DEF BreakerInv, RouterTypes, CircuitConsistent, ProbeIsLive, ProbesAreAlone,
              ProbesAreMarked, Calling, Close, Muddle, Proceed
  <1>1. RouterTypes' /\ CircuitConsistent' /\ ProbeIsLive'
    <2>1. at' \in [Threads -> {"idle", "primary", "probe", "waiting", "fallback"}]
        OBVIOUS
    <2>2. muddled' \in BOOLEAN
        OBVIOUS
    <2>3. failures' \in 0..Threshold /\ failures' < Threshold
        BY RouterAssumption
    <2> QED BY <2>1, <2>2, <2>3
  <1>2. ASSUME ~muddled', NEW s \in Threads, at'[s] = "probe" PROVE FALSE
    <2>1. s # t /\ at[s] = "probe"
        BY <1>2
    <2>2. ~muddled /\ ~(opened # "no" /\ at[t] = "primary")
        BY <1>2, <2>1
    <2>3. probing /\ opened = "cool" /\ at[t] # "probe"
        BY <2>1, <2>2
    <2> QED BY <2>2, <2>3
  <1>3. ProbesAreAlone' /\ ProbesAreMarked'
      BY <1>2
  <1> QED BY <1>1, <1>3

LEMMA FailKeeps ==
  ASSUME BreakerInv, NEW t \in Threads, FailRetryable(t)
  PROVE  BreakerInv'
PROOF
  <1> USE DEF BreakerInv, RouterTypes, CircuitConsistent, ProbeIsLive, ProbesAreAlone,
              ProbesAreMarked, Calling, Muddle, Proceed, FailRetryable
  <1>1. RouterTypes' /\ CircuitConsistent'
    <2>1. at' \in [Threads -> {"idle", "primary", "probe", "waiting", "fallback"}]
        OBVIOUS
    <2>2. muddled' \in BOOLEAN
        OBVIOUS
    <2>3. /\ failures' \in 0..Threshold
          /\ failures' < Threshold => failures < Threshold /\ ~probing
        BY RouterAssumption
    <2>4. /\ opened' \in {"no", "hot", "cool"} /\ probing' \in BOOLEAN
          /\ opened' = "no" <=> failures' < Threshold
          /\ ~probing'
      <3>1. CASE probing \/ failures' = Threshold
        <4>1. opened' = "hot" /\ probing' = FALSE
            BY <3>1
        <4>2. failures' = Threshold
            BY <2>3, <3>1, RouterAssumption
        <4>3. ~(failures' < Threshold)
            BY <4>2, RouterAssumption
        <4>4. opened' # "no" /\ opened' \in {"no", "hot", "cool"}
            BY <4>1
        <4> QED BY <4>1, <4>3, <4>4
      <3>2. CASE ~(probing \/ failures' = Threshold)
        <4>1. opened' = opened /\ probing' = probing
            BY <3>2
        <4>2. failures' < Threshold
            BY <2>3, <3>2, RouterAssumption
        <4> QED BY <2>3, <3>2, <4>1, <4>2
      <3> QED BY <3>1, <3>2
    <2> QED BY <2>1, <2>2, <2>3, <2>4
  <1>2. ~probing'
      BY RouterAssumption
  <1>3. ASSUME ~muddled', NEW s \in Threads, at'[s] = "probe" PROVE FALSE
    <2>1. s # t /\ at[s] = "probe"
        BY <1>3
    <2>2. ~muddled /\ ~(opened # "no" /\ at[t] = "primary")
        BY <1>3, <2>1
    <2>3. probing /\ opened = "cool" /\ at[t] # "probe"
        BY <2>1, <2>2
    <2> QED BY <2>2, <2>3
  <1> QED BY <1>1, <1>2, <1>3

LEMMA BreakerStep == BreakerInv /\ [RouterNext]_routerVars => BreakerInv'
PROOF
  <1> SUFFICES ASSUME BreakerInv, [RouterNext]_routerVars PROVE BreakerInv'
      OBVIOUS
  <1>1. ASSUME NEW t \in Threads, Succeed(t) \/ FailForGood(t) PROVE BreakerInv'
      BY <1>1, CloseKeeps DEF Succeed, FailForGood
  <1>2. ASSUME NEW t \in Threads, FailRetryable(t) PROVE BreakerInv'
      BY <1>2, FailKeeps
  <1> USE DEF BreakerInv, RouterTypes, CircuitConsistent, ProbeIsLive, ProbesAreAlone,
              ProbesAreMarked, Proceed, breaker
  <1>3. ASSUME NEW t \in Threads,
               Call(t) \/ Skip(t) \/ Forced(t) \/ FallbackStart(t) \/ FallbackEnd(t)
        PROVE BreakerInv'
      BY <1>3 DEF Call, Skip, Forced, FallbackStart, FallbackEnd
  <1>4. ASSUME NEW t \in Threads, Probe(t) PROVE BreakerInv'
      BY <1>4 DEF Probe
  <1>5. CASE RecoveryElapses
      BY <1>5 DEF RecoveryElapses
  <1>6. CASE UNCHANGED routerVars
      BY <1>6 DEF routerVars
  <1> QED BY <1>1, <1>2, <1>3, <1>4, <1>5, <1>6
          DEF RouterNext, Arrive, Record

\* The breaker's fields agree, a marked probe is always in flight, and probes are alone
\* unless a call from before the probe reported into the open circuit.
THEOREM BreakerSafe == RouterSpec => []BreakerConsistent
PROOF
  <1>1. BreakerInv => BreakerConsistent
      BY DEF BreakerInv, BreakerConsistent
  <1> QED BY BreakerInit, BreakerStep, <1>1, PTL DEF RouterSpec

\* The fields of the breaker are well typed, the failure count within its threshold.
THEOREM BreakerTypesHold == RouterSpec => []RouterTypes
PROOF
  <1>1. BreakerInv => RouterTypes
      BY DEF BreakerInv
  <1> QED BY BreakerInit, BreakerStep, <1>1, PTL DEF RouterSpec
=============================================================================
