------------------------ MODULE WorkerControl_proofs ------------------------
(***************************************************************************)
(* Proofs about WorkerControl, for any number of heartbeat senders.        *)
(***************************************************************************)
EXTENDS WorkerControl, TLAPS

\* Behind an uncontested stop no sender is about to write ONLINE: every read since
\* then saw PAUSED, DRAINING or ERROR.
NoOnlineInFlight ==
    command \in Stops /\ ~contested => \A b \in Beaters : beat[b] # "online"

StopInv == TypeOK /\ UncontestedStopHolds /\ NoOnlineInFlight

LEMMA StopInit == Init => StopInv
PROOF
  <1> SUFFICES ASSUME Init PROVE StopInv
      OBVIOUS
  <1>1. TypeOK
    <2>1. beat \in [Beaters -> {"none", "touch", "online"}]
        BY DEF Init
    <2>2. /\ status \in WorkerStatuses /\ age \in 0..1
          /\ command \in Stops \cup {"ONLINE"}
        BY DEF Init, WorkerStatuses
    <2>3. contested \in BOOLEAN
        BY DEF Init
    <2> QED BY <2>1, <2>2, <2>3 DEF TypeOK
  <1>2. command \notin Stops
      BY DEF Init, Stops
  <1> QED BY <1>1, <1>2 DEF StopInv, UncontestedStopHolds, NoOnlineInFlight

LEMMA StopStep == StopInv /\ [Next]_vars => StopInv'
PROOF
  <1> SUFFICES ASSUME StopInv, [Next]_vars PROVE StopInv'
      OBVIOUS
  <1> USE DEF StopInv, UncontestedStopHolds, NoOnlineInFlight, TypeOK, Stops,
              WorkerStatuses, ControlBlock
  <1>1. ASSUME NEW b \in Beaters, BeatRead(b) PROVE StopInv'
      BY <1>1 DEF BeatRead
  <1>2. ASSUME NEW b \in Beaters, BeatWrite(b) PROVE StopInv'
      BY <1>2 DEF BeatWrite
  <1>3. ASSUME NEW b \in Beaters, BeatLost(b) PROVE StopInv'
      BY <1>3 DEF BeatLost
  <1>4. ASSUME NEW b \in Beaters, BeatError(b) PROVE StopInv'
      BY <1>4 DEF BeatError
  <1>5. CASE Register
      BY <1>5 DEF Register
  <1>6. CASE Lapse
      BY <1>6 DEF Lapse
  <1>7. CASE MarkOffline
      BY <1>7 DEF MarkOffline
  <1>8. ASSUME NEW to \in Stops \cup {"ONLINE"}, Order(to) PROVE StopInv'
      BY <1>8 DEF Order
  <1>9. CASE UNCHANGED vars
      BY <1>9 DEF vars
  <1> QED BY <1>1, <1>2, <1>3, <1>4, <1>5, <1>6, <1>7, <1>8, <1>9
           DEF Next, BeatStep, Pause, Drain, Resume

\* The operator's stop holds against every heartbeat that starts after it.
THEOREM StopsHold == Spec => []UncontestedStopHolds
PROOF
  <1>1. StopInv => UncontestedStopHolds
      BY DEF StopInv
  <1> QED BY StopInit, StopStep, <1>1, PTL DEF Spec

\* The workers row and the heartbeats in flight are well typed.
THEOREM ControlTypesHold == Spec => []TypeOK
PROOF
  <1>1. StopInv => TypeOK
      BY DEF StopInv
  <1> QED BY StopInit, StopStep, <1>1, PTL DEF Spec
=============================================================================
