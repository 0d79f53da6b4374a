--------------------------- MODULE InferenceQueue ---------------------------
(***************************************************************************)
(* One lane of PrioritizedInferenceQueue: calls to submit / submit_future  *)
(* that wait for one of the lane's slots, worker threads that take batches *)
(* of compatible requests from the lane, the ledger rows (model_runs) they *)
(* open and close, and a shutdown.  Lanes share nothing but the stop flag. *)
(* Requests leave the lane in any order: that covers every priority.  The  *)
(* cap on submit's own wait is left out: giving up takes nothing back.     *)
(***************************************************************************)
EXTENDS Integers, FiniteSets

CONSTANTS
    Requests,   \* the calls made in a behaviour
    Workers,    \* the threads of the lane
    Slots,      \* max_queue_size: requests admitted and not answered
    MaxBatch,   \* max_batch_size; 1 turns coalescing off
    Key(_),     \* _batch_key_for: what the requests of a batch have in common
    Ledgered    \* the requests that carry a job id, and so have a ledger row

ASSUME RequestsAssumption == IsFiniteSet(Requests) /\ Ledgered \subseteq Requests
ASSUME SizeAssumption == Slots \in Nat \ {0} /\ MaxBatch \in Nat \ {0}

VARIABLES
    call,        \* where the caller is in submit
    free,        \* lane.admission, a BoundedSemaphore
    queue,       \* lane.pq
    phase,       \* where each worker is in its loop
    batch,       \* the jobs the worker has claimed
    deferred,    \* the incompatible ones it met meanwhile, out of the queue
    result,      \* job.result
    answered,    \* requests whose future is done
    ledger,      \* model_runs.status of the request
    ledgerFault, \* a ledger transaction has failed
    stopping,    \* _stop
    drain,       \* _reject_queued_jobs: "idle", "skipped", "draining" or "done"
    contested    \* a request was on its way into the lane when the stop came

callVars == <<call>>
jobVars == <<result, answered, ledger, ledgerFault>>
workVars == <<phase, batch, deferred>>
stopVars == <<stopping, drain, contested>>
vars == <<call, free, queue, phase, batch, deferred, result, answered,
          ledger, ledgerFault, stopping, drain, contested>>

Calls == {"new", "checked", "holding", "admitted", "sent", "refused"}
Phases == {"top", "get", "collect", "return", "open", "infer", "answer", "off"}
Outcomes == {"none", "ok", "error"}

Shapes ==
    /\ call \in [Requests -> Calls]
    /\ queue \subseteq Requests /\ answered \subseteq Requests
    /\ phase \in [Workers -> Phases]
    /\ batch \in [Workers -> SUBSET Requests]
    /\ deferred \in [Workers -> SUBSET Requests]
    /\ result \in [Requests -> Outcomes]
    /\ ledger \in [Requests -> {"none", "STARTED", "SUCCEEDED", "FAILED"}]
    /\ ledgerFault \in BOOLEAN /\ stopping \in BOOLEAN /\ contested \in BOOLEAN
    /\ drain \in {"idle", "skipped", "draining", "done"}

TypeOK == Shapes /\ free \in 0..Slots

Init ==
    /\ call = [r \in Requests |-> "new"]
    /\ free = Slots
    /\ queue = {}
    /\ phase = [w \in Workers |-> "top"]
    /\ batch = [w \in Workers |-> {}]
    /\ deferred = [w \in Workers |-> {}]
    /\ result = [r \in Requests |-> "none"]
    /\ answered = {}
    /\ ledger = [r \in Requests |-> "none"]
    /\ ledgerFault = FALSE
    /\ stopping = FALSE /\ drain = "idle" /\ contested = FALSE

-----------------------------------------------------------------------------
(* Callers                                                                 *)

Advance(r, from, to) == call[r] = from /\ call' = [call EXCEPT ![r] = to]

\* Turned away at the door: the stop flag is up, or the scope's quota is used up.
TurnAway(r) ==
    /\ Advance(r, "new", "refused")
    /\ UNCHANGED <<free, queue, workVars, jobVars, stopVars>>

PassDoor(r) ==
    /\ ~stopping
    /\ Advance(r, "new", "checked")
    /\ UNCHANGED <<free, queue, workVars, jobVars, stopVars>>

Acquire(r) ==
    /\ free > 0
    /\ Advance(r, "checked", "holding")
    /\ free' = free - 1
    /\ UNCHANGED <<queue, workVars, jobVars, stopVars>>

AdmissionTimeout(r) ==
    /\ free = 0
    /\ Advance(r, "checked", "refused")
    /\ UNCHANGED <<free, queue, workVars, jobVars, stopVars>>

\* The second look at the stop flag, holding a slot.  BackOutHolding is a slip.
BackOutHolding(r) ==
    /\ stopping
    /\ Advance(r, "holding", "refused")
    /\ UNCHANGED <<free, queue, workVars, jobVars, stopVars>>

BackOut(r) ==
    /\ stopping
    /\ Advance(r, "holding", "refused")
    /\ free' = free + 1
    /\ UNCHANGED <<queue, workVars, jobVars, stopVars>>

Admit(r) ==
    /\ ~stopping
    /\ Advance(r, "holding", "admitted")
    /\ UNCHANGED <<free, queue, workVars, jobVars, stopVars>>

Put(r) ==
    /\ Advance(r, "admitted", "sent")
    /\ queue' = queue \cup {r}
    /\ UNCHANGED <<free, workVars, jobVars, stopVars>>

-----------------------------------------------------------------------------
(* Workers                                                                 *)

Goto(w, from, to) == phase[w] = from /\ phase' = [phase EXCEPT ![w] = to]

\* The only place a worker looks at the stop flag.
LoopTop(w) ==
    /\ Goto(w, "top", IF stopping THEN "off" ELSE "get")
    /\ UNCHANGED <<callVars, free, queue, batch, deferred, jobVars, stopVars>>

GetEmpty(w) ==
    /\ queue = {}
    /\ Goto(w, "get", "top")
    /\ UNCHANGED <<callVars, free, queue, batch, deferred, jobVars, stopVars>>

\* tooLate: the request has waited longer than queue_wait_timeout_seconds; it will be
\* sent to the fallback model, and is not batched.
Take(w, r, tooLate) ==
    /\ r \in queue
    /\ Goto(w, "get", IF MaxBatch > 1 /\ ~tooLate THEN "collect" ELSE "open")
    /\ queue' = queue \ {r}
    /\ batch' = [batch EXCEPT ![w] = {r}]
    /\ UNCHANGED <<callVars, free, deferred, jobVars, stopVars>>

Fits(w, r, tooLate) == ~tooLate /\ \A s \in batch[w] : Key(s) = Key(r)

\* Within the window: one more request, for the batch or aside.  A slip and the code.
CollectUntaken(w, r, tooLate) ==
    /\ phase[w] = "collect"
    /\ Cardinality(batch[w]) < MaxBatch
    /\ r \in queue /\ Fits(w, r, tooLate)
    /\ batch' = [batch EXCEPT ![w] = @ \cup {r}]
    /\ UNCHANGED <<callVars, free, queue, phase, deferred, jobVars, stopVars>>

Collect(w, r, tooLate) ==
    /\ phase[w] = "collect"
    /\ Cardinality(batch[w]) < MaxBatch
    /\ r \in queue
    /\ queue' = queue \ {r}
    /\ IF Fits(w, r, tooLate)
       THEN batch' = [batch EXCEPT ![w] = @ \cup {r}] /\ UNCHANGED deferred
       ELSE deferred' = [deferred EXCEPT ![w] = @ \cup {r}] /\ UNCHANGED batch
    /\ UNCHANGED <<callVars, free, phase, jobVars, stopVars>>

\* The batch is full or the window over.
CloseWindow(w) ==
    /\ Goto(w, "collect", "return")
    /\ UNCHANGED <<callVars, free, queue, batch, deferred, jobVars, stopVars>>

PutBack(w, r) ==
    /\ phase[w] = "return"
    /\ r \in deferred[w]
    /\ queue' = queue \cup {r}
    /\ deferred' = [deferred EXCEPT ![w] = @ \ {r}]
    /\ contested' = (contested \/ stopping)
    /\ UNCHANGED <<callVars, free, phase, batch, jobVars, stopping, drain>>

\* A slip no run uses: the requests put aside are not put back.
ReturnedNone(w) ==
    /\ Goto(w, "return", "open")
    /\ deferred' = [deferred EXCEPT ![w] = {}]
    /\ UNCHANGED <<callVars, free, queue, batch, jobVars, stopVars>>

ReturnedAll(w) ==
    /\ deferred[w] = {}
    /\ Goto(w, "return", "open")
    /\ UNCHANGED <<callVars, free, queue, batch, deferred, jobVars, stopVars>>

\* _ledger_create_run_start for each job, one transaction each, before the call.
OpenRuns(w) ==
    /\ Goto(w, "open", "infer")
    /\ ledger' = [r \in Requests |->
                    IF r \in batch[w] \cap Ledgered THEN "STARTED" ELSE ledger[r]]
    /\ UNCHANGED <<callVars, free, queue, batch, deferred, result, answered,
                   ledgerFault, stopVars>>

\* One of them raises: the whole batch fails, and the rows opened before it stay.
OpenFails(w, opened) ==
    /\ opened # batch[w] \cap Ledgered
    /\ Goto(w, "open", "answer")
    /\ ledger' = [r \in Requests |-> IF r \in opened THEN "STARTED" ELSE ledger[r]]
    /\ result' = [r \in Requests |-> IF r \in batch[w] THEN "error" ELSE result[r]]
    /\ ledgerFault' = TRUE
    /\ UNCHANGED <<callVars, free, queue, batch, deferred, answered, stopVars>>

\* The router answers (or raises: none of the batch is ok), and the ledger row of every
\* job is closed; a failed ledger write is logged.  InferUnread is a slip no run uses.
InferUnread(w, ok, written) ==
    /\ Goto(w, "infer", "answer")
    /\ result' = [r \in Requests |->
                    IF r \in batch[w] THEN (IF r \in ok THEN "ok" ELSE "error")
                    ELSE result[r]]
    /\ ledger' = [r \in Requests |-> IF r \in written THEN "SUCCEEDED" ELSE ledger[r]]
    /\ ledgerFault' = (ledgerFault \/ written # batch[w] \cap Ledgered)
    /\ UNCHANGED <<callVars, free, queue, batch, deferred, answered, stopVars>>

Infer(w, ok, written) ==
    /\ Goto(w, "infer", "answer")
    /\ result' = [r \in Requests |->
                    IF r \in batch[w] THEN (IF r \in ok THEN "ok" ELSE "error")
                    ELSE result[r]]
    /\ ledger' = [r \in Requests |->
                    IF r \in written THEN (IF r \in ok THEN "SUCCEEDED" ELSE "FAILED")
                    ELSE ledger[r]]
    /\ ledgerFault' = (ledgerFault \/ written # batch[w] \cap Ledgered)
    /\ UNCHANGED <<callVars, free, queue, batch, deferred, answered, stopVars>>

\* The finally clause: the future, then the slot, job by job.
Answer(w, r) ==
    /\ phase[w] = "answer"
    /\ r \in batch[w]
    /\ batch' = [batch EXCEPT ![w] = @ \ {r}]
    /\ answered' = answered \cup {r}
    /\ free' = free + 1
    /\ UNCHANGED <<callVars, queue, phase, deferred, result, ledger, ledgerFault,
                   stopVars>>

BatchDone(w) ==
    /\ batch[w] = {}
    /\ Goto(w, "answer", "top")
    /\ UNCHANGED <<callVars, free, queue, batch, deferred, jobVars, stopVars>>

-----------------------------------------------------------------------------
(* Shutdown                                                                *)

Shutdown(cancelQueued) ==
    /\ ~stopping
    /\ stopping' = TRUE
    /\ drain' = IF cancelQueued THEN "draining" ELSE "skipped"
    /\ contested' = \E r \in Requests : call[r] = "admitted"
    /\ UNCHANGED <<callVars, free, queue, workVars, jobVars>>

Reject(r) ==
    /\ drain = "draining"
    /\ r \in queue
    /\ queue' = queue \ {r}
    /\ result' = [result EXCEPT ![r] = "error"]
    /\ answered' = answered \cup {r}
    /\ free' = free + 1
    /\ UNCHANGED <<callVars, workVars, ledger, ledgerFault, stopVars>>

\* A slip no run uses: the drain ends after one request.
DrainDoneEarly ==
    /\ drain = "draining"
    /\ drain' = "done"
    /\ UNCHANGED <<callVars, free, queue, workVars, jobVars, stopping, contested>>

DrainDone ==
    /\ drain = "draining"
    /\ queue = {}
    /\ drain' = "done"
    /\ UNCHANGED <<callVars, free, queue, workVars, jobVars, stopping, contested>>

-----------------------------------------------------------------------------

CallStep(r) ==
    \/ TurnAway(r) \/ PassDoor(r) \/ Acquire(r) \/ AdmissionTimeout(r)
    \/ BackOut(r) \/ Admit(r) \/ Put(r)

WorkerStep(w) ==
    \/ LoopTop(w) \/ GetEmpty(w) \/ CloseWindow(w) \/ ReturnedAll(w)
    \/ OpenRuns(w) \/ BatchDone(w)
    \/ \E r \in Requests, tooLate \in BOOLEAN : Take(w, r, tooLate) \/ Collect(w, r, tooLate)
    \/ \E r \in Requests : PutBack(w, r) \/ Answer(w, r)
    \/ \E some \in SUBSET (batch[w] \cap Ledgered) : OpenFails(w, some)
    \/ \E ok \in SUBSET batch[w], written \in SUBSET (batch[w] \cap Ledgered) :
        Infer(w, ok, written)

DrainStep == DrainDone \/ \E r \in Requests : Reject(r)

Next ==
    \/ \E r \in Requests : CallStep(r)
    \/ \E w \in Workers : WorkerStep(w)
    \/ DrainStep
    \/ \E cancelQueued \in BOOLEAN : Shutdown(cancelQueued)

Spec == Init /\ [][Next]_vars

\* Threads that can go on do: waits end (every get, window and HTTP call has a timeout).
Fairness ==
    /\ \A r \in Requests : WF_vars(CallStep(r))
    /\ \A w \in Workers : WF_vars(WorkerStep(w))
    /\ WF_vars(DrainStep)

FairSpec == Spec /\ Fairness

-----------------------------------------------------------------------------

\* The requests that should be holding a slot, judged by their callers and futures.
Holders ==
    {r \in Requests : \/ call[r] \in {"holding", "admitted"}
                      \/ call[r] = "sent" /\ r \notin answered}

\* Admission is honest: no path - timeout, refusal, rejection, failed batch -
\* loses a slot or gives one back twice (release would then raise and end the
\* worker thread).  Hence at most Slots requests are admitted and unanswered.
SlotsConserved == free + Cardinality(Holders) = Slots

\* The requests that are through with the lane.
Through == {r \in Requests : call[r] = "refused" \/ r \in answered}

\* To its callers the lane is a bounded lane: a request takes a slot once, when there is
\* one, and whoever ends it - a worker, the drain or its own caller - gives the slot back
\* once; no request comes in again.
Lane == INSTANCE BoundedLane WITH Calls <- Requests, inside <- Holders, over <- Through
LaneSpec == Lane!Spec

\* What a worker has taken out of the lane.
Held(w) == batch[w] \cup deferred[w]

\* An unanswered request is in one place - the lane, or one worker's hands - and an
\* answered one nowhere, so no future is set twice and none is forgotten in between.
OneHome ==
    \A r \in Requests :
        /\ r \in queue => \A w \in Workers : r \notin Held(w)
        /\ \A v, w \in Workers : r \in Held(v) \cap Held(w) => v = w
        /\ \A w \in Workers : r \notin batch[w] \cap deferred[w]
        /\ r \in queue \/ (\E w \in Workers : r \in Held(w))
            <=> call[r] = "sent" /\ r \notin answered

\* The answer and the ledger row of a request tell the same story.
Agree(r) ==
    /\ ledger[r] = "SUCCEEDED" => result[r] = "ok"
    /\ ledger[r] = "FAILED" => result[r] = "error"
    /\ ledger[r] = "STARTED" => ledgerFault

\* What the ledger says of a finished request is what its caller was told, and a row
\* is left STARTED only behind a failed ledger transaction.
LedgerAgrees == \A r \in answered : Agree(r)

\* A shutdown that raced with nobody leaves no request in the lane.
DrainedStaysEmpty == drain = "done" /\ ~contested => queue = {}

\* Every future is resolved, unless its request went into the lane across a shutdown,
\* or the shutdown asked to leave the lane as it is.
FuturesResolve ==
    \A r \in Requests :
        call[r] = "sent" ~> r \in answered \/ contested \/ drain = "skipped"
=============================================================================
