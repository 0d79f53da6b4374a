------------------------ MODULE AgentInferScheduler ------------------------
(***************************************************************************)
(* The lane in front of the agent's chat model: submit in the callers'     *)
(* threads, _worker_loop in the workers', close in any.  A caller waits    *)
(* for a worker to admit its job, for queue_wait_timeout at most, and then *)
(* for the answer without a limit.  The worker and the caller that gives   *)
(* up meet at the job's lock: the flags cancelled and started decide which *)
(* of them gives the slot back.  Marking a job released and releasing the  *)
(* semaphore are one step: only _release looks at the mark.                *)
(***************************************************************************)
EXTENDS Integers, FiniteSets

CONSTANTS
    Requests,      \* the calls of submit made in a behaviour
    Workers,       \* the threads of the lane
    Slots,         \* max_queue_size: the bound of the admission semaphore
    Priority(_)    \* _kind_priority: smaller goes first

None == "none"

ASSUME RequestsAssumption == IsFiniteSet(Requests) /\ None \notin Requests
ASSUME WorkersAssumption == IsFiniteSet(Workers)
ASSUME SlotsAssumption == Slots \in Nat \ {0}
ASSUME PriorityAssumption == \A r \in Requests : Priority(r) \in Nat

VARIABLES
    call,       \* where the caller is in submit, or how submit ended
    ticket,     \* the number the job got from _seq
    free,       \* _admission, a BoundedSemaphore
    queue,      \* _pq, cancelled jobs included
    cancelled,  \* the jobs whose caller has given up
    started,    \* the jobs a worker has taken up
    admitted,   \* the jobs whose event is set
    released,   \* the jobs whose slot has been given back
    done,       \* the jobs whose future has a result or an exception
    phase,      \* where each worker is in its loop
    job,        \* the job the worker has in hand
    stop,       \* _stop
    caught,     \* history: given up after the worker's lock, in which it was started
    passed      \* history: how often a worker started something less urgent meanwhile

flags == <<cancelled, started, admitted, released, done>>
work == <<phase, job>>
history == <<caught, passed>>
vars == <<call, ticket, free, queue, flags, work, stop, history>>

Ended == {"rejected", "expired", "answered"}
Calls == {"new", "checked", "holding", "numbered", "waiting", "late", "expiring",
          "awaiting"} \cup Ended
Phases == {"top", "get", "took", "claimed", "running", "ending", "off"}

Shapes ==
    /\ call \in [Requests -> Calls]
    /\ ticket \in [Requests -> Nat]
    /\ queue \subseteq Requests /\ cancelled \subseteq Requests
    /\ started \subseteq Requests /\ admitted \subseteq Requests
    /\ released \subseteq Requests /\ done \subseteq Requests
    /\ caught \subseteq Requests
    /\ phase \in [Workers -> Phases]
    /\ job \in [Workers -> Requests \cup {None}]
    /\ stop \in BOOLEAN
    /\ passed \in [Requests -> Nat]

TypeOK == Shapes /\ free \in 0..Slots

Init ==
    /\ call = [r \in Requests |-> "new"]
    /\ ticket = [r \in Requests |-> 0]
    /\ free = Slots
    /\ queue = {} /\ cancelled = {} /\ started = {} /\ admitted = {}
    /\ released = {} /\ done = {}
    /\ phase = [w \in Workers |-> "top"]
    /\ job = [w \in Workers |-> None]
    /\ stop = FALSE
    /\ caught = {}
    /\ passed = [r \in Requests |-> 0]

-----------------------------------------------------------------------------
(* Callers                                                                 *)

Advance(r, from, to) == call[r] = from /\ call' = [call EXCEPT ![r] = to]

CheckStop(r) ==
    /\ Advance(r, "new", IF stop THEN "rejected" ELSE "checked")
    /\ UNCHANGED <<ticket, free, queue, flags, work, stop, history>>

Acquire(r) ==
    /\ free > 0
    /\ Advance(r, "checked", "holding")
    /\ free' = free - 1
    /\ UNCHANGED <<ticket, queue, flags, work, stop, history>>

Refuse(r) ==
    /\ free = 0
    /\ Advance(r, "checked", "rejected")
    /\ UNCHANGED <<ticket, free, queue, flags, work, stop, history>>

\* next(self._seq); another caller may get its number and put its job in before.
Number(r) ==
    /\ Advance(r, "holding", "numbered")
    /\ ticket' = [ticket EXCEPT
        ![r] = Cardinality({s \in Requests : call[s] \notin {"new", "checked", "rejected",
                                                             "holding"}})]
    /\ UNCHANGED <<free, queue, flags, work, stop, history>>

Put(r) ==
    /\ Advance(r, "numbered", "waiting")
    /\ queue' = queue \cup {r}
    /\ UNCHANGED <<ticket, free, flags, work, stop, history>>

Admitted(r) ==
    /\ r \in admitted
    /\ Advance(r, "waiting", "awaiting")
    /\ UNCHANGED <<ticket, free, queue, flags, work, stop, history>>

TimeOut(r) ==
    /\ r \notin admitted
    /\ Advance(r, "waiting", "late")
    /\ UNCHANGED <<ticket, free, queue, flags, work, stop, history>>

\* The second look at the event, then _expire, up to the end of the job's lock.
AdmittedLate(r) ==
    /\ r \in admitted
    /\ Advance(r, "late", "awaiting")
    /\ UNCHANGED <<ticket, free, queue, flags, work, stop, history>>

\* The event may have been set since the second look: under the lock nobody looks again.
GiveUp(r) ==
    /\ Advance(r, "late", IF r \in started THEN "expired" ELSE "expiring")
    /\ cancelled' = cancelled \cup {r}
    /\ caught' = IF r \in started THEN caught \cup {r} ELSE caught
    /\ UNCHANGED <<ticket, free, queue, started, admitted, released, done, work, stop,
                   passed>>

\* A slip no run uses: _release without its mark.
ReleaseAlways(r) == free' = free + 1 /\ released' = released \cup {r}

Release(r) ==
    /\ free' = IF r \in released THEN free ELSE free + 1
    /\ released' = released \cup {r}

Expire(r) ==
    /\ Advance(r, "expiring", "expired")
    /\ Release(r)
    /\ UNCHANGED <<ticket, queue, cancelled, started, admitted, done, work, stop, history>>

Result(r) ==
    /\ r \in done
    /\ Advance(r, "awaiting", "answered")
    /\ UNCHANGED <<ticket, free, queue, flags, work, stop, history>>

-----------------------------------------------------------------------------
(* Workers                                                                 *)

Goto(w, from, to) == phase[w] = from /\ phase' = [phase EXCEPT ![w] = to]

LoopTop(w) ==
    /\ Goto(w, "top", IF stop THEN "off" ELSE "get")
    /\ UNCHANGED <<call, ticket, free, queue, flags, job, stop, history>>

GetEmpty(w) ==
    /\ queue = {}
    /\ Goto(w, "get", "top")
    /\ UNCHANGED <<call, ticket, free, queue, flags, job, stop, history>>

\* A slip no run uses: the larger number goes first.
Reversed(r, s) ==
    \/ Priority(r) > Priority(s)
    \/ Priority(r) = Priority(s) /\ ticket[r] < ticket[s]

\* The order of the heap.
Before(r, s) ==
    \/ Priority(r) < Priority(s)
    \/ Priority(r) = Priority(s) /\ ticket[r] < ticket[s]

Take(w, r) ==
    /\ r \in queue
    /\ \A s \in queue \ {r} : Before(r, s)
    /\ Goto(w, "get", "took")
    /\ queue' = queue \ {r}
    /\ job' = [job EXCEPT ![w] = r]
    /\ UNCHANGED <<call, ticket, free, flags, stop, history>>

\* The job is taken up, under its lock.  ClaimUnasked is a slip no run uses.
ClaimUnasked(w) ==
    /\ Goto(w, "took", "claimed")
    /\ started' = started \cup {job[w]}
    /\ UNCHANGED <<call, ticket, free, queue, cancelled, admitted, released, done, job,
                   stop, history>>

Claim(w) ==
    /\ job[w] \notin cancelled
    /\ Goto(w, "took", "claimed")
    /\ started' = started \cup {job[w]}
    /\ passed' = [r \in Requests |->
                    IF r \in queue /\ Priority(r) < Priority(job[w]) THEN passed[r] + 1
                    ELSE passed[r]]
    /\ UNCHANGED <<call, ticket, free, queue, cancelled, admitted, released, done, job,
                   stop, caught>>

\* Its caller has given up; the finally clause runs all the same.
Skip(w) ==
    /\ job[w] \in cancelled
    /\ Goto(w, "took", "ending")
    /\ UNCHANGED <<call, ticket, free, queue, flags, job, stop, history>>

SetAdmitted(w) ==
    /\ Goto(w, "claimed", "running")
    /\ admitted' = admitted \cup {job[w]}
    /\ UNCHANGED <<call, ticket, free, queue, cancelled, started, released, done, job,
                   stop, history>>

\* The model answers, or the call raises: the future is resolved in both cases.
\* RunRaising is a slip no run uses: the exception is not handed to the caller.
RunRaising(w, ok) ==
    /\ Goto(w, "running", "ending")
    /\ done' = IF ok THEN done \cup {job[w]} ELSE done
    /\ UNCHANGED <<call, ticket, free, queue, cancelled, started, admitted, released, job,
                   stop, history>>

Run(w, ok) ==
    /\ Goto(w, "running", "ending")
    /\ done' = done \cup {job[w]}
    /\ UNCHANGED <<call, ticket, free, queue, cancelled, started, admitted, released, job,
                   stop, history>>

\* The finally clause.
End(w) ==
    /\ Goto(w, "ending", "top")
    /\ Release(job[w])
    /\ job' = [job EXCEPT ![w] = None]
    /\ UNCHANGED <<call, ticket, queue, cancelled, started, admitted, done, stop, history>>

-----------------------------------------------------------------------------

\* The workers leave at their loop's top; what is in the heap stays there.
Stop ==
    /\ ~stop
    /\ stop' = TRUE
    /\ UNCHANGED <<call, ticket, free, queue, flags, work, history>>

CallStep(r) ==
    \/ CheckStop(r) \/ Acquire(r) \/ Refuse(r) \/ Number(r) \/ Put(r) \/ Admitted(r)
    \/ TimeOut(r) \/ AdmittedLate(r) \/ GiveUp(r) \/ Expire(r) \/ Result(r)

WorkerStep(w) ==
    \/ LoopTop(w) \/ GetEmpty(w) \/ Claim(w) \/ Skip(w) \/ SetAdmitted(w) \/ End(w)
    \/ \E r \in Requests : Take(w, r)
    \/ \E ok \in BOOLEAN : Run(w, ok)

Next ==
    \/ \E r \in Requests : CallStep(r)
    \/ \E w \in Workers : WorkerStep(w)
    \/ Stop

Spec == Init /\ [][Next]_vars

\* Threads that can go on do: wait and get have a timeout, and so have the HTTP calls.
Fairness ==
    /\ \A r \in Requests : WF_vars(CallStep(r))
    /\ \A w \in Workers : WF_vars(WorkerStep(w))

FairSpec == Spec /\ Fairness

-----------------------------------------------------------------------------

\* The calls that have taken a slot and not given it back.
Holders ==
    {r \in Requests : call[r] \notin {"new", "checked", "rejected"} /\ r \notin released}

\* However giving up, taking up and shutting down interleave, a slot is given back at
\* most once for every slot taken (BoundedSemaphore's error, swallowed, never occurs).
SlotsConserved == free + Cardinality(Holders) = Slots

\* The calls that are through with the lane's slots; a worker may be busy with one still.
Through == {r \in Requests : call[r] = "rejected" \/ r \in released}

\* To its callers the lane is a bounded lane: a call takes a slot once, when there is one,
\* and either the worker or the caller that gave up gives it back, never both, never
\* before the call had it.
Lane == INSTANCE BoundedLane WITH Calls <- Requests, inside <- Holders, over <- Through
LaneSpec == Lane!Spec

\* The jobs a worker runs or will run if nobody interferes.
Alive ==
    {r \in Requests : \/ r \in queue /\ r \notin cancelled
                      \/ \E w \in Workers : job[w] = r /\ phase[w] \in {"claimed", "running"}}

\* "queued + in-flight" never exceeds max_queue_size, though the heap may be longer: a
\* slot given back by a caller that gave up is never that of a job that still runs.
LaneBounded == Cardinality(Alive) <= Slots

\* A job withdrawn before the worker's lock is never run.  A caller is told that its call
\* expired although the model is run for it only if it gave up after the worker's lock: its
\* second look at the event came before admitted.set, and by the time it has the job's lock
\* the worker may have set the event, be running the model, or have the answer.
ExpiredStaysDown == \A r \in started : call[r] \in {"expiring", "expired"} => r \in caught

\* An urgent call in the lane sees at most one less urgent call started per worker: the
\* one the worker had taken from the heap when the urgent one came in.
OvertakenOnce == \A r \in Requests : passed[r] <= Cardinality(Workers)

\* Every call of submit returns: an answer, an exception of the model, or a refusal,
\* also when the lane is closed with jobs in the heap.  A slot it took comes back, so the
\* lane does not shrink.
CallsReturn ==
    \A r \in Requests :
        /\ call[r] = "checked" ~> call[r] \in Ended
        /\ r \in Holders ~> r \in released
=============================================================================
