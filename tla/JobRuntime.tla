----------------------------- MODULE JobRuntime -----------------------------
(***************************************************************************)
(* The durable job runtime: the jobs and workers tables (SQLite, the only  *)
(* authority), the run_job messages of the broker, the Celery pool         *)
(* processes that execute jobs, the stuck scan and the dispatch beat, and  *)
(* the operator's API.  Every action is one SQLite transaction (or one     *)
(* unprotected read) of the code, so what the code does not make atomic is *)
(* not atomic here.                                                        *)
(***************************************************************************)
EXTENDS JobStatus, Integers, FiniteSets, Functions

CONSTANTS
    Jobs,             \* job ids
    Workers,          \* rows of the workers table, one for each hostname
    Executors,        \* Celery pool processes; each runs one task at a time
    Host,             \* [Executors -> Workers]: siblings share a workers row
    Capacity,         \* [Workers -> Nat \ {0}]: workers.capacity
    StageJobs,        \* the jobs of type PIPELINE_STAGE
    DependsOn,        \* [Jobs -> Jobs \cup {NoJob}]: jobs.depends_on_job_id
    MaxAttempts,      \* jobs.max_attempts
    LegacyExhausted,  \* jobs found FAILED_RETRYABLE with no attempt left at start
    Faults,           \* what may go wrong or be asked for, a subset of FaultKinds
    MaxGeneration,    \* bound: no claim is made past it
    MaxMessages,      \* bound: run_job messages of one job in the broker
    NoJob, NoWorker

FaultKinds ==
    {"crash",       \* a pool process dies
     "lapse",       \* heartbeats are late although a process of the host is alive
     "duplicate",   \* the broker delivers a message again
     "escape",      \* an exception leaves run() with nothing recorded
     "late",        \* an exception after the SUCCEEDED write, still in the try block
     "pause",       \* the operator pauses or drains workers
     "cancel",      \* the operator cancels jobs
     "retry"}       \* the operator retries jobs by hand

ASSUME SetsAssumption ==
    /\ NoJob \notin Jobs
    /\ NoWorker \notin Workers
    /\ StageJobs \subseteq Jobs
    /\ LegacyExhausted \subseteq Jobs
    /\ Faults \subseteq FaultKinds

ASSUME FunctionsAssumption ==
    /\ Host \in [Executors -> Workers]
    /\ Capacity \in [Workers -> Nat \ {0}]
    /\ DependsOn \in [Jobs -> Jobs \cup {NoJob}]

ASSUME BoundsAssumption ==
    /\ MaxAttempts \in Nat \ {0}
    /\ MaxGeneration \in Nat
    /\ MaxMessages \in Nat

VARIABLES
    row,         \* the jobs table
    worker,      \* the workers table; age: 0 fresh, 1 offline-late, 2 requeue-late
    exec,        \* the pool processes: what each believes of the job it runs
    broker,      \* run_job(job_id) messages waiting for a process
    scan,        \* what a stuck scan has read and not yet acted on
    cancelling,  \* cancel requests between their read and their write
    verdict      \* job_events: the outcome written under each generation

vars == <<row, worker, exec, broker, scan, cancelling, verdict>>

Generations == 1..MaxGeneration

Row(status, attempt) ==
    [status |-> status, attempt |-> attempt, generation |-> 0,
     owner |-> NoWorker, claimedAt |-> "null"]

Process(pc) == [pc |-> pc, job |-> NoJob, generation |-> 0, exhausted |-> FALSE]

\* Where a process is: the status it last wrote, or a step in between.
Waiting == {"down", "idle"}
Failing == {"failing", "recording"}
Settled == {"failed", "done"}
Pcs == Waiting \cup {"begun"} \cup Active \cup Failing \cup Settled

Rows == [status : JobStatuses, attempt : 0..MaxAttempts, generation : 0..MaxGeneration,
         owner : Workers \cup {NoWorker}, claimedAt : {"null", "recent", "old"}]

Processes == [pc : Pcs, job : Jobs \cup {NoJob}, generation : 0..MaxGeneration,
              exhausted : BOOLEAN]

TypeOK ==
    /\ row \in [Jobs -> Rows]
    /\ worker \in [Workers -> [status : WorkerStatuses, age : 0..2]]
    /\ exec \in [Executors -> Processes]
    /\ broker \in [Jobs -> 0..MaxMessages]
    /\ scan \in [promote : SUBSET Jobs, requeued : SUBSET Jobs]
    /\ cancelling \in SUBSET Jobs
    /\ verdict \in [Jobs -> [Generations -> Outcomes \cup {"none"}]]

Init ==
    /\ row = [j \in Jobs |-> IF j \in LegacyExhausted
                             THEN Row("FAILED_RETRYABLE", MaxAttempts)
                             ELSE Row("ABSENT", 0)]
    /\ worker = [w \in Workers |-> [status |-> "ONLINE", age |-> 0]]
    /\ exec = [e \in Executors |-> Process("idle")]
    /\ broker = [j \in Jobs |-> 0]
    /\ scan = [promote |-> {}, requeued |-> {}]
    /\ cancelling = {}
    /\ verdict = [j \in Jobs |-> [g \in Generations |-> "none"]]

-----------------------------------------------------------------------------
(* What the code reads from the tables.                                    *)

OwnedActive(w) == {j \in Jobs : row[j].status \in Active /\ row[j].owner = w}

\* Variants with a plausible slip (AdmitsOneMore and the like) stand before the
\* definition they belong to; no run uses them, each shows that a property would
\* notice the slip.
AdmitsOneMore(w) ==
    /\ worker[w].status = "ONLINE"
    /\ Cardinality(OwnedActive(w)) <= Capacity[w]

Admits(w) ==
    /\ worker[w].status = "ONLINE"
    /\ Cardinality(OwnedActive(w)) < Capacity[w]

DependencyEnded(j) ==
    DependsOn[j] # NoJob => row[DependsOn[j]].status \in Terminal

DependencySatisfied(j) ==
    DependsOn[j] # NoJob => row[DependsOn[j]].status = "SUCCEEDED"

Claimable(j) ==
    /\ row[j].status \in Runnable
    /\ row[j].attempt < MaxAttempts
    /\ DependencySatisfied(j)

\* list_runnable_job_ids_for_dispatch
OnlyQueued == {j \in Jobs : Claimable(j) /\ row[j].status = "QUEUED"}
Candidates == {j \in Jobs : Claimable(j)}

SameGeneration(j) == row[j].generation
NextGeneration(j) == row[j].generation + 1

\* A row given back: by a requeue and by a manual retry.
StillOwned(r) == [r EXCEPT !.status = "QUEUED", !.claimedAt = "null"]
Released(r) == [r EXCEPT !.status = "QUEUED", !.owner = NoWorker, !.claimedAt = "null"]

ExhaustedLate(j) == row[j].attempt > MaxAttempts
Exhausted(j) == row[j].attempt >= MaxAttempts

\* Capacity of the ONLINE workers minus the active rows they own.
Headroom ==
    LET online == {w \in Workers : worker[w].status = "ONLINE"}
        free == SumFunctionOnSet(Capacity, online)
                    - Cardinality({j \in Jobs : \E w \in online : j \in OwnedActive(w)})
    IN  IF free > 0 THEN free ELSE 0

\* send_run_jobs_for_ids: the plan takes as many candidates as there is headroom.
\* (Messages of one job beyond MaxMessages add nothing to the ones that wait.)
SendRunJobs(candidates) ==
    \E S \in SUBSET candidates :
        /\ Cardinality(S) = IF Cardinality(candidates) < Headroom
                            THEN Cardinality(candidates) ELSE Headroom
        /\ broker' = [j \in Jobs |-> IF j \in S /\ broker[j] < MaxMessages
                                     THEN broker[j] + 1 ELSE broker[j]]

\* heartbeat_worker(status="ONLINE"): an operator's stop is kept.  The code reads
\* and writes in two transactions; WorkerControl models what comes in between.
BeatOnline(w) ==
    worker' = [worker EXCEPT ![w] =
        [status |-> IF @.status \in ControlBlock THEN @.status ELSE "ONLINE",
         age |-> 0]]

HoldsClaim(e) == exec[e].pc \in Active \cup Failing

\* The test update_job_status makes when it is given a fence.
FenceOnOwner(e) ==
    LET r == row[exec[e].job]
    IN  r.owner = Host[e] /\ r.status \in Active

FenceOnClaim(e) ==
    LET r == row[exec[e].job]
    IN  r.generation = exec[e].generation /\ r.owner = Host[e]

NoFence(e) == exec[e].job # NoJob

FenceHolds(e) ==
    LET r == row[exec[e].job]
    IN  /\ r.generation = exec[e].generation
        /\ r.owner = Host[e]
        /\ r.status \in Active

-----------------------------------------------------------------------------
(* Creation and dispatch.                                                  *)

\* create_job; a stage is created after the stage it depends on.
Create(j) ==
    /\ row[j].status = "ABSENT"
    /\ DependsOn[j] # NoJob => row[DependsOn[j]].status # "ABSENT"
    /\ row' = [row EXCEPT ![j] = Row("QUEUED", 0)]
    /\ UNCHANGED <<worker, exec, broker, scan, cancelling, verdict>>

\* The beat of tasks.dispatch_runnable_jobs.
DispatchRound ==
    /\ Candidates # {}
    /\ Headroom > 0
    /\ SendRunJobs(Candidates)
    /\ UNCHANGED <<row, worker, exec, scan, cancelling, verdict>>

-----------------------------------------------------------------------------
(* One pool process: JobExecutor.run.                                      *)

\* The broker hands a message over; run() begins with a heartbeat.
BeginRun(e, j) ==
    /\ exec[e].pc = "idle"
    /\ broker[j] > 0
    /\ broker' = [broker EXCEPT ![j] = @ - 1]
    /\ exec' = [exec EXCEPT ![e] = [Process("begun") EXCEPT !.job = j]]
    /\ BeatOnline(Host[e])
    /\ UNCHANGED <<row, scan, cancelling, verdict>>

\* JobLifecycle.claim and the heartbeat that follows it.
Claim(e) ==
    LET j == exec[e].job
        w == Host[e]
        next == NextGeneration(j)
    IN  /\ exec[e].pc = "begun"
        /\ Admits(w)
        /\ Claimable(j)
        /\ next < MaxGeneration
        /\ row' = [row EXCEPT ![j] = [status |-> "CLAIMED", attempt |-> @.attempt + 1,
                                      generation |-> next, owner |-> w,
                                      claimedAt |-> "recent"]]
        /\ exec' = [exec EXCEPT ![e] = [Process("CLAIMED") EXCEPT
                                            !.job = j, !.generation = next]]
        /\ BeatOnline(w)
        /\ UNCHANGED <<broker, scan, cancelling, verdict>>

\* The claim is refused (admission, or not runnable): the delivery ends there.
ClaimRefused(e) ==
    /\ exec[e].pc = "begun"
    /\ ~(Admits(Host[e]) /\ Claimable(exec[e].job))
    /\ exec' = [exec EXCEPT ![e] = Process("idle")]
    /\ UNCHANGED <<row, worker, broker, scan, cancelling, verdict>>

\* update_job_status without a fence: it overwrites whatever the row says.
WriteProgress(e, from, to) ==
    /\ exec[e].pc = from
    /\ row' = [row EXCEPT ![exec[e].job].status = to]
    /\ exec' = [exec EXCEPT ![e].pc = to]
    /\ UNCHANGED <<worker, broker, scan, cancelling, verdict>>

StartPreprocessing(e) == WriteProgress(e, "CLAIMED", "PREPROCESSING")

StartInferencing(e) == WriteProgress(e, "PREPROCESSING", "INFERENCING")

\* Only the stage jobs pass through POSTPROCESSING.
StartPostprocessing(e) ==
    /\ exec[e].job \in StageJobs
    /\ WriteProgress(e, "INFERENCING", "POSTPROCESSING")

\* A fenced terminal write; ClaimFenceError ends the run with nothing written.
WriteOutcome(e, outcome, pc) ==
    \/ /\ FenceHolds(e)
       /\ row' = [row EXCEPT ![exec[e].job].status = outcome]
       /\ verdict' = [verdict EXCEPT ![exec[e].job][exec[e].generation] = outcome]
       /\ exec' = [exec EXCEPT ![e].pc = pc]
    \/ /\ ~FenceHolds(e)
       /\ exec' = [exec EXCEPT ![e] = Process("idle")]
       /\ UNCHANGED <<row, verdict>>

Succeed(e) ==
    /\ exec[e].pc = IF exec[e].job \in StageJobs THEN "POSTPROCESSING"
                    ELSE "INFERENCING"
    /\ WriteOutcome(e, "SUCCEEDED", "done")
    /\ UNCHANGED <<worker, broker, scan, cancelling>>

\* After SUCCEEDED: a stage job dispatches the next stage; then a heartbeat.
Finish(e) ==
    LET following == {k \in StageJobs : /\ DependsOn[k] = exec[e].job
                                        /\ row[k].status = "QUEUED"}
    IN  /\ exec[e].pc = "done"
        /\ IF exec[e].job \in StageJobs THEN SendRunJobs(following)
           ELSE UNCHANGED broker
        /\ exec' = [exec EXCEPT ![e] = Process("idle")]
        /\ BeatOnline(Host[e])
        /\ UNCHANGED <<row, scan, cancelling, verdict>>

\* Any exception inside the try block: _record_pipeline_failure begins.  The block
\* goes on after the SUCCEEDED write (dispatch of the next stage, heartbeat).
Raise(e) ==
    /\ exec[e].pc \in Active \cup (IF "late" \in Faults THEN {"done"} ELSE {})
    /\ exec' = [exec EXCEPT ![e].pc = "failing"]
    /\ UNCHANGED <<row, worker, broker, scan, cancelling, verdict>>

RecordPermanent(e) ==
    /\ exec[e].pc = "failing"
    /\ WriteOutcome(e, "FAILED_PERMANENT", "failed")
    /\ UNCHANGED <<worker, broker, scan, cancelling>>

\* fail_job_retryable reads the attempt budget before it opens its transaction...
ReadBudget(e) ==
    /\ exec[e].pc = "failing"
    /\ exec' = [exec EXCEPT ![e].pc = "recording",
                            ![e].exhausted = Exhausted(exec[e].job)]
    /\ UNCHANGED <<row, worker, broker, scan, cancelling, verdict>>

\* ...and then writes what it decided, under the fence.
RecordRetryable(e) ==
    /\ exec[e].pc = "recording"
    /\ WriteOutcome(e, IF exec[e].exhausted THEN "DEAD_LETTERED"
                       ELSE "FAILED_RETRYABLE", "failed")
    /\ UNCHANGED <<worker, broker, scan, cancelling>>

\* heartbeat(status="ERROR") after a recorded failure.
ReportError(e) ==
    /\ exec[e].pc = "failed"
    /\ worker' = [worker EXCEPT ![Host[e]] = [status |-> "ERROR", age |-> 0]]
    /\ exec' = [exec EXCEPT ![e] = Process("idle")]
    /\ UNCHANGED <<row, broker, scan, cancelling, verdict>>

\* An exception before the try block (bad input), or one raised while the failure
\* is being recorded, leaves run() with the row as it is.
Escape(e) ==
    /\ "escape" \in Faults
    /\ exec[e].pc \in {"CLAIMED"} \cup Failing
    /\ exec' = [exec EXCEPT ![e] = Process("idle")]
    /\ UNCHANGED <<row, worker, broker, scan, cancelling, verdict>>

-----------------------------------------------------------------------------
(* Pool processes and workers rows.                                        *)

\* The process dies.  With acks_late the message may come back or be lost.
Crash(e) ==
    /\ "crash" \in Faults
    /\ exec[e].pc # "down"
    /\ exec' = [exec EXCEPT ![e] = Process("down")]
    /\ \/ UNCHANGED broker
       \/ /\ exec[e].job # NoJob
          /\ broker[exec[e].job] < MaxMessages
          /\ broker' = [broker EXCEPT ![exec[e].job] = @ + 1]
    /\ UNCHANGED <<row, worker, scan, cancelling, verdict>>

\* The pool replaces the process: registration under the same hostname.
Restart(e) ==
    /\ exec[e].pc = "down"
    /\ exec' = [exec EXCEPT ![e] = Process("idle")]
    /\ BeatOnline(Host[e])
    /\ UNCHANGED <<row, broker, scan, cancelling, verdict>>

\* The broker delivers the message of a running task again (visibility timeout).
Redeliver(e) ==
    /\ "duplicate" \in Faults
    /\ exec[e].job # NoJob
    /\ broker[exec[e].job] < MaxMessages
    /\ broker' = [broker EXCEPT ![exec[e].job] = @ + 1]
    /\ UNCHANGED <<row, worker, exec, scan, cancelling, verdict>>

HostDown(w) == \A e \in Executors : Host[e] = w => exec[e].pc = "down"

\* The idle and long-task heartbeat threads of any live process of the host.
Heartbeat(w) ==
    /\ ~HostDown(w)
    /\ BeatOnline(w)
    /\ UNCHANGED <<row, exec, broker, scan, cancelling, verdict>>

\* Time passes without a heartbeat: past 180 s, then past 300 s.
Lapse(w) ==
    /\ HostDown(w) \/ "lapse" \in Faults
    /\ worker[w].age < 2
    /\ worker' = [worker EXCEPT ![w].age = @ + 1]
    /\ UNCHANGED <<row, exec, broker, scan, cancelling, verdict>>

\* Time passes on a claim: past 15 min.
ClaimAges(j) ==
    /\ row[j].claimedAt = "recent"
    /\ row' = [row EXCEPT ![j].claimedAt = "old"]
    /\ UNCHANGED <<worker, exec, broker, scan, cancelling, verdict>>

\* GET /api/infra/workers: mark_stale_workers_offline.
MarkOffline ==
    LET late == {w \in Workers : worker[w].status = "ONLINE" /\ worker[w].age > 0}
    IN  /\ late # {}
        /\ worker' = [w \in Workers |->
                          IF w \in late THEN [worker[w] EXCEPT !.status = "OFFLINE"]
                          ELSE worker[w]]
        /\ UNCHANGED <<row, exec, broker, scan, cancelling, verdict>>

-----------------------------------------------------------------------------
(* tasks.scan_and_requeue_stuck_jobs.                                      *)

StuckClaimed ==
    {j \in Jobs : /\ row[j].status = "CLAIMED"
                  /\ row[j].claimedAt = "old"
                  /\ row[j].owner = NoWorker \/ worker[row[j].owner].age = 2}

Stuck ==
    {j \in Jobs : /\ row[j].status \in Active
                  /\ row[j].claimedAt = "old"
                  /\ \/ row[j].owner = NoWorker
                     \/ worker[row[j].owner].age = 2}

\* The rows reconcile_exhausted_retryable_to_dead_letter reads.
BeyondBudget == {j \in Jobs : row[j].status = "FAILED_RETRYABLE" /\ ExhaustedLate(j)}
ToPromote == {j \in Jobs : row[j].status = "FAILED_RETRYABLE" /\ Exhausted(j)}

\* requeue_stuck_jobs (one transaction), then the read of the rows to dead-letter.
ScanStuck ==
    /\ scan = [promote |-> {}, requeued |-> {}]
    /\ Stuck \cup ToPromote # {}
    /\ row' = [j \in Jobs |->
                  IF j \in Stuck
                  THEN [Released(row[j]) EXCEPT !.generation = NextGeneration(j)]
                  ELSE row[j]]
    /\ scan' = [promote |-> ToPromote, requeued |-> Stuck]
    /\ UNCHANGED <<worker, exec, broker, cancelling, verdict>>

\* reconcile_exhausted_retryable_to_dead_letter, one row: an unfenced write.
ScanPromote(j) ==
    /\ j \in scan.promote
    /\ row' = [row EXCEPT ![j].status = "DEAD_LETTERED"]
    /\ scan' = [scan EXCEPT !.promote = @ \ {j}]
    /\ UNCHANGED <<worker, exec, broker, cancelling, verdict>>

\* _dispatch_after_requeue
ScanDispatch ==
    /\ scan.promote = {}
    /\ scan.requeued # {}
    /\ SendRunJobs(scan.requeued)
    /\ scan' = [scan EXCEPT !.requeued = {}]
    /\ UNCHANGED <<row, worker, exec, cancelling, verdict>>

-----------------------------------------------------------------------------
(* The operator's API.                                                     *)

\* POST /api/infra/jobs/{id}/retry: manual_retry_job.
ManualRetry(j) ==
    /\ "retry" \in Faults
    /\ row[j].status \in RetryAllowedFrom
    /\ row' = [row EXCEPT ![j] = [Released(@) EXCEPT !.attempt = 0]]
    /\ UNCHANGED <<worker, exec, broker, scan, cancelling, verdict>>

\* POST /api/infra/jobs/{id}/cancel reads the row...
CancelRead(j) ==
    /\ "cancel" \in Faults
    /\ row[j].status \notin Terminal \cup {"ABSENT"}
    /\ cancelling' = cancelling \cup {j}
    /\ UNCHANGED <<row, worker, exec, broker, scan, verdict>>

\* ...and then writes CANCELLED over whatever the row says by then.
CancelWrite(j) ==
    /\ j \in cancelling
    /\ cancelling' = cancelling \ {j}
    /\ row' = [row EXCEPT ![j].status = "CANCELLED"]
    /\ UNCHANGED <<worker, exec, broker, scan, verdict>>

SetWorkerStatus(w, status) ==
    /\ worker[w].status # status
    /\ worker' = [worker EXCEPT ![w].status = status]
    /\ UNCHANGED <<row, exec, broker, scan, cancelling, verdict>>

Pause(w) == "pause" \in Faults /\ SetWorkerStatus(w, "PAUSED")
Drain(w) == "pause" \in Faults /\ SetWorkerStatus(w, "DRAINING")
Resume(w) == SetWorkerStatus(w, "ONLINE")

-----------------------------------------------------------------------------

RunStep(e) ==
    \/ Claim(e) \/ ClaimRefused(e)
    \/ StartPreprocessing(e) \/ StartInferencing(e) \/ StartPostprocessing(e)
    \/ Succeed(e) \/ Finish(e)
    \/ Raise(e) \/ RecordPermanent(e) \/ ReadBudget(e) \/ RecordRetryable(e)
    \/ ReportError(e) \/ Escape(e)

ProcessStep(e) ==
    \/ RunStep(e) \/ Crash(e) \/ Restart(e) \/ Redeliver(e)
    \/ \E j \in Jobs : BeginRun(e, j)

WorkerStep(w) ==
    Heartbeat(w) \/ Lapse(w) \/ Pause(w) \/ Drain(w) \/ Resume(w)

JobStep(j) ==
    \/ Create(j) \/ ClaimAges(j) \/ ScanPromote(j)
    \/ ManualRetry(j) \/ CancelRead(j) \/ CancelWrite(j)

Next ==
    \/ DispatchRound \/ MarkOffline \/ ScanStuck \/ ScanDispatch
    \/ \E e \in Executors : ProcessStep(e)
    \/ \E w \in Workers : WorkerStep(w)
    \/ \E j \in Jobs : JobStep(j)

Spec == Init /\ [][Next]_vars

-----------------------------------------------------------------------------
(* Safety.                                                                 *)

\* Two processes never hold the same claim of a job, whatever the broker delivers
\* twice and whatever the scan requeues: JobLifecycle.claim gives every holder a
\* generation of its own.
OneHolderPerClaim ==
    \A e, f \in Executors :
        /\ e # f
        /\ HoldsClaim(e) /\ HoldsClaim(f)
        /\ exec[e].job = exec[f].job
        => exec[e].generation # exec[f].generation

RetryableHasBudget ==
    \A j \in Jobs : row[j].status = "FAILED_RETRYABLE" => row[j].attempt < MaxAttempts

DeadLetterMeansExhausted ==
    \A j \in Jobs : row[j].status = "DEAD_LETTERED" => row[j].attempt >= MaxAttempts

\* A job waits for retry only while it has attempts left, and is dead-lettered only
\* when they are used up.  fail_job_retryable and the reconciliation decide on a budget
\* they read before their write; a manual retry in between must not be undone.
BudgetsAreHonest == RetryableHasBudget /\ DeadLetterMeansExhausted

\* An active row with an owner always carries claimed_at, without which
\* requeue_stuck_jobs would never look at it again; so no late write of an old
\* holder makes an owned claim invisible to the scan.
OwnedClaimIsTimed ==
    \A j \in Jobs :
        row[j].status \in Active /\ row[j].owner # NoWorker
            => row[j].claimedAt # "null"

\* A stage is claimed only after the stage before it recorded SUCCEEDED under some
\* claim of its own.
StageFollowsSuccess ==
    \A j \in Jobs :
        row[j].generation > 0 /\ DependsOn[j] # NoJob
            => \E g \in Generations : verdict[DependsOn[j]][g] = "SUCCEEDED"

\* A host never runs more claims than its capacity, however many messages are
\* dispatched beyond it and however often they are delivered (while nothing
\* revives a row that left its claim: no lapse of heartbeats and no cancel).
CapacityRespected ==
    \A w \in Workers : Cardinality(OwnedActive(w)) <= Capacity[w]

\* Verdicts are recorded for the latest claim only, and once for each claim: the
\* runtime implements ClaimFence.
Fence == INSTANCE ClaimFence WITH
            Generations <- Generations,
            Verdicts <- Outcomes,
            generation <- [j \in Jobs |-> row[j].generation],
            verdict <- verdict
FenceSpec == Fence!Spec

\* One row moves along a documented edge, unless a progress write or a cancel moved it.
KeepsToTable(j) ==
    LET from == row[j].status
        to == row'[j].status
    IN  \/ from \in {"ABSENT", to}
        \/ Documented(from, to)
        \/ to \in Progress \cup {"CANCELLED"}

\* The only writes that leave the documented state machine are the two that carry
\* neither fence nor guard: the progress writes and the cancel.
OnlyUnfencedWritesStray == [][\A j \in Jobs : KeepsToTable(j)]_vars

-----------------------------------------------------------------------------
(* What the repository says of the runtime and the code does not keep.     *)

\* "stale workers cannot overwrite a newer generation": a process whose claim was
\* superseded leaves the row alone.
StaleNeverOverwrites ==
    [][\A e \in Executors :
          LET j == exec[e].job
          IN  HoldsClaim(e) /\ exec[e].generation < row[j].generation /\ exec'[e] # exec[e]
                  => row'[j] = row[j]]_vars

\* "QUEUED work is not stranded": a QUEUED row can be claimed some day.
QueuedIsClaimable ==
    \A j \in Jobs : row[j].status = "QUEUED" => ~Exhausted(j)

\* A run that ends while it still owns the claim has recorded how it ended: bad
\* input becomes FAILED_PERMANENT.
RunEndsRecorded ==
    [][\A e \in Executors :
          HoldsClaim(e) /\ FenceHolds(e) /\ exec'[e].pc = "idle"
              => row'[exec[e].job].status \notin Active]_vars

-----------------------------------------------------------------------------
(* Fairness: the pool takes messages and runs tasks, heartbeat threads and  *)
(* beats go on, time passes on claims and on dead hosts, and the operator   *)
(* eventually resumes a worker that stopped on ERROR.  Faults are not fair. *)

Fairness ==
    /\ WF_vars(DispatchRound) /\ WF_vars(ScanStuck) /\ WF_vars(ScanDispatch)
    /\ \A e \in Executors :
          WF_vars(RunStep(e)) /\ WF_vars(\E j \in Jobs : BeginRun(e, j))
    /\ \A w \in Workers :
          /\ WF_vars(Heartbeat(w)) /\ WF_vars(HostDown(w) /\ Lapse(w))
          /\ WF_vars(worker[w].status = "ERROR" /\ Resume(w))
    /\ \A j \in Jobs :
          WF_vars(Create(j)) /\ WF_vars(ClaimAges(j)) /\ WF_vars(ScanPromote(j))

FairSpec == Spec /\ Fairness

\* Without faults every job whose predecessors succeed ends in a terminal status:
\* lost races for capacity, refused claims and failures only delay it.
JobsSettle ==
    \A j \in Jobs :
        DependencySatisfied(j) /\ row[j].status # "ABSENT" ~> row[j].status \in Terminal

\* A retryable row with no attempt left (written by an older version) does not wait
\* for ever: the scan dead-letters it, or the operator retries it.
ExhaustedIsReconciled ==
    \A j \in Jobs : row[j].status = "FAILED_RETRYABLE" /\ Exhausted(j)
                      ~> ~(row[j].status = "FAILED_RETRYABLE" /\ Exhausted(j))

Abandoned(j) ==
    /\ row[j].status \in Active
    /\ \A e \in Executors : ~(HoldsClaim(e) /\ exec[e].job = j)

\* Work of a host that stays down comes back to the queue (or ends).
DeadHostReleasesJobs ==
    \A w \in Workers : <>[]HostDown(w) => <>[](OwnedActive(w) = {})

CrashesEnd ==
    \A e \in Executors : <>[](exec[e].pc = "down") \/ <>[](exec[e].pc # "down")

\* "a crashed worker does not permanently pin work in CLAIMED": an active row that
\* no process works on does not stay like that, once processes stop crashing.
CrashedProcessReleasesJobs ==
    CrashesEnd => \A j \in Jobs : Abandoned(j) ~> ~Abandoned(j)
=============================================================================
