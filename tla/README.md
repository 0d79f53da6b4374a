# Verification of the Livehouse photo agent

TLA+ models of the control logic of this repository, the TLC runs that check
them and the TLAPS proofs about them.  Paths below are relative to the
repository.  `PROJECT.json` is the machine-readable index: it maps every
definition to the lines it models, and lists components, runs, mutants, hazards
and theorems.

## 1. Inventory

The program ingests photo sessions, runs them through a staged pipeline of
image filters and vision-language models, and shows the results in a gallery.
Its durable core is a job runtime on SQLite (`utils/luma_brain.py`); Celery only
carries job ids.

| Component | State | Operations | Interacts by |
|---|---|---|---|
| Job store and lifecycle (`utils/luma_brain.py`, `services/job_lifecycle.py`) | rows of `jobs`, `job_events` | create, claim, progress and outcome writes, requeue, reconcile, manual retry, cancel | one SQLite transaction per call |
| Job executor (`services/job_executor.py`, `tasks/run_job.py`) | one running task per pool process | run, both job kinds, failure routing, dispatch of the next stage | job store, broker, heartbeats |
| Dispatch and maintenance beats (`services/job_dispatch.py`, `tasks/maintenance.py`, `celery_app.py`) | none of its own | dispatch round, stuck scan | job store, broker |
| Dispatch planning (`services/scheduler/__init__.py`, `services/worker_pools.py`) | none of its own; a round's deques, caps and pool headroom | weighted fair selection, pool and provider caps | three reads of job store and workers, one pick, messages |
| Workers registry (`infra/worker_manager.py`, `utils/luma_brain.py`) | rows of `workers`, heartbeat threads | register, heartbeat, offline scan, pause, drain, resume | one row shared by all pool processes of a host |
| Infra API (`api/infra_routes.py`) | none | retry, cancel, pause, drain, resume, dashboards | job store, workers |
| Ingest seeding (`tasks/ingest.py`, `seed_analyze_jobs_for_ingested_photos`) | rows of `photos` and `jobs` | find open work, create jobs, finalize photos | job store, gallery hook |
| Staged pipeline (`services/processor/`) | manifests, audit log and results of a session folder | stage 1 filter, stage 2 score and admission, stage 3 model, results, outcome | executor, inference, files between stages |
| Inference queue, router, ledger (`inference/`) | lanes, admission counts, batches, provider health | submit, run, batch, fail over, shut down | futures, threads |
| Stage 3 budget and degradation (`services/scheduler/`) | mode, pressure counters | observe, change mode | executor |
| Agent inference lane (`services/agent/infer_scheduler.py`) | admission semaphore, heap, flags of each job | submit, give up, run, close | threads, one lock per job |
| Curation jobs of the gallery chat (`services/agent/curation_jobs.py`) | rows of `agent_store.db`, the curation file of the gallery | submit, cancel, run as task or thread | SQLite, Celery, file |
| Agent conversation and skills, studio sessions (`utils/studio_sessions.py`), gallery (`api/gallery_routes.py`) | records, folders, result files | mostly request/response | files, SQLite |
| Go ingest (`cmd/ingest/`) | the archive, `photos` rows, previews | poll, copy, record, extract, call the hook | SQLite, HTTP hook |
| Legacy CLI, image operators, evaluation, metrics, web UI | - | sequential or presentational | - |

What is hard here: several processes of one host write one workers row; a job
may be executed by two processes at once (late heartbeats, redelivered messages);
fenced and unfenced writes mix on one row; several operations read in one
transaction and write in another; the stages of a session speak through files
that are rewritten in place; photos arrive while a run works; a caller gives up at
the moment its call is taken up; processes die between any two steps; and work
must still move on.  `PROJECT.json` lists the hazards, each at its line and with
the properties that watch it.

What makes the system correct:

* a claim has one holder, and only the holder of the *current* claim records an
  outcome (`OneHolderPerClaim`, `FenceSpec`);
* a job is retried only with attempts left and dead-lettered only without
  (`BudgetsAreHonest`);
* lost work is found again (`OwnedClaimIsTimed`, `DeadHostReleasesJobs`,
  `ExhaustedIsReconciled`, `JobsSettle`);
* capacity is respected (`CapacityRespected`), stages run in order
  (`StageFollowsSuccess`), operators are obeyed (`UncontestedStopHolds`);
* a dispatch round keeps to every cap, is fair to types, wastes no slot, and
  every job somebody could run is run (`WithinCaps`, `FirstInLine`,
  `TypesTakeTurns`, `RoundsAreFull`, `QueuedJobsRun`);
* whatever the camera writes is copied, recorded and analyzed, once
  (`FilesMatchRows`, `NothingStranded`, `OneOpenJob`, `UnseenOnlyIfLate`,
  `PhotosAreAnalyzed`);
* no image falls between the stages and none that was turned down costs a model
  call, however runs are resumed and repeated (`NoImageLost`,
  `TurnedDownStaysOut`, `ScoresAreKept`, `ResultsAreCurrent`);
* a request to a model is in one place, holds one slot, and gets one answer its
  ledger row agrees with (`OneHome`, `LaneSpec`, `LedgerAgrees`,
  `FuturesResolve`; in the agent's lane also `ExpiredStaysDown`, `OvertakenOnce`,
  `CallsReturn`); a failing provider is left alone and tried again
  (`BreakerConsistent`, `OpenIsRetried`);
* a curation job that has ended never becomes active again, a cancel is recorded over
  only by a run behind its last look, and what the gallery shows is what the chat is told
  (`OutcomeIsFinal`, `SelectionIsReported`, `JobsEnd`).

## 2. Modules

| Module | What it is |
|---|---|
| `JobStatus` | status values, their groups, the documented transitions |
| `ClaimFence` | abstract specification: generations and verdicts, nothing else |
| `BoundedLane` | abstract specification: calls that take one of so many slots, once, and give it back, once |
| `JobRuntime` | the job runtime: tables, broker, processes, scans, operator |
| `MCJobRuntime` | values of the constants for TLC |
| `JobRuntime_proofs` | theorems about `JobRuntime` |
| `WorkerControl` | one workers row, heartbeats in two steps, operator, offline scan |
| `MCWorkerControl`, `WorkerControl_proofs` | the same for `WorkerControl` |
| `InferenceQueue` | one lane: callers, slots, workers and batches, ledger rows, shutdown |
| `InferenceRouter` | `infer` with the circuit breaker and the fallback |
| `DispatchPlan` | the weighted fair planner beside the workers it plans for |
| `SessionIngest` | one session from the card to the outcome in the ledger |
| `SessionAnalysis` | one session through the stages, as one job or a chain of five |
| `AgentInferScheduler` | the lane in front of the agent's chat model |
| `CurationJobs` | the delivery jobs of the gallery chat |
| `MC...`, `..._proofs` | the values of the constants for TLC, and the theorems, of each of these; `Inference_proofs` is about the queue and the router |

The modules meet at claims.  `JobRuntime` is where claims are won and lost;
`SessionAnalysis` takes them as given (one holder per claim, a claim may be lost
under a live process) and looks at what a run does with files; `SessionIngest`
takes a run as three steps and looks at photos; `DispatchPlan` takes a claim as
one step and looks at what is sent.

### JobRuntime

| Variable | In the code |
|---|---|
| `row[j]` | `jobs.status, attempt, claim_generation, worker_id, claimed_at` (`claimedAt` is null, recent, or older than the stuck timeout) |
| `worker[w]` | `workers.status` and the age of `last_heartbeat` (0 fresh, 1 older than the offline limit of 180 s, 2 older than the requeue limit of 300 s) |
| `exec[e]` | a pool process: where it is in `JobExecutor.run`, its job, the generation it claimed, and the budget it read in `fail_job_retryable` |
| `broker[j]` | `run_job(j)` messages not yet taken |
| `scan` | the rows a stuck scan has selected for dead-lettering, and the ids it will dispatch |
| `cancelling` | cancel requests between their read and their write |
| `verdict[j][g]` | the outcome event written under claim generation g |

Each action is one transaction, or one read that another transaction can come
between: the budget read of `fail_job_retryable`, the select of the reconcile,
the read of the cancel.  `BeatOnline` takes the read and the write of a
heartbeat as one step, because that race concerns only `workers.status`, which
`WorkerControl` models with both steps.  Time is abstracted to the classes above:
`Lapse` and `ClaimAges` move to the next class at any moment the constants allow,
so every ordering of timeouts with other steps is covered.  What is left out: the
artifacts and metrics columns, error texts, the limit of 200 rows of a scan, the
priorities, provider caps and pools of a plan (`SendRunJobs` takes *any* set of
candidates of the right size; `DispatchPlan` models the choice).  `Faults` selects
what may go wrong in a run; every fault is something the code or its broker can
do.  A scan that finds a scan running is left out: the beat runs one at a time.

### WorkerControl

One workers row.  `BeatRead`/`BeatWrite` are the two statements of
`heartbeat_worker(status="ONLINE")`; `BeatError` is the executor's
`heartbeat(status="ERROR")`, which does not look first.  `command` and `contested`
are history: what the operator last ordered, and whether an ONLINE heartbeat was
already in flight then.

### InferenceQueue

| Variable | In the code |
|---|---|
| `call[r]` | the caller in `submit_future`: before and after the two looks at the stop flag, before and after the slot and the put |
| `free`, `queue` | `lane.admission`, `lane.pq` |
| `phase[w]`, `batch[w]`, `deferred[w]` | a worker in `_worker_loop` / `_collect_jobs_for_lane` / `_run_jobs` and the jobs in its hands |
| `result`, `answered` | `job.result`, and whether the future is done |
| `ledger`, `ledgerFault` | `model_runs.status`, and whether a ledger transaction has failed |
| `stopping`, `drain` | `_stop`, and how far `_reject_queued_jobs` is |
| `contested` | history: a request was on its way into the lane when the stop came |

`PrioritizedInferenceQueue` is a product of lanes that share only the stop flag,
so one lane is modelled.  Requests leave it in any order, which covers every
assignment of priorities and the gap between `next(lane.seq)` and `put`.  Whether
a request has waited too long to be batched is a choice made whenever a worker
looks (`tooLate`).  A batch runs in two steps, opening the ledger rows and calling
the router; each answer is a step.  Batches of more than one need a provider with
a native batch call, which only the mock has today; `MaxBatch = 1` is the other case.

### InferenceRouter

`failures`, `opened` and `probing` are the breaker's three fields; `opened` is a
class of `_opened_at` relative to the recovery time.  `before_request` and
`record_result` hold the breaker's lock and are one step each; the provider call
between them is not, and with the shipped values (recovery 60 s, provider timeout
240 s) a result may come several recovery times later.  `muddled` is history: such
a result was recorded into an open circuit.  Without a fallback model the breaker
is never consulted; that case is left out.  Providers catch their own exceptions
(`inference/providers/`), so `generate` always returns.

### DispatchPlan

| Variable | In the code |
|---|---|
| `queued`, `owner`, `online` | `jobs.status` runnable, `jobs.worker_id`, `workers.status` |
| `mail` | `run_job` messages at the broker |
| `at` | how far `plan_dispatch` is: candidates listed, headroom read, pools read, picking, sending |
| `deques` | the per-type deques of `select_jobs_weighted_fair` |
| `room`, `cap`, `left` | `effective_max`, `provider_effective_caps`, `executor_pool_remaining` |
| `turn`, `looked`, `progress`, `chosen` | the loops over types and rows, the flag `progress`, the picked ids |
| `offered` | history: the pool headroom before the first pick |

`ListCandidates`, `ReadHeadroom` and `ReadPools` are the three statements with
which a round reads the database; arrivals, claims, ends and pauses come between them.
`Pick` takes the first row of a type's deque, `Rotate` puts a blocked one to the
back, `NextTurn` and `NextPass` are the loops.  Picking reads no row, so what
happens during it is left for after it.  A provider's pressure is any number in
[0, 1]: its cap is any number from the minimum of slots to its maximum.  Types are
given in the order of `_type_sort_key`; rows of one rank stand in any order.  The
broker hands a message to any worker, and one that may not run the job drops it.  A worker
of a class that is no routed pool counts as inference slots in the headroom (`CountsFor`) but
takes only jobs of its own class (`Accepts`), as `worker_pools.py` has it.

### SessionIngest

| Variable | In the code |
|---|---|
| `card`, `copies`, `previews` | files on the card, in the archive (the worker's copy, one with the card's times, one under the spare name), previews |
| `ledger[p]` | `photos.status` |
| `at`, `todo`, `current`, `fresh` | the Go worker in its poll: the candidates left, the one copied but not recorded, the new ones counted for the hook |
| `hooks`, `seeder[s]` | hook calls on their way; a task or request between its reads and its create |
| `job[j]`, `seen[j]`, `judged` | an open job row and how far its run is, the previews it listed, the images some run got through |
| `missed`, `torn`, `late`, `raced` | history: photos whose hook or run was lost, copied by a scan that broke off, recorded after a listing or without a preview; two seeders looked at once |

The worker's steps are `Poll`, then per file `Skip` (known), `Repair` (in the
archive already, `EnsureIngestedRow`) or `Copy` and `Record`, then `ScanEnds`,
`Extract` and `CallHook`; each may fail, and the worker may die between any two.
The seeder's `SeedRead`, `SeedCheck` and `SeedCreate` are separate statements.
A run is `List`, `Finalize` (`finalize_analyzed`, which takes *every* ingested
photo of the session) and `Succeed`.  The histories say in which cases the code
gives no guarantee; each property names the ones it has to except.

### SessionAnalysis

| Variable | In the code |
|---|---|
| `setup` | the payload: one job or a chain, checkpoint, force, route |
| `status`, `holder` | the job row of each stage and its claim |
| `audit` | the last audit row of each image: a rejection, a score the checkpoint reuses, one it does not, a placeholder for a model that could not be reached |
| `m1`, `m2` | `eligible_after_stage1.jsonl`, `eligible_after_stage2.jsonl` |
| `current`, `analyzed` | `analysis_results.json` agrees with the audit log; the photos are ANALYZED |
| `at`, `of`, `todo`, `out` | a process in `PipelineStageRunner`, its stage, the images it has still to look at and those it will hand on |
| `overlapped`, `rewound`, `torn`, `stale` | history: two runs at once, a stage repeated after success, a run that ended while it rewrote the manifest of stage 3, placeholders older than the run |

Manifests are truncated in one step and filled in another (`Save1`/`Fill1`,
`Save2`/`Fill2`, `Save3`/`Fill3`), because a crash or a reader can come between.
Each image of a stage is a step.  `Admit` stands for duplicate removal and the
stage 3 gate: an operator constant about which only `Admit(S) \subseteq S` is
assumed.  In a chain the five jobs are the code's, less `PREPARE_INPUT`, which
writes nothing of these; `Create` adds them one by one, as
`create_linear_staged_session_jobs` does, while the first may run already, and the
chain may stay short for ever (its creator died: `ResultsAreCurrent` speaks of the
chains that were completed).  `Plan` takes any part of the candidates, which
stands for the dispatch plan, the time budget and the degrade controller.  The row
an image gets in stage 3 follows the two strategies: `Direct`, written after each
answer, and `FastFirst`, whose rows are `Merged` from a fast and a full answer and
written after the last; a run that ends before may lose answers.

### AgentInferScheduler

`call[r]` is the caller in `submit`, `phase[w]` and `job[w]` the worker in
`_worker_loop`; `free` is the admission semaphore, `queue` the heap (withdrawn jobs
included), and `cancelled`, `started`, `admitted`, `released`, `done` the flags,
event and future of a job.  `caught` (given up after the worker's lock; the caller's second
look at the event came before `admitted.set`, but it takes the job's lock at any time after)
and `passed` (how often something less urgent was started
meanwhile) are history.  The lock of a job makes `Claim`/`Skip` of the worker and
`GiveUp`/`AdmittedLate` of the caller one step each; everything else
interleaves.

### CurationJobs

| Variable | In the code |
|---|---|
| `status`, `asked`, `late` | `curation_jobs.status`, `cancel_requested`, older than the timeout |
| `posted` | a task or thread of the job that has not begun |
| `turn`, `made` | a chat turn in `submit_curation_job`: looked for an open job of its goal, inserted one, scheduled it |
| `at`, `job`, `kind`, `found` | a runner in `run_curation_job`: its reads, its claim, the search, the selection, the record |
| `wrote` | the selection is in the gallery's curation file |
| `fresh`, `barren`, `early`, `overtaken`, `shaken`, `lost` | history the properties need: which runs began late, which searches found nothing, when a cancel came, which runs a fault hit |

Every look of a run and every record it writes is a statement of its own; the
records of a run do not say which status they expect.  `Cancel` is the chat's,
`TimePasses` the clock, `Again` a broker that hands a task out twice, `Raise` an
exception (which a thread turns into "failed" and a task does not), `Crash` a
process that dies.  The backend "inline" is left out.

## 3. Runs

| Run | Bounds | Shows |
|---|---|---|
| `core_safety` | 1 job, 2 sibling processes, 2 attempts, generations up to 4; late heartbeats, cancels, manual retries | claims exclusive, budgets honest, owned claims timed, `ClaimFence` implemented, stray transitions come from the two unguarded writes only |
| `faults_chain` | 2 stages in a row, capacity 1, 1 attempt, generations up to 3; crashes, escaped and late exceptions, pause, retry | capacity and stage order |
| `live_settle` | 2 jobs, 1 slot, 2 attempts, no faults | every job ends |
| `live_hosts` | 2 hosts, 2 jobs, one of them a legacy row; crashes, duplicates | dead hosts release their claims, legacy rows are dead-lettered |
| `control` | 3 heartbeat senders | stops hold unless a heartbeat was already in flight; OFFLINE heals |
| `queue` | 3 requests of two kinds, 2 workers, 2 slots, batches of 2, a shutdown of either sort | `BoundedLane` implemented; places, answers and ledger agree; futures resolve |
| `router` | 4 threads, threshold 2, 1 fallback slot | breaker consistent, open circuits retried |
| `planner` | 4 jobs of 2 types, 2 providers, 2 pools; a worker for everything and one for inference, capacity 1 each; 2 per round, limit 4, any of the jobs runnable at first; 1 arrival, pause or resume | caps, order, turns, no wasted slot; every job a worker is online for is run |
| `ingest` | 2 photos, one of them possibly in the archive already, 2 seeders, 2 job rows, 1 fault, 1 request of the operator | files and rows agree, nothing stranded, one open job, everything recorded and analyzed |
| `analysis` | 4 images (one unfit, one dull, duplicate removal keeps one of the rest), every payload, 2 processes, 1 fault, 1 manual retry | no image lost, no model call for one turned down, scores kept, results current |
| `agent` | 1 urgent and 2 batch calls, 1 worker, 2 slots, a close at any moment | `BoundedLane` implemented; expired calls not run, urgent calls overtaken once, calls return |
| `curation` | 1 goal and job, 2 turns, 2 runners, 2 faults of three kinds | outcomes final, gallery and row agree, jobs end |

`MaxGeneration` stops new claims; 4 leaves room for a claim, a requeue, a second
claim and its requeue, so a process can be two claims behind.  `MaxMessages = 1`
is enough for duplication because a message is taken before it is sent again.
Two processes are the least that can share a row or race; a third adds only
another zombie.  In `queue` a request has to wait for a slot (3 requests, 2 slots)
and a worker can hold a batch and a deferred request while the other one works.
In `router` two old calls can be in flight beside a probe and a caller that is
turned away.  In `planner` the two pools overlap, a provider's cap blocks rows in
front of others, and the wildcard worker is counted for both pools; a job that arrives may
stand before or behind those a round has listed.  A worker of an unknown class is in the
model and in the theorems, which hold for any classes, but not in the run.  In `ingest`
the second photo comes at any point of the first one's ingest or run, and one
fault is enough to break a scan, a hook or a run; two would lose both photos the
same way.  In `analysis` the four images are one per fate, and a fault or a lost
claim plus a manual retry give every pair of overlapping and repeated runs.  In
`agent` the lane is full with one call outside.  In `curation` the second turn
finds the job of the first one open, just ended, or not there yet, and two
runners are a run and its redelivery.  Deadlock is checked in `control` and
`router` only: the other models rest when all work is done, the planner's when
no worker is left for it.

Every property has a mutant in `PROJECT.json`: a plausible bug of the code, under
which TLC finds the property violated.  Operators commented as "a slip no run
uses" are those bugs.

### Disagreements met while modelling

The repository says, and the code does not keep, the following.  The formulas are in
the modules (the sections "What the repository says ..."); no run checks them:
added to a cfg they are violated.  The first three hold without the fault that breaks
them, and that is proved (section 5).

| Formula | What the code does |
|---|---|
| `StaleNeverOverwrites` (with `lapse`) | progress writes carry no fence: a process whose claim was requeued overwrites the newer claim's row |
| `QueuedIsClaimable` (with `lapse`) | a claim lost on the last attempt is requeued to QUEUED with no attempt left; nothing looks at it again |
| `RunEndsRecorded` (with `escape`) | an exception before the `try` (missing source directory) leaves the row CLAIMED |
| `CrashedProcessReleasesJobs` (with `crash`, sibling processes) | a dead process's claim stays fresh as long as a sibling of its host beats |
| `StopIsNotResumed` (`control`) | a heartbeat that read ONLINE before a pause writes ONLINE after it |

Met in the models without a formula of their own:

* *Queue*: a request put into the lane after a shutdown has drained it is never
  resolved (`contested` in `DrainedStaysEmpty` and `FuturesResolve`).
* *Runtime*: a cancel lands on a row that just succeeded, or is undone by the next
  progress write; the reconcile dead-letters a row retried since it was read; the
  ERROR heartbeat replaces PAUSED or DRAINING.  A claim can get two verdicts
  (`FenceSpec` with `late` and `cancel`): after its SUCCEEDED write a superseded
  process's progress write makes the row active again, and an exception in the dispatch
  of the next stage records FAILED under the same claim.
* *Ingest*: a photo recorded while a run works is marked ANALYZED though no run saw
  it (`late` in `UnseenOnlyIfLate`; `finalize_analyzed`, `utils/luma_brain.py:594`),
  where the schema says "ANALYZED = analysis outcome recorded for this row"
  (`luma_brain_schema.sql:27`).  Two seeders at once can open two jobs (`raced`).
* *Analysis*: a run that ends while the manifest of stage 3 is being rewritten leaves
  it short (`torn`); a stage repeated alone leaves the results behind the audit log
  (`rewound`).  After a repeated stage 1 the manifest holds only what is left, and a
  gate that admits a share of its batch (`apply_stage3_candidates_gating`) may, when
  stage 2 is repeated too, turn down an image that has a score meanwhile: the clause
  `rewound /\ audit'[i] = "reject"` of `ScoresAreKept`.
* *Planner*: the wildcard workers' slots count for every pool, so a round may send
  more than they can take (the refused message is sent again); a class outside
  `JOB_ROUTING_EXECUTOR_CLASSES` is never dispatched; with a candidate limit
  smaller than the number of blocked rows in front, the rows behind them starve; a worker of
  an unknown class is counted for inference jobs it then refuses; and the order is strictly by
  priority, so that an endless stream of jobs of a higher one starves the rest
  (`QueuedJobsRun` is checked with a bounded number of arrivals).
* *Agent lane*: a call may be reported expired "without a worker" although one has
  started it, runs the model for it or is done with it (`caught`); withdrawn entries stay in the heap, which can exceed
  `max_queue_size`; `close()` does not drain it.
* *Curation*: the unconditional outcome of a run that had made its last look can overwrite a
  cancel the user was told of (`overtaken` in `OutcomeIsFinal` and `SelectionIsReported`;
  `gallery_curation_job.py:161` says a cancelled job must not be reported a success), and
  a run aborted on its timeout records "cancelled"; a task that raises leaves its row
  running, and later submits of the goal are answered with it (the `Abandoned` jobs that
  `JobsEnd` excuses); two turns that look at once both insert.

## 4. Fairness

`FairSpec` assumes that pool processes keep taking messages and running tasks
(Celery), that heartbeat threads and the two beats go on (`celery_app.py`,
`beat_schedule`), that time passes on claims and on dead hosts, that jobs are
created, and that an operator eventually resumes a worker stopped on ERROR - the
code never leaves ERROR by itself.  Crashes, lapses, duplicates, retries and
cancels are never fair.  `WorkerControl` assumes strong fairness of the heartbeat
write: the loop catches a failed write and tries again.  `InferenceQueue` assumes
that threads that can go on do: every wait in it (slot, `get`, window, HTTP call)
has a timeout.  `InferenceRouter` assumes that requests keep coming and not all of
them late (strong fairness of `Arrive`), and that a thread waiting for the fallback
semaphore is not overtaken for ever.

`SessionIngest`: the worker polls for ever, tasks and requests that began go on,
queued jobs are claimed and run (which `JobsSettle` shows).  Nobody has to ask, and
no camera has to write.  `DispatchPlan`: the beat keeps planning, jobs end, and -
one strong fairness - the broker does not for ever hand every message to workers
that drop it.  `AgentInferScheduler`: a thread that can go on does; every wait has
a timeout except the caller's for its answer, which the worker ends.
`CurationJobs`: turns and runs go on, waiting tasks and threads begin; nobody has to
cancel, and time does not have to pass.  `SessionAnalysis` is checked for safety
only: whether its jobs are run is `JobRuntime`'s question.  Faults are never fair.

## 5. Proofs

`JobRuntime_proofs` holds for any number of jobs, hosts and processes, any
capacities, budgets and faults.  The invariant is built in layers, each inductive
relative to the ones below:

1. `TypeInv`: types, plus that a claim stays below the generation bound and a
   busy process has a job;
2. `ClaimInv`: a process's generation never exceeds its row's, and two processes
   never hold one generation of one job.  This gives `ClaimsAreExclusive`;
3. `OwnersAreTimed`: an owned active row has `claimed_at`; also a row that left
   its claim has no owner, which is what keeps an unfenced progress write from
   making an owned claim invisible;
4. `BudgetInv`: what a process read of the budget is still true whenever its
   fence holds.  That is the heart of `BudgetsHold`: the read is outside the
   transaction, but the attempt count cannot change without a new generation or a
   loss of ownership.  It also says that the scan never has a row to promote, so
   `OthersKeepToTable` needs no guess about what the row says by then;
5. `LedgerInv`: a process whose claim has its verdict is past its outcome or, where a
   late exception can bring it back to its failure handler, fenced out
   (`SpentIsFenced`); and a SUCCEEDED row has a SUCCEEDED verdict.  This gives
   `StagesFollowSuccess` and `ImplementsFence`.

`CapacityHolds` adds that a process at work owns the current claim of its row
(`WorkIsOwned`) and that a host whose heartbeat is old is down: no progress write can
then put a row back under a host, and the count of a host's claims grows only in
`Claim`, which compares it with the capacity in the same transaction.

Steps are grouped by what they write (`QuietStep`, `TableStep`, `LocalStep`,
`ProgressStep`, `OutcomeStep`, `Claim`); one lemma per group states its effect,
so each layer is proved once per group and not once per action.

Assumptions beyond those on the constants: no legacy rows (`LegacyExhausted = {}`)
for `BudgetsHold`, `OthersKeepToTable` and `CapacityHolds` - `reconcile` races with a
manual retry otherwise - and no late heartbeats and no cancels for `CapacityHolds` (both
take a claim away from a process that goes on working).  `StagesFollowSuccess` and
`ImplementsFence` need one of two (`LedgerAssumption`): no late exceptions, or none of the
faults just named.  A finished run that re-enters its failure handler is refused by the
fence only while nothing makes its row active again, and an unfenced progress write of
another process is what could; so with late exceptions the ledger rests on `CapacityInv`
(`WorkIsOwned`).  The assumption is needed: with `late` added to the faults of
`core_safety` TLC finds a run that records a failure over its own success.

Where section 3 lists a formula the code breaks, three theorems say that the named
fault is all that breaks it: `StaleWritersAreHarmless` (no late heartbeats, cancels or
legacy rows: from `WorkIsOwned`, a process at work is never stale, and the writes of the
others are fenced), `RunsEndRecorded` (no escaping exceptions) and `QueuedWorkIsClaimable`
(neither late heartbeats nor crashes: by `OwnersAreUp` every claim with an age has a
live process behind it, so the stuck scan finds nothing).

The last section composes the runtime with `WorkerControl`.  `OrderedSpec` is `Spec` with
a history variable, `ordered`: the operator's last command to each worker.
`RowsKeepControl` shows that the row of any worker (`Watched`) behaves as `WorkerControl`
says, its processes being the senders of heartbeats; the runtime's heartbeat is one step,
so none is ever in flight and no command is contested.  Through it `StopsHold` carries
over, and with the guard of the claim it gives `StoppedTakeNoJobs`: a worker whose last
command is a stop claims nothing, after whatever crashes, restarts and offline scans.
What the runtime leaves out - a heartbeat that read ONLINE before the stop - is the
contested case of `WorkerControl`.

`WorkerControl_proofs` proves `StopsHold` for any number of senders: behind an
uncontested stop no sender is about to write ONLINE (`ControlTypesHold` is its type
invariant).

`Inference_proofs`, for any number of requests and workers: `HomeInv` says
where a request can be (with `HandsInv`, that a worker's hands are empty outside the
part of the loop that fills them); `SlotsInv` adds the count, where each step moves
at most one request into or out of `Holders` and `free` follows (`SlotsMove`).
`TypeOK` needs it: `free <= Slots` is a consequence of the count.  `ImplementsLane`
maps each step to one of `BoundedLane` or a stutter, with `Holders` for the calls inside
and `Through` for those the lane is done with: `HomeInv` says that whoever answers a
request finds it unanswered, so no slot is given back twice.  `RowInv` follows a ledger
row along the places of its request.  The same module proves the breaker's invariant and
types (`BreakerSafe`, `BreakerTypesHold`) from `ProbesAreMarked`: unless muddled, a probe
in flight is the marked one.

`SessionAnalysis_proofs`, for any images, processes, faults and retries, and any
`Admit` that returns a part of what it gets.  `CleanInv` follows a turned-down image
through both manifests and every process's hands: an unfit one
is in no first manifest, a dull one in no second, and neither in what a process hands
on - also when a stale process fills the manifest of its successor.  `ResultInv` says that, without overlap, at most one
process works and only for the running stage, and the stages that have succeeded are
a prefix; so the last step of the chain was taken on the audit log as it is.
`LostInv` (`NoImageIsLost`) says what a run owes - images without a row, and
placeholders older than the run - and where it is at each place of the run: in the
process's hands (`todo`, `out`) or in the manifest it reads next; whoever may truncate
a manifest runs a stage that has not succeeded.  It needs no assumption on
`rewound`: a chain whose stages are repeated in any order loses nothing either.
`FreshInv` (`ScoresSurvive`) adds that a stage which skips what is done has no score
in hand where it writes, and that an unrepeated chain has no score before stage 2 is
over.

`SessionIngest_proofs`, for any photos, seeders and rows: `FileInv` (a row has its
file; between copy and row the worker remembers the file, so a second copy needs a
scan that broke off), `SeenInv` (whatever a run marks was in its listing, or is
late), `WayInv` (an ingested photo is carried by the worker's count, a hook, a
seeder or a job, and each step hands it to the next) and `JobInv` (two open rows
need two seeders past their check).

`AgentInferScheduler_proofs`, for any calls, workers and slots: `LaneInv` relates the
caller's place, the worker's and the flags of a job; `SlotsInv` adds the count, with
one lemma for a step that takes a slot and one for a step that gives it back.
`ImplementsLane` is the same refinement as the queue's: `released` is set under the
job's lock by the worker or by the caller that gave up, whichever comes first.
`LaneIsBounded` follows: whatever runs or will run holds a slot.  `OrderInv` says
that a worker takes the most urgent entry, so after an urgent call is in the heap
only what a worker already holds can pass it: one per worker.

`DispatchPlan_proofs`, for any jobs, types, providers, pools and caps: `LineInv` (each
candidate stands once, in the line of its type), `WithinCaps` itself with `SlotsKnown`
(`CapsHold`), `OrderInv` (the rows of a type that can be picked stand in order of rank:
only blocked rows are put to the back, and a blocked row stays blocked for the round;
`PicksAreInOrder`), and `TurnInv` (in pass n a type has
picked n jobs, n + 1 once it had its turn, or is stuck; a pass in which nobody picked
has passed only stuck types; `TurnsAreFair`, `NoSlotIsWasted`).

`CurationJobs_proofs`, for any jobs, goals, turns, runners and faults.  `PlaceInv` and
`TraceInv` say where a run can be and that a job without a row has left no trace;
`LateRunInv`, that a run which begins on an ended row gets no further than to repeat a
cancel, and `CancelInv`, that whatever runs a cancelled job has left have nothing in hand to
record over it unless the cancel came behind a last look: these give `OutcomesAreFinal`.  For `SelectionsAreReported`, `QueuedInv` says
that no run of a queued job has passed the claim, so one cancelled in the queue selects
nothing; `ResultInv`, that a run's result is in the file or an empty search; and
`SelectInv`, that a run which has made its last look, with no cancel, timeout or fault
behind it, will report what it selects.  `SelectInv` needs that there is no second run to
record over it: a job no fault has hit is with the turn that inserted it, posted, or
in one runner's hands (`OneRunInv`).

Type invariants and `SlotsConserved` are proved and not run: each is a part of the
invariants above.

Every safety property a run checks is stated by a theorem, under the assumptions named
here.  Only model-checked are the liveness properties, because fairness and ENABLED are
out of the prover's reach: `JobsSettle`, `DeadHostReleasesJobs`, `ExhaustedIsReconciled`,
`OfflineRecovers`, `FuturesResolve`, `OpenIsRetried`, `PhotosAreAnalyzed`, `CallsReturn`,
`QueuedJobsRun`, `JobsEnd`.

## 6. Plan

In order: the scope quota (the hour is taken before the transaction, and a charge is not returned when the create after
it fails); the counters and thresholds of stage 3's degrade controller, whose
decisions are any choice today; the Go worker's archive mode; the audit log's copy
and unlink across processes (`services/processor/pipeline_image_ops.py`).

## 7. Not modelled

Image and model arithmetic (`engine/`, `op_kernel.py`, `deep_analysis.py`, stage
internals), HTTP and HTML presentation, metrics and tracing, evaluation scripts, the
language-model glue of the agent.  They hold no shared control state, or none a model
checker would say something about; they are also most of the repository's lines, so
the map's share of them stays small.  Of the modelled parts: the content of the
gallery's curation file (a rewrite drops the user's feedback in it; a user's own
edit of it), artifacts and metrics columns, retention, and the payload options that
only change what a stage computes.
