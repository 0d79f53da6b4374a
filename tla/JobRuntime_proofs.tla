------------------------- MODULE JobRuntime_proofs -------------------------
(***************************************************************************)
(* Proofs about JobRuntime, for every number of jobs, workers, processes,  *)
(* attempts and for every set of faults (where a theorem excludes a fault, *)
(* it says so).  The invariants come in layers, each inductive relative to *)
(* the ones before it: types, claims, budgets, and the ledger of verdicts. *)
(***************************************************************************)
EXTENDS JobRuntime, FiniteSetTheorems, TLAPS

-----------------------------------------------------------------------------
(* Types.                                                                  *)

\* A row that carries claimed_at was claimed, at a generation below the bound, so a
\* requeue may still increment it.
ClaimedBelowBound ==
    \A j \in Jobs : row[j].claimedAt # "null"
                        => row[j].generation > 0 /\ row[j].generation < MaxGeneration

\* A process past its wait has a job.
BusyHasJob == \A e \in Executors : exec[e].pc \notin Waiting => exec[e].job \in Jobs

TypeInv == TypeOK /\ ClaimedBelowBound /\ BusyHasJob

LEMMA TypeInit == Init => TypeInv
PROOF
  <1> SUFFICES ASSUME Init PROVE TypeInv
      OBVIOUS
  <1> USE SetsAssumption, BoundsAssumption DEF Init
  <1>1. row \in [Jobs -> Rows]
      BY DEF Row, Rows, JobStatuses, Runnable
  <1>2. exec \in [Executors -> Processes]
      BY DEF Process, Processes, Pcs, Waiting
  <1>3. worker \in [Workers -> [status : WorkerStatuses, age : 0..2]]
      BY DEF WorkerStatuses
  <1>4. TypeOK
      BY <1>1, <1>2, <1>3 DEF TypeOK
  <1>5. ClaimedBelowBound
      BY DEF ClaimedBelowBound, Row
  <1>6. BusyHasJob
      BY DEF BusyHasJob, Process, Waiting
  <1> QED BY <1>4, <1>5, <1>6 DEF TypeInv

\* The steps that write only the broker, the workers table, the scan's own lists or
\* the cancel requests.
QuietStep ==
    \/ DispatchRound \/ MarkOffline \/ ScanDispatch
    \/ \E w \in Workers : WorkerStep(w)
    \/ \E e \in Executors : Redeliver(e)
    \/ \E j \in Jobs : CancelRead(j)

\* The steps of the processes that leave the jobs table and the verdicts alone.
LocalStep(e) ==
    \/ \E j \in Jobs : BeginRun(e, j)
    \/ ClaimRefused(e) \/ Finish(e) \/ Raise(e) \/ ReadBudget(e) \/ ReportError(e)
    \/ Escape(e) \/ Crash(e) \/ Restart(e)

ProgressStep(e) ==
    StartPreprocessing(e) \/ StartInferencing(e) \/ StartPostprocessing(e)

OutcomeStep(e) == Succeed(e) \/ RecordPermanent(e) \/ RecordRetryable(e)

\* The steps that write the jobs table without a process.
TableStep ==
    \/ ScanStuck
    \/ \E j \in Jobs : \/ Create(j) \/ ClaimAges(j) \/ ScanPromote(j)
                       \/ ManualRetry(j) \/ CancelWrite(j)

\* Every step is of one of these groups.
LEMMA StepGroups ==
    Next => \/ QuietStep \/ TableStep
            \/ \E e \in Executors : \/ LocalStep(e) \/ Claim(e)
                                    \/ ProgressStep(e) \/ OutcomeStep(e)
PROOF
  BY DEF Next, QuietStep, TableStep, LocalStep, ProgressStep, OutcomeStep,
         ProcessStep, RunStep, WorkerStep, JobStep

LEMMA SendRunJobsType ==
    ASSUME TypeOK, NEW S, SendRunJobs(S)
    PROVE  broker' \in [Jobs -> 0..MaxMessages]
PROOF
  BY BoundsAssumption DEF TypeOK, SendRunJobs

LEMMA BeatOnlineType ==
    ASSUME TypeOK, NEW w \in Workers, BeatOnline(w)
    PROVE  worker' \in [Workers -> [status : WorkerStatuses, age : 0..2]]
PROOF
  BY DEF TypeOK, BeatOnline, WorkerStatuses, ControlBlock

\* What the steps do to the record of a process keeps its type.
LEMMA PcUpdate ==
    ASSUME NEW p \in Processes, NEW pc \in Pcs
    PROVE  [p EXCEPT !.pc = pc] \in Processes /\ [p EXCEPT !.pc = pc].job = p.job
PROOF
  BY DEF Processes

LEMMA BudgetUpdate ==
    ASSUME NEW p \in Processes, NEW pc \in Pcs, NEW b \in BOOLEAN
    PROVE  /\ [p EXCEPT !.pc = pc, !.exhausted = b] \in Processes
           /\ [p EXCEPT !.pc = pc, !.exhausted = b].job = p.job
PROOF
  BY DEF Processes

LEMMA JobUpdate ==
    ASSUME NEW p \in Processes, NEW j \in Jobs
    PROVE  [p EXCEPT !.job = j] \in Processes /\ [p EXCEPT !.job = j].job = j
PROOF
  BY DEF Processes

LEMMA ClaimUpdate ==
    ASSUME NEW p \in Processes, NEW j \in Jobs, NEW g \in 0..MaxGeneration
    PROVE  /\ [p EXCEPT !.job = j, !.generation = g] \in Processes
           /\ [p EXCEPT !.job = j, !.generation = g].job = j
PROOF
  BY DEF Processes

LEMMA ProcessType ==
    ASSUME NEW pc \in Pcs
    PROVE  Process(pc) \in Processes /\ Process(pc).pc = pc
PROOF
  BY BoundsAssumption DEF Process, Processes

LEMMA QuietType == TypeInv /\ QuietStep => TypeInv'
PROOF
  <1> SUFFICES ASSUME TypeInv, QuietStep PROVE TypeInv'
      OBVIOUS
  <1> USE BoundsAssumption DEF TypeInv, ClaimedBelowBound, BusyHasJob
  <1>1. TypeOK' /\ UNCHANGED <<row, exec>>
    <2>1. CASE DispatchRound
        BY <2>1, SendRunJobsType DEF DispatchRound, TypeOK
    <2>2. CASE MarkOffline
        BY <2>2 DEF MarkOffline, TypeOK, WorkerStatuses
    <2>3. CASE ScanDispatch
        BY <2>3, SendRunJobsType DEF ScanDispatch, TypeOK
    <2>4. ASSUME NEW w \in Workers, WorkerStep(w)
          PROVE  TypeOK' /\ UNCHANGED <<row, exec>>
      <3>1. CASE Heartbeat(w)
          BY <3>1, BeatOnlineType DEF Heartbeat, TypeOK
      <3>2. CASE Lapse(w)
          BY <3>2 DEF Lapse, TypeOK
      <3>3. CASE Pause(w) \/ Drain(w) \/ Resume(w)
          BY <3>3 DEF Pause, Drain, Resume, SetWorkerStatus, TypeOK, WorkerStatuses
      <3> QED BY <2>4, <3>1, <3>2, <3>3 DEF WorkerStep
    <2>5. ASSUME NEW e \in Executors, Redeliver(e)
          PROVE  TypeOK' /\ UNCHANGED <<row, exec>>
        BY <2>5 DEF Redeliver, TypeOK, Processes
    <2>6. ASSUME NEW j \in Jobs, CancelRead(j)
          PROVE  TypeOK' /\ UNCHANGED <<row, exec>>
        BY <2>6 DEF CancelRead, TypeOK
    <2> QED BY <2>1, <2>2, <2>3, <2>4, <2>5, <2>6 DEF QuietStep
  <1> QED BY <1>1

LEMMA LocalType ==
    ASSUME TypeInv, NEW e \in Executors, LocalStep(e)
    PROVE  TypeInv'
PROOF
  <1> USE BoundsAssumption DEF TypeInv, ClaimedBelowBound, BusyHasJob
  <1> DEFINE Kept == /\ broker' \in [Jobs -> 0..MaxMessages]
                     /\ worker' \in [Workers -> [status : WorkerStatuses, age : 0..2]]
                     /\ UNCHANGED <<row, scan, cancelling, verdict>>
             Moved == \E p \in Processes :
                          /\ p.pc \notin Waiting => p.job \in Jobs
                          /\ exec' = [exec EXCEPT ![e] = p]
  <1>1. exec[e] \in Processes /\ exec[e].pc \in Pcs /\ Host[e] \in Workers
      BY FunctionsAssumption DEF TypeOK, Processes
  <1>2. \A pc \in Waiting : exec' = [exec EXCEPT ![e] = Process(pc)] => Moved
    <2> SUFFICES ASSUME NEW pc \in Waiting, exec' = [exec EXCEPT ![e] = Process(pc)]
                 PROVE  Moved
        OBVIOUS
    <2>1. pc \in Pcs
        BY DEF Pcs
    <2> QED BY <2>1, ProcessType
  <1>3. Kept /\ Moved
    <2>1. ASSUME NEW j \in Jobs, BeginRun(e, j) PROVE Kept /\ Moved
      <3>1. Process("begun") \in Processes
          BY ProcessType DEF Pcs
      <3> DEFINE p == [Process("begun") EXCEPT !.job = j]
      <3>2. p \in Processes
          BY <3>1, JobUpdate
      <3>3. p.job = j
          BY <3>1, JobUpdate
      <3>4. Moved
          BY <2>1, <3>2, <3>3 DEF BeginRun
      <3>5. broker' \in [Jobs -> 0..MaxMessages]
          BY <2>1 DEF BeginRun, TypeOK
      <3>6. worker' \in [Workers -> [status : WorkerStatuses, age : 0..2]]
          BY <2>1, <1>1, BeatOnlineType DEF BeginRun
      <3> QED BY <2>1, <3>4, <3>5, <3>6 DEF BeginRun
    <2>2. CASE ClaimRefused(e) \/ Escape(e)
        BY <2>2, <1>2 DEF ClaimRefused, Escape, TypeOK, Waiting
    <2>3. CASE Finish(e)
        BY <2>3, <1>1, <1>2, BeatOnlineType, SendRunJobsType
           DEF Finish, TypeOK, Waiting
    <2>4. CASE Raise(e)
      <3>1. [exec[e] EXCEPT !.pc = "failing"] \in Processes /\ exec[e].job \in Jobs
          BY <2>4, <1>1, PcUpdate
             DEF Raise, Pcs, Failing, Active, Progress, Waiting
      <3>2. [exec[e] EXCEPT !.pc = "failing"].job = exec[e].job
          BY <1>1, PcUpdate DEF Pcs, Failing
      <3>3. Moved
          BY <2>4, <3>1, <3>2 DEF Raise, TypeOK
      <3> QED BY <2>4, <3>3 DEF Raise, TypeOK
    <2>5. CASE ReadBudget(e)
      <3> DEFINE b == Exhausted(exec[e].job)
                 p == [exec[e] EXCEPT !.pc = "recording", !.exhausted = b]
      <3>1. b \in BOOLEAN
          BY DEF Exhausted
      <3>2. "recording" \in Pcs /\ exec[e].job \in Jobs
          BY <2>5 DEF ReadBudget, Pcs, Failing, Waiting
      <3>3. exec' = [exec EXCEPT ![e] = p]
          BY <2>5, <1>1 DEF ReadBudget, TypeOK, Processes
      <3> HIDE DEF b
      <3>4. p \in Processes
          BY <1>1, <3>1, <3>2, BudgetUpdate
      <3>5. p.job = exec[e].job
          BY <1>1, <3>1, <3>2, BudgetUpdate
      <3>6. Moved
          BY <3>2, <3>3, <3>4, <3>5
      <3> QED BY <2>5, <3>6 DEF ReadBudget, TypeOK
    <2>6. CASE ReportError(e)
      <3>1. worker' \in [Workers -> [status : WorkerStatuses, age : 0..2]]
        <4>1. [status |-> "ERROR", age |-> 0] \in [status : WorkerStatuses, age : 0..2]
            BY DEF WorkerStatuses
        <4> QED BY <2>6, <4>1 DEF ReportError, TypeOK
      <3>2. Moved
          BY <2>6, <1>2 DEF ReportError, Waiting
      <3> QED BY <2>6, <3>1, <3>2 DEF ReportError, TypeOK
    <2>7. CASE Crash(e)
      <3>1. broker' \in [Jobs -> 0..MaxMessages]
          BY <2>7, <1>1 DEF Crash, TypeOK, Processes
      <3>2. Moved
          BY <2>7, <1>2 DEF Crash, Waiting
      <3> QED BY <2>7, <3>1, <3>2 DEF Crash, TypeOK
    <2>8. CASE Restart(e)
        BY <2>8, <1>1, <1>2, BeatOnlineType DEF Restart, TypeOK, Waiting
    <2> HIDE DEF Kept, Moved
    <2> QED BY <2>1, <2>2, <2>3, <2>4, <2>5, <2>6, <2>7, <2>8 DEF LocalStep
  <1>4. TypeOK'
      BY <1>3 DEF TypeOK
  <1>5. BusyHasJob'
      BY <1>3 DEF TypeOK
  <1> QED BY <1>3, <1>4, <1>5

LEMMA RowUpdate ==
    ASSUME NEW r \in Rows, NEW s \in JobStatuses
    PROVE  /\ [r EXCEPT !.status = s] \in Rows
           /\ [r EXCEPT !.status = s].claimedAt = r.claimedAt
           /\ [r EXCEPT !.status = s].generation = r.generation
PROOF
  BY DEF Rows

LEMMA ReleasedRow ==
    ASSUME NEW r \in Rows
    PROVE  /\ Released(r) \in Rows
           /\ Released(r).claimedAt = "null"
           /\ Released(r).owner = NoWorker
           /\ Released(r).status = "QUEUED"
           /\ Released(r).generation = r.generation
           /\ Released(r).attempt = r.attempt
PROOF
  BY DEF Released, Rows, JobStatuses, Runnable

\* A step keeps the types when it puts one row of the right shape in the table and
\* leaves the processes alone.
LEMMA OneRowType ==
    ASSUME TypeInv, NEW j \in Jobs, NEW r \in Rows,
           row' = [row EXCEPT ![j] = r],
           r.claimedAt # "null" => r.generation > 0 /\ r.generation < MaxGeneration,
           UNCHANGED <<worker, exec, broker, verdict>>,
           scan' \in [promote : SUBSET Jobs, requeued : SUBSET Jobs],
           cancelling' \in SUBSET Jobs
    PROVE  TypeInv'
PROOF
  <1>1. TypeOK'
      BY DEF TypeInv, TypeOK
  <1>2. ClaimedBelowBound'
      BY DEF TypeInv, TypeOK, ClaimedBelowBound
  <1>3. BusyHasJob'
      BY DEF TypeInv, BusyHasJob
  <1> QED BY <1>1, <1>2, <1>3 DEF TypeInv

LEMMA RequeuedRow ==
    ASSUME NEW r \in Rows, NEW g \in 0..MaxGeneration
    PROVE  /\ [Released(r) EXCEPT !.generation = g] \in Rows
           /\ [Released(r) EXCEPT !.generation = g].claimedAt = "null"
           /\ [Released(r) EXCEPT !.generation = g].owner = NoWorker
           /\ [Released(r) EXCEPT !.generation = g].status = "QUEUED"
           /\ [Released(r) EXCEPT !.generation = g].generation = g
           /\ [Released(r) EXCEPT !.generation = g].attempt = r.attempt
PROOF
  BY DEF Released, Rows, JobStatuses, Runnable

LEMMA RetriedRow ==
    ASSUME NEW r \in Rows
    PROVE  /\ [Released(r) EXCEPT !.attempt = 0] \in Rows
           /\ [Released(r) EXCEPT !.attempt = 0].claimedAt = "null"
           /\ [Released(r) EXCEPT !.attempt = 0].owner = NoWorker
           /\ [Released(r) EXCEPT !.attempt = 0].status = "QUEUED"
           /\ [Released(r) EXCEPT !.attempt = 0].generation = r.generation
           /\ [Released(r) EXCEPT !.attempt = 0].attempt = 0
PROOF
  <1>1. 0 \in 0..MaxAttempts
      BY BoundsAssumption
  <1>2. Released(r) \in Rows
      BY ReleasedRow
  <1> QED BY <1>1, <1>2, ReleasedRow DEF Rows

LEMMA AgedRow ==
    ASSUME NEW r \in Rows
    PROVE  /\ [r EXCEPT !.claimedAt = "old"] \in Rows
           /\ [r EXCEPT !.claimedAt = "old"].generation = r.generation
PROOF
  BY DEF Rows

LEMMA NewRow ==
    /\ Row("QUEUED", 0) \in Rows
    /\ Row("QUEUED", 0).claimedAt = "null"
    /\ Row("QUEUED", 0).generation = 0
PROOF
  BY BoundsAssumption DEF Row, Rows, JobStatuses, Runnable

LEMMA TableType == TypeInv /\ TableStep => TypeInv'
PROOF
  <1> SUFFICES ASSUME TypeInv, TableStep PROVE TypeInv'
      OBVIOUS
  <1>1. /\ row \in [Jobs -> Rows]
        /\ scan \in [promote : SUBSET Jobs, requeued : SUBSET Jobs]
        /\ cancelling \in SUBSET Jobs
      BY DEF TypeInv, TypeOK
  <1>2. \A j \in Jobs : /\ row[j].claimedAt # "null"
                        => row[j].generation > 0 /\ row[j].generation < MaxGeneration
      BY DEF TypeInv, ClaimedBelowBound
  <1>3. CASE ScanStuck
    <2>1. \A j \in Stuck : /\ j \in Jobs
                           /\ row[j].generation + 1 \in 0..MaxGeneration
        BY <1>1, <1>2, BoundsAssumption DEF Stuck, Rows
    <2>2. \A j \in Jobs : /\ row'[j] \in Rows
                          /\ row'[j].claimedAt # "null" => row'[j] = row[j]
        BY <1>1, <1>3, <2>1, RequeuedRow DEF ScanStuck, NextGeneration
    <2>3. row' \in [Jobs -> Rows]
        BY <1>3, <2>2 DEF ScanStuck
    <2>4. scan' \in [promote : SUBSET Jobs, requeued : SUBSET Jobs]
        BY <1>3 DEF ScanStuck, Stuck, ToPromote
    <2>5. TypeOK'
        BY <1>3, <2>3, <2>4 DEF ScanStuck, TypeInv, TypeOK
    <2>6. ClaimedBelowBound'
        BY <1>2, <2>2 DEF ClaimedBelowBound
    <2>7. BusyHasJob'
        BY <1>3 DEF ScanStuck, TypeInv, BusyHasJob
    <2> QED BY <2>5, <2>6, <2>7 DEF TypeInv
  <1>4. ASSUME NEW j \in Jobs, Create(j) PROVE TypeInv'
    <2>1. /\ row' = [row EXCEPT ![j] = Row("QUEUED", 0)]
          /\ UNCHANGED <<worker, exec, broker, scan, cancelling, verdict>>
        BY <1>4 DEF Create
    <2> QED BY <1>1, <2>1, NewRow, OneRowType
  <1>5. ASSUME NEW j \in Jobs, ClaimAges(j) PROVE TypeInv'
    <2> DEFINE r == [row[j] EXCEPT !.claimedAt = "old"]
    <2>1. r \in Rows /\ r.generation = row[j].generation
        BY <1>1, AgedRow
    <2>2. /\ row' = [row EXCEPT ![j] = r]
          /\ row[j].claimedAt # "null"
          /\ UNCHANGED <<worker, exec, broker, scan, cancelling, verdict>>
        BY <1>1, <1>5 DEF ClaimAges
    <2> HIDE DEF r
    <2> QED BY <1>1, <1>2, <2>1, <2>2, OneRowType
  <1>6. ASSUME NEW j \in Jobs, ScanPromote(j) PROVE TypeInv'
    <2> DEFINE r == [row[j] EXCEPT !.status = "DEAD_LETTERED"]
    <2>1. r \in Rows /\ r.claimedAt = row[j].claimedAt /\ r.generation = row[j].generation
        BY <1>1, RowUpdate DEF JobStatuses, Terminal
    <2>2. /\ row' = [row EXCEPT ![j] = r]
          /\ UNCHANGED <<worker, exec, broker, cancelling, verdict>>
          /\ scan' \in [promote : SUBSET Jobs, requeued : SUBSET Jobs]
        BY <1>1, <1>6 DEF ScanPromote
    <2> HIDE DEF r
    <2> QED BY <1>1, <1>2, <2>1, <2>2, OneRowType
  <1>7. ASSUME NEW j \in Jobs, ManualRetry(j) PROVE TypeInv'
    <2> DEFINE r == [Released(row[j]) EXCEPT !.attempt = 0]
    <2>1. r \in Rows /\ r.claimedAt = "null"
        BY <1>1, RetriedRow
    <2>2. /\ row' = [row EXCEPT ![j] = r]
          /\ UNCHANGED <<worker, exec, broker, scan, cancelling, verdict>>
        BY <1>1, <1>7 DEF ManualRetry
    <2> HIDE DEF r
    <2> QED BY <1>1, <2>1, <2>2, OneRowType
  <1>8. ASSUME NEW j \in Jobs, CancelWrite(j) PROVE TypeInv'
    <2> DEFINE r == [row[j] EXCEPT !.status = "CANCELLED"]
    <2>1. r \in Rows /\ r.claimedAt = row[j].claimedAt /\ r.generation = row[j].generation
        BY <1>1, RowUpdate DEF JobStatuses, Terminal
    <2>2. /\ row' = [row EXCEPT ![j] = r]
          /\ UNCHANGED <<worker, exec, broker, scan, verdict>>
          /\ cancelling' \in SUBSET Jobs
        BY <1>1, <1>8 DEF CancelWrite
    <2> HIDE DEF r
    <2> QED BY <1>1, <1>2, <2>1, <2>2, OneRowType
  <1> QED BY <1>3, <1>4, <1>5, <1>6, <1>7, <1>8 DEF TableStep

\* What Claim writes, spelled out.
LEMMA ClaimedRow ==
    ASSUME TypeInv, NEW e \in Executors, Claim(e)
    PROVE  \E r \in Rows, p \in Processes :
              /\ exec[e].job \in Jobs
              /\ row' = [row EXCEPT ![exec[e].job] = r]
              /\ exec' = [exec EXCEPT ![e] = p]
              /\ r.status = "CLAIMED" /\ r.owner = Host[e] /\ r.claimedAt = "recent"
              /\ r.attempt = row[exec[e].job].attempt + 1
              /\ r.generation = row[exec[e].job].generation + 1
              /\ r.generation > 0 /\ r.generation < MaxGeneration
              /\ p.pc = "CLAIMED" /\ p.job = exec[e].job /\ p.generation = r.generation
PROOF
  <1> DEFINE j == exec[e].job
             g == NextGeneration(j)
             r == [status |-> "CLAIMED", attempt |-> row[j].attempt + 1,
                   generation |-> g, owner |-> Host[e], claimedAt |-> "recent"]
             p == [Process("CLAIMED") EXCEPT !.job = j, !.generation = g]
  <1>1. j \in Jobs /\ row[j] \in Rows /\ Host[e] \in Workers
      BY FunctionsAssumption DEF Claim, TypeInv, TypeOK, BusyHasJob, Waiting
  <1>2. g \in 0..MaxGeneration /\ g > 0 /\ g < MaxGeneration
        /\ g = row[j].generation + 1
      BY <1>1, BoundsAssumption DEF Claim, NextGeneration, Rows
  <1>3. row[j].attempt + 1 \in 0..MaxAttempts
      BY <1>1, BoundsAssumption DEF Claim, Claimable, Rows
  <1>4. r \in Rows
      BY <1>1, <1>2, <1>3 DEF Rows, JobStatuses, Active
  <1>5. p \in Processes /\ p.pc = "CLAIMED" /\ p.job = j /\ p.generation = g
      BY <1>1, <1>2 DEF Process, Processes, Pcs, Active
  <1>6. row' = [row EXCEPT ![j] = r] /\ exec' = [exec EXCEPT ![e] = p]
      BY <1>1 DEF Claim, TypeInv, TypeOK
  <1>7. /\ r.status = "CLAIMED" /\ r.owner = Host[e] /\ r.claimedAt = "recent"
        /\ r.attempt = row[j].attempt + 1 /\ r.generation = g
      OBVIOUS
  <1> HIDE DEF r, p, g
  <1> QED BY <1>1, <1>2, <1>4, <1>5, <1>6, <1>7

LEMMA ClaimType == ASSUME TypeInv, NEW e \in Executors, Claim(e) PROVE TypeInv'
PROOF
  <1>1. worker' \in [Workers -> [status : WorkerStatuses, age : 0..2]]
    <2>1. Host[e] \in Workers
        BY FunctionsAssumption
    <2> QED BY <2>1, BeatOnlineType DEF Claim, TypeInv
  <1>2. PICK r \in Rows, p \in Processes :
           /\ exec[e].job \in Jobs
           /\ row' = [row EXCEPT ![exec[e].job] = r]
           /\ exec' = [exec EXCEPT ![e] = p]
           /\ r.generation > 0 /\ r.generation < MaxGeneration
           /\ p.job = exec[e].job
      BY ClaimedRow
  <1>3. TypeOK'
      BY <1>1, <1>2 DEF Claim, TypeInv, TypeOK
  <1>4. ClaimedBelowBound'
      BY <1>2 DEF TypeInv, TypeOK, ClaimedBelowBound
  <1>5. BusyHasJob'
      BY <1>2 DEF TypeInv, TypeOK, BusyHasJob
  <1> QED BY <1>3, <1>4, <1>5 DEF TypeInv

\* A write of a status over the row of a process's job, and where it leaves the process.
LEMMA StatusWriteType ==
    ASSUME TypeInv, NEW e \in Executors, NEW s \in JobStatuses, NEW p \in Processes,
           p.pc \notin Waiting => p.job \in Jobs, exec[e].job \in Jobs,
           \/ row' = row
           \/ row' = [row EXCEPT ![exec[e].job].status = s],
           exec' = [exec EXCEPT ![e] = p],
           verdict' \in [Jobs -> [Generations -> Outcomes \cup {"none"}]],
           UNCHANGED <<worker, broker, scan, cancelling>>
    PROVE  TypeInv'
PROOF
  <1>1. row \in [Jobs -> Rows]
      BY DEF TypeInv, TypeOK
  <1>2. /\ row' \in [Jobs -> Rows]
        /\ \A j \in Jobs : /\ row'[j].claimedAt = row[j].claimedAt
                           /\ row'[j].generation = row[j].generation
    <2> DEFINE r == [row[exec[e].job] EXCEPT !.status = s]
    <2>1. /\ r \in Rows /\ r.claimedAt = row[exec[e].job].claimedAt
          /\ r.generation = row[exec[e].job].generation
        BY <1>1, RowUpdate
    <2>2. row' = row \/ row' = [row EXCEPT ![exec[e].job] = r]
        BY <1>1
    <2> HIDE DEF r
    <2> QED BY <1>1, <2>1, <2>2
  <1>3. TypeOK'
      BY <1>2 DEF TypeInv, TypeOK
  <1>4. ClaimedBelowBound'
      BY <1>2 DEF TypeInv, ClaimedBelowBound
  <1>5. BusyHasJob'
      BY DEF TypeInv, TypeOK, BusyHasJob
  <1> QED BY <1>3, <1>4, <1>5 DEF TypeInv

LEMMA ProgressType ==
    ASSUME TypeInv, NEW e \in Executors, ProgressStep(e)
    PROVE  TypeInv'
PROOF
  <1>1. PICK from \in Active, to \in Progress : WriteProgress(e, from, to)
      BY DEF ProgressStep, StartPreprocessing, StartInferencing, StartPostprocessing,
             Active, Progress
  <1> DEFINE p == [exec[e] EXCEPT !.pc = to]
  <1>2. to \in JobStatuses /\ to \in Pcs /\ exec[e] \in Processes /\ exec[e].job \in Jobs
      BY <1>1 DEF WriteProgress, JobStatuses, Active, Progress, Pcs, Waiting, TypeInv,
                  TypeOK, BusyHasJob
  <1>3. p \in Processes /\ p.job = exec[e].job
      BY <1>2, PcUpdate
  <1>4. /\ row' = [row EXCEPT ![exec[e].job].status = to]
        /\ exec' = [exec EXCEPT ![e] = p]
        /\ UNCHANGED <<worker, broker, scan, cancelling, verdict>>
      BY <1>1, <1>2 DEF WriteProgress, TypeInv, TypeOK
  <1>5. verdict' \in [Jobs -> [Generations -> Outcomes \cup {"none"}]]
      BY <1>4 DEF TypeInv, TypeOK
  <1> HIDE DEF p
  <1> QED BY <1>2, <1>3, <1>4, <1>5, StatusWriteType

\* The outcome steps are WriteOutcome with an outcome of the code.
LEMMA OutcomeIsWrite ==
    ASSUME TypeInv, NEW e \in Executors, OutcomeStep(e)
    PROVE  /\ exec[e].pc \in Active \cup Failing
           /\ exec[e].job \in Jobs
           /\ \E v \in Outcomes, pc \in Settled : WriteOutcome(e, v, pc)
           /\ UNCHANGED <<worker, broker, scan, cancelling>>
PROOF
  BY DEF OutcomeStep, Succeed, RecordPermanent, RecordRetryable, Active, Progress, Failing,
         Settled, Outcomes, Waiting, TypeInv, BusyHasJob

LEMMA OutcomeType ==
    ASSUME TypeInv, NEW e \in Executors, OutcomeStep(e)
    PROVE  TypeInv'
PROOF
  <1>1. PICK v \in Outcomes, pc \in Settled : WriteOutcome(e, v, pc)
      BY OutcomeIsWrite
  <1>2. /\ v \in JobStatuses /\ pc \in Pcs /\ "idle" \in Pcs /\ exec[e] \in Processes
        /\ exec[e].job \in Jobs
        /\ UNCHANGED <<worker, broker, scan, cancelling>>
      BY OutcomeIsWrite DEF Outcomes, JobStatuses, Runnable, Terminal, Pcs, Waiting,
                            TypeInv, TypeOK
  <1>3. verdict' \in [Jobs -> [Generations -> Outcomes \cup {"none"}]]
    <2> DEFINE j == exec[e].job
               ledger == [verdict[j] EXCEPT ![exec[e].generation] = v]
    <2>1. ledger \in [Generations -> Outcomes \cup {"none"}]
        BY <1>2 DEF TypeInv, TypeOK
    <2>2. verdict' = verdict \/ verdict' = [verdict EXCEPT ![j] = ledger]
        BY <1>1 DEF WriteOutcome
    <2> HIDE DEF ledger
    <2> QED BY <1>2, <2>1, <2>2 DEF TypeInv, TypeOK
  <1>4. CASE FenceHolds(e) /\ exec' = [exec EXCEPT ![e].pc = pc]
                           /\ row' = [row EXCEPT ![exec[e].job].status = v]
    <2> DEFINE p == [exec[e] EXCEPT !.pc = pc]
    <2>1. p \in Processes /\ p.job = exec[e].job
        BY <1>2, PcUpdate
    <2>2. exec' = [exec EXCEPT ![e] = p]
        BY <1>2, <1>4 DEF TypeInv, TypeOK
    <2> HIDE DEF p
    <2> QED BY <1>2, <1>3, <1>4, <2>1, <2>2, StatusWriteType
  <1>5. CASE exec' = [exec EXCEPT ![e] = Process("idle")] /\ UNCHANGED row
    <2>1. Process("idle") \in Processes /\ Process("idle").pc \in Waiting
        BY <1>2, ProcessType DEF Waiting
    <2> QED BY <1>2, <1>3, <1>5, <2>1, StatusWriteType
  <1> QED BY <1>1, <1>4, <1>5 DEF WriteOutcome

LEMMA TypeStep == TypeInv /\ [Next]_vars => TypeInv'
PROOF
  <1>1. TypeInv /\ UNCHANGED vars => TypeInv'
      BY DEF vars, TypeInv, TypeOK, ClaimedBelowBound, BusyHasJob
  <1> QED BY <1>1, StepGroups, QuietType, TableType, LocalType, ClaimType, ProgressType,
             OutcomeType

\* The runtime never leaves its types: attempts stay within max_attempts whatever is
\* requeued, redelivered or retried, and a requeue never runs out of generations
\* below the bound of the claims.
THEOREM TypeCorrect == Spec => []TypeOK
PROOF
  <1>1. TypeInv => TypeOK
      BY DEF TypeInv
  <1> QED BY TypeInit, TypeStep, <1>1, PTL DEF Spec

-----------------------------------------------------------------------------
(* What each group of steps does to rows, processes and verdicts.          *)

Aged(r, t) ==
    /\ r.claimedAt = "recent" /\ t.claimedAt = "old"
    /\ t.status = r.status /\ t.attempt = r.attempt
    /\ t.generation = r.generation /\ t.owner = r.owner

Stamped(r, t, s) ==
    /\ t.status = s
    /\ t.attempt = r.attempt /\ t.generation = r.generation
    /\ t.owner = r.owner /\ t.claimedAt = r.claimedAt

Requeued(r, t) ==
    /\ r.claimedAt # "null"
    /\ t.status = "QUEUED" /\ t.owner = NoWorker /\ t.claimedAt = "null"
    /\ t.attempt = r.attempt /\ t.generation = r.generation + 1

Retried(r, t) ==
    /\ r.status # "ABSENT"
    /\ t.status = "QUEUED" /\ t.owner = NoWorker /\ t.claimedAt = "null"
    /\ t.attempt = 0 /\ t.generation = r.generation

TableRow(j) ==
    \/ row'[j] = row[j]
    \/ row[j].status = "ABSENT" /\ row'[j] = Row("QUEUED", 0)
    \/ Aged(row[j], row'[j])
    \/ Stamped(row[j], row'[j], "CANCELLED")
    \/ j \in scan.promote /\ Stamped(row[j], row'[j], "DEAD_LETTERED")
    \/ j \in Stuck /\ Requeued(row[j], row'[j])
    \/ Retried(row[j], row'[j])

LEMMA StampedRow ==
    ASSUME NEW r \in Rows, NEW s PROVE Stamped(r, [r EXCEPT !.status = s], s)
PROOF
  BY DEF Rows, Stamped

LEMMA TableEffect ==
    ASSUME TypeInv, TableStep
    PROVE  (\A j \in Jobs : TableRow(j)) /\ UNCHANGED <<exec, verdict>>
PROOF
  <1>1. row \in [Jobs -> Rows]
      BY DEF TypeInv, TypeOK
  <1>2. CASE ScanStuck
    <2>1. \A j \in Stuck : /\ j \in Jobs /\ row[j].claimedAt # "null"
                           /\ row[j].generation + 1 \in 0..MaxGeneration
        BY <1>1, BoundsAssumption DEF Stuck, Rows, TypeInv, ClaimedBelowBound
    <2>2. ASSUME NEW j \in Stuck PROVE Requeued(row[j], row'[j])
      <3> DEFINE g == row[j].generation + 1
                 t == [Released(row[j]) EXCEPT !.generation = g]
      <3>1. /\ t.claimedAt = "null" /\ t.owner = NoWorker /\ t.status = "QUEUED"
            /\ t.generation = g /\ t.attempt = row[j].attempt
          BY <1>1, <2>1, <2>2, RequeuedRow
      <3>2. row'[j] = t
          BY <1>2, <2>1, <2>2 DEF ScanStuck, NextGeneration
      <3> HIDE DEF t
      <3> QED BY <2>1, <3>1, <3>2 DEF Requeued
    <2>3. \A j \in Jobs \ Stuck : row'[j] = row[j]
        BY <1>2 DEF ScanStuck
    <2> QED BY <1>2, <2>2, <2>3 DEF ScanStuck, TableRow
  <1>3. ASSUME NEW j \in Jobs, Create(j)
        PROVE  (\A k \in Jobs : TableRow(k)) /\ UNCHANGED <<exec, verdict>>
      BY <1>1, <1>3 DEF Create, TableRow
  <1>4. ASSUME NEW j \in Jobs, ClaimAges(j)
        PROVE  (\A k \in Jobs : TableRow(k)) /\ UNCHANGED <<exec, verdict>>
    <2>1. Aged(row[j], row'[j])
        BY <1>1, <1>4 DEF ClaimAges, Aged, Rows
    <2> QED BY <1>1, <1>4, <2>1 DEF ClaimAges, TableRow
  <1>5. ASSUME NEW j \in Jobs, ScanPromote(j)
        PROVE  (\A k \in Jobs : TableRow(k)) /\ UNCHANGED <<exec, verdict>>
    <2>1. Stamped(row[j], row'[j], "DEAD_LETTERED")
        BY <1>1, <1>5, StampedRow DEF ScanPromote
    <2> QED BY <1>1, <1>5, <2>1 DEF ScanPromote, TableRow
  <1>6. ASSUME NEW j \in Jobs, ManualRetry(j)
        PROVE  (\A k \in Jobs : TableRow(k)) /\ UNCHANGED <<exec, verdict>>
    <2> DEFINE t == [Released(row[j]) EXCEPT !.attempt = 0]
    <2>1. /\ t.claimedAt = "null" /\ t.owner = NoWorker /\ t.status = "QUEUED"
          /\ t.generation = row[j].generation /\ t.attempt = 0
        BY <1>1, RetriedRow
    <2>2. row'[j] = t /\ row[j].status # "ABSENT"
        BY <1>1, <1>6 DEF ManualRetry, RetryAllowedFrom, Terminal
    <2> HIDE DEF t
    <2>3. Retried(row[j], row'[j])
        BY <2>1, <2>2 DEF Retried
    <2> QED BY <1>1, <1>6, <2>3 DEF ManualRetry, TableRow
  <1>7. ASSUME NEW j \in Jobs, CancelWrite(j)
        PROVE  (\A k \in Jobs : TableRow(k)) /\ UNCHANGED <<exec, verdict>>
    <2>1. Stamped(row[j], row'[j], "CANCELLED")
        BY <1>1, <1>7, StampedRow DEF CancelWrite
    <2> QED BY <1>1, <1>7, <2>1 DEF CancelWrite, TableRow
  <1> QED BY <1>2, <1>3, <1>4, <1>5, <1>6, <1>7 DEF TableStep

\* A process that has claimed its job and has not left run() yet.
Running(p) == p.pc \in Active \cup Failing \cup Settled

\* The record of a process after a step that keeps its claim.
SameClaim(p, q) == q.job = p.job /\ q.generation = p.generation

LEMMA PcUpdateClaim ==
    ASSUME NEW p \in Processes, NEW pc
    PROVE  SameClaim(p, [p EXCEPT !.pc = pc]) /\ [p EXCEPT !.pc = pc].pc = pc
PROOF
  BY DEF Processes, SameClaim

LEMMA BudgetUpdateClaim ==
    ASSUME NEW p \in Processes, NEW b \in BOOLEAN
    PROVE  /\ SameClaim(p, [p EXCEPT !.pc = "recording", !.exhausted = b])
           /\ [p EXCEPT !.pc = "recording", !.exhausted = b].pc = "recording"
           /\ [p EXCEPT !.pc = "recording", !.exhausted = b].exhausted = b
PROOF
  BY DEF Processes, SameClaim

LEMMA LocalEffect ==
    ASSUME TypeInv, NEW e \in Executors, LocalStep(e)
    PROVE  /\ UNCHANGED <<row, verdict, scan>>
           /\ \E q : /\ exec' = [exec EXCEPT ![e] = q]
                     /\ \/ ~Running(q)
                        \/ /\ SameClaim(exec[e], q) /\ Running(exec[e])
                           /\ exec[e].pc \in Active \cup Failing \/ "late" \in Faults
                           /\ \/ q.pc = "failing"
                              \/ /\ q.pc = "recording"
                                 /\ q.exhausted = Exhausted(exec[e].job)
PROOF
  <1> DEFINE Effect ==
        \E q : /\ exec' = [exec EXCEPT ![e] = q]
               /\ \/ ~Running(q)
                  \/ /\ SameClaim(exec[e], q) /\ Running(exec[e])
                     /\ exec[e].pc \in Active \cup Failing \/ "late" \in Faults
                     /\ \/ q.pc = "failing"
                        \/ q.pc = "recording" /\ q.exhausted = Exhausted(exec[e].job)
  <1>1. exec \in [Executors -> Processes] /\ exec[e] \in Processes
      BY DEF TypeInv, TypeOK
  <1>2. ~Running(Process("idle")) /\ ~Running(Process("down"))
      BY DEF Running, Process, Active, Progress, Failing, Settled
  <1>3. UNCHANGED <<row, verdict, scan>> /\ Effect
    <2>1. ASSUME NEW j \in Jobs, BeginRun(e, j)
          PROVE  UNCHANGED <<row, verdict, scan>> /\ Effect
      <3>1. ~Running([Process("begun") EXCEPT !.job = j])
          BY DEF Running, Process, Active, Progress, Failing, Settled
      <3> QED BY <2>1, <3>1 DEF BeginRun
    <2>2. CASE ClaimRefused(e) \/ Escape(e) \/ Finish(e) \/ ReportError(e)
        BY <1>2, <2>2 DEF ClaimRefused, Escape, Finish, ReportError
    <2>3. CASE Crash(e) \/ Restart(e)
        BY <1>2, <2>3 DEF Crash, Restart
    <2>4. CASE Raise(e)
      <3> DEFINE q == [exec[e] EXCEPT !.pc = "failing"]
      <3>1. exec' = [exec EXCEPT ![e] = q]
          BY <1>1, <2>4 DEF Raise
      <3>2. SameClaim(exec[e], q) /\ q.pc = "failing"
          BY <1>1, PcUpdateClaim
      <3>3. Running(exec[e]) /\ (exec[e].pc \in Active \cup Failing \/ "late" \in Faults)
          BY <2>4 DEF Raise, Running, Settled
      <3> HIDE DEF q
      <3> QED BY <2>4, <3>1, <3>2, <3>3 DEF Raise
    <2>5. CASE ReadBudget(e)
      <3> DEFINE b == Exhausted(exec[e].job)
                 q == [exec[e] EXCEPT !.pc = "recording", !.exhausted = b]
      <3>1. b \in BOOLEAN
          BY DEF Exhausted
      <3>2. exec' = [exec EXCEPT ![e] = q]
          BY <1>1, <2>5 DEF ReadBudget
      <3>3. Running(exec[e]) /\ exec[e].pc \in Active \cup Failing
          BY <2>5 DEF ReadBudget, Running, Failing
      <3>4. b = Exhausted(exec[e].job)
          OBVIOUS
      <3> HIDE DEF b
      <3>5. SameClaim(exec[e], q) /\ q.pc = "recording" /\ q.exhausted = b
          BY <1>1, <3>1, BudgetUpdateClaim
      <3> HIDE DEF q
      <3> QED BY <2>5, <3>2, <3>3, <3>4, <3>5 DEF ReadBudget
    <2> HIDE DEF Effect
    <2> QED BY <2>1, <2>2, <2>3, <2>4, <2>5 DEF LocalStep
  <1> QED BY <1>3

LEMMA ProgressEffect ==
    ASSUME TypeInv, NEW e \in Executors, ProgressStep(e)
    PROVE  \E q \in Processes, to \in Progress :
              /\ exec[e].job \in Jobs /\ exec[e].pc \in Active
              /\ exec' = [exec EXCEPT ![e] = q]
              /\ SameClaim(exec[e], q) /\ q.pc = to
              /\ Stamped(row[exec[e].job], row'[exec[e].job], to)
              /\ \A j \in Jobs \ {exec[e].job} : row'[j] = row[j]
              /\ UNCHANGED <<verdict, scan>>
PROOF
  <1>1. PICK from \in Active, to \in Progress : WriteProgress(e, from, to)
      BY DEF ProgressStep, StartPreprocessing, StartInferencing, StartPostprocessing,
             Active, Progress
  <1> DEFINE q == [exec[e] EXCEPT !.pc = to]
  <1>2. /\ row \in [Jobs -> Rows] /\ exec \in [Executors -> Processes]
        /\ exec[e] \in Processes /\ exec[e].job \in Jobs /\ to \in Pcs
      BY <1>1 DEF TypeInv, TypeOK, BusyHasJob, WriteProgress, Active, Progress, Waiting, Pcs
  <1>3. q \in Processes /\ SameClaim(exec[e], q) /\ q.pc = to
      BY <1>2, PcUpdate, PcUpdateClaim
  <1>4. exec' = [exec EXCEPT ![e] = q] /\ exec[e].pc \in Active
      BY <1>1, <1>2 DEF WriteProgress
  <1>5. Stamped(row[exec[e].job], row'[exec[e].job], to)
      BY <1>1, <1>2, StampedRow DEF WriteProgress
  <1>6. \A j \in Jobs \ {exec[e].job} : row'[j] = row[j]
      BY <1>1, <1>2 DEF WriteProgress
  <1>7. UNCHANGED <<verdict, scan>>
      BY <1>1 DEF WriteProgress
  <1> HIDE DEF q
  <1> QED BY <1>2, <1>3, <1>4, <1>5, <1>6, <1>7

\* A terminal write either lands under the fence or ends the run with nothing written.
LEMMA OutcomeEffect ==
    ASSUME TypeInv, NEW e \in Executors, OutcomeStep(e)
    PROVE  /\ exec[e].pc \in Active \cup Failing /\ exec[e].job \in Jobs
           /\ UNCHANGED scan
           /\ \E q :
                /\ exec' = [exec EXCEPT ![e] = q]
                /\ \/ ~Running(q) /\ UNCHANGED <<row, verdict>>
                   \/ \E v \in Outcomes :
                        /\ FenceHolds(e)
                        /\ SameClaim(exec[e], q) /\ q.pc \in Settled
                        /\ Stamped(row[exec[e].job], row'[exec[e].job], v)
                        /\ \A j \in Jobs \ {exec[e].job} : row'[j] = row[j]
                        /\ verdict' = [verdict EXCEPT
                                          ![exec[e].job][exec[e].generation] = v]
                        /\ v \in {"FAILED_RETRYABLE", "DEAD_LETTERED"} =>
                              /\ exec[e].pc = "recording"
                              /\ v = "DEAD_LETTERED" <=> exec[e].exhausted
PROOF
  <1> DEFINE j == exec[e].job
             Lands(q, v) == /\ FenceHolds(e)
                            /\ SameClaim(exec[e], q) /\ q.pc \in Settled
                            /\ Stamped(row[j], row'[j], v)
                            /\ \A k \in Jobs \ {j} : row'[k] = row[k]
                            /\ verdict' = [verdict EXCEPT ![j][exec[e].generation] = v]
  <1>1. /\ row \in [Jobs -> Rows] /\ exec \in [Executors -> Processes]
        /\ exec[e] \in Processes /\ exec[e].exhausted \in BOOLEAN
      BY DEF TypeInv, TypeOK, Processes
  <1>2. exec[e].pc \in Active \cup Failing /\ j \in Jobs /\ UNCHANGED scan
      BY OutcomeIsWrite
  <1>3. PICK v \in Outcomes, pc \in Settled :
           /\ WriteOutcome(e, v, pc)
           /\ v \in {"FAILED_RETRYABLE", "DEAD_LETTERED"} =>
                 exec[e].pc = "recording" /\ (v = "DEAD_LETTERED" <=> exec[e].exhausted)
    <2>1. CASE Succeed(e)
        BY <2>1 DEF Succeed, Outcomes, Settled
    <2>2. CASE RecordPermanent(e)
        BY <2>2 DEF RecordPermanent, Outcomes, Settled
    <2>3. CASE RecordRetryable(e) /\ exec[e].exhausted
      <3>1. WriteOutcome(e, "DEAD_LETTERED", "failed") /\ exec[e].pc = "recording"
          BY <2>3 DEF RecordRetryable
      <3> QED BY <2>3, <3>1 DEF Outcomes, Settled
    <2>4. CASE RecordRetryable(e) /\ ~exec[e].exhausted
      <3>1. WriteOutcome(e, "FAILED_RETRYABLE", "failed") /\ exec[e].pc = "recording"
          BY <2>4 DEF RecordRetryable
      <3> QED BY <2>4, <3>1 DEF Outcomes, Settled
    <2> QED BY <2>1, <2>2, <2>3, <2>4 DEF OutcomeStep
  <1>4. CASE ~FenceHolds(e)
    <2>1. ~Running(Process("idle"))
        BY DEF Running, Process, Active, Progress, Failing, Settled
    <2>2. exec' = [exec EXCEPT ![e] = Process("idle")] /\ UNCHANGED <<row, verdict>>
        BY <1>3, <1>4 DEF WriteOutcome
    <2> QED BY <1>2, <2>1, <2>2
  <1>5. CASE FenceHolds(e)
    <2> DEFINE q == [exec[e] EXCEPT !.pc = pc]
    <2>1. /\ exec' = [exec EXCEPT ![e] = q]
          /\ row' = [row EXCEPT ![j].status = v]
          /\ verdict' = [verdict EXCEPT ![j][exec[e].generation] = v]
        BY <1>1, <1>3, <1>5 DEF WriteOutcome
    <2>2. SameClaim(exec[e], q) /\ q.pc \in Settled
        BY <1>1, <1>3, PcUpdateClaim
    <2>3. Stamped(row[j], row'[j], v) /\ \A k \in Jobs \ {j} : row'[k] = row[k]
        BY <1>1, <1>2, <2>1, StampedRow
    <2> HIDE DEF q
    <2>4. Lands(q, v)
        BY <1>5, <2>1, <2>2, <2>3
    <2> QED BY <1>2, <1>3, <2>1, <2>4
  <1> QED BY <1>4, <1>5

-----------------------------------------------------------------------------
(* Claims.                                                                 *)

\* A process never runs ahead of its row, and a row that is not there was never
\* claimed.
RunsBelowRow ==
    /\ \A e \in Executors :
          Running(exec[e]) => /\ exec[e].generation > 0
                              /\ exec[e].generation <= row[exec[e].job].generation
    /\ \A j \in Jobs : row[j].status = "ABSENT" => row[j].generation = 0

\* OneHolderPerClaim for all of run(), the part after the outcome included: an
\* exception there turns the process into a holder again.
OneRunPerClaim ==
    \A e, f \in Executors :
        e # f /\ Running(exec[e]) /\ Running(exec[f]) /\ exec[e].job = exec[f].job
            => exec[e].generation # exec[f].generation

ClaimInv == RunsBelowRow /\ OneRunPerClaim

LEMMA ClaimInit == Init => ClaimInv
PROOF
  BY DEF Init, ClaimInv, RunsBelowRow, OneRunPerClaim, Running, Process, Row,
         Active, Progress, Failing, Settled

\* ClaimInv survives a step in which no generation shrinks and every running process
\* was running under the same claim before.
LEMMA ClaimKept ==
    ASSUME TypeInv, TypeInv', ClaimInv,
           \A j \in Jobs : /\ row'[j].generation >= row[j].generation
                           /\ row'[j].status = "ABSENT" => row'[j] = row[j],
           \A e \in Executors :
              Running(exec'[e]) => Running(exec[e]) /\ SameClaim(exec[e], exec'[e])
    PROVE  ClaimInv'
PROOF
  <1>1. \A e \in Executors : /\ Running(exec[e]) => exec[e].job \in Jobs
                             /\ exec[e].generation \in Nat
    <2>1. \A e \in Executors : Running(exec[e]) => exec[e].job \in Jobs
        BY DEF TypeInv, BusyHasJob, Running, Waiting, Active, Progress, Failing, Settled
    <2>2. \A e \in Executors : exec[e].generation \in Nat
        BY BoundsAssumption DEF TypeInv, TypeOK, Processes
    <2> QED BY <2>1, <2>2
  <1>2. \A j \in Jobs : row[j].generation \in Nat /\ row'[j].generation \in Nat
      BY BoundsAssumption DEF TypeInv, TypeOK, Rows
  <1>3. RunsBelowRow'
    <2>1. ASSUME NEW e \in Executors, Running(exec'[e])
          PROVE  /\ exec'[e].generation > 0
                 /\ exec'[e].generation <= row'[exec'[e].job].generation
      <3>1. /\ exec'[e].job = exec[e].job /\ exec'[e].generation = exec[e].generation
            /\ Running(exec[e]) /\ exec[e].job \in Jobs
          BY <1>1, <2>1 DEF SameClaim
      <3>2. /\ exec[e].generation > 0
            /\ exec[e].generation <= row[exec[e].job].generation
          BY <3>1 DEF ClaimInv, RunsBelowRow
      <3> QED BY <1>1, <1>2, <3>1, <3>2
    <2>2. \A j \in Jobs : row'[j].status = "ABSENT" => row'[j].generation = 0
        BY DEF ClaimInv, RunsBelowRow
    <2> QED BY <2>1, <2>2 DEF RunsBelowRow
  <1>4. OneRunPerClaim'
      BY DEF ClaimInv, OneRunPerClaim, SameClaim
  <1> QED BY <1>3, <1>4 DEF ClaimInv

LEMMA ClaimStep == TypeInv /\ ClaimInv /\ [Next]_vars => ClaimInv'
PROOF
  <1> SUFFICES ASSUME TypeInv, ClaimInv, [Next]_vars PROVE ClaimInv'
      OBVIOUS
  <1>1. /\ TypeInv'
        /\ \A j \in Jobs : row[j] \in Rows /\ row[j].generation \in Nat
        /\ exec \in [Executors -> Processes]
      BY TypeStep, BoundsAssumption DEF TypeInv, TypeOK, Rows
  <1>2. CASE QuietStep \/ UNCHANGED vars
    <2>1. UNCHANGED <<row, exec>>
        BY <1>2 DEF QuietStep, vars, DispatchRound, MarkOffline, ScanDispatch, WorkerStep,
           Heartbeat, Lapse, Pause, Drain, Resume, SetWorkerStatus, Redeliver, CancelRead
    <2> QED BY <1>1, <2>1, ClaimKept DEF SameClaim
  <1>3. CASE TableStep
    <2>1. \A j \in Jobs : /\ row'[j].generation >= row[j].generation
                          /\ row'[j].status = "ABSENT" => row'[j] = row[j]
      <3> SUFFICES ASSUME NEW j \in Jobs
                   PROVE  /\ row'[j].generation >= row[j].generation
                          /\ row'[j].status = "ABSENT" => row'[j] = row[j]
          OBVIOUS
      <3>1. TableRow(j)
          BY <1>3, TableEffect
      <3>2. row[j].status = "ABSENT" => row[j].generation = 0
          BY DEF ClaimInv, RunsBelowRow
      <3>3. Aged(row[j], row'[j]) => row[j].status # "ABSENT"
        <4> SUFFICES ASSUME Aged(row[j], row'[j]), row[j].status = "ABSENT" PROVE FALSE
            OBVIOUS
        <4>1. row[j].generation > 0
            BY DEF Aged, TypeInv, ClaimedBelowBound
        <4> QED BY <3>2, <4>1
      <3> QED BY <1>1, <3>1, <3>2, <3>3
               DEF TableRow, Aged, Stamped, Requeued, Retried, Row
    <2> QED BY <1>1, <1>3, <2>1, ClaimKept, TableEffect DEF SameClaim
  <1>4. ASSUME NEW e \in Executors, LocalStep(e) PROVE ClaimInv'
    <2>1. UNCHANGED row
        BY <1>4, LocalEffect
    <2>2. \A f \in Executors :
             Running(exec'[f]) => Running(exec[f]) /\ SameClaim(exec[f], exec'[f])
        BY <1>1, <1>4, LocalEffect DEF SameClaim
    <2> QED BY <1>1, <2>1, <2>2, ClaimKept
  <1>5. ASSUME NEW e \in Executors, ProgressStep(e) PROVE ClaimInv'
    <2>1. \A j \in Jobs : /\ row'[j].generation >= row[j].generation
                          /\ row'[j].status = "ABSENT" => row'[j] = row[j]
        BY <1>1, <1>5, ProgressEffect DEF Stamped, Progress
    <2>2. \A f \in Executors :
             Running(exec'[f]) => Running(exec[f]) /\ SameClaim(exec[f], exec'[f])
        BY <1>1, <1>5, ProgressEffect DEF SameClaim, Running
    <2> QED BY <1>1, <2>1, <2>2, ClaimKept
  <1>6. ASSUME NEW e \in Executors, OutcomeStep(e) PROVE ClaimInv'
    <2>1. \A j \in Jobs : /\ row'[j].generation >= row[j].generation
                          /\ row'[j].status = "ABSENT" => row'[j] = row[j]
      <3>1. PICK v \in Outcomes :
               \/ UNCHANGED row
               \/ /\ exec[e].job \in Jobs
                  /\ Stamped(row[exec[e].job], row'[exec[e].job], v)
                  /\ \A j \in Jobs \ {exec[e].job} : row'[j] = row[j]
          BY <1>6, OutcomeEffect DEF Outcomes
      <3> QED BY <1>1, <3>1 DEF Stamped, Outcomes
    <2>2. \A f \in Executors :
             Running(exec'[f]) => Running(exec[f]) /\ SameClaim(exec[f], exec'[f])
        BY <1>1, <1>6, OutcomeEffect DEF SameClaim, Running
    <2> QED BY <1>1, <2>1, <2>2, ClaimKept
  <1>7. ASSUME NEW e \in Executors, Claim(e) PROVE ClaimInv'
    <2> DEFINE j == exec[e].job
    <2>1. PICK r \in Rows, q \in Processes :
             /\ j \in Jobs
             /\ row' = [row EXCEPT ![j] = r] /\ exec' = [exec EXCEPT ![e] = q]
             /\ r.status = "CLAIMED" /\ r.generation = row[j].generation + 1
             /\ r.generation > 0
             /\ q.job = j /\ q.generation = r.generation
        BY <1>7, ClaimedRow
    <2>2. row \in [Jobs -> Rows]
        BY DEF TypeInv, TypeOK
    <2>3. \A f \in Executors \ {e} : exec'[f] = exec[f]
        BY <1>1, <2>1
    <2>4. exec'[e] = q /\ row'[j] = r
        BY <1>1, <2>1, <2>2
    <2>5. ASSUME NEW f \in Executors \ {e}, Running(exec[f])
          PROVE  /\ exec[f].generation > 0 /\ exec[f].generation \in Nat
                 /\ exec[f].generation <= row[exec[f].job].generation
                 /\ exec[f].job \in Jobs
      <3>1. /\ exec[f].generation > 0
            /\ exec[f].generation <= row[exec[f].job].generation
          BY <2>5 DEF ClaimInv, RunsBelowRow
      <3>2. exec[f].job \in Jobs /\ exec[f].generation \in Nat
          BY <1>1, <2>5, BoundsAssumption DEF TypeInv, BusyHasJob, Running, Waiting, Active, Progress,
                           Failing, Settled, Processes
      <3> QED BY <3>1, <3>2
    <2>6. RunsBelowRow'
      <3>1. ASSUME NEW f \in Executors, Running(exec'[f])
            PROVE  /\ exec'[f].generation > 0
                   /\ exec'[f].generation <= row'[exec'[f].job].generation
        <4>1. CASE f = e
            BY <1>1, <2>1, <2>4, <4>1
        <4>2. CASE f # e
          <5>1. row'[exec[f].job].generation >= row[exec[f].job].generation
              BY <1>1, <2>1, <2>2, <2>3, <2>5, <3>1, <4>2
          <5>2. row[exec[f].job].generation \in Nat /\ row'[exec[f].job].generation \in Nat
              BY <1>1, <2>1, <2>2, <2>3, <2>5, <3>1, <4>2
          <5> QED BY <2>3, <2>5, <3>1, <4>2, <5>1, <5>2
        <4> QED BY <4>1, <4>2
      <3>2. \A k \in Jobs : row'[k].status = "ABSENT" => row'[k].generation = 0
          BY <2>1, <2>2 DEF ClaimInv, RunsBelowRow
      <3> QED BY <3>1, <3>2 DEF RunsBelowRow
    <2>7. OneRunPerClaim'
      <3>1. ASSUME NEW f \in Executors \ {e}, Running(exec'[f]), exec'[f].job = j
            PROVE  exec'[f].generation # exec'[e].generation
          BY <1>1, <2>1, <2>3, <2>4, <2>5, <3>1
      <3> QED BY <2>1, <2>3, <2>4, <3>1 DEF ClaimInv, OneRunPerClaim
    <2> QED BY <2>6, <2>7 DEF ClaimInv
  <1> QED BY <1>2, <1>3, <1>4, <1>5, <1>6, <1>7, StepGroups

\* Whatever is requeued, redelivered, retried or cancelled, two processes never run
\* the same claim of a job.
THEOREM ClaimsAreExclusive == Spec => []OneHolderPerClaim
PROOF
  <1>1. ClaimInv => OneHolderPerClaim
      BY DEF ClaimInv, OneRunPerClaim, OneHolderPerClaim, HoldsClaim, Running
  <1> QED BY TypeInit, TypeStep, ClaimInit, ClaimStep, <1>1, PTL DEF Spec

-----------------------------------------------------------------------------
(* Owners.                                                                 *)

\* OwnedClaimIsTimed whatever the status is: a late progress write can make any row
\* active again.
OwnersAreTimed ==
    \A j \in Jobs : row[j].owner # NoWorker => row[j].claimedAt # "null"

LEMMA OwnerStep == TypeInv /\ OwnersAreTimed /\ [Next]_vars => OwnersAreTimed'
PROOF
  <1> SUFFICES ASSUME TypeInv, OwnersAreTimed, [Next]_vars PROVE OwnersAreTimed'
      OBVIOUS
  <1> USE DEF OwnersAreTimed
  <1>1. CASE QuietStep \/ UNCHANGED vars
    <2>1. UNCHANGED row
        BY <1>1 DEF QuietStep, vars, DispatchRound, MarkOffline, ScanDispatch, WorkerStep,
           Heartbeat, Lapse, Pause, Drain, Resume, SetWorkerStatus, Redeliver, CancelRead
    <2> QED BY <2>1
  <1>2. CASE TableStep
    <2>1. \A j \in Jobs : TableRow(j)
        BY <1>2, TableEffect
    <2> QED BY <2>1 DEF TableRow, Aged, Stamped, Requeued, Retried, Row
  <1>3. ASSUME NEW e \in Executors, LocalStep(e) PROVE OwnersAreTimed'
      BY <1>3, LocalEffect
  <1>4. ASSUME NEW e \in Executors, ProgressStep(e) PROVE OwnersAreTimed'
      BY <1>4, ProgressEffect DEF Stamped
  <1>5. ASSUME NEW e \in Executors, OutcomeStep(e) PROVE OwnersAreTimed'
    <2>1. PICK v \in Outcomes :
             \/ UNCHANGED row
             \/ /\ exec[e].job \in Jobs
                /\ Stamped(row[exec[e].job], row'[exec[e].job], v)
                /\ \A j \in Jobs \ {exec[e].job} : row'[j] = row[j]
        BY <1>5, OutcomeEffect DEF Outcomes
    <2> QED BY <2>1 DEF Stamped
  <1>6. ASSUME NEW e \in Executors, Claim(e) PROVE OwnersAreTimed'
      BY <1>6, ClaimedRow DEF TypeInv, TypeOK
  <1> QED BY <1>1, <1>2, <1>3, <1>4, <1>5, <1>6, StepGroups

\* No late write of an old holder hides an owned claim from requeue_stuck_jobs.
THEOREM OwnedClaimsAreTimed == Spec => []OwnedClaimIsTimed
PROOF
  <1>1. Init => OwnersAreTimed
      BY DEF Init, OwnersAreTimed, Row
  <1>2. OwnersAreTimed => OwnedClaimIsTimed
      BY DEF OwnersAreTimed, OwnedClaimIsTimed
  <1> QED BY <1>1, <1>2, TypeInit, TypeStep, OwnerStep, PTL DEF Spec

-----------------------------------------------------------------------------
(* Budgets.                                                                *)

\* What a process read of the budget is still true as long as its fence can hold.
BudgetIsCurrent ==
    \A e \in Executors :
        /\ exec[e].pc = "recording"
        /\ row[exec[e].job].generation = exec[e].generation
        /\ row[exec[e].job].owner = Host[e]
        => (exec[e].exhausted <=> row[exec[e].job].attempt >= MaxAttempts)

BudgetInv ==
    /\ BudgetIsCurrent
    /\ RetryableHasBudget /\ DeadLetterMeansExhausted
    /\ scan.promote = {}

LEMMA BudgetInit == LegacyExhausted = {} /\ Init => BudgetInv
PROOF
  BY DEF Init, BudgetInv, BudgetIsCurrent, RetryableHasBudget, DeadLetterMeansExhausted,
         Process, Row

LEMMA BudgetStep == TypeInv /\ ClaimInv /\ BudgetInv /\ [Next]_vars => BudgetInv'
PROOF
  <1> SUFFICES ASSUME TypeInv, ClaimInv, BudgetInv, [Next]_vars PROVE BudgetInv'
      OBVIOUS
  <1> USE DEF RetryableHasBudget, DeadLetterMeansExhausted
  <1>1. /\ BudgetIsCurrent /\ RetryableHasBudget /\ DeadLetterMeansExhausted
        /\ scan.promote = {}
        /\ \A j \in Jobs : row[j].attempt \in Nat /\ row[j].generation \in Nat
        /\ MaxAttempts \in Nat \ {0}
        /\ exec \in [Executors -> Processes] /\ row \in [Jobs -> Rows]
      BY BoundsAssumption DEF BudgetInv, TypeInv, TypeOK, Rows
  <1>2. \A e \in Executors : /\ Host[e] # NoWorker
                             /\ Running(exec[e]) => exec[e].job \in Jobs
    <2>1. \A e \in Executors : Host[e] # NoWorker
        BY SetsAssumption, FunctionsAssumption
    <2>2. \A e \in Executors : Running(exec[e]) => exec[e].job \in Jobs
        BY DEF TypeInv, BusyHasJob, Running, Waiting, Active, Progress, Failing, Settled
    <2> QED BY <2>1, <2>2
  <1>3. \A p : p.pc = "recording" => Running(p)
      BY DEF Running, Failing
  <1>4. CASE QuietStep \/ UNCHANGED vars
    <2>1. UNCHANGED <<row, exec>> /\ scan'.promote = {}
        BY <1>1, <1>4 DEF QuietStep, vars, DispatchRound, MarkOffline, ScanDispatch,
           WorkerStep, Heartbeat, Lapse, Pause, Drain, Resume, SetWorkerStatus, Redeliver,
           CancelRead, TypeInv, TypeOK
    <2> QED BY <1>1, <2>1 DEF BudgetInv, BudgetIsCurrent
  <1>5. CASE TableStep
    <2>1. UNCHANGED exec /\ \A j \in Jobs : TableRow(j)
        BY <1>5, TableEffect
    <2>2. scan'.promote = {}
      <3>1. ToPromote = {}
          BY <1>1 DEF ToPromote, Exhausted
      <3> QED BY <1>1, <1>5, <3>1
               DEF TableStep, ScanStuck, Create, ClaimAges, ScanPromote, ManualRetry,
                   CancelWrite
    <2>3. RetryableHasBudget' /\ DeadLetterMeansExhausted'
        BY <1>1, <2>1 DEF TableRow, Aged, Stamped, Requeued, Retried, Row
    <2>4. BudgetIsCurrent'
      <3> SUFFICES ASSUME NEW e \in Executors, exec[e].pc = "recording",
                          row'[exec[e].job].generation = exec[e].generation,
                          row'[exec[e].job].owner = Host[e]
                   PROVE  exec[e].exhausted <=> row'[exec[e].job].attempt >= MaxAttempts
          BY <2>1 DEF BudgetIsCurrent
      <3> DEFINE j == exec[e].job
      <3>1. j \in Jobs /\ TableRow(j)
          BY <1>2, <1>3, <2>1
      <3>2. /\ row'[j].attempt = row[j].attempt
            /\ row'[j].generation = row[j].generation
            /\ row'[j].owner = row[j].owner
          BY <1>1, <1>2, <3>1 DEF TableRow, Aged, Stamped, Requeued, Retried, Row
      <3> QED BY <1>1, <3>2 DEF BudgetIsCurrent
    <2> QED BY <2>2, <2>3, <2>4 DEF BudgetInv
  <1>6. ASSUME NEW e \in Executors, LocalStep(e) PROVE BudgetInv'
    <2>1. PICK q : /\ exec' = [exec EXCEPT ![e] = q]
                   /\ q.pc = "recording" =>
                        q.job = exec[e].job /\ q.exhausted = Exhausted(exec[e].job)
        BY <1>3, <1>6, LocalEffect DEF SameClaim
    <2>2. UNCHANGED <<row, scan>>
        BY <1>6, LocalEffect
    <2>3. BudgetIsCurrent'
      <3>1. CASE exec'[e].pc = "recording"
        <4>1. /\ exec'[e].job = exec[e].job
              /\ exec'[e].exhausted = (row[exec[e].job].attempt >= MaxAttempts)
            BY <1>1, <2>1, <3>1 DEF Exhausted
        <4> QED BY <1>1, <2>1, <2>2, <4>1 DEF BudgetIsCurrent
      <3>2. CASE exec'[e].pc # "recording"
          BY <1>1, <2>1, <2>2, <3>2 DEF BudgetIsCurrent
      <3> QED BY <3>1, <3>2
    <2> QED BY <1>1, <2>2, <2>3 DEF BudgetInv
  <1>7. ASSUME NEW e \in Executors, ProgressStep(e) PROVE BudgetInv'
    <2>1. PICK q \in Processes, to \in Progress :
             /\ exec[e].job \in Jobs
             /\ exec' = [exec EXCEPT ![e] = q] /\ q.pc = to
             /\ Stamped(row[exec[e].job], row'[exec[e].job], to)
             /\ \A j \in Jobs \ {exec[e].job} : row'[j] = row[j]
             /\ UNCHANGED scan
        BY <1>7, ProgressEffect
    <2>2. to # "recording" /\ to # "FAILED_RETRYABLE" /\ to # "DEAD_LETTERED"
        BY DEF Progress
    <2>3. \A j \in Jobs : /\ row'[j].attempt = row[j].attempt
                          /\ row'[j].generation = row[j].generation
                          /\ row'[j].owner = row[j].owner
        BY <2>1 DEF Stamped
    <2>4. BudgetIsCurrent'
        BY <1>1, <1>2, <1>3, <2>1, <2>2, <2>3 DEF BudgetIsCurrent
    <2>5. RetryableHasBudget' /\ DeadLetterMeansExhausted'
        BY <1>1, <2>1, <2>2 DEF Stamped
    <2> QED BY <1>1, <2>1, <2>4, <2>5 DEF BudgetInv
  <1>8. ASSUME NEW e \in Executors, OutcomeStep(e) PROVE BudgetInv'
    <2>1. PICK q : /\ exec' = [exec EXCEPT ![e] = q]
                   /\ \/ ~Running(q) /\ UNCHANGED <<row, verdict>>
                      \/ \E v \in Outcomes :
                           /\ FenceHolds(e)
                           /\ SameClaim(exec[e], q) /\ q.pc \in Settled
                           /\ Stamped(row[exec[e].job], row'[exec[e].job], v)
                           /\ \A j \in Jobs \ {exec[e].job} : row'[j] = row[j]
                           /\ verdict' = [verdict EXCEPT
                                             ![exec[e].job][exec[e].generation] = v]
                           /\ v \in {"FAILED_RETRYABLE", "DEAD_LETTERED"} =>
                                 /\ exec[e].pc = "recording"
                                 /\ v = "DEAD_LETTERED" <=> exec[e].exhausted
        BY <1>8, OutcomeEffect
    <2>2. q.pc # "recording"
        BY <1>3, <2>1 DEF Settled
    <2>3. exec[e].job \in Jobs /\ UNCHANGED scan
        BY <1>8, OutcomeEffect
    <2>4. \A j \in Jobs : /\ row'[j].attempt = row[j].attempt
                          /\ row'[j].generation = row[j].generation
                          /\ row'[j].owner = row[j].owner
        BY <2>1, <2>3 DEF Stamped
    <2>5. BudgetIsCurrent'
        BY <1>1, <1>2, <1>3, <2>1, <2>2, <2>4 DEF BudgetIsCurrent
    <2>6. RetryableHasBudget' /\ DeadLetterMeansExhausted'
      <3>1. CASE UNCHANGED row
          BY <1>1, <3>1
      <3>2. ASSUME NEW v \in Outcomes, FenceHolds(e),
                   Stamped(row[exec[e].job], row'[exec[e].job], v),
                   \A j \in Jobs \ {exec[e].job} : row'[j] = row[j],
                   v \in {"FAILED_RETRYABLE", "DEAD_LETTERED"} =>
                      /\ exec[e].pc = "recording"
                      /\ v = "DEAD_LETTERED" <=> exec[e].exhausted
            PROVE  RetryableHasBudget' /\ DeadLetterMeansExhausted'
        <4>1. exec[e].pc = "recording" =>
                 (exec[e].exhausted <=> row[exec[e].job].attempt >= MaxAttempts)
            BY <1>1, <3>2 DEF BudgetIsCurrent, FenceHolds
        <4>2. /\ row'[exec[e].job].status = v
              /\ row'[exec[e].job].attempt = row[exec[e].job].attempt
            BY <3>2 DEF Stamped
        <4>3. v = "FAILED_RETRYABLE" => row'[exec[e].job].attempt < MaxAttempts
            BY <1>1, <2>3, <3>2, <4>1, <4>2
        <4>4. v = "DEAD_LETTERED" => row'[exec[e].job].attempt >= MaxAttempts
            BY <1>1, <2>3, <3>2, <4>1, <4>2
        <4> QED BY <1>1, <3>2, <4>2, <4>3, <4>4
      <3> QED BY <2>1, <3>1, <3>2
    <2> QED BY <1>1, <2>3, <2>5, <2>6 DEF BudgetInv
  <1>9. ASSUME NEW e \in Executors, Claim(e) PROVE BudgetInv'
    <2> DEFINE j == exec[e].job
    <2>1. PICK r \in Rows, q \in Processes :
             /\ j \in Jobs
             /\ row' = [row EXCEPT ![j] = r] /\ exec' = [exec EXCEPT ![e] = q]
             /\ r.status = "CLAIMED" /\ r.generation = row[j].generation + 1
             /\ q.pc = "CLAIMED"
        BY <1>9, ClaimedRow
    <2>2. UNCHANGED scan /\ row'[j] = r
        BY <1>1, <1>9, <2>1 DEF Claim
    <2>3. RetryableHasBudget' /\ DeadLetterMeansExhausted'
        BY <1>1, <2>1
    <2>4. ASSUME NEW f \in Executors, exec'[f].pc = "recording",
                 row'[exec'[f].job].generation = exec'[f].generation
          PROVE  f # e /\ exec'[f] = exec[f] /\ row'[exec[f].job] = row[exec[f].job]
      <3>1. f # e /\ exec'[f] = exec[f]
          BY <1>1, <2>1, <2>4
      <3>2. exec[f].job \in Jobs /\ exec[f].generation <= row[exec[f].job].generation
          BY <1>2, <1>3, <2>4, <3>1 DEF ClaimInv, RunsBelowRow
      <3>3. exec[f].job # j
          BY <1>1, <2>1, <2>2, <2>4, <3>1, <3>2
      <3> QED BY <1>1, <2>1, <3>1, <3>2, <3>3
    <2>5. BudgetIsCurrent'
        BY <1>1, <2>4 DEF BudgetIsCurrent
    <2> QED BY <1>1, <2>2, <2>3, <2>5 DEF BudgetInv
  <1> QED BY <1>4, <1>5, <1>6, <1>7, <1>8, <1>9, StepGroups

\* In a database with no leftover of an older version a job waits for retry only with
\* attempts left and is dead-lettered only without: the budget is read outside the
\* transaction of the write, but no manual retry is undone by an older decision.
THEOREM BudgetsHold ==
    ASSUME LegacyExhausted = {} PROVE Spec => []BudgetsAreHonest
PROOF
  <1>1. Init => BudgetInv
      BY BudgetInit
  <1>2. BudgetInv => BudgetsAreHonest
      BY DEF BudgetInv, BudgetsAreHonest
  <1> QED BY <1>1, <1>2, TypeInit, TypeStep, ClaimInit, ClaimStep, BudgetStep, PTL DEF Spec

-----------------------------------------------------------------------------
(* The documented state machine.                                           *)

\* The scan has nothing to dead-letter, so its promotion, the third unfenced write,
\* never lands on a row that has moved on.
LEMMA TableKeepsToTable ==
    ASSUME TypeInv, BudgetInv, TableStep PROVE \A j \in Jobs : KeepsToTable(j)
PROOF
  <1> USE DEF KeepsToTable
  <1>1. row \in [Jobs -> Rows] /\ scan.promote = {}
      BY DEF TypeInv, TypeOK, BudgetInv
  <1>2. CASE ScanStuck
    <2>1. ASSUME NEW j \in Jobs, j \in Stuck PROVE KeepsToTable(j)
      <3> DEFINE g == NextGeneration(j)
      <3>1. [Released(row[j]) EXCEPT !.generation = g].status = "QUEUED"
          BY <1>1 DEF Released, Rows
      <3>2. row'[j].status = "QUEUED" /\ row[j].status \in Active
          BY <1>2, <2>1, <3>1 DEF ScanStuck, Stuck
      <3> QED BY <3>2 DEF Documented, MaintenanceEdges
    <2>2. \A j \in Jobs \ Stuck : row'[j] = row[j]
        BY <1>2 DEF ScanStuck
    <2> QED BY <2>1, <2>2
  <1>3. ASSUME NEW j \in Jobs, ManualRetry(j) PROVE \A k \in Jobs : KeepsToTable(k)
    <2>1. [Released(row[j]) EXCEPT !.attempt = 0].status = "QUEUED"
        BY <1>1 DEF Released, Rows
    <2>2. row'[j].status = "QUEUED" /\ row[j].status \in RetryAllowedFrom
        BY <1>1, <1>3, <2>1 DEF ManualRetry
    <2>3. KeepsToTable(j)
        BY <2>2 DEF Documented, MaintenanceEdges
    <2>4. \A k \in Jobs \ {j} : row'[k] = row[k]
        BY <1>1, <1>3 DEF ManualRetry
    <2> QED BY <2>3, <2>4
  <1>4. ASSUME NEW j \in Jobs, Create(j) \/ CancelWrite(j)
        PROVE  \A k \in Jobs : KeepsToTable(k)
    <2>1. KeepsToTable(j)
      <3>1. CASE Create(j)
          BY <3>1 DEF Create
      <3>2. CASE CancelWrite(j)
        <4>1. row'[j].status = "CANCELLED"
            BY <1>1, <3>2 DEF CancelWrite, Rows
        <4> QED BY <4>1
      <3> QED BY <1>4, <3>1, <3>2
    <2>2. \A k \in Jobs \ {j} : row'[k] = row[k]
        BY <1>1, <1>4 DEF Create, CancelWrite
    <2> QED BY <2>1, <2>2
  <1>5. ASSUME NEW j \in Jobs, ClaimAges(j) PROVE \A k \in Jobs : KeepsToTable(k)
    <2>1. row'[j].status = row[j].status
        BY <1>1, <1>5 DEF ClaimAges, Rows
    <2>2. \A k \in Jobs \ {j} : row'[k] = row[k]
        BY <1>1, <1>5 DEF ClaimAges
    <2> QED BY <2>1, <2>2
  <1>6. ASSUME NEW j \in Jobs, ScanPromote(j) PROVE \A k \in Jobs : KeepsToTable(k)
      BY <1>1, <1>6 DEF ScanPromote
  <1> QED BY <1>2, <1>3, <1>4, <1>5, <1>6 DEF TableStep

LEMMA KeepsToTableStep ==
    TypeInv /\ BudgetInv /\ [Next]_vars => \A j \in Jobs : KeepsToTable(j)
PROOF
  <1> SUFFICES ASSUME TypeInv, BudgetInv, [Next]_vars
               PROVE  \A j \in Jobs : KeepsToTable(j)
      OBVIOUS
  <1>1. row \in [Jobs -> Rows]
      BY DEF TypeInv, TypeOK
  <1>2. CASE UNCHANGED row
      BY <1>2 DEF KeepsToTable
  <1>3. CASE QuietStep \/ UNCHANGED vars
    <2>1. UNCHANGED row
        BY <1>3 DEF QuietStep, vars, DispatchRound, MarkOffline, ScanDispatch, WorkerStep,
           Heartbeat, Lapse, Pause, Drain, Resume, SetWorkerStatus, Redeliver, CancelRead
    <2> QED BY <1>2, <2>1
  <1>4. ASSUME NEW e \in Executors, LocalStep(e) PROVE UNCHANGED row
      BY <1>4, LocalEffect
  <1>5. ASSUME NEW e \in Executors, ProgressStep(e) PROVE \A j \in Jobs : KeepsToTable(j)
      BY <1>5, ProgressEffect DEF Stamped, KeepsToTable
  <1>6. ASSUME NEW e \in Executors, OutcomeStep(e) PROVE \A j \in Jobs : KeepsToTable(j)
    <2>1. ASSUME NEW v \in Outcomes, FenceHolds(e),
                 Stamped(row[exec[e].job], row'[exec[e].job], v)
          PROVE  KeepsToTable(exec[e].job)
      <3>1. row[exec[e].job].status \in Active /\ row'[exec[e].job].status = v
          BY <2>1 DEF FenceHolds, Stamped
      <3> QED BY <2>1, <3>1 DEF KeepsToTable, Documented
    <2>2. ASSUME NEW j \in Jobs, row'[j] = row[j] PROVE KeepsToTable(j)
        BY <2>2 DEF KeepsToTable
    <2> QED BY <1>6, <2>1, <2>2, OutcomeEffect
  <1>7. ASSUME NEW e \in Executors, Claim(e) PROVE \A j \in Jobs : KeepsToTable(j)
    <2> DEFINE j == exec[e].job
    <2>1. /\ j \in Jobs /\ row'[j].status = "CLAIMED"
          /\ \A k \in Jobs \ {j} : row'[k] = row[k]
        BY <1>1, <1>7, ClaimedRow
    <2>2. row[j].status \in Runnable
        BY <1>7 DEF Claim, Claimable
    <2> HIDE DEF j
    <2>3. KeepsToTable(j)
        BY <2>1, <2>2 DEF KeepsToTable, Documented, MaintenanceEdges
    <2> QED BY <2>1, <2>3 DEF KeepsToTable
  <1> QED BY <1>2, <1>3, <1>4, <1>5, <1>6, <1>7, TableKeepsToTable, StepGroups

\* In a database with no leftover of an older version, only a progress write and a
\* cancel ever move a job off the documented edges: every fenced outcome, claim,
\* requeue, retry and promotion keeps to them, whatever comes in between the read and
\* the write of each.
THEOREM OthersKeepToTable ==
    ASSUME LegacyExhausted = {} PROVE Spec => OnlyUnfencedWritesStray
PROOF
  <1>1. Init => BudgetInv
      BY BudgetInit
  <1>2. TypeInv /\ BudgetInv /\ [Next]_vars =>
          [\A j \in Jobs : KeepsToTable(j)]_vars
      BY KeepsToTableStep
  <1> QED BY <1>1, <1>2, TypeInit, TypeStep, ClaimInit, ClaimStep, BudgetStep,
             PTL DEF Spec, OnlyUnfencedWritesStray

-----------------------------------------------------------------------------
(* Capacity.  Without late heartbeats, cancels and leftovers no row leaves *)
(* its claim under a process that is still at work on it, so no progress   *)
(* write brings a row back that its host does not count any more.          *)

\* Only a host without a live process is late with its heartbeats.
LateHostsAreDown == \A w \in Workers : worker[w].age > 0 => HostDown(w)

\* The row of a process at work is in the claim of that process.
WorkIsOwned ==
    \A e \in Executors :
        exec[e].pc \in Active =>
            /\ row[exec[e].job].status \in Active
            /\ row[exec[e].job].owner = Host[e]
            /\ row[exec[e].job].generation = exec[e].generation

CapacityInv ==
    /\ cancelling = {}
    /\ LateHostsAreDown
    /\ WorkIsOwned
    /\ \A j \in Jobs : row[j].status \in Active => row[j].owner # NoWorker
    /\ \A w \in Workers : /\ IsFiniteSet(OwnedActive(w))
                          /\ Cardinality(OwnedActive(w)) <= Capacity[w]

LEMMA CapacityInit == Init => CapacityInv
PROOF
  <1> SUFFICES ASSUME Init PROVE CapacityInv
      OBVIOUS
  <1>1. LateHostsAreDown
      BY DEF Init, LateHostsAreDown
  <1>2. WorkIsOwned
      BY DEF Init, WorkIsOwned, Process, Active, Progress
  <1>3. \A j \in Jobs : row[j].status \notin Active
      BY DEF Init, Row, Active, Progress
  <1>4. ASSUME NEW w \in Workers
        PROVE  IsFiniteSet(OwnedActive(w)) /\ Cardinality(OwnedActive(w)) <= Capacity[w]
    <2>1. OwnedActive(w) = {}
        BY <1>3 DEF OwnedActive
    <2> QED BY <2>1, FS_EmptySet, FunctionsAssumption
  <1> QED BY <1>1, <1>2, <1>3, <1>4 DEF CapacityInv, Init

\* Heartbeats come from live processes, and only Restart brings a host back to life.
LEMMA LateStep ==
    ASSUME "lapse" \notin Faults, TypeInv, LateHostsAreDown, [Next]_vars
    PROVE  LateHostsAreDown'
PROOF
  <1> DEFINE Fresh(w) == worker'[w].age = 0
             Kept(w) == /\ worker'[w].age = worker[w].age
                        /\ \A f \in Executors :
                              Host[f] = w /\ exec[f].pc = "down" => exec'[f].pc = "down"
             Goal == \A w \in Workers : Fresh(w) \/ Kept(w) \/ HostDown(w)'
  <1>0. SUFFICES Goal
      BY DEF LateHostsAreDown, HostDown
  <1> USE FunctionsAssumption DEF TypeInv, TypeOK, BeatOnline
  <1>1. CASE UNCHANGED <<exec, worker>>
      BY <1>1
  <1>2. ASSUME NEW w \in Workers, WorkerStep(w) PROVE Goal
    <2>1. CASE Lapse(w)
        BY <2>1 DEF Lapse, HostDown
    <2>2. CASE Heartbeat(w)
        BY <2>2 DEF Heartbeat
    <2>3. CASE Pause(w) \/ Drain(w) \/ Resume(w)
      <3>1. \E s : worker' = [worker EXCEPT ![w].status = s] /\ UNCHANGED exec
          BY <2>3 DEF Pause, Drain, Resume, SetWorkerStatus
      <3>2. \A v \in Workers : worker'[v].age = worker[v].age
          BY <3>1
      <3> QED BY <3>1, <3>2
    <2> QED BY <1>2, <2>1, <2>2, <2>3 DEF WorkerStep
  <1>3. CASE MarkOffline
    <2>1. UNCHANGED exec /\ \A w \in Workers : worker'[w].age = worker[w].age
        BY <1>3 DEF MarkOffline
    <2> QED BY <2>1
  <1>4. ASSUME NEW e \in Executors, NEW q, exec' = [exec EXCEPT ![e] = q],
               \/ UNCHANGED worker /\ (exec[e].pc # "down" \/ q.pc = "down")
               \/ /\ worker'[Host[e]].age = 0
                  /\ \A w \in Workers : w # Host[e] => worker'[w] = worker[w]
        PROVE Goal
      BY <1>4
  <1>5. ASSUME NEW e \in Executors, LocalStep(e) PROVE Goal
    <2>1. ASSUME NEW j \in Jobs, BeginRun(e, j) PROVE Goal
        BY <1>4, <2>1 DEF BeginRun
    <2>2. CASE ClaimRefused(e) \/ Escape(e) \/ Raise(e) \/ ReadBudget(e)
      <3>1. /\ UNCHANGED worker /\ exec[e].pc # "down"
            /\ \E q : exec' = [exec EXCEPT ![e] = q]
          BY <2>2 DEF ClaimRefused, Escape, Raise, ReadBudget, Active, Progress, Failing
      <3> QED BY <1>4, <3>1
    <2>3. CASE Finish(e) \/ Restart(e) \/ ReportError(e)
      <3>1. exec' = [exec EXCEPT ![e] = Process("idle")]
          BY <2>3 DEF Finish, Restart, ReportError
      <3>2. /\ worker'[Host[e]].age = 0
            /\ \A w \in Workers : w # Host[e] => worker'[w] = worker[w]
          BY <2>3 DEF Finish, Restart, ReportError
      <3> QED BY <1>4, <3>1, <3>2
    <2>4. CASE Crash(e)
      <3>1. exec' = [exec EXCEPT ![e] = Process("down")] /\ UNCHANGED worker
          BY <2>4 DEF Crash
      <3>2. Process("down").pc = "down"
          BY DEF Process
      <3> QED BY <1>4, <3>1, <3>2
    <2> QED BY <1>5, <2>1, <2>2, <2>3, <2>4 DEF LocalStep
  <1>6. ASSUME NEW e \in Executors, Claim(e) PROVE Goal
    <2>1. \E q : exec' = [exec EXCEPT ![e] = q]
        BY <1>6, ClaimedRow
    <2>2. /\ worker'[Host[e]].age = 0
          /\ \A w \in Workers : w # Host[e] => worker'[w] = worker[w]
        BY <1>6 DEF Claim
    <2> QED BY <1>4, <2>1, <2>2
  <1>7. ASSUME NEW e \in Executors, ProgressStep(e) \/ OutcomeStep(e) PROVE Goal
    <2>1. \E q : exec' = [exec EXCEPT ![e] = q]
        BY <1>7, ProgressEffect, OutcomeEffect
    <2>2. exec[e].pc \in Active \cup Failing
        BY <1>7, ProgressEffect, OutcomeEffect
    <2>3. exec[e].pc # "down"
        BY <2>2 DEF Active, Progress, Failing
    <2>4. UNCHANGED worker
        BY <1>7 DEF ProgressStep, StartPreprocessing, StartInferencing, StartPostprocessing,
                    WriteProgress, OutcomeStep, Succeed, RecordPermanent, RecordRetryable
    <2> QED BY <1>4, <2>1, <2>3, <2>4
  <1>8. CASE TableStep
      BY <1>1, <1>8 DEF TableStep, ScanStuck, Create, ClaimAges, ScanPromote, ManualRetry,
                        CancelWrite
  <1>9. CASE QuietStep \/ UNCHANGED vars
      BY <1>1, <1>2, <1>3, <1>9
         DEF QuietStep, vars, DispatchRound, ScanDispatch, Redeliver, CancelRead
  <1> QED BY <1>5, <1>6, <1>7, <1>8, <1>9, StepGroups

\* What is left of the steps without a process: they touch no claim but a stuck one.
LEMMA TableKeepsClaims ==
    ASSUME TypeInv, cancelling = {}, scan.promote = {}, TableStep
    PROVE  /\ UNCHANGED <<worker, exec, cancelling>>
           /\ \A j \in Jobs :
                \/ /\ row'[j].status = row[j].status /\ row'[j].owner = row[j].owner
                   /\ row'[j].generation = row[j].generation
                \/ row'[j].status = "QUEUED" /\ (row[j].status \notin Active \/ j \in Stuck)
PROOF
  <1> DEFINE Kept(j) == /\ row'[j].status = row[j].status /\ row'[j].owner = row[j].owner
                        /\ row'[j].generation = row[j].generation
             Freed(j) == /\ row'[j].status = "QUEUED"
                         /\ row[j].status \notin Active \/ j \in Stuck
             Goal == /\ UNCHANGED <<worker, exec, cancelling>>
                     /\ \A j \in Jobs : Kept(j) \/ Freed(j)
  <1>1. row \in [Jobs -> Rows] /\ \A j \in Jobs : row[j] \in Rows
      BY DEF TypeInv, TypeOK
  <1>2. CASE ScanStuck
    <2>1. ASSUME NEW j \in Stuck PROVE row'[j].status = "QUEUED"
      <3>1. j \in Jobs /\ row[j].generation + 1 \in 0..MaxGeneration
          BY <1>1, BoundsAssumption DEF Stuck, Rows, TypeInv, ClaimedBelowBound
      <3>2. row'[j] = [Released(row[j]) EXCEPT !.generation = row[j].generation + 1]
          BY <1>2, <2>1, <3>1 DEF ScanStuck, NextGeneration
      <3> QED BY <1>1, <3>1, <3>2, RequeuedRow
    <2>2. \A j \in Jobs \ Stuck : row'[j] = row[j]
        BY <1>2 DEF ScanStuck
    <2> QED BY <1>2, <2>1, <2>2 DEF ScanStuck
  <1>3. ASSUME NEW j \in Jobs, Create(j) PROVE Goal
    <2>1. row'[j].status = "QUEUED" /\ row[j].status \notin Active
        BY <1>1, <1>3 DEF Create, Row, Active, Progress
    <2> QED BY <1>1, <1>3, <2>1 DEF Create
  <1>4. ASSUME NEW j \in Jobs, ClaimAges(j) PROVE Goal
    <2>1. Kept(j)
        BY <1>1, <1>4 DEF ClaimAges, Rows
    <2> QED BY <1>1, <1>4, <2>1 DEF ClaimAges
  <1>5. ASSUME NEW j \in Jobs, ManualRetry(j) PROVE Goal
    <2>1. row'[j].status = "QUEUED"
        BY <1>1, <1>5, RetriedRow DEF ManualRetry
    <2>2. row[j].status \notin Active
        BY <1>5 DEF ManualRetry, RetryAllowedFrom, Terminal, Active, Progress
    <2> QED BY <1>1, <1>5, <2>1, <2>2 DEF ManualRetry
  <1>6. ~ \E j \in Jobs : ScanPromote(j) \/ CancelWrite(j)
      BY DEF ScanPromote, CancelWrite
  <1> QED BY <1>2, <1>3, <1>4, <1>5, <1>6 DEF TableStep

\* Rows that leave a host's count, or stay in it, cost no capacity.
LEMMA CountShrinks ==
    ASSUME CapacityInv, NEW w \in Workers, OwnedActive(w)' \subseteq OwnedActive(w)
    PROVE  IsFiniteSet(OwnedActive(w)') /\ Cardinality(OwnedActive(w)') <= Capacity[w]
PROOF
  <1>1. /\ IsFiniteSet(OwnedActive(w)') /\ Cardinality(OwnedActive(w)') \in Nat
        /\ Cardinality(OwnedActive(w)) \in Nat
        /\ Cardinality(OwnedActive(w)') <= Cardinality(OwnedActive(w))
      BY FS_Subset, FS_CardinalityType DEF CapacityInv
  <1> QED BY <1>1, FunctionsAssumption DEF CapacityInv

LEMMA CapacityStep ==
    ASSUME Faults \cap {"lapse", "cancel"} = {}, TypeInv, ClaimInv, BudgetInv, CapacityInv,
           [Next]_vars
    PROVE  CapacityInv'
PROOF
  <1>1. /\ row \in [Jobs -> Rows] /\ exec \in [Executors -> Processes]
        /\ \A e \in Executors : exec[e].pc \in Active => exec[e].job \in Jobs
        /\ cancelling = {} /\ scan.promote = {}
        /\ \A e \in Executors : Host[e] \in Workers /\ Host[e] # NoWorker
    <2>1. \A e \in Executors : Host[e] \in Workers /\ Host[e] # NoWorker
        BY FunctionsAssumption, SetsAssumption
    <2>2. \A e \in Executors : exec[e].pc \in Active => exec[e].job \in Jobs
        BY DEF TypeInv, BusyHasJob, Waiting, Active, Progress
    <2> QED BY <2>1, <2>2 DEF TypeInv, TypeOK, BudgetInv, CapacityInv
  <1>2. LateHostsAreDown'
      BY LateStep DEF CapacityInv
  \* The four parts that are left, when no claim is made.
  <1>3. ASSUME cancelling' = {}, WorkIsOwned',
               \A j \in Jobs : row'[j].status \in Active =>
                   row[j].status \in Active /\ row'[j].owner = row[j].owner
        PROVE  CapacityInv'
    <2>1. \A w \in Workers : OwnedActive(w)' \subseteq OwnedActive(w)
        BY <1>3 DEF OwnedActive
    <2>2. \A j \in Jobs : row'[j].status \in Active => row'[j].owner # NoWorker
        BY <1>3 DEF CapacityInv
    <2> QED BY <1>2, <1>3, <2>1, <2>2, CountShrinks DEF CapacityInv
  <1>4. CASE QuietStep \/ UNCHANGED vars
    <2>1. UNCHANGED <<row, exec>> /\ cancelling' = {}
        BY <1>1, <1>4 DEF QuietStep, vars, DispatchRound, MarkOffline, ScanDispatch,
           WorkerStep, Heartbeat, Lapse, Pause, Drain, Resume, SetWorkerStatus, Redeliver,
           CancelRead
    <2>2. WorkIsOwned'
        BY <2>1 DEF CapacityInv, WorkIsOwned
    <2> QED BY <1>3, <2>1, <2>2
  <1>5. CASE TableStep
    <2>1. /\ UNCHANGED <<worker, exec, cancelling>>
          /\ \A j \in Jobs :
                \/ /\ row'[j].status = row[j].status /\ row'[j].owner = row[j].owner
                   /\ row'[j].generation = row[j].generation
                \/ row'[j].status = "QUEUED" /\ (row[j].status \notin Active \/ j \in Stuck)
        BY <1>1, <1>5, TableKeepsClaims
    <2>2. ASSUME NEW e \in Executors, exec[e].pc \in Active PROVE exec[e].job \notin Stuck
      <3>1. row[exec[e].job].owner = Host[e]
          BY <2>2 DEF CapacityInv, WorkIsOwned
      <3>2. exec[e].pc # "down"
          BY <2>2 DEF Active, Progress
      <3>3. ~(worker[Host[e]].age > 0)
          BY <1>1, <3>2 DEF CapacityInv, LateHostsAreDown, HostDown
      <3> QED BY <1>1, <3>1, <3>3 DEF Stuck
    <2>3. "QUEUED" \notin Active
        BY DEF Active, Progress
    <2>4. WorkIsOwned'
        BY <1>1, <2>1, <2>2 DEF CapacityInv, WorkIsOwned
    <2> QED BY <1>1, <1>3, <2>1, <2>3, <2>4
  <1>6. ASSUME NEW e \in Executors, LocalStep(e) PROVE CapacityInv'
    <2>1. PICK q : /\ exec' = [exec EXCEPT ![e] = q]
                   /\ ~Running(q) \/ q.pc \in {"failing", "recording"}
        BY <1>6, LocalEffect
    <2>2. q.pc \notin Active
        BY <2>1 DEF Running, Active, Progress
    <2>3. UNCHANGED <<row, cancelling>>
        BY <1>6 DEF LocalStep, BeginRun, ClaimRefused, Finish, Raise, ReadBudget,
                    ReportError, Escape, Crash, Restart
    <2>4. WorkIsOwned'
        BY <1>1, <2>1, <2>2, <2>3 DEF CapacityInv, WorkIsOwned
    <2> QED BY <1>1, <1>3, <2>3, <2>4
  <1>7. ASSUME NEW e \in Executors, ProgressStep(e) PROVE CapacityInv'
    <2> DEFINE j == exec[e].job
    <2>1. PICK q \in Processes, to \in Progress :
             /\ j \in Jobs /\ exec[e].pc \in Active
             /\ exec' = [exec EXCEPT ![e] = q]
             /\ SameClaim(exec[e], q) /\ q.pc = to
             /\ Stamped(row[j], row'[j], to)
             /\ \A k \in Jobs \ {j} : row'[k] = row[k]
        BY <1>7, ProgressEffect
    <2>2. UNCHANGED cancelling
        BY <1>7 DEF ProgressStep, StartPreprocessing, StartInferencing, StartPostprocessing,
                    WriteProgress
    <2>3. row[j].status \in Active /\ to \in Active
        BY <2>1 DEF CapacityInv, WorkIsOwned, Active
    <2>4. \A k \in Jobs : /\ row'[k].status \in Active <=> row[k].status \in Active
                          /\ row'[k].owner = row[k].owner
                          /\ row'[k].generation = row[k].generation
        BY <2>1, <2>3 DEF Stamped
    <2>5. \A f \in Executors : /\ exec'[f].pc \in Active => exec[f].pc \in Active
                               /\ SameClaim(exec[f], exec'[f])
        BY <1>1, <2>1 DEF SameClaim
    <2>6. WorkIsOwned'
      <3> HIDE DEF j
      <3> SUFFICES ASSUME NEW f \in Executors, exec'[f].pc \in Active
                   PROVE  /\ row'[exec'[f].job].status \in Active
                          /\ row'[exec'[f].job].owner = Host[f]
                          /\ row'[exec'[f].job].generation = exec'[f].generation
          BY DEF WorkIsOwned
      <3>1. /\ exec[f].pc \in Active /\ exec'[f].job = exec[f].job
            /\ exec'[f].generation = exec[f].generation /\ exec[f].job \in Jobs
          BY <1>1, <2>5 DEF SameClaim
      <3>2. /\ row[exec[f].job].status \in Active
            /\ row[exec[f].job].owner = Host[f]
            /\ row[exec[f].job].generation = exec[f].generation
          BY <3>1 DEF CapacityInv, WorkIsOwned
      <3> QED BY <2>4, <3>1, <3>2
    <2> QED BY <1>1, <1>3, <2>2, <2>4, <2>6
  <1>8. ASSUME NEW e \in Executors, OutcomeStep(e) PROVE CapacityInv'
    <2> DEFINE j == exec[e].job
    <2>1. PICK q :
             /\ j \in Jobs /\ exec[e].pc \in Active \cup Failing
             /\ exec' = [exec EXCEPT ![e] = q]
             /\ \/ ~Running(q) /\ UNCHANGED row
                \/ \E v \in Outcomes :
                    /\ FenceHolds(e) /\ q.pc \in Settled
                    /\ Stamped(row[j], row'[j], v)
                    /\ \A k \in Jobs \ {j} : row'[k] = row[k]
        BY <1>8, OutcomeEffect
    <2>2. q.pc \notin Active /\ \A v \in Outcomes : v \notin Active
        BY <2>1 DEF Running, Settled, Active, Progress, Outcomes
    <2>3. UNCHANGED cancelling
        BY <1>8 DEF OutcomeStep, Succeed, RecordPermanent, RecordRetryable
    <2>4. \A f \in Executors : exec'[f].pc \in Active => f # e /\ exec'[f] = exec[f]
        BY <1>1, <2>1, <2>2
    <2>5. \A k \in Jobs : row'[k].status \in Active => row'[k] = row[k]
        BY <2>1, <2>2 DEF Stamped
    <2>6. ASSUME NEW f \in Executors, exec'[f].pc \in Active PROVE row'[exec[f].job] = row[exec[f].job]
      <3>1. f # e /\ exec[f].pc \in Active /\ exec[f].job \in Jobs
          BY <1>1, <2>4, <2>6
      <3>2. row[exec[f].job].generation = exec[f].generation
          BY <3>1 DEF CapacityInv, WorkIsOwned
      <3>3. Running(exec[f]) /\ Running(exec[e])
          BY <2>1, <3>1 DEF Running
      <3>4. FenceHolds(e) => exec[f].job # j
          BY <3>1, <3>2, <3>3 DEF FenceHolds, ClaimInv, OneRunPerClaim
      <3> QED BY <2>1, <3>1, <3>4
    <2>7. WorkIsOwned'
        BY <2>4, <2>6 DEF CapacityInv, WorkIsOwned
    <2> QED BY <1>1, <1>3, <2>3, <2>5, <2>7
  <1>9. ASSUME NEW e \in Executors, Claim(e) PROVE CapacityInv'
    <2> DEFINE j == exec[e].job
               w == Host[e]
    <2>1. PICK r \in Rows, q \in Processes :
             /\ j \in Jobs
             /\ row' = [row EXCEPT ![j] = r] /\ exec' = [exec EXCEPT ![e] = q]
             /\ r.status = "CLAIMED" /\ r.owner = w
             /\ q.job = j /\ q.generation = r.generation
        BY <1>9, ClaimedRow
    <2>2. /\ row[j].status \notin Active /\ UNCHANGED cancelling
          /\ Cardinality(OwnedActive(w)) < Capacity[w]
        BY <1>9 DEF Claim, Claimable, Runnable, Active, Progress, Admits
    <2>3. row'[j] = r /\ exec'[e] = q /\ r.status \in Active
        BY <1>1, <2>1 DEF Active
    <2>4. /\ \A k \in Jobs \ {j} : row'[k] = row[k]
          /\ \A f \in Executors \ {e} : exec'[f] = exec[f]
        BY <1>1, <2>1
    <2> HIDE DEF j, w
    <2>5. WorkIsOwned'
      <3>1. ASSUME NEW f \in Executors \ {e}, exec[f].pc \in Active PROVE exec[f].job # j
          BY <2>2, <3>1 DEF CapacityInv, WorkIsOwned
      <3>2. r.owner = Host[e] /\ q.job = j
          BY <2>1 DEF w
      <3> QED BY <1>1, <2>1, <2>3, <2>4, <3>1, <3>2 DEF CapacityInv, WorkIsOwned
    <2>6. \A k \in Jobs : row'[k].status \in Active => row'[k].owner # NoWorker
        BY <1>1, <2>1, <2>3, <2>4 DEF CapacityInv, w
    <2>7. ASSUME NEW v \in Workers
          PROVE  IsFiniteSet(OwnedActive(v)') /\ Cardinality(OwnedActive(v)') <= Capacity[v]
      <3>1. CASE v = w
        <4>1. OwnedActive(w)' = OwnedActive(w) \cup {j} /\ j \notin OwnedActive(w)
            BY <2>1, <2>2, <2>3, <2>4 DEF OwnedActive
        <4>2. IsFiniteSet(OwnedActive(w)) /\ Cardinality(OwnedActive(w)) \in Nat
            BY <3>1, FS_CardinalityType DEF CapacityInv
        <4>3. /\ IsFiniteSet(OwnedActive(w)')
              /\ Cardinality(OwnedActive(w)') = Cardinality(OwnedActive(w)) + 1
            BY <4>1, <4>2, FS_AddElement
        <4>4. Capacity[w] \in Nat
            BY <3>1, FunctionsAssumption
        <4> QED BY <2>2, <3>1, <4>2, <4>3, <4>4
      <3>2. CASE v # w
        <4>1. OwnedActive(v)' \subseteq OwnedActive(v)
            BY <2>1, <2>3, <2>4, <3>2 DEF OwnedActive
        <4> QED BY <4>1, CountShrinks
      <3> QED BY <3>1, <3>2
    <2> QED BY <1>1, <1>2, <2>2, <2>5, <2>6, <2>7 DEF CapacityInv
  <1> QED BY <1>4, <1>5, <1>6, <1>7, <1>8, <1>9, StepGroups

LEMMA CapacityInvHolds ==
    ASSUME LegacyExhausted = {}, Faults \cap {"lapse", "cancel"} = {}
    PROVE  Spec => []CapacityInv
PROOF
  <1>1. Init => BudgetInv
      BY BudgetInit
  <1>2. TypeInv /\ ClaimInv /\ BudgetInv /\ CapacityInv /\ [Next]_vars => CapacityInv'
      BY CapacityStep
  <1> QED BY <1>1, <1>2, TypeInit, TypeStep, ClaimInit, ClaimStep, BudgetStep,
             CapacityInit, PTL DEF Spec

\* A host never owns more active rows than its capacity, whatever is dispatched beyond
\* it, delivered twice, crashed or retried.
THEOREM CapacityHolds ==
    ASSUME LegacyExhausted = {}, Faults \cap {"lapse", "cancel"} = {}
    PROVE  Spec => []CapacityRespected
PROOF
  <1>1. CapacityInv => CapacityRespected
      BY DEF CapacityInv, CapacityRespected
  <1> QED BY <1>1, CapacityInvHolds, PTL

-----------------------------------------------------------------------------
(* The ledger of verdicts, and the refinement of ClaimFence.  An exception *)
(* after the SUCCEEDED write sends the process to the failure path, to     *)
(* look for a second verdict of its claim: the fence refuses it as long as *)
(* nothing makes the row active again, which is what WorkIsOwned says.     *)

\* A process whose claim has its verdict is past its outcome or, where an exception
\* can bring it back, fenced out.
SpentIsFenced ==
    \A e \in Executors :
        Running(exec[e]) /\ verdict[exec[e].job][exec[e].generation] # "none" =>
            IF "late" \in Faults THEN ~FenceHolds(e) ELSE exec[e].pc \in Settled

FutureIsUnsettled ==
    \A j \in Jobs, g \in Generations :
        g > row[j].generation => verdict[j][g] = "none"

SuccessIsRecorded ==
    \A j \in Jobs :
        row[j].status = "SUCCEEDED" => \E g \in Generations : verdict[j][g] = "SUCCEEDED"

LedgerInv ==
    SpentIsFenced /\ FutureIsUnsettled /\ SuccessIsRecorded /\ StageFollowsSuccess

LEMMA LedgerInit == Init => LedgerInv
PROOF
  <1> SUFFICES ASSUME Init PROVE LedgerInv
      OBVIOUS
  <1>1. SpentIsFenced
      BY DEF Init, SpentIsFenced, Running, Process, Active, Progress, Failing, Settled
  <1>2. FutureIsUnsettled
      BY DEF Init, FutureIsUnsettled
  <1>3. SuccessIsRecorded
      BY DEF Init, SuccessIsRecorded, Row
  <1>4. StageFollowsSuccess
      BY DEF Init, StageFollowsSuccess, Row
  <1> QED BY <1>1, <1>2, <1>3, <1>4 DEF LedgerInv

\* A verdict lands on a claim that has none, and on the current generation.
LEMMA VerdictLands ==
    ASSUME TypeInv, ClaimInv, LedgerInv, NEW e \in Executors, OutcomeStep(e),
           ~UNCHANGED <<row, verdict>>
    PROVE  \E v \in Outcomes :
              LET j == exec[e].job
                  g == exec[e].generation
              IN  /\ j \in Jobs /\ g \in Generations /\ row[j].generation = g
                  /\ HoldsClaim(e) /\ exec'[e].pc \in Settled
                  /\ \A f \in Executors \ {e} : exec'[f] = exec[f]
                  /\ verdict[j][g] = "none"
                  /\ verdict' = [verdict EXCEPT ![j][g] = v]
                  /\ Stamped(row[j], row'[j], v)
                  /\ \A k \in Jobs \ {j} : row'[k] = row[k]
PROOF
  <1> DEFINE j == exec[e].job
             g == exec[e].generation
  <1>1. j \in Jobs /\ HoldsClaim(e) /\ exec \in [Executors -> Processes]
      BY OutcomeEffect DEF HoldsClaim, TypeInv, TypeOK
  <1>2. PICK v \in Outcomes :
           /\ FenceHolds(e)
           /\ \E q : exec' = [exec EXCEPT ![e] = q] /\ q.pc \in Settled
           /\ Stamped(row[j], row'[j], v)
           /\ \A k \in Jobs \ {j} : row'[k] = row[k]
           /\ verdict' = [verdict EXCEPT ![j][g] = v]
      BY OutcomeEffect
  <1>3. row[j].generation = g
      BY <1>2 DEF FenceHolds
  <1>4. g \in Generations
    <2>1. g > 0
        BY <1>1 DEF ClaimInv, RunsBelowRow, HoldsClaim, Running
    <2>2. g \in 0..MaxGeneration
        BY <1>1 DEF Processes
    <2> QED BY <2>1, <2>2, BoundsAssumption DEF Generations
  <1>5. exec'[e].pc \in Settled /\ \A f \in Executors \ {e} : exec'[f] = exec[f]
      BY <1>1, <1>2
  <1>6. exec[e].pc \notin Settled
      BY <1>1 DEF HoldsClaim, Settled, Active, Progress, Failing
  <1>7. verdict[j][g] = "none"
      BY <1>1, <1>2, <1>6 DEF LedgerInv, SpentIsFenced, HoldsClaim, Running
  <1> QED BY <1>1, <1>2, <1>3, <1>4, <1>5, <1>7

\* A fence that refuses a process keeps refusing it: only a claim, which opens a new
\* generation, makes a row active that was not.
LEMMA FenceStaysLost ==
    ASSUME TypeInv, ClaimInv, NEW f \in Executors, Running(exec[f]), ~FenceHolds(f),
           SameClaim(exec[f], exec'[f]),
           LET j == exec[f].job
           IN  \/ row'[j].status \notin Active
               \/ row'[j].generation > row[j].generation
               \/ /\ row[j].status \in Active
                  /\ row'[j].generation = row[j].generation
                  /\ row'[j].owner = row[j].owner
    PROVE  ~FenceHolds(f)'
PROOF
  <1> DEFINE j == exec[f].job
  <1>1. j \in Jobs
      BY DEF TypeInv, BusyHasJob, Running, Waiting, Active, Progress, Failing, Settled
  <1>2. row[j].generation \in Nat /\ exec[f].generation \in Nat
      BY <1>1, BoundsAssumption DEF TypeInv, TypeOK, Rows, Processes
  <1>3. exec[f].generation <= row[j].generation
      BY DEF ClaimInv, RunsBelowRow
  <1>4. CASE row'[j].generation > row[j].generation
      BY <1>2, <1>3, <1>4 DEF FenceHolds, SameClaim
  <1>5. CASE row'[j].status \notin Active
      BY <1>5 DEF FenceHolds, SameClaim
  <1>6. CASE /\ row[j].status \in Active
             /\ row'[j].generation = row[j].generation
             /\ row'[j].owner = row[j].owner
      BY <1>6 DEF FenceHolds, SameClaim
  <1> QED BY <1>4, <1>5, <1>6

LEMMA SpentStep ==
    ASSUME "late" \notin Faults \/ WorkIsOwned, TypeInv, ClaimInv, LedgerInv, [Next]_vars
    PROVE  SpentIsFenced'
PROOF
  <1> DEFINE Spent(e) == verdict[exec[e].job][exec[e].generation] # "none"
             Fenced(e) == IF "late" \in Faults THEN ~FenceHolds(e)
                          ELSE exec[e].pc \in Settled
             Kept(j) == \/ row'[j].status \notin Active
                        \/ row'[j].generation > row[j].generation
                        \/ /\ row[j].status \in Active
                           /\ row'[j].generation = row[j].generation
                           /\ row'[j].owner = row[j].owner
  <1>1. /\ exec \in [Executors -> Processes]
        /\ verdict \in [Jobs -> [Generations -> Outcomes \cup {"none"}]]
        /\ row \in [Jobs -> Rows]
      BY DEF TypeInv, TypeOK
  <1>2. \A e \in Executors : Running(exec[e]) => exec[e].job \in Jobs
      BY DEF TypeInv, BusyHasJob, Running, Waiting, Active, Progress, Failing, Settled
  <1>3. \A e \in Executors : Running(exec[e]) /\ Spent(e) => Fenced(e)
      BY DEF LedgerInv, SpentIsFenced
  <1>4. SUFFICES ASSUME NEW f \in Executors, Running(exec[f])', Spent(f)'
                 PROVE  Fenced(f)'
      BY DEF SpentIsFenced
  \* A process that does not move, on a claim that was spent before the step.
  <1>5. ASSUME Running(exec[f]), Spent(f), exec'[f] = exec[f], Kept(exec[f].job)
        PROVE  Fenced(f)'
    <2>1. CASE "late" \in Faults
      <3>1. ~FenceHolds(f) /\ SameClaim(exec[f], exec'[f])
          BY <1>3, <1>5, <2>1 DEF SameClaim
      <3> QED BY <1>5, <2>1, <3>1, FenceStaysLost
    <2>2. CASE "late" \notin Faults
        BY <1>3, <1>5, <2>2
    <2> QED BY <2>1, <2>2
  <1>6. CASE QuietStep \/ UNCHANGED vars
    <2>1. UNCHANGED <<exec, verdict, row>>
        BY <1>6 DEF QuietStep, vars, DispatchRound, MarkOffline, ScanDispatch, WorkerStep,
           Heartbeat, Lapse, Pause, Drain, Resume, SetWorkerStatus, Redeliver, CancelRead
    <2> QED BY <1>4, <1>5, <2>1
  <1>7. CASE TableStep
    <2>1. UNCHANGED <<exec, verdict>> /\ \A j \in Jobs : TableRow(j)
        BY <1>7, TableEffect
    <2>2. \A j \in Jobs : Kept(j)
        BY <2>1 DEF TableRow, Row, Aged, Stamped, Requeued, Retried, Active, Progress
    <2> QED BY <1>2, <1>4, <1>5, <2>1, <2>2
  <1>8. ASSUME NEW e \in Executors, LocalStep(e) PROVE Fenced(f)'
    <2>1. UNCHANGED <<verdict, row>>
        BY <1>8, LocalEffect
    <2>2. PICK q : /\ exec' = [exec EXCEPT ![e] = q]
                   /\ \/ ~Running(q)
                      \/ /\ SameClaim(exec[e], q) /\ Running(exec[e])
                         /\ exec[e].pc \in Active \cup Failing \/ "late" \in Faults
        BY <1>8, LocalEffect
    <2>3. CASE f # e
        BY <1>1, <1>4, <1>5, <2>1, <2>2, <2>3
    <2>4. CASE f = e
      <3>1. exec'[f] = q
          BY <1>1, <2>2, <2>4
      <3>2. SameClaim(exec[f], q) /\ Running(exec[f]) /\ Spent(f)
          BY <1>4, <2>1, <2>2, <2>4, <3>1 DEF SameClaim
      <3>3. Active \cup Failing \subseteq Pcs \ Settled
          BY DEF Pcs, Active, Progress, Failing, Settled
      <3>4. "late" \in Faults /\ ~FenceHolds(f)
          BY <1>3, <2>2, <2>4, <3>1, <3>2, <3>3, <1>4
      <3> QED BY <2>1, <3>1, <3>2, <3>4, FenceStaysLost
    <2> QED BY <2>3, <2>4
  <1>9. ASSUME NEW e \in Executors, ProgressStep(e) PROVE Fenced(f)'
    <2> DEFINE j == exec[e].job
    <2>1. PICK q \in Processes, to \in Progress :
             /\ j \in Jobs /\ exec[e].pc \in Active
             /\ exec' = [exec EXCEPT ![e] = q]
             /\ SameClaim(exec[e], q)
             /\ Stamped(row[j], row'[j], to)
             /\ \A k \in Jobs \ {j} : row'[k] = row[k]
             /\ UNCHANGED verdict
        BY <1>9, ProgressEffect
    \* The process that writes is at work: its claim has no verdict yet.
    <2>2. Running(exec[e]) /\ ~Spent(e)
      <3>1. exec[e].pc \notin Settled /\ Running(exec[e])
          BY <2>1 DEF Running, Active, Progress, Settled
      <3>2. WorkIsOwned => FenceHolds(e)
          BY <2>1 DEF WorkIsOwned, FenceHolds
      <3> QED BY <1>3, <3>1, <3>2
    <2>3. f # e
        BY <1>1, <1>4, <2>1, <2>2 DEF SameClaim
    <2>4. exec'[f] = exec[f] /\ Running(exec[f]) /\ Spent(f)
        BY <1>1, <1>4, <2>1, <2>3
    <2>5. CASE WorkIsOwned
      <3>1. \A k \in Jobs : Kept(k)
          BY <2>1, <2>5 DEF Stamped, WorkIsOwned
      <3> QED BY <1>2, <1>5, <2>4, <3>1
    <2>6. CASE "late" \notin Faults
        BY <1>3, <2>4, <2>6
    <2> QED BY <2>5, <2>6
  <1>10. ASSUME NEW e \in Executors, OutcomeStep(e), ~UNCHANGED <<row, verdict>>
         PROVE  Fenced(f)'
    <2> DEFINE j == exec[e].job
               g == exec[e].generation
    <2>1. PICK v \in Outcomes :
             /\ j \in Jobs /\ g \in Generations
             /\ HoldsClaim(e) /\ exec'[e].pc \in Settled
             /\ \A i \in Executors \ {e} : exec'[i] = exec[i]
             /\ verdict' = [verdict EXCEPT ![j][g] = v]
             /\ Stamped(row[j], row'[j], v)
             /\ \A k \in Jobs \ {j} : row'[k] = row[k]
        BY <1>10, VerdictLands
    <2>2. row'[j].status \notin Active
        BY <2>1 DEF Stamped, Outcomes, Active, Progress
    <2>3. \A k \in Jobs : Kept(k)
        BY <2>1, <2>2
    <2>4. CASE f # e
      <3>1. exec'[f] = exec[f] /\ Running(exec[f])
          BY <1>4, <2>1, <2>4
      <3>2. exec[f].job = j => exec[f].generation # g
          BY <2>1, <2>4, <3>1 DEF ClaimInv, OneRunPerClaim, HoldsClaim, Running
      <3>3. Spent(f)
          BY <1>1, <1>2, <1>4, <2>1, <3>1, <3>2
      <3> QED BY <1>2, <1>5, <2>3, <3>1, <3>3
    <2>5. CASE f = e
      <3>1. exec'[f].job = j
        <4>1. \E q : exec' = [exec EXCEPT ![e] = q] /\ (~Running(q) \/ SameClaim(exec[e], q))
            BY <1>10, OutcomeEffect
        <4> QED BY <1>1, <1>4, <2>5, <4>1 DEF SameClaim
      <3> QED BY <2>1, <2>2, <2>5, <3>1 DEF FenceHolds
    <2> QED BY <2>4, <2>5
  <1>11. ASSUME NEW e \in Executors, OutcomeStep(e), UNCHANGED <<row, verdict>>
         PROVE  Fenced(f)'
    <2>1. PICK q : /\ exec' = [exec EXCEPT ![e] = q]
                   /\ \/ ~Running(q)
                      \/ FenceHolds(e) /\ SameClaim(exec[e], q) /\ q.pc \in Settled
        BY <1>11, OutcomeEffect
    <2>2. Running(exec[e])
        BY <1>11, OutcomeEffect DEF Running
    <2>3. CASE f # e
        BY <1>1, <1>4, <1>5, <1>11, <2>1, <2>3
    <2>4. CASE f = e
      <3>1. exec'[f] = q
          BY <1>1, <2>1, <2>4
      <3>2. FenceHolds(f) /\ SameClaim(exec[f], q) /\ q.pc \in Settled
          BY <1>4, <2>1, <2>4, <3>1
      <3>3. Spent(f)
          BY <1>4, <1>11, <3>1, <3>2 DEF SameClaim
      <3> QED BY <1>3, <2>2, <2>4, <3>1, <3>2, <3>3
    <2> QED BY <2>3, <2>4
  <1>12. ASSUME NEW e \in Executors, Claim(e) PROVE Fenced(f)'
    <2> DEFINE j == exec[e].job
    <2>1. PICK r \in Rows, q \in Processes :
             /\ j \in Jobs /\ exec' = [exec EXCEPT ![e] = q]
             /\ row' = [row EXCEPT ![j] = r]
             /\ r.generation = row[j].generation + 1
             /\ r.generation > 0 /\ r.generation < MaxGeneration
             /\ q.job = j /\ q.generation = r.generation
        BY <1>12, ClaimedRow
    <2>2. row[j].generation \in Nat /\ UNCHANGED verdict
        BY <1>1, <1>12, <2>1, BoundsAssumption DEF Claim, Rows
    <2>3. q.generation \in Generations /\ q.generation > row[j].generation
        BY <2>1, <2>2, BoundsAssumption DEF Generations, Rows
    <2>4. f # e
        BY <1>1, <1>4, <2>1, <2>2, <2>3 DEF LedgerInv, FutureIsUnsettled
    <2>5. \A k \in Jobs : Kept(k)
        BY <1>1, <2>1, <2>2
    <2>6. exec'[f] = exec[f]
        BY <1>1, <2>1, <2>4
    <2> QED BY <1>2, <1>4, <1>5, <2>2, <2>5, <2>6
  <1> QED BY <1>6, <1>7, <1>8, <1>9, <1>10, <1>11, <1>12, StepGroups

\* Seen from the jobs table alone, a step does one of four things to a row and its
\* verdicts.
LEMMA RowStep ==
    ASSUME TypeInv, ClaimInv, LedgerInv, [Next]_vars, NEW j \in Jobs
    PROVE  \/ /\ verdict'[j] = verdict[j]
              /\ row'[j].generation = row[j].generation
              /\ row'[j].status = "SUCCEEDED" => row[j].status = "SUCCEEDED"
           \/ /\ verdict'[j] = verdict[j]
              /\ row'[j].generation = row[j].generation + 1
              /\ row'[j].status \in {"QUEUED", "CLAIMED"}
              /\ row[j].generation > 0 \/ DependencySatisfied(j)
           \/ /\ row'[j].generation = row[j].generation
              /\ row[j].generation \in Generations
              /\ verdict[j][row[j].generation] = "none"
              /\ \E v \in Outcomes :
                    /\ verdict'[j] = [verdict[j] EXCEPT ![row[j].generation] = v]
                    /\ row'[j].status = v
PROOF
  <1> DEFINE Still == /\ verdict'[j] = verdict[j]
                      /\ row'[j].generation = row[j].generation
                      /\ row'[j].status = "SUCCEEDED" => row[j].status = "SUCCEEDED"
             Advances == /\ verdict'[j] = verdict[j]
                         /\ row'[j].generation = row[j].generation + 1
                         /\ row'[j].status \in {"QUEUED", "CLAIMED"}
                         /\ row[j].generation > 0 \/ DependencySatisfied(j)
             Ends == /\ row'[j].generation = row[j].generation
                     /\ row[j].generation \in Generations
                     /\ verdict[j][row[j].generation] = "none"
                     /\ \E v \in Outcomes :
                           /\ verdict'[j] = [verdict[j] EXCEPT ![row[j].generation] = v]
                           /\ row'[j].status = v
  <1>1. /\ row \in [Jobs -> Rows]
        /\ verdict \in [Jobs -> [Generations -> Outcomes \cup {"none"}]]
      BY DEF TypeInv, TypeOK
  <1>2. CASE QuietStep \/ UNCHANGED vars
    <2>1. UNCHANGED <<row, verdict>>
        BY <1>2 DEF QuietStep, vars, DispatchRound, MarkOffline, ScanDispatch, WorkerStep,
           Heartbeat, Lapse, Pause, Drain, Resume, SetWorkerStatus, Redeliver, CancelRead
    <2> QED BY <2>1
  <1>3. CASE TableStep
    <2>1. TableRow(j) /\ UNCHANGED verdict
        BY <1>3, TableEffect
    <2>2. /\ row[j].status = "ABSENT" => row[j].generation = 0
          /\ row[j].claimedAt # "null" => row[j].generation > 0
        BY DEF ClaimInv, RunsBelowRow, TypeInv, ClaimedBelowBound
    <2> QED BY <2>1, <2>2 DEF TableRow, Aged, Stamped, Requeued, Retried, Row
  <1>4. ASSUME NEW e \in Executors, LocalStep(e) PROVE Still
      BY <1>4, LocalEffect
  <1>5. ASSUME NEW e \in Executors, ProgressStep(e) PROVE Still
    <2>1. PICK to \in Progress :
             /\ Stamped(row[exec[e].job], row'[exec[e].job], to)
             /\ \A k \in Jobs \ {exec[e].job} : row'[k] = row[k]
             /\ UNCHANGED verdict
        BY <1>5, ProgressEffect
    <2> QED BY <2>1 DEF Stamped, Progress
  <1>6. ASSUME NEW e \in Executors, OutcomeStep(e) PROVE Still \/ Ends
    <2>1. CASE UNCHANGED <<row, verdict>>
        BY <2>1
    <2>2. CASE ~UNCHANGED <<row, verdict>>
      <3> DEFINE k == exec[e].job
                 g == exec[e].generation
      <3>1. PICK v \in Outcomes :
               /\ k \in Jobs /\ g \in Generations /\ row[k].generation = g
               /\ verdict[k][g] = "none"
               /\ verdict' = [verdict EXCEPT ![k][g] = v]
               /\ Stamped(row[k], row'[k], v)
               /\ \A i \in Jobs \ {k} : row'[i] = row[i]
          BY <1>6, <2>2, VerdictLands
      <3>2. CASE j = k
        <4>1. verdict'[j] = [verdict[j] EXCEPT ![g] = v]
            BY <1>1, <3>1, <3>2
        <4> QED BY <3>1, <3>2, <4>1 DEF Stamped
      <3>3. CASE j # k
          BY <1>1, <3>1, <3>3
      <3> QED BY <3>2, <3>3
    <2> QED BY <2>1, <2>2
  <1>7. ASSUME NEW e \in Executors, Claim(e) PROVE Still \/ Advances
    <2>1. PICK r \in Rows :
             /\ row' = [row EXCEPT ![exec[e].job] = r]
             /\ r.status = "CLAIMED"
             /\ r.generation = row[exec[e].job].generation + 1
        BY <1>7, ClaimedRow
    <2>2. DependencySatisfied(exec[e].job) /\ UNCHANGED verdict
        BY <1>7 DEF Claim, Claimable
    <2> QED BY <1>1, <2>1, <2>2
  <1> HIDE DEF Still, Advances, Ends
  <1> QED BY <1>2, <1>3, <1>4, <1>5, <1>6, <1>7, StepGroups DEF Still, Advances, Ends

LEMMA LedgerStep ==
    ASSUME "late" \notin Faults \/ WorkIsOwned, TypeInv, ClaimInv, LedgerInv, [Next]_vars
    PROVE  LedgerInv'
PROOF
  <1>1. /\ \A j \in Jobs : row[j].generation \in Nat
        /\ verdict \in [Jobs -> [Generations -> Outcomes \cup {"none"}]]
        /\ Generations \subseteq Nat
      BY BoundsAssumption DEF TypeInv, TypeOK, Rows, Generations
  <1>2. FutureIsUnsettled /\ SuccessIsRecorded /\ StageFollowsSuccess
      BY DEF LedgerInv
  <1>3. SpentIsFenced'
      BY SpentStep
  <1>4. FutureIsUnsettled'
    <2> SUFFICES ASSUME NEW j \in Jobs, NEW g \in Generations, g > row'[j].generation
                 PROVE  verdict'[j][g] = "none"
        BY DEF FutureIsUnsettled, Generations
    <2>1. g \in Nat /\ row[j].generation \in Nat
        BY <1>1
    <2>2. CASE verdict'[j] = verdict[j] /\ row'[j].generation >= row[j].generation
      <3>1. g > row[j].generation
          BY <2>1, <2>2, RowStep
      <3> QED BY <1>2, <2>2, <3>1 DEF FutureIsUnsettled
    <2>3. CASE \E v \in Outcomes :
                  verdict'[j] = [verdict[j] EXCEPT ![row[j].generation] = v]
      <3>1. row'[j].generation >= row[j].generation
          BY <2>1, RowStep
      <3>2. g > row[j].generation
          BY <2>1, <3>1, RowStep
      <3>3. verdict'[j][g] = verdict[j][g]
          BY <1>1, <2>1, <2>3, <3>2
      <3> QED BY <1>2, <3>2, <3>3 DEF FutureIsUnsettled
    <2>4. row'[j].generation \in {row[j].generation, row[j].generation + 1}
        BY RowStep
    <2>5. row'[j].generation >= row[j].generation
        BY <2>1, <2>4
    <2> QED BY <2>2, <2>3, <2>5, RowStep
  \* A recorded success is never erased.
  <1>5. \A j \in Jobs, g \in Generations :
           verdict[j][g] = "SUCCEEDED" => verdict'[j][g] = "SUCCEEDED"
    <2> SUFFICES ASSUME NEW j \in Jobs, NEW g \in Generations, verdict[j][g] = "SUCCEEDED"
                 PROVE  verdict'[j][g] = "SUCCEEDED"
        OBVIOUS
    <2> QED BY <1>1, RowStep
  <1>6. SuccessIsRecorded'
    <2> SUFFICES ASSUME NEW j \in Jobs, row'[j].status = "SUCCEEDED"
                 PROVE  \E g \in Generations : verdict'[j][g] = "SUCCEEDED"
        BY DEF SuccessIsRecorded, Generations
    <2>1. CASE row[j].status = "SUCCEEDED"
        BY <1>2, <1>5, <2>1 DEF SuccessIsRecorded
    <2>2. CASE row[j].status # "SUCCEEDED"
      <3> DEFINE g == row[j].generation
      <3>1. g \in Generations /\ verdict'[j] = [verdict[j] EXCEPT ![g] = "SUCCEEDED"]
          BY <2>2, RowStep
      <3>2. verdict'[j][g] = "SUCCEEDED"
          BY <1>1, <3>1
      <3> QED BY <3>1, <3>2
    <2> QED BY <2>1, <2>2
  <1>7. StageFollowsSuccess'
    <2> SUFFICES ASSUME NEW j \in Jobs, row'[j].generation > 0, DependsOn[j] # NoJob
                 PROVE  \E g \in Generations : verdict'[DependsOn[j]][g] = "SUCCEEDED"
        BY DEF StageFollowsSuccess, Generations
    <2>1. DependsOn[j] \in Jobs
        BY FunctionsAssumption
    <2>2. CASE row[j].generation > 0
        BY <1>2, <1>5, <2>1, <2>2 DEF StageFollowsSuccess
    <2>3. CASE ~(row[j].generation > 0)
      <3>1. DependencySatisfied(j)
          BY <1>1, <2>3, RowStep DEF Generations
      <3>2. \E g \in Generations : verdict[DependsOn[j]][g] = "SUCCEEDED"
          BY <1>2, <2>1, <3>1 DEF DependencySatisfied, SuccessIsRecorded
      <3> QED BY <1>5, <2>1, <3>2
    <2> QED BY <2>2, <2>3
  <1> QED BY <1>3, <1>4, <1>6, <1>7 DEF LedgerInv

LedgerAssumption ==
    \/ "late" \notin Faults
    \/ LegacyExhausted = {} /\ Faults \cap {"lapse", "cancel"} = {}

LEMMA LedgerHolds ==
    ASSUME LedgerAssumption PROVE Spec => [](TypeInv /\ ClaimInv /\ LedgerInv)
PROOF
  <1> DEFINE Unrevived == "late" \notin Faults \/ WorkIsOwned
  <1>1. Spec => []Unrevived
    <2>1. CASE "late" \notin Faults
      <3>1. Unrevived
          BY <2>1
      <3> QED BY <3>1, PTL
    <2>2. CASE LegacyExhausted = {} /\ Faults \cap {"lapse", "cancel"} = {}
      <3>1. CapacityInv => Unrevived
          BY DEF CapacityInv
      <3> QED BY <2>2, <3>1, CapacityInvHolds, PTL
    <2> QED BY <2>1, <2>2 DEF LedgerAssumption
  <1>2. Unrevived /\ TypeInv /\ ClaimInv /\ LedgerInv /\ [Next]_vars => LedgerInv'
      BY LedgerStep
  <1> QED BY <1>1, <1>2, TypeInit, TypeStep, ClaimInit, ClaimStep, LedgerInit, PTL DEF Spec

\* A stage never starts, under any claim, before the stage it depends on has
\* recorded SUCCEEDED under a claim of its own; and no later failure, cancel or retry
\* takes that record away.
THEOREM StagesFollowSuccess ==
    ASSUME LedgerAssumption PROVE Spec => []StageFollowsSuccess
PROOF
  <1>1. LedgerInv => StageFollowsSuccess
      BY DEF LedgerInv
  <1> QED BY <1>1, LedgerHolds, PTL

-----------------------------------------------------------------------------
(* JobRuntime implements ClaimFence.                                       *)

GenerationOf == [j \in Jobs |-> row[j].generation]

LEMMA FenceInit == Init => Fence!Init
PROOF
  BY DEF Init, Fence!Init, Row

LEMMA FenceStep ==
    ASSUME TypeInv, ClaimInv, LedgerInv, [Next]_vars
    PROVE  [Fence!Next]_(Fence!fenceVars)
PROOF
  <1>1. /\ row \in [Jobs -> Rows]
        /\ verdict \in [Jobs -> [Generations -> Outcomes \cup {"none"}]]
        /\ \A j \in Jobs : row[j].generation \in Nat
      BY BoundsAssumption DEF TypeInv, TypeOK, Rows
  \* Outside the terminal writes only the generations move, each by one at most.
  <1>2. ASSUME UNCHANGED verdict,
               \A j \in Jobs : \/ row'[j].generation = row[j].generation
                               \/ row'[j].generation = row[j].generation + 1
        PROVE  Fence!Next
    <2>1. PICK S \in SUBSET Jobs :
             S = {j \in Jobs : row'[j].generation = row[j].generation + 1}
        OBVIOUS
    <2>2. GenerationOf' = [j \in Jobs |-> IF j \in S THEN GenerationOf[j] + 1
                                          ELSE GenerationOf[j]]
        BY <1>1, <1>2, <2>1 DEF GenerationOf
    <2>3. Fence!Advance(S)
        BY <1>2, <2>2 DEF Fence!Advance, GenerationOf
    <2> QED BY <2>1, <2>3 DEF Fence!Next
  <1>3. ASSUME UNCHANGED verdict PROVE Fence!Next
    <2>1. \A j \in Jobs : \/ row'[j].generation = row[j].generation
                          \/ row'[j].generation = row[j].generation + 1
        BY RowStep
    <2> QED BY <1>2, <1>3, <2>1
  <1>4. ASSUME NEW e \in Executors, OutcomeStep(e), ~UNCHANGED verdict PROVE Fence!Next
    <2> DEFINE j == exec[e].job
               g == exec[e].generation
    <2>1. PICK v \in Outcomes :
             /\ j \in Jobs /\ g \in Generations /\ row[j].generation = g
             /\ verdict[j][g] = "none"
             /\ verdict' = [verdict EXCEPT ![j][g] = v]
             /\ Stamped(row[j], row'[j], v)
             /\ \A k \in Jobs \ {j} : row'[k] = row[k]
        BY <1>4, VerdictLands
    <2>2. \A k \in Jobs : row'[k].generation = row[k].generation
        BY <2>1 DEF Stamped
    <2>3. GenerationOf' = GenerationOf /\ GenerationOf[j] = g
        BY <2>1, <2>2 DEF GenerationOf
    <2>4. Fence!Settle(j, v)
        BY <2>1, <2>3 DEF Fence!Settle, GenerationOf
    <2> QED BY <2>1, <2>4 DEF Fence!Next
  <1>5. UNCHANGED verdict \/ \E e \in Executors : OutcomeStep(e)
    <2>1. QuietStep => UNCHANGED verdict
        BY DEF QuietStep, DispatchRound, MarkOffline, ScanDispatch, WorkerStep,
           Heartbeat, Lapse, Pause, Drain, Resume, SetWorkerStatus, Redeliver, CancelRead
    <2>2. TableStep => UNCHANGED verdict
        BY TableEffect
    <2>3. \A e \in Executors : LocalStep(e) => UNCHANGED verdict
        BY LocalEffect
    <2>4. \A e \in Executors : ProgressStep(e) => UNCHANGED verdict
        BY ProgressEffect
    <2>5. \A e \in Executors : Claim(e) => UNCHANGED verdict
        BY DEF Claim
    <2>6. UNCHANGED vars => UNCHANGED verdict
        BY DEF vars
    <2> QED BY <2>1, <2>2, <2>3, <2>4, <2>5, <2>6, StepGroups
  <1> QED BY <1>3, <1>4, <1>5

\* The runtime implements the claim fence: a verdict is recorded only for the claim
\* the row is in, once, and never by a process whose claim was superseded.
THEOREM ImplementsFence == ASSUME LedgerAssumption PROVE Spec => FenceSpec
PROOF
  <1>1. TypeInv /\ ClaimInv /\ LedgerInv /\ [Next]_vars
            => [Fence!Next]_(Fence!fenceVars)
      BY FenceStep
  <1> QED BY <1>1, LedgerHolds, FenceInit, PTL DEF Spec, FenceSpec, Fence!Spec

-----------------------------------------------------------------------------
(* When what the repository says is so.  The last section of JobRuntime    *)
(* has formulas the code breaks in some runs; each of them holds without   *)
(* the faults that break it.                                               *)

\* Stale workers cannot overwrite a newer generation - as long as no claim is taken from
\* a process that is alive: hosts are never late while a process of theirs lives, and
\* nobody cancels.
THEOREM StaleWritersAreHarmless ==
    ASSUME LegacyExhausted = {}, Faults \cap {"lapse", "cancel"} = {}
    PROVE  Spec => StaleNeverOverwrites
PROOF
  <1> DEFINE Harmless ==
        \A e \in Executors :
            HoldsClaim(e) /\ exec[e].generation < row[exec[e].job].generation
                /\ exec'[e] # exec[e]
                => row'[exec[e].job] = row[exec[e].job]
  <1>1. ASSUME TypeInv, CapacityInv, Next PROVE Harmless
    <2> SUFFICES ASSUME NEW e \in Executors, HoldsClaim(e), exec'[e] # exec[e],
                        exec[e].generation < row[exec[e].job].generation
                 PROVE  row'[exec[e].job] = row[exec[e].job]
        OBVIOUS
    <2>1. exec \in [Executors -> Processes] /\ exec[e].job \in Jobs
        BY <1>1 DEF TypeInv, TypeOK, BusyHasJob, HoldsClaim, Waiting, Active, Progress,
           Failing
    <2>2. row[exec[e].job].generation \in Nat /\ exec[e].generation \in Nat
        BY <1>1, <2>1, BoundsAssumption DEF TypeInv, TypeOK, Rows, Processes
    <2>3. ~FenceHolds(e)
        BY <2>2 DEF FenceHolds
    <2>4. exec[e].pc \notin Active
        BY <1>1, <2>2 DEF CapacityInv, WorkIsOwned
    <2>5. exec[e].pc # "begun"
        BY DEF HoldsClaim, Active, Progress, Failing
    <2>6. ASSUME NEW f \in Executors, \E q : exec' = [exec EXCEPT ![f] = q] PROVE f = e
        BY <1>1, <2>1, <2>6
    <2>7. CASE QuietStep \/ TableStep
      <3>1. UNCHANGED exec
          BY <1>1, <2>7, TableEffect DEF QuietStep, DispatchRound, MarkOffline, ScanDispatch,
             WorkerStep, Heartbeat, Lapse, Pause, Drain, Resume, SetWorkerStatus, Redeliver,
             CancelRead
      <3> QED BY <3>1
    <2>8. ASSUME NEW f \in Executors, LocalStep(f) PROVE UNCHANGED row
        BY <1>1, <2>8, LocalEffect
    <2>9. ASSUME NEW f \in Executors, ProgressStep(f) PROVE FALSE
        BY <1>1, <2>4, <2>6, <2>9, ProgressEffect
    <2>10. ASSUME NEW f \in Executors, OutcomeStep(f) PROVE UNCHANGED row
        BY <1>1, <2>3, <2>6, <2>10, OutcomeEffect
    <2>11. ASSUME NEW f \in Executors, Claim(f) PROVE FALSE
      <3>1. f = e
          BY <1>1, <2>6, <2>11, ClaimedRow
      <3> QED BY <2>5, <2>11, <3>1 DEF Claim
    <2>12. UNCHANGED vars => FALSE
        BY DEF vars
    <2> QED BY <1>1, <2>7, <2>8, <2>9, <2>10, <2>11, <2>12, StepGroups
  <1>2. TypeInv /\ CapacityInv /\ [Next]_vars => [Harmless]_vars
      BY <1>1
  <1>3. Spec => []TypeInv
      BY TypeInit, TypeStep, PTL DEF Spec
  <1> QED BY <1>2, <1>3, CapacityInvHolds, PTL DEF Spec, StaleNeverOverwrites

\* A run that ends while it still owns the claim has recorded how it ended - unless an
\* exception escaped from it.
THEOREM RunsEndRecorded == ASSUME "escape" \notin Faults PROVE Spec => RunEndsRecorded
PROOF
  <1> DEFINE Recorded ==
        \A e \in Executors :
            HoldsClaim(e) /\ FenceHolds(e) /\ exec'[e].pc = "idle"
                => row'[exec[e].job].status \notin Active
  <1>1. ASSUME TypeInv, [Next]_vars PROVE Recorded
    <2> SUFFICES ASSUME NEW e \in Executors, HoldsClaim(e), FenceHolds(e),
                        exec'[e].pc = "idle"
                 PROVE  FALSE
        OBVIOUS
    <2>1. exec \in [Executors -> Processes]
        BY <1>1 DEF TypeInv, TypeOK
    <2>2. exec[e].pc \in Active \cup Failing /\ exec[e].pc # "idle" /\ exec[e].pc # "down"
        BY DEF HoldsClaim, Active, Progress, Failing
    <2>3. CASE QuietStep \/ TableStep \/ UNCHANGED vars
      <3>1. UNCHANGED exec
          BY <1>1, <2>3, TableEffect DEF QuietStep, vars, DispatchRound, MarkOffline,
             ScanDispatch, WorkerStep, Heartbeat, Lapse, Pause, Drain, Resume,
             SetWorkerStatus, Redeliver, CancelRead
      <3> QED BY <2>2, <3>1
    <2>4. ASSUME NEW f \in Executors, LocalStep(f) PROVE FALSE
      <3>1. f = e
        <4>1. \E q : exec' = [exec EXCEPT ![f] = q]
            BY <1>1, <2>4, LocalEffect
        <4> QED BY <2>1, <2>2, <4>1
      <3>2. ~(ClaimRefused(e) \/ Escape(e) \/ Finish(e) \/ ReportError(e) \/ Restart(e)
              \/ \E j \in Jobs : BeginRun(e, j))
          BY <2>2 DEF ClaimRefused, Escape, Finish, ReportError, Restart, BeginRun, Active,
             Progress, Failing
      <3>3. CASE Crash(e)
          BY <2>1, <3>3 DEF Crash, Process
      <3>4. CASE Raise(e)
          BY <2>1, <3>4 DEF Raise, Processes
      <3>5. CASE ReadBudget(e)
          BY <2>1, <3>5 DEF ReadBudget, Processes
      <3> QED BY <2>4, <3>1, <3>2, <3>3, <3>4, <3>5 DEF LocalStep
    <2>5. ASSUME NEW f \in Executors, ProgressStep(f) PROVE FALSE
        BY <1>1, <2>1, <2>2, <2>5, ProgressEffect DEF Progress
    <2>6. ASSUME NEW f \in Executors, OutcomeStep(f) PROVE FALSE
      <3>1. PICK v \in Outcomes, pc \in Settled : WriteOutcome(f, v, pc)
          BY <1>1, <2>6, OutcomeIsWrite
      <3>2. f = e
        <4>1. \E q : exec' = [exec EXCEPT ![f] = q]
            BY <1>1, <2>6, OutcomeEffect
        <4> QED BY <2>1, <2>2, <4>1
      <3>3. exec' = [exec EXCEPT ![e].pc = pc]
          BY <3>1, <3>2 DEF WriteOutcome
      <3>4. exec'[e].pc = pc
          BY <2>1, <3>3 DEF Processes
      <3> QED BY <3>4 DEF Settled
    <2>7. ASSUME NEW f \in Executors, Claim(f) PROVE FALSE
      <3>1. PICK q \in Processes : exec' = [exec EXCEPT ![f] = q] /\ q.pc = "CLAIMED"
          BY <1>1, <2>7, ClaimedRow
      <3> QED BY <2>1, <2>2, <3>1
    <2> QED BY <1>1, <2>3, <2>4, <2>5, <2>6, <2>7, StepGroups
  <1>2. TypeInv /\ [Next]_vars => [Recorded]_vars
      BY <1>1
  <1> QED BY <1>2, TypeInit, TypeStep, PTL DEF Spec, RunEndsRecorded

\* Without late hosts and crashes no claim goes stale: an owner has a live process.
OwnersAreUp ==
    /\ LateHostsAreDown
    /\ \A e \in Executors : exec[e].pc # "down"
    /\ \A j \in Jobs :
          row[j].claimedAt # "null" => \E e \in Executors : row[j].owner = Host[e]

LEMMA NothingStuck == ASSUME TypeInv, OwnersAreUp PROVE Stuck = {}
PROOF
  <1> SUFFICES ASSUME NEW j \in Stuck PROVE FALSE
      OBVIOUS
  <1>1. j \in Jobs /\ row[j].claimedAt # "null"
      BY DEF Stuck
  <1>2. PICK e \in Executors : row[j].owner = Host[e]
      BY <1>1 DEF OwnersAreUp
  <1>3. Host[e] \in Workers /\ Host[e] # NoWorker
      BY FunctionsAssumption, SetsAssumption
  <1>4. worker[Host[e]].age = 2
      BY <1>2, <1>3 DEF Stuck
  <1> QED BY <1>3, <1>4 DEF OwnersAreUp, LateHostsAreDown, HostDown

LEMMA UpStep ==
    ASSUME Faults \cap {"lapse", "crash"} = {}, TypeInv, OwnersAreUp, [Next]_vars
    PROVE  OwnersAreUp'
PROOF
  <1>1. exec \in [Executors -> Processes] /\ row \in [Jobs -> Rows]
      BY DEF TypeInv, TypeOK
  <1>2. LateHostsAreDown'
      BY LateStep DEF OwnersAreUp
  <1> DEFINE Up == \A e \in Executors : exec'[e].pc # "down"
             Timed == \A j \in Jobs : \/ row'[j].claimedAt = "null"
                                      \/ /\ row[j].claimedAt # "null"
                                         /\ row'[j].owner = row[j].owner
                                      \/ \E e \in Executors : row'[j].owner = Host[e]
  <1>3. SUFFICES Up /\ Timed
      BY <1>2 DEF OwnersAreUp
  <1> USE DEF OwnersAreUp
  <1>4. CASE QuietStep \/ UNCHANGED vars
    <2>1. UNCHANGED <<exec, row>>
        BY <1>4 DEF QuietStep, vars, DispatchRound, MarkOffline, ScanDispatch, WorkerStep,
           Heartbeat, Lapse, Pause, Drain, Resume, SetWorkerStatus, Redeliver, CancelRead
    <2> QED BY <2>1
  <1>5. CASE TableStep
    <2>1. UNCHANGED exec /\ \A j \in Jobs : TableRow(j)
        BY <1>5, TableEffect
    <2> QED BY <2>1 DEF TableRow, Aged, Stamped, Requeued, Retried, Row
  <1>6. ASSUME NEW e \in Executors, LocalStep(e) PROVE Up /\ Timed
    <2>1. UNCHANGED row
        BY <1>6, LocalEffect
    <2>2. ASSUME ~Crash(e)
          PROVE  \E q : exec' = [exec EXCEPT ![e] = q] /\ q.pc # "down"
      <3>1. CASE \E j \in Jobs : BeginRun(e, j)
          BY <3>1 DEF BeginRun, Process
      <3>2. CASE ClaimRefused(e) \/ Escape(e) \/ Finish(e) \/ ReportError(e) \/ Restart(e)
          BY <3>2 DEF ClaimRefused, Escape, Finish, ReportError, Restart, Process
      <3>3. CASE Raise(e)
        <4> DEFINE q == [exec[e] EXCEPT !.pc = "failing"]
        <4>1. exec' = [exec EXCEPT ![e] = q]
            BY <1>1, <3>3 DEF Raise
        <4>2. q.pc = "failing"
            BY <1>1, PcUpdateClaim
        <4> HIDE DEF q
        <4> QED BY <4>1, <4>2
      <3>4. CASE ReadBudget(e)
        <4> DEFINE b == Exhausted(exec[e].job)
                   q == [exec[e] EXCEPT !.pc = "recording", !.exhausted = b]
        <4>1. exec' = [exec EXCEPT ![e] = q]
            BY <1>1, <3>4 DEF ReadBudget
        <4>2. b \in BOOLEAN
            BY DEF Exhausted
        <4> HIDE DEF b
        <4>3. exec[e] \in Processes
            BY <1>1
        <4>4. q.pc = "recording"
            BY <4>2, <4>3, BudgetUpdateClaim
        <4> HIDE DEF q
        <4> QED BY <4>1, <4>4
      <3> QED BY <1>6, <2>2, <3>1, <3>2, <3>3, <3>4 DEF LocalStep
    <2> QED BY <1>1, <2>1, <2>2 DEF Crash
  <1>7. ASSUME NEW e \in Executors, ProgressStep(e) PROVE Up /\ Timed
      BY <1>1, <1>7, ProgressEffect DEF Stamped, Progress
  <1>8. ASSUME NEW e \in Executors, OutcomeStep(e) PROVE Up /\ Timed
    <2>1. PICK v \in Outcomes, pc \in Settled : WriteOutcome(e, v, pc)
        BY <1>8, OutcomeIsWrite DEF Outcomes
    <2>2. \/ exec' = [exec EXCEPT ![e] = Process("idle")]
          \/ exec' = [exec EXCEPT ![e] = [exec[e] EXCEPT !.pc = pc]]
        BY <1>1, <2>1 DEF WriteOutcome
    <2>3. [exec[e] EXCEPT !.pc = pc].pc # "down" /\ Process("idle").pc # "down"
        BY <1>1, PcUpdateClaim DEF Settled, Process
    <2>4. Up
        BY <1>1, <2>2, <2>3
    <2>5. \A j \in Jobs : row'[j].claimedAt = row[j].claimedAt /\ row'[j].owner = row[j].owner
        BY <1>8, OutcomeEffect DEF Stamped
    <2> QED BY <2>4, <2>5
  <1>9. ASSUME NEW e \in Executors, Claim(e) PROVE Up /\ Timed
    <2>1. PICK r \in Rows, q \in Processes :
             /\ exec' = [exec EXCEPT ![e] = q] /\ q.pc = "CLAIMED"
             /\ row' = [row EXCEPT ![exec[e].job] = r] /\ r.owner = Host[e]
        BY <1>9, ClaimedRow
    <2> QED BY <1>1, <2>1
  <1> QED BY <1>4, <1>5, <1>6, <1>7, <1>8, <1>9, StepGroups

LEMMA QueuedStep ==
    ASSUME TypeInv, OwnersAreUp, QueuedIsClaimable, [Next]_vars PROVE QueuedIsClaimable'
PROOF
  <1> DEFINE Fine(j) == \/ row'[j].status # "QUEUED"
                        \/ row'[j].attempt = 0
                        \/ row'[j].status = row[j].status /\ row'[j].attempt = row[j].attempt
  <1>1. row \in [Jobs -> Rows] /\ MaxAttempts > 0
      BY BoundsAssumption DEF TypeInv, TypeOK
  <1>2. ASSUME \A j \in Jobs : Fine(j) PROVE QueuedIsClaimable'
    <2> SUFFICES ASSUME NEW j \in Jobs, row'[j].status = "QUEUED"
                 PROVE  ~(row'[j].attempt >= MaxAttempts)
        BY DEF QueuedIsClaimable, Exhausted
    <2>1. CASE row'[j].attempt = 0
        BY <2>1, BoundsAssumption
    <2>2. CASE row'[j].status = row[j].status /\ row'[j].attempt = row[j].attempt
        BY <2>2 DEF QueuedIsClaimable, Exhausted
    <2> QED BY <1>2, <2>1, <2>2
  <1>3. ASSUME QuietStep \/ UNCHANGED vars PROVE \A j \in Jobs : Fine(j)
    <2>1. UNCHANGED row
        BY <1>3 DEF QuietStep, vars, DispatchRound, MarkOffline, ScanDispatch, WorkerStep,
           Heartbeat, Lapse, Pause, Drain, Resume, SetWorkerStatus, Redeliver, CancelRead
    <2> QED BY <2>1
  <1>4. ASSUME TableStep PROVE \A j \in Jobs : Fine(j)
    <2> TAKE j \in Jobs
    <2>1. TableRow(j)
        BY <1>4, TableEffect
    <2>2. j \notin Stuck
        BY NothingStuck
    <2> QED BY <2>1, <2>2 DEF TableRow, Aged, Stamped, Retried, Row
  <1>5. ASSUME NEW e \in Executors, LocalStep(e) PROVE \A j \in Jobs : Fine(j)
      BY <1>5, LocalEffect
  <1>6. ASSUME NEW e \in Executors, ProgressStep(e) PROVE \A j \in Jobs : Fine(j)
      BY <1>6, ProgressEffect DEF Stamped, Progress
  <1>7. ASSUME NEW e \in Executors, OutcomeStep(e) PROVE \A j \in Jobs : Fine(j)
      BY <1>7, OutcomeEffect DEF Stamped, Outcomes
  <1>8. ASSUME NEW e \in Executors, Claim(e) PROVE \A j \in Jobs : Fine(j)
    <2>1. PICK r \in Rows : row' = [row EXCEPT ![exec[e].job] = r] /\ r.status = "CLAIMED"
        BY <1>8, ClaimedRow
    <2> QED BY <1>1, <2>1
  <1> QED BY <1>2, <1>3, <1>4, <1>5, <1>6, <1>7, <1>8, StepGroups

\* QUEUED work is not stranded - as long as no claim is lost: a row in the queue has an
\* attempt left, whatever is cancelled, retried or fails.
THEOREM QueuedWorkIsClaimable ==
    ASSUME Faults \cap {"lapse", "crash"} = {} PROVE Spec => []QueuedIsClaimable
PROOF
  <1>1. Init => OwnersAreUp /\ QueuedIsClaimable
    <2> SUFFICES ASSUME Init PROVE OwnersAreUp /\ QueuedIsClaimable
        OBVIOUS
    <2>1. \A j \in Jobs : row[j].claimedAt = "null" /\ row[j].status # "QUEUED"
        BY DEF Init, Row
    <2>2. \A e \in Executors : exec[e].pc # "down"
        BY DEF Init, Process
    <2>3. LateHostsAreDown
        BY DEF Init, LateHostsAreDown
    <2> QED BY <2>1, <2>2, <2>3 DEF OwnersAreUp, QueuedIsClaimable
  <1> QED BY <1>1, TypeInit, TypeStep, UpStep, QueuedStep, PTL DEF Spec

-----------------------------------------------------------------------------
(* The operator's stops.  WorkerControl takes a heartbeat apart into its   *)
(* read and its write; the runtime does not, and its workers rows go       *)
(* through nothing WorkerControl does not allow.  What it proves of a stop *)
(* holds here, and so no stopped worker takes a job.                       *)

CONSTANT Watched   \* any worker

VARIABLE ordered   \* history: the operator's last command to each worker

OrderStep(w) == Pause(w) \/ Drain(w) \/ Resume(w)

OrderedInit == Init /\ ordered = [w \in Workers |-> "ONLINE"]

OrderedNext ==
    /\ Next
    /\ \/ \E w \in Workers :
            OrderStep(w) /\ ordered' = [ordered EXCEPT ![w] = worker'[w].status]
       \/ ~(\E w \in Workers : OrderStep(w)) /\ UNCHANGED ordered

OrderedSpec == OrderedInit /\ [][OrderedNext]_<<vars, ordered>>

\* The row of the watched worker, with its processes for heartbeat senders.  A heartbeat
\* that is one step is never in flight, and no command is contested.
Control == INSTANCE WorkerControl_proofs WITH
              Beaters <- Executors,
              status <- worker[Watched].status,
              age <- IF worker[Watched].age = 0 THEN 0 ELSE 1,
              beat <- [e \in Executors |-> "none"],
              command <- ordered[Watched],
              contested <- FALSE

OrderedInv == TypeInv /\ ordered \in [Workers -> {"ONLINE", "PAUSED", "DRAINING"}]

LEMMA OrderedHolds == OrderedSpec => []OrderedInv
PROOF
  <1>1. OrderedInit => OrderedInv
      BY TypeInit DEF OrderedInit, OrderedInv
  <1>2. OrderedInv /\ [OrderedNext]_<<vars, ordered>> => OrderedInv'
    <2> SUFFICES ASSUME OrderedInv, [OrderedNext]_<<vars, ordered>> PROVE OrderedInv'
        OBVIOUS
    <2>1. TypeInv'
        BY TypeStep DEF OrderedInv, OrderedNext
    <2>2. ASSUME NEW w \in Workers, OrderStep(w)
          PROVE  worker'[w].status \in {"ONLINE", "PAUSED", "DRAINING"}
        BY <2>2 DEF OrderStep, Pause, Drain, Resume, SetWorkerStatus, OrderedInv, TypeInv,
           TypeOK
    <2>3. ordered' \in [Workers -> {"ONLINE", "PAUSED", "DRAINING"}]
        BY <2>2 DEF OrderedInv, OrderedNext
    <2> QED BY <2>1, <2>3 DEF OrderedInv
  <1> QED BY <1>1, <1>2, PTL DEF OrderedSpec

LEMMA ControlInit == Watched \in Workers /\ OrderedInit => Control!Init
PROOF
  BY DEF OrderedInit, Init, Control!Init

\* The row of the watched worker takes a step of WorkerControl: an ONLINE heartbeat and a
\* registration are one and the same, and all late rows are marked at once.
LEMMA ControlStep ==
    ASSUME Watched \in Workers, OrderedInv, [OrderedNext]_<<vars, ordered>>
    PROVE  [Control!Next]_Control!vars
PROOF
  <1>1. worker \in [Workers -> [status : WorkerStatuses, age : 0..2]]
      BY DEF OrderedInv, TypeInv, TypeOK
  <1>2. /\ Host \in [Executors -> Workers]
        /\ ordered \in [Workers -> {"ONLINE", "PAUSED", "DRAINING"}]
      BY FunctionsAssumption DEF OrderedInv
  <1>3. ASSUME UNCHANGED <<worker, ordered>> PROVE [Control!Next]_Control!vars
      BY <1>3 DEF Control!vars
  <1>4. ASSUME UNCHANGED ordered, NEW w \in Workers, BeatOnline(w)
        PROVE  [Control!Next]_Control!vars
    <2>1. CASE w = Watched
      <3>1. Control!Register
          BY <1>1, <1>4, <2>1 DEF BeatOnline, Control!Register, ControlBlock, Control!ControlBlock
      <3> QED BY <3>1 DEF Control!Next
    <2>2. CASE w # Watched
        BY <1>1, <1>4, <2>2 DEF BeatOnline, Control!vars
    <2> QED BY <2>1, <2>2
  <1>5. ASSUME UNCHANGED ordered, NEW e \in Executors, ReportError(e)
        PROVE  [Control!Next]_Control!vars
    <2>1. CASE Host[e] = Watched
      <3>1. Control!BeatError(e)
          BY <1>1, <1>5, <2>1 DEF ReportError, Control!BeatError
      <3> QED BY <3>1 DEF Control!Next, Control!BeatStep
    <2>2. CASE Host[e] # Watched
        BY <1>1, <1>2, <1>5, <2>2 DEF ReportError, Control!vars
    <2> QED BY <2>1, <2>2
  <1>6. ASSUME UNCHANGED ordered, NEW w \in Workers, Lapse(w)
        PROVE  [Control!Next]_Control!vars
    <2>1. CASE w = Watched /\ worker[w].age = 0
      <3>1. Control!Lapse
          BY <1>1, <1>6, <2>1 DEF Lapse, Control!Lapse
      <3> QED BY <3>1 DEF Control!Next
    <2>2. CASE ~(w = Watched /\ worker[w].age = 0)
        BY <1>1, <1>6, <2>2 DEF Lapse, Control!vars
    <2> QED BY <2>1, <2>2
  <1>7. ASSUME UNCHANGED ordered, MarkOffline PROVE [Control!Next]_Control!vars
    <2>1. CASE worker[Watched].status = "ONLINE" /\ worker[Watched].age > 0
      <3>1. Control!MarkOffline
          BY <1>1, <1>7, <2>1 DEF MarkOffline, Control!MarkOffline
      <3> QED BY <3>1 DEF Control!Next
    <2>2. CASE ~(worker[Watched].status = "ONLINE" /\ worker[Watched].age > 0)
        BY <1>1, <1>7, <2>2 DEF MarkOffline, Control!vars
    <2> QED BY <2>1, <2>2
  <1>8. ASSUME NEW w \in Workers, OrderStep(w),
               ordered' = [ordered EXCEPT ![w] = worker'[w].status]
        PROVE  [Control!Next]_Control!vars
    <2>1. PICK to \in {"PAUSED", "DRAINING", "ONLINE"} : SetWorkerStatus(w, to)
        BY <1>8 DEF OrderStep, Pause, Drain, Resume
    <2>2. CASE w = Watched
      <3>1. Control!Order(to)
          BY <1>1, <1>2, <1>8, <2>1, <2>2 DEF SetWorkerStatus, Control!Order
      <3> QED BY <3>1 DEF Control!Next, Control!Pause, Control!Drain, Control!Resume
    <2>3. CASE w # Watched
        BY <1>1, <1>2, <1>8, <2>1, <2>3 DEF SetWorkerStatus, Control!vars
    <2> QED BY <2>2, <2>3
  <1>9. ASSUME UNCHANGED ordered, Next, ~(\E w \in Workers : OrderStep(w))
        PROVE  [Control!Next]_Control!vars
    <2>1. CASE UNCHANGED worker
        BY <1>3, <1>9, <2>1
    <2>2. CASE \E w \in Workers : BeatOnline(w)
        BY <1>4, <1>9, <2>2
    <2>3. ASSUME NEW e \in Executors, ProcessStep(e)
          PROVE  UNCHANGED worker \/ BeatOnline(Host[e]) \/ ReportError(e)
        BY <2>3 DEF ProcessStep, RunStep, Claim, ClaimRefused, StartPreprocessing,
           StartInferencing, StartPostprocessing, WriteProgress, Succeed, Finish, Raise,
           RecordPermanent, ReadBudget, RecordRetryable, Escape, Crash, Restart, Redeliver,
           BeginRun
    <2>4. ASSUME NEW j \in Jobs, JobStep(j) PROVE UNCHANGED worker
        BY <2>4 DEF JobStep, Create, ClaimAges, ScanPromote, ManualRetry, CancelRead,
           CancelWrite
    <2>5. ASSUME NEW w \in Workers, WorkerStep(w) PROVE BeatOnline(w) \/ Lapse(w)
        BY <1>9, <2>5 DEF WorkerStep, OrderStep, Heartbeat
    <2>6. CASE DispatchRound \/ ScanStuck \/ ScanDispatch
        BY <2>1, <2>6 DEF DispatchRound, ScanStuck, ScanDispatch
    <2> QED BY <1>2, <1>5, <1>6, <1>7, <1>9, <2>1, <2>2, <2>3, <2>4, <2>5, <2>6 DEF Next
  <1> QED BY <1>3, <1>8, <1>9 DEF OrderedNext, vars

\* Every workers row of the runtime behaves as WorkerControl says.
THEOREM RowsKeepControl ==
    ASSUME Watched \in Workers PROVE OrderedSpec => Control!Spec
PROOF
  <1>1. OrderedInit => Control!Init
      BY ControlInit
  <1>2. OrderedInv /\ [OrderedNext]_<<vars, ordered>> => [Control!Next]_Control!vars
      BY ControlStep
  <1> QED BY <1>1, <1>2, OrderedHolds, PTL DEF OrderedSpec, Control!Spec

\* While the operator's last word to a worker is a stop no process of it claims a job,
\* through failures, crashes, new processes and offline scans.
THEOREM StoppedTakeNoJobs ==
    ASSUME Watched \in Workers
    PROVE  OrderedSpec => [][\A e \in Executors :
                                Host[e] = Watched /\ Claim(e) => ordered[Watched] = "ONLINE"
                            ]_<<vars, ordered>>
PROOF
  <1>1. ASSUME OrderedInv, Control!UncontestedStopHolds
        PROVE  \A e \in Executors :
                  Host[e] = Watched /\ Claim(e) => ordered[Watched] = "ONLINE"
    <2> SUFFICES ASSUME NEW e \in Executors, Host[e] = Watched, Claim(e)
                 PROVE  ordered[Watched] = "ONLINE"
        OBVIOUS
    <2>1. worker[Watched].status = "ONLINE"
        BY DEF Claim, Admits
    <2>2. ordered[Watched] \in {"ONLINE", "PAUSED", "DRAINING"}
        BY <1>1 DEF OrderedInv
    <2> QED BY <1>1, <2>1, <2>2 DEF Control!UncontestedStopHolds, Control!Stops
  <1> QED BY <1>1, OrderedHolds, RowsKeepControl, Control!StopsHold, PTL DEF OrderedSpec
=============================================================================
