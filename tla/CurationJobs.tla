---------------------------- MODULE CurationJobs ----------------------------
(***************************************************************************)
(* The delivery jobs of the gallery chat.  A chat turn submits a goal,     *)
(* which is a row in agent_store.db and then a Celery task or a thread;    *)
(* later turns cancel it.  A run looks at the row, searches, selects into  *)
(* the gallery's curation file, and records the outcome; each look and     *)
(* each record is a statement of its own, and the records of a run do not  *)
(* say which status they expect.  A broker may hand a task out again.      *)
(***************************************************************************)
EXTENDS Integers, FiniteSets

CONSTANTS
    Jobs,        \* job ids
    Goal(_),     \* fingerprint of the job's goal, with its owner and base_dir
    Turns,       \* the chat turns that submit
    Wish(_),     \* the goal of a turn
    Runners,     \* Celery pool processes and threads
    Backends,    \* what schedule_curation_job comes to: "task", "thread", "failed"
    Faults,      \* what may go wrong: "crash", "raise", "again"
    MaxFaults    \* bound: how often

None == "none"
Active == {"queued", "running"}
Ended == {"done", "failed", "cancelled"}
Statuses == Active \cup Ended

ASSUME NamesAssumption == IsFiniteSet(Jobs) /\ None \notin Jobs
ASSUME BackendsAssumption == Backends \subseteq {"task", "thread", "failed"}
ASSUME FaultsAssumption == Faults \subseteq {"crash", "raise", "again"} /\ MaxFaults \in Nat

VARIABLES
    status,     \* curation_jobs.status, None before the row is there
    asked,      \* the jobs with cancel_requested
    late,       \* the jobs older than their timeout: since started_at, or else created_at
    posted,     \* the runs of the job not begun yet: None, "task" or "thread"
    turn,       \* where each turn is in submit
    made,       \* the job a turn has inserted
    at,         \* where each runner is in run_curation_job
    job,        \* the job it runs
    kind,       \* how its run was started
    found,      \* what execute_curation came to, later the outcome to record
    wrote,      \* the jobs whose selection reached the curation file
    faults,     \* faults so far
    fresh,      \* history: the runners that began after their job had ended
    barren,     \* history: the jobs for which a search found no photo
    early,      \* history: cancelled before any run had claimed them
    overtaken,  \* history: cancelled, or out of time, behind the last look of a run
    shaken,     \* history: a fault has hit a run of the job
    lost        \* history: a run of the job will not go on, nor begin again

row == <<status, asked, late>>
chat == <<turn, made>>
run == <<at, job, kind, found>>
seen == <<fresh, barren>>
history == <<seen, early, overtaken, shaken, lost>>
vars == <<row, posted, chat, run, wrote, faults, history>>

TypeOK ==
    /\ status \in [Jobs -> Statuses \cup {None}]
    /\ asked \subseteq Jobs /\ late \subseteq Jobs /\ wrote \subseteq Jobs
    /\ posted \in [Jobs -> {None, "task", "thread"}]
    /\ turn \in [Turns -> {"new", "looked", "inserted", "over"}]
    /\ made \in [Turns -> Jobs \cup {None}]
    /\ at \in [Runners -> {"idle", "read", "recall", "expire", "claim", "reread", "look",
                           "search", "select", "close", "record", "raised"}]
    /\ job \in [Runners -> Jobs \cup {None}]
    /\ kind \in [Runners -> {None, "task", "thread"}]
    /\ found \in [Runners -> {None, "aborted", "error", "empty", "files"} \cup Statuses]
    /\ faults \in 0..MaxFaults
    /\ fresh \subseteq Runners /\ barren \subseteq Jobs
    /\ early \subseteq Jobs /\ overtaken \subseteq Jobs
    /\ shaken \subseteq Jobs /\ lost \subseteq Jobs

Init ==
    /\ status = [j \in Jobs |-> None]
    /\ asked = {} /\ late = {} /\ wrote = {}
    /\ posted = [j \in Jobs |-> None]
    /\ turn = [t \in Turns |-> "new"] /\ made = [t \in Turns |-> None]
    /\ at = [p \in Runners |-> "idle"]
    /\ job = [p \in Runners |-> None] /\ kind = [p \in Runners |-> None]
    /\ found = [p \in Runners |-> None]
    /\ faults = 0
    /\ fresh = {} /\ barren = {} /\ early = {} /\ overtaken = {} /\ shaken = {} /\ lost = {}

-----------------------------------------------------------------------------
(* Chat turns                                                              *)

Open(g) == {j \in Jobs : Goal(j) = g /\ status[j] \in Active}

\* A turn is answered with the open job of its goal, which it does not schedule again.
Look(t) ==
    /\ turn[t] = "new"
    /\ turn' = [turn EXCEPT ![t] = IF Open(Wish(t)) = {} THEN "looked" ELSE "over"]
    /\ UNCHANGED <<row, posted, made, run, wrote, faults, history>>

Insert(t, j) ==
    /\ turn[t] = "looked"
    /\ status[j] = None /\ Goal(j) = Wish(t)
    /\ turn' = [turn EXCEPT ![t] = "inserted"]
    /\ made' = [made EXCEPT ![t] = j]
    /\ status' = [status EXCEPT ![j] = "queued"]
    /\ UNCHANGED <<asked, late, posted, run, wrote, faults, history>>

\* schedule_curation_job.  The job that no backend takes stays queued.
Schedule(t, backend) ==
    /\ turn[t] = "inserted"
    /\ turn' = [turn EXCEPT ![t] = "over"]
    /\ IF backend = "failed"
       THEN lost' = lost \cup {made[t]} /\ UNCHANGED posted
       ELSE posted' = [posted EXCEPT ![made[t]] = backend] /\ UNCHANGED lost
    /\ UNCHANGED <<row, made, run, wrote, faults, seen, early, overtaken, shaken>>

RunsOf(j) == {p \in Runners : job[p] = j}

\* The runs that do not look at the row again before they select, or record an outcome.
Committed(j) ==
    \E p \in RunsOf(j) : at[p] \in {"select", "expire", "record"} \/ found[p] = "files"

Overtake(j) == overtaken' = IF Committed(j) THEN overtaken \cup {j} ELSE overtaken

\* The UPDATE repeats the condition that was read.
Cancel(j) ==
    /\ status[j] \in Active
    /\ status' = [status EXCEPT ![j] = "cancelled"]
    /\ asked' = asked \cup {j}
    /\ early' = IF status[j] = "queued" THEN early \cup {j} ELSE early
    /\ Overtake(j)
    /\ UNCHANGED <<late, posted, chat, run, wrote, faults, seen, shaken, lost>>

TimePasses(j) ==
    /\ status[j] # None /\ j \notin late
    /\ late' = late \cup {j}
    /\ Overtake(j)
    /\ UNCHANGED <<status, asked, posted, chat, run, wrote, faults, seen, early, shaken, lost>>

-----------------------------------------------------------------------------
(* run_curation_job                                                        *)

To(p, place) == at' = [at EXCEPT ![p] = place]

Leave(p) ==
    /\ To(p, "idle")
    /\ job' = [job EXCEPT ![p] = None]
    /\ kind' = [kind EXCEPT ![p] = None]
    /\ found' = [found EXCEPT ![p] = None]

Take(p, j) ==
    /\ at[p] = "idle" /\ posted[j] # None
    /\ posted' = [posted EXCEPT ![j] = None]
    /\ To(p, "read")
    /\ job' = [job EXCEPT ![p] = j]
    /\ kind' = [kind EXCEPT ![p] = posted[j]]
    /\ fresh' = IF status[j] \in Ended THEN fresh \cup {p} ELSE fresh \ {p}
    /\ UNCHANGED <<row, chat, found, wrote, faults, barren, early, overtaken, shaken, lost>>

\* A slip no run uses: a row that is done or failed is run again.
AfterReadAgain(j) ==
    IF status[j] = "cancelled" THEN "idle"
    ELSE IF j \in asked THEN "recall"
    ELSE IF j \in late THEN "expire"
    ELSE IF status[j] = "queued" THEN "claim"
    ELSE "look"

\* What the first look at the row leads to: a running job is run beside its other run.
AfterRead(j) ==
    IF status[j] = "cancelled" THEN "idle"
    ELSE IF j \in asked THEN "recall"
    ELSE IF status[j] \in {"done", "failed"} THEN "idle"
    ELSE IF j \in late THEN "expire"
    ELSE IF status[j] = "queued" THEN "claim"
    ELSE "look"

Read(p) ==
    /\ at[p] = "read"
    /\ IF AfterRead(job[p]) = "idle" THEN Leave(p)
       ELSE To(p, AfterRead(job[p])) /\ UNCHANGED <<job, kind, found>>
    /\ UNCHANGED <<row, posted, chat, wrote, faults, history>>

\* The two early records, of a cancel that a run had overwritten and of a timeout.
RecordEarly(p) ==
    /\ at[p] \in {"recall", "expire"}
    /\ status' = [status EXCEPT ![job[p]] = IF at[p] = "recall" THEN "cancelled" ELSE "failed"]
    /\ Leave(p)
    /\ UNCHANGED <<asked, late, posted, chat, wrote, faults, history>>

Claim(p) ==
    /\ at[p] = "claim"
    /\ To(p, "reread")
    /\ IF status[job[p]] = "queued"
       THEN /\ status' = [status EXCEPT ![job[p]] = "running"]
            /\ late' = late \ {job[p]}
       ELSE UNCHANGED <<status, late>>
    /\ UNCHANGED <<asked, posted, chat, job, kind, found, wrote, faults, history>>

Reread(p) ==
    /\ at[p] = "reread"
    /\ IF status[job[p]] = "running" THEN To(p, "look") /\ UNCHANGED <<job, kind, found>>
       ELSE Leave(p)
    /\ UNCHANGED <<row, posted, chat, wrote, faults, history>>

\* _abort
Abort(j) == j \in asked \/ status[j] = "cancelled" \/ j \in late

Result(p, r) == found' = [found EXCEPT ![p] = r] /\ To(p, "close")

FirstCheck(p) ==
    /\ at[p] = "look"
    /\ IF Abort(job[p]) THEN Result(p, "aborted") ELSE To(p, "search") /\ UNCHANGED found
    /\ UNCHANGED <<row, posted, chat, job, kind, wrote, faults, history>>

\* A slip no run uses: the search is not followed by a second look.
SearchUnchecked(p) ==
    /\ at[p] = "search"
    /\ \/ Result(p, "error") /\ UNCHANGED barren
       \/ Result(p, "empty") /\ barren' = barren \cup {job[p]}
       \/ To(p, "select") /\ UNCHANGED <<found, barren>>
    /\ UNCHANGED <<row, posted, chat, job, kind, wrote, faults, fresh, early, overtaken,
                   shaken, lost>>

\* The search fails, or is followed by the second look, and finds nothing or something.
Search(p) ==
    /\ at[p] = "search"
    /\ \/ Result(p, "error") /\ UNCHANGED barren
       \/ Abort(job[p]) /\ Result(p, "aborted") /\ UNCHANGED barren
       \/ ~Abort(job[p]) /\ Result(p, "empty") /\ barren' = barren \cup {job[p]}
       \/ ~Abort(job[p]) /\ To(p, "select") /\ UNCHANGED <<found, barren>>
    /\ UNCHANGED <<row, posted, chat, job, kind, wrote, faults, fresh, early, overtaken,
                   shaken, lost>>

\* GallerySelectSkill with replace: no photo passes its gate, or the file is written anew.
Select(p) ==
    /\ at[p] = "select"
    /\ \/ Result(p, "error") /\ UNCHANGED wrote
       \/ Result(p, "files") /\ wrote' = wrote \cup {job[p]}
    /\ UNCHANGED <<row, posted, chat, job, kind, faults, history>>

\* The last look.  A run that aborted because its time was up records "cancelled" too.
Outcome(j, r) ==
    IF j \in asked \/ status[j] = "cancelled" \/ r = "aborted" THEN "cancelled"
    ELSE IF j \in late \/ r = "error" THEN "failed" ELSE "done"

Close(p) ==
    /\ at[p] = "close"
    /\ found' = [found EXCEPT ![p] = Outcome(job[p], @)]
    /\ To(p, "record")
    /\ UNCHANGED <<row, posted, chat, job, kind, wrote, faults, history>>

Record(p) ==
    /\ at[p] = "record"
    /\ status' = [status EXCEPT ![job[p]] = found[p]]
    /\ Leave(p)
    /\ UNCHANGED <<asked, late, posted, chat, wrote, faults, history>>

-----------------------------------------------------------------------------
(* Faults                                                                  *)

Fault(f, j) ==
    /\ f \in Faults /\ faults < MaxFaults
    /\ faults' = faults + 1
    /\ shaken' = shaken \cup {j}

\* An exception ends a Celery task, which is acknowledged; _safe_run catches it in a thread.
Raise(p) ==
    /\ at[p] \notin {"idle", "raised"}
    /\ Fault("raise", job[p])
    /\ IF kind[p] = "thread"
       THEN To(p, "raised") /\ UNCHANGED <<job, kind, found, lost>>
       ELSE Leave(p) /\ lost' = lost \cup {job[p]}
    /\ UNCHANGED <<row, posted, chat, wrote, seen, early, overtaken>>

\* A slip no run uses: only a running job is marked.
MarkRunning(p) ==
    /\ at[p] = "raised"
    /\ status' = [status EXCEPT ![job[p]] = IF @ = "running" THEN "failed" ELSE @]
    /\ Leave(p)
    /\ UNCHANGED <<asked, late, posted, chat, wrote, faults, history>>

Mark(p) ==
    /\ at[p] = "raised"
    /\ status' = [status EXCEPT ![job[p]] = IF @ \in Active THEN "failed" ELSE @]
    /\ Leave(p)
    /\ UNCHANGED <<asked, late, posted, chat, wrote, faults, history>>

\* The process dies; the broker hands a task out again, or (its child died) does not.
Crash(p) ==
    /\ at[p] # "idle"
    /\ Fault("crash", job[p])
    /\ Leave(p)
    /\ \/ lost' = lost \cup {job[p]} /\ UNCHANGED posted
       \/ /\ kind[p] = "task" /\ posted[job[p]] = None
          /\ posted' = [posted EXCEPT ![job[p]] = "task"]
          /\ UNCHANGED lost
    /\ UNCHANGED <<row, chat, wrote, seen, early, overtaken>>

\* The process of the chat dies between the row and the task.
ChatCrash(t) ==
    /\ turn[t] = "inserted"
    /\ Fault("crash", made[t])
    /\ turn' = [turn EXCEPT ![t] = "over"]
    /\ lost' = lost \cup {made[t]}
    /\ UNCHANGED <<row, posted, made, run, wrote, seen, early, overtaken>>

\* A task is handed out a second time, while it runs or later.
Again(j) ==
    /\ "task" \in Backends
    /\ status[j] # None /\ posted[j] = None
    /\ \A t \in Turns : made[t] = j => turn[t] = "over"
    /\ Fault("again", j)
    /\ posted' = [posted EXCEPT ![j] = "task"]
    /\ UNCHANGED <<row, chat, run, wrote, seen, early, overtaken, lost>>

-----------------------------------------------------------------------------

Step(p) ==
    \/ Read(p) \/ RecordEarly(p) \/ Claim(p) \/ Reread(p) \/ FirstCheck(p) \/ Search(p)
    \/ Select(p) \/ Close(p) \/ Record(p) \/ Mark(p)

Submit(t) ==
    \/ Look(t)
    \/ \E j \in Jobs : Insert(t, j)
    \/ \E backend \in Backends : Schedule(t, backend)

Next ==
    \/ \E t \in Turns : Submit(t) \/ ChatCrash(t)
    \/ \E j \in Jobs : Cancel(j) \/ TimePasses(j) \/ Again(j)
    \/ \E p \in Runners, j \in Jobs : Take(p, j)
    \/ \E p \in Runners : Step(p) \/ Raise(p) \/ Crash(p)

Spec == Init /\ [][Next]_vars

\* Turns and runs go on, and a task or a thread that waits begins.  Nobody has to cancel.
Fairness ==
    /\ \A t \in Turns : WF_vars(Submit(t))
    /\ \A p \in Runners : WF_vars(Step(p))
    /\ \A j \in Jobs : WF_vars(\E p \in Runners : Take(p, j))

FairSpec == Spec /\ Fairness

-----------------------------------------------------------------------------

\* Neither cancel nor redelivery revives a job: it never becomes active again, and a run that
\* begins after the outcome was recorded records nothing - except the cancel that another run
\* had recorded its outcome over.  Only a job with a run behind its last look when the cancel
\* (or its time's end) came loses the cancel, or selects in spite of it.
OutcomeIsFinal ==
    [][\A j \in Jobs :
          /\ status[j] \in Ended => status'[j] \in Ended
          /\ \A p \in RunsOf(j) \cap fresh :
                at'[p] # at[p] /\ status'[j] # status[j] =>
                   j \in asked /\ status'[j] = "cancelled"
          /\ j \in asked \ overtaken =>
                /\ status'[j] = "cancelled"
                /\ j \in wrote' => j \in wrote]_vars

\* The gallery and the row agree.  A job cancelled in the queue never selects; one reported
\* done has selected, or found nothing; and one that has selected is reported done, unless the
\* cancel or the timeout came behind the run's last look before selecting, or a fault hit it.
SelectionIsReported ==
    /\ early \cap wrote = {}
    /\ \A j \in Jobs : status[j] = "done" => j \in wrote \cup barren
    /\ \A j \in wrote \ (overtaken \cup shaken) :
          posted[j] = None /\ RunsOf(j) = {} => status[j] = "done"

\* Nobody carries the job any more, and a run of it was lost: to a backend that took none, to
\* a task that raised, or to a crash.
Abandoned(j) == j \in lost /\ posted[j] = None /\ RunsOf(j) = {}

\* A job ends, whatever is cancelled, too late, raised in a thread, or handed out twice: no
\* run that goes on leaves it open, and one copy of a task makes up for the loss of the other.
JobsEnd ==
    \A j \in Jobs : status[j] \in Active ~> status[j] \in Ended \/ Abandoned(j)
=============================================================================
