--------------------------- MODULE SessionAnalysis ---------------------------
(***************************************************************************)
(* The analysis of one session folder by PipelineStageRunner: stage 1      *)
(* (filter), stage 2 (fast score and admission), stage 3 (vision-language  *)
(* model), the artifacts, and the photos' outcome.  The stages speak       *)
(* through files of the folder - two manifests and an audit log whose last *)
(* row per image counts - and run either as one job (ANALYZE_SESSION) or   *)
(* as a chain of five (PIPELINE_STAGE).  Runs fail, crash, are resumed,    *)
(* are repeated by hand, and a run whose claim was requeued goes on beside *)
(* its successor.  Claims themselves are JobRuntime's subject.             *)
(***************************************************************************)
EXTENDS Naturals

CONSTANTS
    Images,     \* the previews of the session
    Procs,      \* the processes that may run its jobs
    NoProc,     \* no process holds the job
    Unfit,      \* images stage 1 turns down
    Dull,       \* images below stage 2's thresholds, or caught by its prefilter
    Admit(_),   \* what duplicate removal and the stage 3 gate leave of a batch
    MaxFaults,  \* bound on errors, stalls, crashes and lost claims
    MaxRetries  \* bound on the operator's retries

ASSUME ProcAssumption == NoProc \notin Procs
ASSUME VerdictAssumption == Unfit \subseteq Images /\ Dull \subseteq Images
ASSUME AdmitAssumption == \A S \in SUBSET Images : Admit(S) \subseteq S
ASSUME BoundAssumption == MaxFaults \in Nat /\ MaxRetries \in Nat

VARIABLES
    setup,      \* how the session is run: one job or five, and the payload
    status,     \* jobs.status of the job of each stage
    holder,     \* the process that holds its claim
    audit,      \* the latest audit row of each image
    m1, m2,     \* eligible_after_stage1.jsonl, eligible_after_stage2.jsonl
    current,    \* analysis_results.json says what the audit log says
    analyzed,   \* the session's photos are ANALYZED
    at, of,     \* where a process is, and the stage whose job it runs
    todo, out,  \* the images it has to look at, those it will hand on
    faults, retries,
    overlapped, \* history: two processes have worked on the session at once
    rewound,    \* history: a stage of a chain was repeated after it had succeeded
    torn,       \* history: a run ended while it rewrote the manifest of stage 3
    stale       \* history: placeholders older than the run

jobVars == <<status, holder>>
fileVars == <<audit, m1, m2, current>>
procVars == <<at, of, todo, out>>
pastVars == <<faults, retries, overlapped, rewound, torn, stale>>
vars == <<setup, jobVars, fileVars, analyzed, procVars, pastVars>>

Stages == 1..5

(* A row is a rejection, a score the stage 3 checkpoint reuses, a score it *)
(* does not (another model's, or a degraded one), or the placeholder for a *)
(* model that could not be reached.                                        *)
Rows == {"none", "reject", "score", "weak", "placeholder"}

Places == {"idle", "reset", "list", "assess", "save1", "fill1", "load1", "score", "gate",
           "turn", "save2", "fill2", "load2", "plan", "infer", "save3", "fill3",
           "report", "outcome", "close", "stalled", "broken"}

(* A chain always checkpoints; only the one job can wipe the folder first, *)
(* and then does not.                                                      *)
Setups == {s \in [whole : BOOLEAN, checkpoint : BOOLEAN, force : BOOLEAN, routeB : BOOLEAN] :
              /\ ~s.whole => s.checkpoint
              /\ s.force => s.whole /\ ~s.checkpoint}

TypeOK ==
    /\ setup \in Setups
    /\ status \in [Stages -> {"NONE", "QUEUED", "RUNNING", "SUCCEEDED", "FAILED"}]
    /\ holder \in [Stages -> Procs \cup {NoProc}]
    /\ audit \in [Images -> Rows]
    /\ m1 \subseteq Images /\ m2 \subseteq Images
    /\ current \in BOOLEAN /\ analyzed \in BOOLEAN
    /\ at \in [Procs -> Places] /\ of \in [Procs -> Stages]
    /\ todo \in [Procs -> SUBSET Images] /\ out \in [Procs -> SUBSET Images]
    /\ faults \in 0..MaxFaults /\ retries \in 0..MaxRetries
    /\ overlapped \in BOOLEAN /\ rewound \in BOOLEAN /\ torn \in BOOLEAN
    /\ stale \subseteq Images

Init ==
    /\ setup \in Setups
    /\ status = [s \in Stages |-> IF s = 1 THEN "QUEUED" ELSE "NONE"]
    /\ holder = [s \in Stages |-> NoProc]
    /\ audit = [i \in Images |-> "none"] /\ m1 = {} /\ m2 = {}
    /\ current = FALSE /\ analyzed = FALSE
    /\ at = [p \in Procs |-> "idle"] /\ of = [p \in Procs |-> 1]
    /\ todo = [p \in Procs |-> {}] /\ out = [p \in Procs |-> {}]
    /\ faults = 0 /\ retries = 0
    /\ overlapped = FALSE /\ rewound = FALSE /\ torn = FALSE /\ stale = {}

-----------------------------------------------------------------------------
(* Where a stage begins, and what follows it: in the chain another job.  A *)
(* slip no run uses leaves the results out of the one job.                 *)
First(s) == <<"list", "load1", "load2", "report", "outcome">>[s]
AfterSkipsResults(s) == IF setup.whole /\ s < 5 THEN First(IF s = 3 THEN 5 ELSE s + 1) ELSE "close"
After(s) == IF setup.whole /\ s < 5 THEN First(s + 1) ELSE "close"

Work(p, place, todoNext, outNext) ==
    /\ at' = [at EXCEPT ![p] = place]
    /\ todo' = [todo EXCEPT ![p] = todoNext]
    /\ out' = [out EXCEPT ![p] = outNext]
    /\ UNCHANGED <<of, setup, jobVars>>

(* One step of a loop over the images: the last one moves on to next.      *)
Through(p, i, next, outNext) ==
    Work(p, IF todo[p] = {i} THEN next ELSE at[p], todo[p] \ {i}, outNext)

(* append_aesthetic_audit_line                                             *)
Row(i, row) ==
    /\ audit' = [audit EXCEPT ![i] = row]
    /\ current' = FALSE
    /\ stale' = stale \ {i}
    /\ UNCHANGED <<m1, m2, analyzed>>

Append(i, row) == Row(i, row) /\ UNCHANGED <<faults, retries, overlapped, rewound, torn>>

NoRow == UNCHANGED <<fileVars, analyzed, pastVars>>

(* What stage 1 takes as done, and what stage 3 does.                      *)
Done == {i \in Images : audit[i] \notin {"none", "placeholder"}}
NothingScored == {}   \* a slip no run uses: stage 3 starts over
Scored == IF setup.routeB THEN {i \in Images : audit[i] = "score"} ELSE Done

Skipped(done) == IF setup.checkpoint THEN done ELSE {}
-----------------------------------------------------------------------------
(* create_linear_staged_session_jobs writes one row per transaction: the   *)
(* chain is at work before it is complete, or never gets complete.         *)
Create(s) ==
    /\ ~setup.whole /\ s > 1 /\ status[s] = "NONE" /\ status[s - 1] # "NONE"
    /\ status' = [status EXCEPT ![s] = "QUEUED"]
    /\ UNCHANGED <<setup, holder, fileVars, analyzed, procVars, pastVars>>

(* JobExecutor claims the job and starts its pipeline; a stage waits for   *)
(* the success of the one before.                                          *)
DependencySatisfied(s) == s > 1 => status[s - 1] = "SUCCEEDED"

Start(p, s) ==
    /\ at[p] = "idle" /\ status[s] = "QUEUED" /\ DependencySatisfied(s)
    /\ status' = [status EXCEPT ![s] = "RUNNING"]
    /\ holder' = [holder EXCEPT ![s] = p]
    /\ of' = [of EXCEPT ![p] = s]
    /\ at' = [at EXCEPT ![p] = IF setup.force THEN "reset" ELSE First(s)]
    /\ UNCHANGED <<todo, out>>
    /\ overlapped' = (overlapped \/ \E q \in Procs : at[q] # "idle")
    /\ stale' = IF setup.whole THEN {i \in Images : audit[i] = "placeholder"} ELSE {}
    /\ UNCHANGED <<setup, fileVars, analyzed, faults, retries, rewound, torn>>

(* reset_for_full_rerun                                                    *)
Reset(p) ==
    /\ at[p] = "reset"
    /\ Work(p, First(1), {}, {})
    /\ audit' = [i \in Images |-> "none"] /\ m1' = {} /\ m2' = {}
    /\ current' = FALSE /\ stale' = {}
    /\ UNCHANGED <<analyzed, faults, retries, overlapped, rewound, torn>>

-----------------------------------------------------------------------------
(* Stage 1.  Without images left it empties its manifest at once.          *)
List(p) ==
    LET left == Images \ Skipped(Done) IN
    /\ at[p] = "list"
    /\ UNCHANGED <<audit, m2, current, analyzed, pastVars>>
    /\ IF left = {} THEN m1' = {} /\ Work(p, After(1), {}, {})
                    ELSE m1' = m1 /\ Work(p, "assess", left, {})

Assess(p, i) ==
    /\ at[p] = "assess" /\ i \in todo[p]
    /\ IF i \in Unfit THEN Append(i, "reject") /\ Through(p, i, "save1", out[p])
                      ELSE NoRow /\ Through(p, i, "save1", out[p] \cup {i})

(* assess_one raises: a fit image is turned down too.                      *)
AssessRaises(p, i) ==
    /\ at[p] = "assess" /\ i \in todo[p] /\ i \notin Unfit /\ faults < MaxFaults
    /\ faults' = faults + 1
    /\ Through(p, i, "save1", out[p])
    /\ Row(i, "reject")
    /\ UNCHANGED <<retries, overlapped, rewound, torn>>

(* _write_jsonl truncates and then writes: meanwhile a reader finds part   *)
(* of the file, and a crash leaves it.                                     *)
Save1(p) ==
    /\ at[p] = "save1"
    /\ m1' \in SUBSET out[p]
    /\ Work(p, "fill1", {}, out[p])
    /\ UNCHANGED <<audit, m2, current, analyzed, pastVars>>

Fill1(p) ==
    /\ at[p] = "fill1"
    /\ m1' = out[p]
    /\ Work(p, After(1), {}, {})
    /\ UNCHANGED <<audit, m2, current, analyzed, pastVars>>

-----------------------------------------------------------------------------
(* Stage 2 has no checkpoint: it takes what its manifest holds.           *)
Load1(p) ==
    /\ at[p] = "load1"
    /\ UNCHANGED <<audit, m1, current, analyzed, pastVars>>
    /\ IF m1 = {} THEN m2' = {} /\ Work(p, After(2), {}, {})
                 ELSE m2' = m2 /\ Work(p, "score", m1, {})

ScoreEnd(p) == IF at[p] = "score" THEN "gate" ELSE "broken"

Score(p, i) ==
    /\ at[p] \in {"score", "stalled"} /\ i \in todo[p]
    /\ IF i \in Dull THEN Append(i, "reject") /\ Through(p, i, ScoreEnd(p), out[p])
                     ELSE NoRow /\ Through(p, i, ScoreEnd(p), out[p] \cup {i})

(* No image finished in time: the run will fail, but the pool is left only *)
(* when every image has been scored.                                       *)
Stall(p) ==
    /\ at[p] = "score" /\ faults < MaxFaults
    /\ faults' = faults + 1
    /\ Work(p, "stalled", todo[p], out[p])
    /\ UNCHANGED <<fileVars, analyzed, retries, overlapped, rewound, torn, stale>>

Gate(p) ==
    LET turned == out[p] \ Admit(out[p]) IN
    /\ at[p] = "gate"
    /\ Work(p, IF turned = {} THEN "save2" ELSE "turn", turned, Admit(out[p]))
    /\ NoRow

Turn(p, i) ==
    /\ at[p] = "turn" /\ i \in todo[p]
    /\ Append(i, "reject") /\ Through(p, i, "save2", out[p])

Save2(p) ==
    /\ at[p] = "save2"
    /\ m2' \in SUBSET out[p]
    /\ Work(p, "fill2", {}, out[p])
    /\ UNCHANGED <<audit, m1, current, analyzed, pastVars>>

Fill2(p) ==
    /\ at[p] = "fill2"
    /\ m2' = out[p]
    /\ Work(p, After(2), {}, {})
    /\ UNCHANGED <<audit, m1, current, analyzed, pastVars>>

-----------------------------------------------------------------------------
(* Stage 3.  With nothing left to score it ends without writing.  A slip   *)
(* no run uses reads the wrong manifest.                                   *)
FirstManifest == m1
Candidates == m2

Load2(p) ==
    LET left == Candidates \ Skipped(Scored) IN
    /\ at[p] = "load2"
    /\ Work(p, IF left = {} THEN After(3) ELSE "plan", left, {})
    /\ NoRow

(* Only the chain writes back the candidates it put off.  A slip no run    *)
(* uses forgets them.                                                      *)
PutOffNothing(p, keep) == {}
PutOff(p, keep) == todo[p] \ keep
PlanEnd == IF setup.whole THEN After(3) ELSE "save3"

(* The chain's dispatch plan admits any number of candidates; degradation  *)
(* may put off the tail, or all of them.                                   *)
Plan(p) ==
    /\ at[p] = "plan"
    /\ \E keep \in SUBSET todo[p] :
          Work(p, IF keep = {} THEN PlanEnd ELSE "infer", keep, PutOff(p, keep))
    /\ NoRow

(* An image's answer is good, or degraded or another model's, or an error. *)
Answers == {"score", "weak", "error"}
Direct == {IF answer = "error" THEN "placeholder" ELSE answer : answer \in Answers}

(* fast_first: a fast answer for each image, then a full one for some.  A  *)
(* full answer replaces the fast one unless it is an error.                *)
Merged(fast, full) ==
    IF fast = "error" THEN "placeholder" ELSE IF full \in {"none", "error"} THEN fast ELSE full
FastFirst == {Merged(fast, full) : fast \in Answers, full \in Answers \cup {"none"}}

(* One image's row.  fast_first writes the rows after the last answer, the *)
(* other strategy each after its own: a run that ends may lose answers.    *)
Infer(p, i) ==
    /\ at[p] = "infer" /\ i \in todo[p]
    /\ \E row \in Direct \cup FastFirst : Append(i, row)
    /\ Through(p, i, PlanEnd, out[p])

Save3(p) ==
    /\ at[p] = "save3"
    /\ m2' \in SUBSET out[p]
    /\ Work(p, "fill3", {}, out[p])
    /\ UNCHANGED <<audit, m1, current, analyzed, pastVars>>

Fill3(p) ==
    /\ at[p] = "fill3"
    /\ m2' = out[p]
    /\ Work(p, After(3), {}, out[p])
    /\ UNCHANGED <<audit, m1, current, analyzed, pastVars>>

-----------------------------------------------------------------------------
(* run_write_artifact, and finalize_session_if_needed: both before the     *)
(* verdict on the job.                                                     *)
Report(p) ==
    /\ at[p] = "report"
    /\ current' = TRUE
    /\ Work(p, After(4), {}, out[p])
    /\ UNCHANGED <<audit, m1, m2, analyzed, pastVars>>

Outcome(p) ==
    /\ at[p] = "outcome"
    /\ analyzed' = TRUE
    /\ Work(p, After(5), {}, out[p])
    /\ UNCHANGED <<fileVars, pastVars>>

(* The fenced verdicts: a process that lost its claim records nothing.     *)
Held(p) == holder[of[p]] = p

Leave(p) ==
    /\ at' = [at EXCEPT ![p] = "idle"] /\ of' = [of EXCEPT ![p] = 1]
    /\ todo' = [todo EXCEPT ![p] = {}] /\ out' = [out EXCEPT ![p] = {}]

Verdict(p, result) ==
    /\ Leave(p)
    /\ status' = IF Held(p) THEN [status EXCEPT ![of[p]] = result] ELSE status
    /\ holder' = IF Held(p) THEN [holder EXCEPT ![of[p]] = NoProc] ELSE holder
    /\ UNCHANGED <<setup, fileVars, analyzed, retries, overlapped, rewound, stale>>

Succeed(p) == at[p] = "close" /\ Verdict(p, "SUCCEEDED") /\ UNCHANGED <<faults, torn>>

(* Any step may raise; the retry is automatic while attempts are left.     *)
Fail(p) ==
    /\ at[p] # "idle"
    /\ at[p] # "stalled"
    /\ IF at[p] = "broken" THEN UNCHANGED faults ELSE faults < MaxFaults /\ faults' = faults + 1
    /\ torn' = (torn \/ at[p] = "fill3")
    /\ \E result \in {"QUEUED", "FAILED"} : Verdict(p, result)

Crash(p) ==
    /\ at[p] # "idle" /\ faults < MaxFaults
    /\ faults' = faults + 1
    /\ torn' = (torn \/ at[p] = "fill3")
    /\ Leave(p)
    /\ UNCHANGED <<setup, jobVars, fileVars, analyzed, retries, overlapped, rewound, stale>>

(* The stuck scan gives back the claim of a dead process, and sometimes of *)
(* a live one, whose process goes on.                                      *)
Dead(s) == at[holder[s]] = "idle" \/ of[holder[s]] # s

Requeue(s) ==
    /\ status[s] = "RUNNING"
    /\ IF Dead(s) THEN UNCHANGED faults ELSE faults < MaxFaults /\ faults' = faults + 1
    /\ status' = [status EXCEPT ![s] = "QUEUED"]
    /\ holder' = [holder EXCEPT ![s] = NoProc]
    /\ UNCHANGED <<setup, fileVars, analyzed, procVars, retries, overlapped, rewound, torn, stale>>

(* The operator repeats a stage, even one that succeeded.                  *)
Retry(s) ==
    /\ status[s] \in {"SUCCEEDED", "FAILED"} /\ retries < MaxRetries
    /\ retries' = retries + 1
    /\ rewound' = (rewound \/ (~setup.whole /\ status[s] = "SUCCEEDED"))
    /\ status' = [status EXCEPT ![s] = "QUEUED"]
    /\ UNCHANGED <<setup, holder, fileVars, analyzed, procVars, faults, overlapped, torn, stale>>

-----------------------------------------------------------------------------
Step(p) ==
    \/ Reset(p)
    \/ List(p) \/ Save1(p) \/ Fill1(p)
    \/ Load1(p) \/ Gate(p) \/ Save2(p) \/ Fill2(p)
    \/ Load2(p) \/ Plan(p) \/ Save3(p) \/ Fill3(p)
    \/ Report(p) \/ Outcome(p) \/ Succeed(p)
    \/ \E i \in Images : Assess(p, i) \/ Score(p, i) \/ Turn(p, i) \/ Infer(p, i)

Next ==
    \/ \E p \in Procs : Step(p) \/ (\E i \in Images : AssessRaises(p, i)) \/ Stall(p) \/ Fail(p) \/ Crash(p)
    \/ \E p \in Procs, s \in Stages : Start(p, s)
    \/ \E s \in Stages : Create(s) \/ Requeue(s) \/ Retry(s)

Spec == Init /\ [][Next]_vars

-----------------------------------------------------------------------------
(* An image that stage 1 or stage 2 turns down never costs a model call,   *)
(* whatever is resumed, repeated, or read while it is being written.       *)
TurnedDownStaysOut ==
    \A i \in Unfit \cup Dull : audit[i] \in {"none", "reject"}

(* The job that has run stage s.                                           *)
Over(s) == status[IF setup.whole THEN 1 ELSE s] = "SUCCEEDED"

(* Unless two runs overlapped, no image falls between the stages, through  *)
(* failures, crashes, resumed and repeated runs.  Once stage 1 is over     *)
(* each image has an audit row or is in its manifest, and once stage 2 is, *)
(* in the manifest of stage 3: what was put off can be found again.  Only  *)
(* a run that ends while it rewrites that manifest can lose it from there. *)
(* A run past stage 3 has tried every placeholder of earlier runs again,   *)
(* or put the image off.                                                   *)
NoImageLost ==
    /\ ~overlapped => \A i \in Images :
          \/ audit[i] # "none"
          \/ /\ Over(1) => i \in m1
             /\ Over(2) /\ ~torn => i \in m2 \/ \E p \in Procs : at[p] = "fill3" /\ i \in out[p]
    /\ setup.whole /\ ~overlapped => \A p \in Procs :
          at[p] \in {"report", "outcome", "close"} => stale \subseteq out[p]

(* When the one job has succeeded, or each job of a chain that was created *)
(* to its end, the published results say what the audit log says - unless  *)
(* runs overlapped, or the operator repeated a stage alone.                *)
ResultsAreCurrent ==
    /\ \A s \in IF setup.whole THEN {1} ELSE Stages : status[s] = "SUCCEEDED"
    /\ ~overlapped /\ ~rewound
    => current /\ analyzed

(* Unless runs overlap, a run that checkpoints never replaces a score it   *)
(* would reuse: failed and resumed runs cost no model call twice, whatever *)
(* the gate admits of the batch that is left.  Only where the operator     *)
(* repeated a stage alone may stage 2 turn a scored image down.            *)
ScoresAreKept ==
    [][setup.checkpoint /\ ~overlapped =>
          \A i \in Images : audit[i] = "score" =>
             audit'[i] = "score" \/ (rewound /\ audit'[i] = "reject")]_vars
=============================================================================
