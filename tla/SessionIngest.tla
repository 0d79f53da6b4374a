---------------------------- MODULE SessionIngest ----------------------------
(***************************************************************************)
(* One session from the memory card to the outcome in the ledger.  The Go  *)
(* ingest worker polls the card, copies each new file into the archive,    *)
(* records it, extracts previews and calls the gallery's hook; the hook's  *)
(* task seeds an analysis job unless the session has an open one, as the   *)
(* operator may from the Studio; the job lists the previews, works on them *)
(* and finally marks every ingested photo of the session ANALYZED.  Names  *)
(* are unique on the card; claims are JobRuntime's subject, what a run     *)
(* does with its images SessionAnalysis's.                                 *)
(***************************************************************************)
EXTENDS Naturals, FiniteSets

CONSTANTS
    Photos,     \* the files the camera writes
    Imported,   \* those that may be in the archive by other means
    NoPhoto,    \* the worker is between two files
    Seeders,    \* tasks and requests that may create a job at the same time
    Jobs,       \* names of job rows; the name of a closed row is used again
    MaxFaults,  \* bound on errors, crashes and lost calls
    MaxAsks     \* bound on the operator's requests

ASSUME ImportedAssumption == Imported \subseteq Photos
ASSUME NoPhotoAssumption == NoPhoto \notin Photos
ASSUME BoundAssumption == MaxFaults \in Nat /\ MaxAsks \in Nat

VARIABLES
    card,       \* files on the card
    copies,     \* per photo: the worker's copy, one with the card's times, one under the spare name
    ledger,     \* photos.status, "none" without a row
    previews,   \* photos with a preview
    at, todo,   \* the worker: where it is, which candidates it has not tried
    current,    \* the candidate whose copy it makes
    fresh,      \* nNew, as the set of the photos it counts
    hooks,      \* hook calls on their way
    seeder,     \* per task: where it is
    job,        \* per row: not open, queued, or how far its run is
    seen,       \* per row: the images its run lists
    judged,     \* photos a run has got through
    faults, asks,
    missed,     \* history: photos whose hook, or whose place in a run, was lost
    torn,       \* history: photos copied by a scan that did not record them
    late,       \* history: photos recorded after a run listed, or listed without preview
    raced       \* history: two seeders found no open job at once

workerVars == <<at, todo, current, fresh>>
fileVars == <<card, copies, ledger, previews>>
jobVars == <<job, seen, judged>>
countVars == <<faults, asks>>
pastVars == <<missed, torn, late, raced>>
vars == <<fileVars, workerVars, hooks, seeder, jobVars, countVars, pastVars>>

TypeOK ==
    /\ card \subseteq Photos
    /\ copies \in [Photos -> SUBSET {"own", "kept", "spare"}]
    /\ ledger \in [Photos -> {"none", "INGESTED", "ANALYZED"}]
    /\ previews \subseteq Photos
    /\ at \in {"idle", "each", "row", "extract"}
    /\ todo \subseteq Photos
    /\ current \in Photos \cup {NoPhoto}
    /\ at = "row" <=> current \in Photos
    /\ fresh \subseteq Photos
    /\ hooks \in Nat
    /\ seeder \in [Seeders -> {"idle", "read", "check", "create"}]
    /\ job \in [Jobs -> {"none", "queued", "work", "close"}]
    /\ seen \in [Jobs -> SUBSET Photos]
    /\ judged \subseteq Photos
    /\ faults \in 0..MaxFaults /\ asks \in 0..MaxAsks
    /\ missed \subseteq Photos /\ torn \subseteq Photos /\ late \subseteq Photos
    /\ raced \in BOOLEAN

Init ==
    /\ card = {}
    /\ \E kept \in SUBSET Imported : copies = [p \in Photos |-> IF p \in kept THEN {"kept"} ELSE {}]
    /\ ledger = [p \in Photos |-> "none"] /\ previews = {}
    /\ at = "idle" /\ todo = {} /\ current = NoPhoto /\ fresh = {}
    /\ hooks = 0 /\ seeder = [s \in Seeders |-> "idle"]
    /\ job = [j \in Jobs |-> "none"] /\ seen = [j \in Jobs |-> {}] /\ judged = {}
    /\ faults = 0 /\ asks = 0
    /\ missed = {} /\ torn = {} /\ late = {} /\ raced = FALSE

Fault == faults < MaxFaults /\ faults' = faults + 1 /\ UNCHANGED asks
Ingested == {p \in Photos : ledger[p] = "INGESTED"}

Shoot(p) ==
    /\ p \notin card
    /\ card' = card \cup {p}
    /\ UNCHANGED <<copies, ledger, previews, workerVars, hooks, seeder, jobVars, countVars, pastVars>>

-----------------------------------------------------------------------------
(* The ingest worker.  A slip no run uses takes a file for done that has   *)
(* been copied.                                                            *)
ListingUncopied == {p \in card : copies[p] = {}}
Listing == card

Poll ==
    /\ at = "idle" /\ Listing # {}
    /\ at' = "each" /\ todo' = Listing /\ fresh' = {}
    /\ UNCHANGED <<fileVars, current, hooks, seeder, jobVars, countVars, pastVars>>

(* A slip no run uses takes a photo that was analyzed for a new one.       *)
KnownIngested(p) == ledger[p] = "INGESTED"
Known(p) == ledger[p] # "none"

(* A row that appears while a run is past its listing.                     *)
RowFor(p) ==
    /\ ledger' = [ledger EXCEPT ![p] = "INGESTED"]
    /\ late' = IF \E j \in Jobs : job[j] = "work" THEN late \cup {p} ELSE late

Skip(p) ==
    /\ at = "each" /\ p \in todo /\ Known(p)
    /\ todo' = todo \ {p}
    /\ UNCHANGED <<fileVars, at, current, fresh, hooks, seeder, jobVars, countVars, pastVars>>

(* EnsureIngestedRow: the archive has the file, with its times.            *)
Repair(p) ==
    /\ at = "each" /\ p \in todo /\ ~Known(p) /\ "kept" \in copies[p]
    /\ RowFor(p)
    /\ todo' = todo \ {p} /\ fresh' = fresh \cup {p}
    /\ UNCHANGED <<card, copies, previews, at, current, hooks, seeder, jobVars, countVars, missed, torn, raced>>

(* The worker's copy has its own times: a file it copied before without a  *)
(* row goes under the spare name.                                          *)
Dest(p) == IF "own" \in copies[p] THEN "spare" ELSE "own"

Copy(p) ==
    /\ at = "each" /\ p \in todo /\ ~Known(p) /\ "kept" \notin copies[p]
    /\ copies' = [copies EXCEPT ![p] = @ \cup {Dest(p)}]
    /\ at' = "row" /\ current' = p
    /\ UNCHANGED <<card, ledger, previews, todo, fresh, hooks, seeder, jobVars, countVars, pastVars>>

(* isBusyOrIO: the scan goes on without the file.                          *)
CopyFails(p) ==
    /\ at = "each" /\ p \in todo /\ ~Known(p) /\ "kept" \notin copies[p]
    /\ Fault
    /\ todo' = todo \ {p}
    /\ UNCHANGED <<fileVars, at, current, fresh, hooks, seeder, jobVars, pastVars>>

Record ==
    /\ at = "row"
    /\ RowFor(current)
    /\ at' = "each" /\ current' = NoPhoto
    /\ todo' = todo \ {current} /\ fresh' = fresh \cup {current}
    /\ UNCHANGED <<card, copies, previews, hooks, seeder, jobVars, countVars, missed, torn, raced>>

(* Another error ends the scan, and with it what it has counted.           *)
GiveUp ==
    /\ at' = "idle" /\ todo' = {} /\ current' = NoPhoto /\ fresh' = {}
    /\ missed' = missed \cup fresh
    /\ UNCHANGED <<card, ledger, previews, hooks, seeder, jobVars, late, raced>>

ScanFails == at = "each" /\ Fault /\ GiveUp /\ UNCHANGED <<copies, torn>>

(* The copy is removed when the transaction fails, not when its commit does. *)
RecordFails ==
    /\ at = "row" /\ Fault /\ GiveUp
    /\ \/ /\ copies' = [copies EXCEPT ![current] = @ \ {IF "spare" \in @ THEN "spare" ELSE "own"}]
          /\ UNCHANGED torn
       \/ /\ torn' = torn \cup {current}
          /\ UNCHANGED copies

WorkerCrash ==
    /\ at # "idle" /\ Fault /\ GiveUp
    /\ torn' = IF at = "row" THEN torn \cup {current} ELSE torn
    /\ UNCHANGED copies

(* Without a new file the scan ends before previews and hook.  A slip no   *)
(* run uses miscounts.                                                     *)
AnyNewMiscounted == Cardinality(fresh) > 1
AnyNew == fresh # {}

ScanEnds ==
    /\ at = "each" /\ todo = {}
    /\ at' = IF AnyNew THEN "extract" ELSE "idle"
    /\ fresh' = IF AnyNew THEN fresh ELSE {}
    /\ UNCHANGED <<fileVars, todo, current, hooks, seeder, jobVars, countVars, pastVars>>

(* preview-extractor: every file of the archive without a preview.         *)
Unextracted == {p \in Photos : copies[p] # {} /\ p \notin previews}

Extract(p) ==
    /\ at = "extract" /\ p \in Unextracted
    /\ previews' = previews \cup {p}
    /\ UNCHANGED <<card, copies, ledger, workerVars, hooks, seeder, jobVars, countVars, pastVars>>

PostHook == at' = "idle" /\ fresh' = {} /\ hooks' = hooks + 1

CallHook ==
    /\ at = "extract" /\ Unextracted = {}
    /\ PostHook
    /\ UNCHANGED <<fileVars, todo, current, seeder, jobVars, countVars, pastVars>>

(* A failing extractor is a warning: the hook is called all the same.      *)
ExtractFails ==
    /\ at = "extract" /\ Unextracted # {} /\ Fault
    /\ PostHook
    /\ UNCHANGED <<fileVars, todo, current, seeder, jobVars, pastVars>>

HookLost ==
    /\ hooks > 0 /\ Fault
    /\ hooks' = hooks - 1
    /\ missed' = missed \cup Ingested
    /\ UNCHANGED <<fileVars, workerVars, seeder, jobVars, torn, late, raced>>

-----------------------------------------------------------------------------
(* process_brain_ingested; the Studio's request asks for no candidates.    *)
HookTask(s) ==
    /\ hooks > 0 /\ seeder[s] = "idle"
    /\ hooks' = hooks - 1
    /\ seeder' = [seeder EXCEPT ![s] = "read"]
    /\ UNCHANGED <<fileVars, workerVars, jobVars, countVars, pastVars>>

Ask(s) ==
    /\ seeder[s] = "idle" /\ asks < MaxAsks
    /\ asks' = asks + 1
    /\ seeder' = [seeder EXCEPT ![s] = "check"]
    /\ UNCHANGED <<fileVars, workerVars, hooks, jobVars, faults, pastVars>>

SeedRead(s) ==
    /\ seeder[s] = "read"
    /\ seeder' = [seeder EXCEPT ![s] = IF Ingested = {} THEN "idle" ELSE "check"]
    /\ UNCHANGED <<fileVars, workerVars, hooks, jobVars, countVars, pastVars>>

(* A slip no run uses looks for jobs that wait only.                       *)
OpenWaiting == {j \in Jobs : job[j] = "queued"}
Open == {j \in Jobs : job[j] # "none"}

(* A run that has marked its photos is still open: a photo that came since *)
(* gets no job.                                                            *)
SeedCheck(s) ==
    /\ seeder[s] = "check"
    /\ seeder' = [seeder EXCEPT ![s] = IF Open = {} THEN "create" ELSE "idle"]
    /\ missed' = IF Open # {} /\ \A j \in Open : job[j] = "close" THEN missed \cup Ingested ELSE missed
    /\ raced' = (raced \/ (Open = {} /\ \E t \in Seeders \ {s} : seeder[t] = "create"))
    /\ UNCHANGED <<fileVars, workerVars, hooks, jobVars, countVars, torn, late>>

SeedCreate(s, j) ==
    /\ seeder[s] = "create" /\ job[j] = "none"
    /\ job' = [job EXCEPT ![j] = "queued"]
    /\ seeder' = [seeder EXCEPT ![s] = "idle"]
    /\ UNCHANGED <<fileVars, workerVars, hooks, seen, judged, countVars, pastVars>>

-----------------------------------------------------------------------------
(* The claim, and list_source_images.  A slip no run uses takes the last   *)
(* run's list.                                                             *)
SourceImagesBefore == judged
SourceImages == previews

List(j) ==
    /\ job[j] = "queued"
    /\ job' = [job EXCEPT ![j] = "work"]
    /\ seen' = [seen EXCEPT ![j] = SourceImages]
    /\ late' = late \cup (Ingested \ previews)
    /\ UNCHANGED <<fileVars, workerVars, hooks, seeder, judged, countVars, missed, torn, raced>>

(* finalize_analyzed takes every ingested photo of the session.            *)
OutcomeOf(j) == Ingested

Finalize(j) ==
    /\ job[j] = "work"
    /\ job' = [job EXCEPT ![j] = "close"]
    /\ judged' = judged \cup seen[j]
    /\ ledger' = [p \in Photos |-> IF p \in OutcomeOf(j) THEN "ANALYZED" ELSE ledger[p]]
    /\ UNCHANGED <<card, copies, previews, workerVars, hooks, seeder, seen, countVars, pastVars>>

Close(j) ==
    /\ job' = [job EXCEPT ![j] = "none"]
    /\ seen' = [seen EXCEPT ![j] = {}]
    /\ UNCHANGED <<fileVars, workerVars, hooks, seeder, judged>>

Succeed(j) == job[j] = "close" /\ Close(j) /\ UNCHANGED <<countVars, pastVars>>

(* An error or a lost claim: the row is runnable again, or closed.         *)
RunFails(j) ==
    /\ job[j] \in {"work", "close"} /\ Fault
    /\ \/ /\ job' = [job EXCEPT ![j] = "queued"] /\ seen' = [seen EXCEPT ![j] = {}]
          /\ UNCHANGED <<fileVars, workerVars, hooks, seeder, judged, pastVars>>
       \/ /\ Close(j)
          /\ missed' = missed \cup Ingested
          /\ UNCHANGED <<torn, late, raced>>

-----------------------------------------------------------------------------
WorkerStep ==
    \/ Poll \/ Record \/ ScanEnds \/ CallHook
    \/ \E p \in Photos : Skip(p) \/ Repair(p) \/ Copy(p) \/ Extract(p)

SeederStep(s) == HookTask(s) \/ SeedRead(s) \/ SeedCheck(s) \/ \E j \in Jobs : SeedCreate(s, j)

JobStep(j) == List(j) \/ Finalize(j) \/ Succeed(j)

Failure ==
    \/ \E p \in Photos : CopyFails(p)
    \/ ScanFails \/ RecordFails \/ WorkerCrash \/ ExtractFails \/ HookLost
    \/ \E j \in Jobs : RunFails(j)

Next ==
    \/ WorkerStep \/ Failure
    \/ \E p \in Photos : Shoot(p)
    \/ \E s \in Seeders : SeederStep(s) \/ Ask(s)
    \/ \E j \in Jobs : JobStep(j)

Spec == Init /\ [][Next]_vars

(* The worker polls for ever, tasks are executed, queued jobs are claimed. *)
Fairness ==
    /\ WF_vars(WorkerStep)
    /\ \A s \in Seeders : WF_vars(SeederStep(s))
    /\ \A j \in Jobs : WF_vars(JobStep(j))

FairSpec == Spec /\ Fairness

-----------------------------------------------------------------------------
RowHasFile == \A p \in Photos : ledger[p] # "none" => copies[p] # {}

SecondCopyOnlyIfTorn == \A p \in Photos : {"own", "spare"} \subseteq copies[p] => p \in torn

(* A photo in the ledger is in the archive, whichever step of its ingest   *)
(* failed or crashed; and polling the card for ever copies a file twice    *)
(* only after a scan that copied it without recording it.                  *)
FilesMatchRows == RowHasFile /\ SecondCopyOnlyIfTorn

(* Every ingested photo is on its way to a job, unless a scan broke off or *)
(* a hook was lost after it, or a run marked its photos just before.       *)
NothingStranded ==
    \A p \in Ingested \ missed :
        \/ p \in fresh
        \/ hooks > 0
        \/ \E s \in Seeders : seeder[s] # "idle"
        \/ \E j \in Jobs : job[j] \in {"queued", "work"}

(* A session has one open job, unless two seeders looked at once.          *)
OneOpenJob == ~raced => Cardinality(Open) <= 1

(* A photo is ANALYZED without a run having looked at it only when it came *)
(* after the run's listing, or had no preview by then.                     *)
UnseenOnlyIfLate ==
    \A p \in Photos : ledger[p] = "ANALYZED" => p \in judged \cup late

(* Every photo on the card is recorded and analyzed in the end, through    *)
(* errors, crashes, busy files and several seeders, unless it was missed.  *)
PhotosAreAnalyzed ==
    \A p \in Photos : p \in card ~> ledger[p] = "ANALYZED" \/ p \in missed
=============================================================================
