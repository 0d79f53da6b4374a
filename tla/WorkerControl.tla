--------------------------- MODULE WorkerControl ---------------------------
(***************************************************************************)
(* One row of the workers table and everybody who writes its status: the   *)
(* heartbeat senders of the host (idle threads, long-task threads and the  *)
(* tasks themselves), the operator's pause / drain / resume, and the scan  *)
(* that marks late workers OFFLINE.  An ONLINE heartbeat reads the status  *)
(* and then writes, in two SQLite transactions; JobRuntime takes the two   *)
(* as one step, this module does not.                                      *)
(***************************************************************************)
EXTENDS JobStatus, Integers

CONSTANT Beaters    \* the heartbeat senders of the host

VARIABLES
    status,    \* workers.status
    age,       \* of workers.last_heartbeat: 0 fresh, 1 older than 180 s
    beat,      \* what each sender will write: "none", "touch" or "online"
    command,   \* the operator's last command: PAUSED, DRAINING or ONLINE
    contested  \* a heartbeat about to write ONLINE was in flight at that command

vars == <<status, age, beat, command, contested>>

Stops == {"PAUSED", "DRAINING"}

TypeOK ==
    /\ status \in WorkerStatuses
    /\ age \in 0..1
    /\ beat \in [Beaters -> {"none", "touch", "online"}]
    /\ command \in Stops \cup {"ONLINE"}
    /\ contested \in BOOLEAN

Init ==
    /\ status = "ONLINE"
    /\ age = 0
    /\ beat = [b \in Beaters |-> "none"]
    /\ command = "ONLINE"
    /\ contested = FALSE

-----------------------------------------------------------------------------

\* heartbeat_worker(status="ONLINE") reads the row; a stop is not to be overwritten.
\* ReadForgetsDrain and ReadKeepsOffline are slips no run uses.
ReadForgetsDrain(b) ==
    /\ beat[b] = "none"
    /\ beat' = [beat EXCEPT ![b] = IF status \in {"PAUSED", "ERROR"} THEN "touch"
                                   ELSE "online"]
    /\ UNCHANGED <<status, age, command, contested>>

ReadKeepsOffline(b) ==
    /\ beat[b] = "none"
    /\ beat' = [beat EXCEPT ![b] = IF status \in ControlBlock \cup {"OFFLINE"}
                                   THEN "touch" ELSE "online"]
    /\ UNCHANGED <<status, age, command, contested>>

BeatRead(b) ==
    /\ beat[b] = "none"
    /\ beat' = [beat EXCEPT ![b] = IF status \in ControlBlock THEN "touch" ELSE "online"]
    /\ UNCHANGED <<status, age, command, contested>>

\* The UPDATE that follows: last_heartbeat, and the status unless it saw a stop.
BeatWrite(b) ==
    /\ beat[b] # "none"
    /\ status' = IF beat[b] = "online" THEN "ONLINE" ELSE status
    /\ age' = 0
    /\ beat' = [beat EXCEPT ![b] = "none"]
    /\ UNCHANGED <<command, contested>>

\* The process dies between the two, or the UPDATE fails (the loop goes on).
BeatLost(b) ==
    /\ beat[b] # "none"
    /\ beat' = [beat EXCEPT ![b] = "none"]
    /\ UNCHANGED <<status, age, command, contested>>

\* heartbeat(status="ERROR") after a recorded failure: no read, no exception.
BeatError(b) ==
    /\ beat[b] = "none"
    /\ status' = "ERROR"
    /\ age' = 0
    /\ UNCHANGED <<beat, command, contested>>

\* register_or_update_worker of a new process: one transaction.
Register ==
    /\ status' = IF status \in ControlBlock THEN status ELSE "ONLINE"
    /\ age' = 0
    /\ UNCHANGED <<beat, command, contested>>

Lapse ==
    /\ age = 0
    /\ age' = 1
    /\ UNCHANGED <<status, beat, command, contested>>

\* mark_stale_workers_offline
MarkOffline ==
    /\ status = "ONLINE" /\ age = 1
    /\ status' = "OFFLINE"
    /\ UNCHANGED <<age, beat, command, contested>>

\* POST /api/infra/workers/{id}/pause, drain and resume.
Order(to) ==
    /\ status' = to
    /\ command' = to
    /\ contested' = \E b \in Beaters : beat[b] = "online"
    /\ UNCHANGED <<age, beat>>

Pause == Order("PAUSED")
Drain == Order("DRAINING")
Resume == Order("ONLINE")

BeatStep(b) == BeatRead(b) \/ BeatWrite(b) \/ BeatLost(b) \/ BeatError(b)

Next ==
    \/ \E b \in Beaters : BeatStep(b)
    \/ Register \/ Lapse \/ MarkOffline \/ Pause \/ Drain \/ Resume

Spec == Init /\ [][Next]_vars

\* The heartbeat threads go on for ever, and not every one of their writes fails.
Fairness == \A b \in Beaters : WF_vars(BeatRead(b)) /\ SF_vars(BeatWrite(b))
FairSpec == Spec /\ Fairness

-----------------------------------------------------------------------------

\* A stop that no heartbeat was racing with holds until the operator resumes the
\* worker, through every later heartbeat, new process, failure and offline scan: the
\* worker stays as ordered, or in ERROR, and never takes a job.
UncontestedStopHolds ==
    command \in Stops /\ ~contested => status \in {command, "ERROR"}

\* A worker marked OFFLINE by mistake does not stay there while its host is alive.
OfflineRecovers == status = "OFFLINE" ~> status # "OFFLINE"

-----------------------------------------------------------------------------
(* What the repository says and the code does not keep.                    *)

\* "Heartbeat does not override this state": a stopped worker does not take jobs.
StopIsNotResumed == command \in Stops => status # "ONLINE"
=============================================================================
