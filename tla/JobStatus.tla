----------------------------- MODULE JobStatus -----------------------------
(***************************************************************************)
(* The values of jobs.status and of workers.status, the groups the code    *)
(* puts them in, and the table of transitions the code documents.  Every   *)
(* other module of the job runtime uses these names.                       *)
(***************************************************************************)

\* JOB_STATUSES_RUNNABLE, JOB_STATUSES_ACTIVE_PIPELINE, JOB_STATUSES_TERMINAL.
Runnable == {"QUEUED", "FAILED_RETRYABLE"}
Progress == {"PREPROCESSING", "INFERENCING", "POSTPROCESSING"}
Active == {"CLAIMED"} \cup Progress
Terminal == {"SUCCEEDED", "FAILED_PERMANENT", "DEAD_LETTERED", "CANCELLED"}

\* "ABSENT" stands for a row that create_job has not inserted yet.
JobStatuses == {"ABSENT"} \cup Runnable \cup Active \cup Terminal

\* What an executor may write at the end of an attempt (fenced writes).
Outcomes == {"SUCCEEDED", "FAILED_RETRYABLE", "FAILED_PERMANENT", "DEAD_LETTERED"}

\* JOB_STATUSES_MANUAL_RETRY_ALLOWED_FROM
RetryAllowedFrom == Terminal \cup {"FAILED_RETRYABLE"}

WorkerStatuses == {"ONLINE", "OFFLINE", "PAUSED", "DRAINING", "ERROR"}

\* WORKER_STATUS_CONTROL_BLOCK_HEARTBEAT: an ONLINE heartbeat leaves these alone.
ControlBlock == {"PAUSED", "DRAINING", "ERROR"}

(***************************************************************************)
(* job_transition_is_documented_ssot over the two tables of edges.         *)
(***************************************************************************)
ForwardEdges ==
    {<<"CLAIMED", "PREPROCESSING">>, <<"PREPROCESSING", "INFERENCING">>,
     <<"INFERENCING", "POSTPROCESSING">>}

MaintenanceEdges ==
    (Runnable \X {"CLAIMED"})
        \cup {<<"FAILED_RETRYABLE", "DEAD_LETTERED">>}
        \cup (Active \X {"QUEUED"})
        \cup ((Active \cup Runnable) \X {"CANCELLED"})
        \cup (RetryAllowedFrom \X {"QUEUED"})

Documented(from, to) ==
    <<from, to>> \in ForwardEdges \cup MaintenanceEdges \cup (Active \X Outcomes)
=============================================================================
