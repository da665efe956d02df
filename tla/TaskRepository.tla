---------------------------- MODULE TaskRepository ----------------------------
(***************************************************************************)
(* The tasks and task_payloads tables of the async gateway and the SQL     *)
(* statements of internal/store, each as an operator on one row.  A row    *)
(* that is not in the table has status "none".                             *)
(*                                                                         *)
(* Abstracted: model, owner, path, query, protocol, worker_id, the summary *)
(* and the message texts (no statement reads them), created_at/updated_at, *)
(* and the timestamps: finished_at and request_dispatched_at only as       *)
(* NULL / NOT NULL, heartbeat_at as NULL, recent, or older than the        *)
(* recovery scan's stale threshold.                                        *)
(***************************************************************************)

Pending  == {"accepted", "queued", "running"}
Terminal == {"succeeded", "failed", "uncertain"}
Status   == {"none"} \cup Pending \cup Terminal

\* error_code: the codes the properties tell apart; every code a forwarding
\* attempt can end with (auth_failed, upstream_error, ...) is "upstream".
Code == {"", "queue_full", "recovery_payload_missing", "upstream",
         "upstream_transport_uncertain", "gateway_shutdown_uncertain"}

Row == [status : Status, finished : BOOLEAN, dispatched : BOOLEAN,
        heartbeat : {"null", "recent", "stale"}, code : Code]

NoRow == [status |-> "none", finished |-> FALSE, dispatched |-> FALSE,
          heartbeat |-> "null", code |-> ""]

Exists(r)     == r.status # "none"
Unfinished(r) == Exists(r) /\ ~r.finished

-----------------------------------------------------------------------------
\* Variant: the INSERT already says queued.
AcceptedRowQueued == [NoRow EXCEPT !.status = "queued"]

\* CreateAcceptedTask: both INSERTs commit together; this is the tasks row.
AcceptedRow == [NoRow EXCEPT !.status = "accepted"]

\* markQueuedSQL: WHERE task_id = $1, whatever the status.
QueuedRow(r) == IF Exists(r) THEN [r EXCEPT !.status = "queued"] ELSE r

\* markRunningSQL: WHERE task_id = $1, whatever the status.
RunningRow(r) ==
    IF Exists(r) THEN [r EXCEPT !.status = "running", !.heartbeat = "recent"] ELSE r

\* markRequestDispatchedSQL: WHERE task_id = $1, whatever the status.
DispatchedRow(r) == IF Exists(r) THEN [r EXCEPT !.dispatched = TRUE] ELSE r

\* updateHeartbeatSQL: only while running and not finished.
HeartbeatRow(r) ==
    IF r.status = "running" /\ ~r.finished
    THEN [r EXCEPT !.heartbeat = "recent"] ELSE r

\* Variant: no AND finished_at IS NULL.
FinishedRowUnguarded(r, status, code) ==
    IF Exists(r)
    THEN [r EXCEPT !.status = status, !.finished = TRUE, !.code = code] ELSE r

\* finishSucceededSQL, finishFailedSQL, markUncertainSQL: AND finished_at IS NULL.
FinishedRow(r, status, code) ==
    IF Unfinished(r)
    THEN [r EXCEPT !.status = status, !.finished = TRUE, !.code = code] ELSE r

\* Variant: no AND request_dispatched_at IS NOT NULL.
ForcedRowUndispatched(r) ==
    IF r.status = "running" /\ ~r.finished
    THEN FinishedRow(r, "uncertain", "gateway_shutdown_uncertain") ELSE r

\* markDispatchedRunningUncertainSQL: no task_id; every row it matches.
ForcedRow(r) ==
    IF r.status = "running" /\ ~r.finished /\ r.dispatched
    THEN FinishedRow(r, "uncertain", "gateway_shutdown_uncertain") ELSE r

\* Variant: only running tasks count as interrupted.
RecoverableRunningOnly(r) ==
    r.status = "running" /\ r.heartbeat \in {"null", "stale"}

\* findRecoverableTasksSQL: the WHERE clause.
Recoverable(r) ==
    \/ r.status \in {"accepted", "queued"}
    \/ r.status = "running" /\ r.heartbeat \in {"null", "stale"}

\* deleteExpiredTasksBatchSQL without the age: what is never deleted.
Deletable(r) == r.finished /\ r.status \in Terminal

\* Variant: payload_expires_at alone decides.
PayloadDeletableByAge(r) == TRUE

\* deleteExpiredPayloadsBatchSQL without the age.
PayloadDeletable(r) == r.finished \/ r.dispatched
=============================================================================
