----------------------------- MODULE AsyncGateway -----------------------------
(***************************************************************************)
(* The task lifecycle of async-gateway: submit handlers, the in-memory     *)
(* queue, the worker pool with its forwarder, heartbeats and               *)
(* request-dispatched marks, the recovery scan at start-up, the cleaner,   *)
(* graceful shutdown, and crashes of the whole process.  One gateway       *)
(* process at a time runs against one PostgreSQL, as the repository        *)
(* deploys it.                                                             *)
(*                                                                         *)
(* Each UPDATE or INSERT is one atomic step of the database.  It may fail  *)
(* (lost connection, a cancelled request context): then the caller sees an *)
(* error and the statement may or may not have been applied.               *)
(***************************************************************************)
EXTENDS Naturals, Sequences, FiniteSets, TaskRepository

CONSTANTS
    Tasks,        \* one submission each: newTaskID draws 80 random bits
    Workers,      \* MAX_INFLIGHT_TASKS goroutines
    NoTask,       \* a worker or the scanner that holds no task
    QueueCap,     \* MAX_QUEUE_SIZE, at least 1
    ScanLimit,    \* defaultScanLimit of the recovery scan
    MaxDeaths,    \* bound: how often the process dies
    MaxFaults     \* bound: how many database statements fail

ASSUME ConstantsAssumption ==
    /\ NoTask \notin Tasks
    /\ QueueCap \in Nat \ {0}
    /\ ScanLimit \in Nat \ {0}
    /\ MaxDeaths \in Nat
    /\ MaxFaults \in Nat

VARIABLES
    \* PostgreSQL: survives the process
    rows,         \* the tasks table
    payload,      \* the task_payloads table: the tasks that have a payload row
    faults,       \* failed statements so far
    \* the process
    boot,         \* ListenAndServe: "off", "scan" (recovery.Run), "serving"
    down,         \* runShutdown: how far it is
    deaths,
    queue,        \* MemoryQueue.items
    scan,         \* what FindRecoverableTasks returned and Run has yet to handle
    cur, rpc,     \* the task handleTask is at, and the step it is at
    sub,          \* one submit handler per task: its step, then its answer
    wpc, wtask,   \* the workers: step and task
    outcome,      \* the ForwardOutcome a worker holds
    mark,         \* the WroteRequest callback of the task's current attempt
    sent          \* history: requests written to NewAPI for the task

dbVars     == <<rows, payload, faults>>
scanVars   == <<scan, cur, rpc>>
workerVars == <<wpc, wtask, outcome>>
vars == <<dbVars, boot, down, deaths, queue, scanVars, sub, workerVars, mark, sent>>

-----------------------------------------------------------------------------
DownStage == {"up", "draining", "flagged", "closed", "forced", "stopped"}
SubBusy   == {"create", "mark", "enqueue", "send", "fail"}
SubAnswer == {"r202", "r500", "r503", "draining503", "panic", "reset"}
RpcStep   == {"next", "enqueue", "send", "fail"}
WorkerPc  == {"off", "idle", "load", "markRunning", "forward", "sent", "finish", "exited"}
MarkStep  == {"none", "written", "wrote", "done"}

\* Summary, failure code, or TransportUncertain.
Outcome == {"none", "succeeded", "failed", "uncertain"}

TypeOK ==
    /\ rows \in [Tasks -> Row]
    /\ payload \in SUBSET Tasks
    /\ faults \in Nat
    /\ boot \in {"off", "scan", "serving"}
    /\ down \in DownStage
    /\ deaths \in Nat
    /\ queue \in Seq(Tasks)
    /\ scan \in SUBSET Tasks
    /\ cur \in Tasks \cup {NoTask}
    /\ rpc \in RpcStep
    /\ sub \in [Tasks -> {"idle"} \cup SubBusy \cup SubAnswer]
    /\ wpc \in [Workers -> WorkerPc]
    /\ wtask \in [Workers -> Tasks \cup {NoTask}]
    /\ outcome \in [Workers -> Outcome]
    /\ mark \in [Tasks -> MarkStep]
    /\ sent \in [Tasks -> Nat]

Init ==
    /\ rows = [t \in Tasks |-> NoRow]
    /\ payload = {}
    /\ faults = 0
    /\ boot = "off"
    /\ down = "up"
    /\ deaths = 0
    /\ queue = << >>
    /\ scan = {}
    /\ cur = NoTask
    /\ rpc = "next"
    /\ sub = [t \in Tasks |-> "idle"]
    /\ wpc = [w \in Workers |-> "off"]
    /\ wtask = [w \in Workers |-> NoTask]
    /\ outcome = [w \in Workers |-> "none"]
    /\ mark = [t \in Tasks |-> "none"]
    /\ sent = [t \in Tasks |-> 0]

-----------------------------------------------------------------------------
(* Database statements.                                                    *)

\* A statement that would turn t's row into r; ok says whether the caller
\* gets a result or an error.
Exec(t, r, ok) ==
    \/ /\ ok
       /\ rows' = [rows EXCEPT ![t] = r]
       /\ UNCHANGED faults
    \/ /\ ~ok
       /\ faults < MaxFaults
       /\ faults' = faults + 1
       /\ rows' \in {rows, [rows EXCEPT ![t] = r]}

\* A SELECT: it changes nothing, and may fail.
ReadDB(ok) ==
    /\ ok \/ faults < MaxFaults
    /\ faults' = IF ok THEN faults ELSE faults + 1

\* execAffectingOne: no error, and a row was hit.
Updated(ok, hit) == ok /\ hit

-----------------------------------------------------------------------------
(* MemoryQueue.  Close closes the flag channel, then the item channel;     *)
(* TryEnqueue tests the flag, then sends without blocking.                 *)

FlagClosed  == down \in {"flagged", "closed", "forced", "stopped"}
ItemsClosed == down \in {"closed", "forced", "stopped"}
HasRoom     == Len(queue) < QueueCap

-----------------------------------------------------------------------------
(* Submit handlers (SubmitHandler and ImageSubmitHandler: the same steps   *)
(* after validation), behind DrainingSubmitHandler.                        *)

SubmitGate(t) ==
    /\ boot = "serving"
    /\ sub[t] = "idle"
    /\ sub' = [sub EXCEPT ![t] = IF down = "up" THEN "create" ELSE "draining503"]
    /\ UNCHANGED <<dbVars, boot, down, deaths, queue, scanVars, workerVars, mark, sent>>

\* One transaction inserts the tasks row and the payload row.
CreateAcceptedTask(t) ==
    /\ sub[t] = "create"
    /\ \E ok \in BOOLEAN :
          /\ Exec(t, AcceptedRow, ok)
          /\ payload' = IF Exists(rows'[t]) THEN payload \cup {t} ELSE payload
          /\ sub' = [sub EXCEPT ![t] = IF ok THEN "mark" ELSE "r500"]
    /\ UNCHANGED <<boot, down, deaths, queue, scanVars, workerVars, mark, sent>>

SubmitMarkQueued(t) ==
    /\ sub[t] = "mark"
    /\ \E ok \in BOOLEAN :
          /\ Exec(t, QueuedRow(rows[t]), ok)
          /\ sub' = [sub EXCEPT ![t] = IF Updated(ok, Exists(rows[t])) THEN "enqueue" ELSE "r500"]
    /\ UNCHANGED <<payload, boot, down, deaths, queue, scanVars, workerVars, mark, sent>>

SubmitTestClosed(t) ==
    /\ sub[t] = "enqueue"
    /\ sub' = [sub EXCEPT ![t] = IF FlagClosed THEN "fail" ELSE "send"]
    /\ UNCHANGED <<dbVars, boot, down, deaths, queue, scanVars, workerVars, mark, sent>>

\* Variant: the item is sent before the row is marked queued.
SubmitSendThenMark(t) ==
    /\ sub[t] = "send" /\ ~ItemsClosed /\ HasRoom
    /\ queue' = Append(queue, t)
    /\ sub' = [sub EXCEPT ![t] = "mark"]
    /\ UNCHANGED <<dbVars, boot, down, deaths, scanVars, workerVars, mark, sent>>

\* The send on the item channel.  On a closed channel it panics, and
\* net/http drops the connection without an answer.
SubmitSend(t) ==
    /\ sub[t] = "send"
    /\ \/ /\ ItemsClosed
          /\ sub' = [sub EXCEPT ![t] = "panic"]
          /\ UNCHANGED queue
       \/ /\ ~ItemsClosed /\ HasRoom
          /\ queue' = Append(queue, t)
          /\ sub' = [sub EXCEPT ![t] = "r202"]
       \/ /\ ~ItemsClosed /\ ~HasRoom
          /\ sub' = [sub EXCEPT ![t] = "fail"]
          /\ UNCHANGED queue
    /\ UNCHANGED <<dbVars, boot, down, deaths, scanVars, workerVars, mark, sent>>

\* Variant: 503 without FinishFailed.
SubmitRefuseOnly(t) ==
    /\ sub[t] = "fail"
    /\ sub' = [sub EXCEPT ![t] = "r503"]
    /\ UNCHANGED <<dbVars, boot, down, deaths, queue, scanVars, workerVars, mark, sent>>

\* The error of FinishFailed is ignored.
SubmitFinishFailed(t) ==
    /\ sub[t] = "fail"
    /\ \E ok \in BOOLEAN : Exec(t, FinishedRow(rows[t], "failed", "queue_full"), ok)
    /\ sub' = [sub EXCEPT ![t] = "r503"]
    /\ UNCHANGED <<payload, boot, down, deaths, queue, scanVars, workerVars, mark, sent>>

-----------------------------------------------------------------------------
(* The worker pool: workerLoop and processTaskWithWorker.                  *)

\* The worker goes back to Dequeue; whatever it held is forgotten.
Release(w) ==
    /\ wpc' = [wpc EXCEPT ![w] = "idle"]
    /\ wtask' = [wtask EXCEPT ![w] = NoTask]
    /\ outcome' = [outcome EXCEPT ![w] = "none"]

Advance(w, pc) ==
    /\ wpc' = [wpc EXCEPT ![w] = pc]
    /\ UNCHANGED wtask

\* Dequeue drains a closed queue before it reports ErrQueueClosed.
Dequeue(w) ==
    /\ wpc[w] = "idle"
    /\ \/ /\ queue # << >>
          /\ wpc' = [wpc EXCEPT ![w] = "load"]
          /\ wtask' = [wtask EXCEPT ![w] = Head(queue)]
          /\ queue' = Tail(queue)
       \/ /\ queue = << >> /\ FlagClosed
          /\ Advance(w, "exited")
          /\ UNCHANGED queue
    /\ UNCHANGED <<dbVars, boot, down, deaths, scanVars, sub, outcome, mark, sent>>

\* GetTaskByID and GetTaskPayload.  A missing row or an error drops the item.
LoadTask(w) ==
    /\ wpc[w] = "load"
    /\ \E ok \in BOOLEAN :
          /\ ReadDB(ok)
          /\ IF ok /\ Exists(rows[wtask[w]]) /\ wtask[w] \in payload
             THEN Advance(w, "markRunning") /\ UNCHANGED outcome
             ELSE Release(w)
    /\ UNCHANGED <<rows, payload, boot, down, deaths, queue, scanVars, sub, mark, sent>>

\* An error here drops the item too, with the row perhaps already running.
MarkRunning(w) ==
    /\ wpc[w] = "markRunning"
    /\ \E ok \in BOOLEAN :
          /\ Exec(wtask[w], RunningRow(rows[wtask[w]]), ok)
          /\ IF Updated(ok, Exists(rows[wtask[w]]))
             THEN Advance(w, "forward") /\ UNCHANGED outcome
             ELSE Release(w)
    /\ UNCHANGED <<payload, boot, down, deaths, queue, scanVars, sub, mark, sent>>

\* heartbeatLoop, concurrent with Forward; its errors are only logged.
UpdateHeartbeat(w) ==
    /\ wpc[w] \in {"forward", "sent"}
    /\ \E ok \in BOOLEAN : Exec(wtask[w], HeartbeatRow(rows[wtask[w]]), ok)
    /\ UNCHANGED <<payload, boot, down, deaths, queue, scanVars, sub, workerVars, mark, sent>>

-----------------------------------------------------------------------------
(* Forwarder.Forward.                                                      *)

\* No request was written: the authorization does not decrypt, the URL does
\* not build, the connection fails or the deadline passes first.
ForwardFailsBeforeWrite(w) ==
    /\ wpc[w] = "forward"
    /\ Advance(w, "finish")
    /\ outcome' = [outcome EXCEPT ![w] = "failed"]
    /\ UNCHANGED <<dbVars, boot, down, deaths, queue, scanVars, sub, mark, sent>>

\* The transport's write loop starts to put the request on the wire.
WriteRequest(w) ==
    /\ wpc[w] = "forward"
    /\ Advance(w, "sent")
    /\ mark' = [mark EXCEPT ![wtask[w]] = "written"]
    /\ sent' = [sent EXCEPT ![wtask[w]] = @ + 1]
    /\ UNCHANGED <<dbVars, boot, down, deaths, queue, scanVars, sub, outcome>>

\* The write loop's goroutine then runs the WroteRequest callback: it sets
\* wroteRequest, then calls onDispatched.  Do need not wait for either.
WroteRequest(t) ==
    /\ mark[t] = "written"
    /\ mark' = [mark EXCEPT ![t] = "wrote"]
    /\ UNCHANGED <<dbVars, boot, down, deaths, queue, scanVars, sub, workerVars, sent>>

\* onDispatched; its error is ignored.  It runs under requestCtx, which is
\* cancelled when doForward returns: then the statement may never be applied.
MarkRequestDispatched(t) ==
    /\ mark[t] = "wrote"
    /\ mark' = [mark EXCEPT ![t] = "done"]
    /\ \/ \E ok \in BOOLEAN : Exec(t, DispatchedRow(rows[t]), ok)
       \/ /\ \A w \in Workers : wtask[w] = t => wpc[w] # "sent"
          /\ UNCHANGED <<rows, faults>>
    /\ UNCHANGED <<payload, boot, down, deaths, queue, scanVars, sub, workerVars, sent>>

\* Variant: a failed answer is retried within Forward.
UpstreamAnswersRetry(w) ==
    /\ wpc[w] = "sent"
    /\ \/ Advance(w, "finish") /\ outcome' = [outcome EXCEPT ![w] = "succeeded"]
       \/ Advance(w, "forward") /\ UNCHANGED outcome
    /\ UNCHANGED <<dbVars, boot, down, deaths, queue, scanVars, sub, mark, sent>>

\* A complete response: an image (success), or a status or a body that
\* classifyHTTPFailure, the 408 case or ExtractResultSummary call a failure.
UpstreamAnswers(w) ==
    /\ wpc[w] = "sent"
    /\ Advance(w, "finish")
    /\ \E o \in {"succeeded", "failed"} : outcome' = [outcome EXCEPT ![w] = o]
    /\ UNCHANGED <<dbVars, boot, down, deaths, queue, scanVars, sub, mark, sent>>

\* Do or ReadAll fails, or the body is cut short: uncertain when
\* wroteRequest is seen set, else a failure.  (A Do that fails waits for the
\* write loop; a ReadAll that fails may come before the callback.)
TransportBreaks(w) ==
    /\ wpc[w] = "sent"
    /\ Advance(w, "finish")
    /\ outcome' = [outcome EXCEPT ![w] =
                     IF mark[wtask[w]] \in {"wrote", "done"} THEN "uncertain" ELSE "failed"]
    /\ UNCHANGED <<dbVars, boot, down, deaths, queue, scanVars, sub, mark, sent>>

OutcomeCode(o) == CASE o = "uncertain" -> "upstream_transport_uncertain"
                    [] o = "failed"    -> "upstream"
                    [] OTHER           -> ""

\* FinishSucceeded, FinishFailed or MarkUncertain; an error is only logged.
FinishTask(w) ==
    /\ wpc[w] = "finish"
    /\ \E ok \in BOOLEAN :
          Exec(wtask[w],
               FinishedRow(rows[wtask[w]], outcome[w], OutcomeCode(outcome[w])), ok)
    /\ Release(w)
    /\ UNCHANGED <<payload, boot, down, deaths, queue, scanVars, sub, mark, sent>>

-----------------------------------------------------------------------------
(* Start-up: Scanner.Run, before the workers, the cleaner and the server.  *)
(* A database error or a panic in it ends the process: ProcessDies.        *)

\* ScanLimit rows at most, oldest first; the model leaves the choice open.
StartProcess ==
    /\ boot = "off"
    /\ boot' = "scan"
    /\ LET found == {t \in Tasks : Recoverable(rows[t])}
       IN  scan' \in {S \in SUBSET found :
                        \/ Cardinality(S) = ScanLimit
                        \/ S = found /\ Cardinality(S) < ScanLimit}
    /\ UNCHANGED <<dbVars, down, deaths, queue, cur, rpc, sub, workerVars, mark, sent>>

\* Variant: request_dispatched_at is not looked at.
NeverAmbiguous(r) == FALSE

\* An attempt may have reached NewAPI before the process stopped.
Ambiguous(r) == r.status = "running" /\ r.dispatched

\* handleTask up to TryEnqueue.  The scanned copy of the row is still the
\* row: nobody else writes to the tables during the scan (and the repeated
\* test of the heartbeat agrees with the query).
ScanHandle(t) ==
    /\ rpc = "next" /\ t \in scan
    /\ scan' = scan \ {t}
    /\ \/ /\ t \notin payload
          /\ rows' = [rows EXCEPT ![t] = FinishedRow(@, "failed", "recovery_payload_missing")]
          /\ UNCHANGED <<cur, rpc>>
       \/ /\ t \in payload
          /\ Ambiguous(rows[t])
          /\ rows' = [rows EXCEPT ![t] = FinishedRow(@, "uncertain", "upstream_transport_uncertain")]
          /\ UNCHANGED <<cur, rpc>>
       \/ /\ t \in payload
          /\ ~Ambiguous(rows[t])
          /\ rows' = [rows EXCEPT ![t] = QueuedRow(@)]
          /\ cur' = t /\ rpc' = "enqueue"
    /\ UNCHANGED <<payload, faults, boot, down, deaths, queue, sub, workerVars, mark, sent>>

ScanTestClosed ==
    /\ rpc = "enqueue"
    /\ rpc' = IF FlagClosed THEN "fail" ELSE "send"
    /\ UNCHANGED <<dbVars, boot, down, deaths, queue, scan, cur, sub, workerVars, mark, sent>>

\* On a closed channel the send panics outside net/http: see ProcessDies.
ScanSend ==
    /\ rpc = "send" /\ ~ItemsClosed
    /\ \/ /\ HasRoom
          /\ queue' = Append(queue, cur)
          /\ cur' = NoTask /\ rpc' = "next"
       \/ /\ ~HasRoom
          /\ rpc' = "fail"
          /\ UNCHANGED <<queue, cur>>
    /\ UNCHANGED <<dbVars, boot, down, deaths, scan, sub, workerVars, mark, sent>>

ScanFinishFailed ==
    /\ rpc = "fail"
    /\ rows' = [rows EXCEPT ![cur] = FinishedRow(@, "failed", "queue_full")]
    /\ cur' = NoTask /\ rpc' = "next"
    /\ UNCHANGED <<payload, faults, boot, down, deaths, queue, scan, sub, workerVars, mark, sent>>

\* ListenAndServe goes on: Pool.Start, the cleaner, the server.
ScanDone ==
    /\ boot = "scan" /\ scan = {} /\ rpc = "next"
    /\ boot' = "serving"
    /\ wpc' = [w \in Workers |-> "idle"]
    /\ UNCHANGED <<dbVars, down, deaths, queue, scanVars, sub, wtask, outcome, mark, sent>>

-----------------------------------------------------------------------------
(* Time and the cleaner.  A batch is a sequence of single deletions.       *)

\* More than staleThreshold has passed since the last heartbeat.
Age(t) ==
    /\ rows[t].heartbeat = "recent"
    /\ rows' = [rows EXCEPT ![t].heartbeat = "stale"]
    /\ UNCHANGED <<payload, faults, boot, down, deaths, queue, scanVars, sub, workerVars, mark, sent>>

\* ON DELETE CASCADE takes the payload row along.
DeleteExpiredTask(t) ==
    /\ boot = "serving"
    /\ Deletable(rows[t])
    /\ rows' = [rows EXCEPT ![t] = NoRow]
    /\ payload' = payload \ {t}
    /\ UNCHANGED <<faults, boot, down, deaths, queue, scanVars, sub, workerVars, mark, sent>>

\* payload_expires_at is six hours after the submission, however long the
\* task waited in the queue.
DeleteExpiredPayload(t) ==
    /\ boot = "serving"
    /\ t \in payload
    /\ PayloadDeletable(rows[t])
    /\ payload' = payload \ {t}
    /\ UNCHANGED <<rows, faults, boot, down, deaths, queue, scanVars, sub, workerVars, mark, sent>>

-----------------------------------------------------------------------------
(* runShutdown, on SIGTERM, and the end of the process.                    *)

\* The bound MaxDeaths leaves room for the exit that follows.
StartDraining ==
    /\ boot # "off" /\ down = "up" /\ deaths < MaxDeaths
    /\ down' = "draining"
    /\ UNCHANGED <<dbVars, boot, deaths, queue, scanVars, sub, workerVars, mark, sent>>

\* MemoryQueue.Close: close(q.closed), then close(q.items).
CloseQueue ==
    /\ \/ down = "draining" /\ down' = "flagged"
       \/ down = "flagged" /\ down' = "closed"
    /\ UNCHANGED <<dbVars, boot, deaths, queue, scanVars, sub, workerVars, mark, sent>>

\* Pool.Shutdown: all workers are done, or the grace period is over first.
PoolShutdown ==
    /\ down = "closed"
    /\ LET done == \A w \in Workers : wpc[w] \in {"off", "exited"}
       IN  \/ done /\ down' = "stopped"
           \/ ~done /\ down' = "forced"
    /\ UNCHANGED <<dbVars, boot, deaths, queue, scanVars, sub, workerVars, mark, sent>>

MarkDispatchedRunningUncertain ==
    /\ down = "forced"
    /\ down' = "stopped"
    /\ LET forced == [t \in Tasks |-> ForcedRow(rows[t])]
       IN  \/ rows' = forced /\ UNCHANGED faults
           \/ /\ faults < MaxFaults
              /\ faults' = faults + 1
              /\ rows' \in {rows, forced}
    /\ UNCHANGED <<payload, boot, deaths, queue, scanVars, sub, workerVars, mark, sent>>

\* A crash, the fatal end of a failed start-up, or the exit after shutdown.
\* Memory is gone and open connections are reset.
ProcessDies ==
    /\ boot # "off" /\ deaths < MaxDeaths
    /\ deaths' = deaths + 1
    /\ boot' = "off"
    /\ down' = "up"
    /\ queue' = << >>
    /\ scan' = {} /\ cur' = NoTask /\ rpc' = "next"
    /\ sub' = [t \in Tasks |-> IF sub[t] \in SubBusy THEN "reset" ELSE sub[t]]
    /\ wpc' = [w \in Workers |-> "off"]
    /\ wtask' = [w \in Workers |-> NoTask]
    /\ outcome' = [w \in Workers |-> "none"]
    /\ mark' = [t \in Tasks |-> "none"]
    /\ UNCHANGED <<dbVars, sent>>

-----------------------------------------------------------------------------
SubmitStep(t) ==
    \/ CreateAcceptedTask(t) \/ SubmitMarkQueued(t) \/ SubmitTestClosed(t)
    \/ SubmitSend(t) \/ SubmitFinishFailed(t)

CallbackStep(t) == WroteRequest(t) \/ MarkRequestDispatched(t)

ForwardEnds(w) == UpstreamAnswers(w) \/ TransportBreaks(w)

WorkerStep(w) ==
    \/ Dequeue(w) \/ LoadTask(w) \/ MarkRunning(w)
    \/ ForwardFailsBeforeWrite(w) \/ WriteRequest(w) \/ ForwardEnds(w) \/ FinishTask(w)

ScanStep ==
    \/ \E t \in Tasks : ScanHandle(t)
    \/ ScanTestClosed \/ ScanSend \/ ScanFinishFailed \/ ScanDone

ShutdownStep == CloseQueue \/ PoolShutdown \/ MarkDispatchedRunningUncertain

Next ==
    \/ \E t \in Tasks :
          \/ SubmitGate(t) \/ SubmitStep(t) \/ CallbackStep(t)
          \/ Age(t) \/ DeleteExpiredTask(t) \/ DeleteExpiredPayload(t)
    \/ \E w \in Workers : WorkerStep(w) \/ UpdateHeartbeat(w)
    \/ StartProcess \/ ScanStep \/ StartDraining \/ ShutdownStep \/ ProcessDies

Spec == Init /\ [][Next]_vars

\* Goroutines that can run do run; NEWAPI_REQUEST_TIMEOUT_MS ends every
\* forward, the grace period ends every shutdown, the process exits after
\* runShutdown or a panic of the scan, and the supervisor starts it again.
\* Nothing is assumed of clients, signals, crashes, time or the cleaner.
Fairness ==
    /\ \A t \in Tasks : WF_vars(SubmitStep(t)) /\ WF_vars(CallbackStep(t))
    /\ \A w \in Workers : WF_vars(WorkerStep(w))
    /\ WF_vars(StartProcess) /\ WF_vars(ScanStep) /\ WF_vars(ShutdownStep)
    /\ WF_vars(ProcessDies /\ (down = "stopped" \/ (rpc = "send" /\ ItemsClosed)))

FairSpec == Spec /\ Fairness

-----------------------------------------------------------------------------
(* Properties.                                                             *)

Submitting(t) == sub[t] \in SubBusy
Queued(t)     == \E i \in DOMAIN queue : queue[i] = t
Scanning(t)   == t \in scan \/ t = cur
Working(t)    == \E w \in Workers : wtask[w] = t

\* A task is in one hand at a time: one submit handler, one place of the
\* queue, the recovery scan or one worker.  markQueuedSQL and markRunningSQL
\* do not look at the row they overwrite, so everything else rests on this.
OneOwner ==
    /\ \A i, j \in DOMAIN queue : queue[i] = queue[j] => i = j
    /\ \A w, v \in Workers : wtask[w] = wtask[v] => w = v \/ wtask[w] = NoTask
    /\ cur \notin scan
    /\ \A t \in Tasks :
          /\ Submitting(t) => ~Queued(t) /\ ~Scanning(t) /\ ~Working(t)
          /\ Queued(t) => ~Scanning(t) /\ ~Working(t)
          /\ Scanning(t) => ~Working(t)

\* The task waits to be sent, and who has it: a handler, the queue, the scan
\* or a worker, or nobody while the process is down and the next scan will
\* find it.  The one way to lose hold of it is the panic of a send on the
\* closed queue, and that process is about to end.
ToBeSent(t) == rows[t].status \in {"accepted", "queued"}
OnItsWay(t) ==
    \/ boot = "off"
    \/ Submitting(t) \/ Queued(t) \/ Scanning(t) \/ Working(t)
    \/ sub[t] = "panic" /\ ItemsClosed

\* While no statement fails and one scan can take in all tasks, no waiting
\* task is lost between handlers, queue, workers, shutdowns and restarts.
NothingForgotten ==
    faults = 0 /\ IsFiniteSet(Tasks) /\ Cardinality(Tasks) <= ScanLimit =>
        \A t \in Tasks : ToBeSent(t) => OnItsWay(t)

\* Together: a waiting task is in exactly one hand.
InOneHand == OneOwner /\ NothingForgotten

\* A worker on its way to send a request holds a task that no earlier
\* attempt is known to have sent: a task marked dispatched is not replayed,
\* whatever crashes, restarts and failed statements came before.
NoReplayOfDispatched ==
    \A w \in Workers :
        wpc[w] \in {"load", "markRunning", "forward"} => ~rows[wtask[w]].dispatched

\* A task that may still have to be sent has its payload: neither the
\* cleaner nor a cascade can take it away first, at whatever moment the
\* process stops.
ReplayablePayload ==
    \A t \in Tasks : Unfinished(rows[t]) /\ ~rows[t].dispatched => t \in payload

\* "uncertain" is only said of a task for which a request really started out.
UncertainWasSent ==
    \A t \in Tasks : rows[t].status = "uncertain" => sent[t] > 0

\* One life of the process sends a task at most once, so each further
\* request for a task is paid for by a death of the process.
SentOncePerLife == \A t \in Tasks : sent[t] <= deaths + 1

\* A client that was refused with 503 queue_full is never billed: its task
\* is not sent later either, unless FinishFailed itself was lost.
RefusedNotExecuted ==
    \A t \in Tasks :
        sub[t] \in {"r503", "draining503"} /\ faults = 0 => sent[t] = 0

\* A result, once stored, stays: no late worker, heartbeat, forced shutdown
\* or recovery scan changes it, until the row is deleted.
TerminalIsFinal ==
    [][\A t \in Tasks : rows[t].finished =>
          \/ rows'[t] = NoRow
          \/ /\ rows'[t].status = rows[t].status
             /\ rows'[t].finished
             /\ rows'[t].code = rows[t].code]_vars

\* What a reader of the tasks table sees is the state machine of the design.
TS == INSTANCE TaskStates WITH
          st   <- [t \in Tasks |-> rows[t].status],
          disp <- {t \in Tasks : rows[t].dispatched}
StateMachine == TS!Spec

\* A running row that no worker of the serving process works on.
Stranded(t) ==
    /\ boot = "serving"
    /\ rows[t].status = "running"
    /\ ~Working(t)

\* No worker, handler or shutdown of a serving process strands a task: only
\* a statement that fails does, and the scan that let a recent heartbeat pass.
StrandedByFaultOnly ==
    [][\A t \in Tasks :
          boot = "serving" /\ Stranded(t)' => Stranded(t) \/ faults' > faults]_vars

\* A task whose client got 202 comes to an end, through shutdowns, crashes
\* and full queues, unless a restart leaves it stranded.
AcceptedIsSettled ==
    \A t \in Tasks :
        (sub[t] = "r202") ~> (rows[t].status \in Terminal \cup {"none"} \/ Stranded(t))

\* The design: after a restart no task_id that was answered may be lost; a
\* running task is requeued or marked uncertain.
NoStrandedTask == \A t \in Tasks : faults = 0 => ~Stranded(t)

\* The design: a running task whose request is marked dispatched becomes
\* uncertain at the next start, it does not fail.
DispatchedNotFailedByRecovery ==
    \A t \in Tasks : rows[t].code = "recovery_payload_missing" => ~rows[t].dispatched

\* The design: a submission that comes too late for a draining gateway is
\* answered with 503 and Retry-After.
NoAbortedSubmit == \A t \in Tasks : sub[t] # "panic"

-----------------------------------------------------------------------------
(* The inductive invariant behind the safety properties.                   *)

\* finished_at and the status agree; only a task that ran is dispatched.
RowCoherent ==
    \A t \in Tasks :
        /\ rows[t].finished <=> rows[t].status \in Terminal
        /\ rows[t].dispatched => rows[t].status \in {"running"} \cup Terminal
        /\ rows[t].status = "none" => rows[t] = NoRow

\* Before boot reaches a stage, nothing of that stage exists.
BootCoherent ==
    /\ boot # "serving" =>
          /\ \A t \in Tasks : ~Submitting(t)
          /\ \A w \in Workers : wpc[w] = "off"
          /\ \A t \in Tasks : mark[t] = "none"
    /\ boot # "scan" => scan = {} /\ rpc = "next"
    /\ boot = "off" => queue = << >>
    /\ down = "forced" => boot = "serving"
    /\ rpc = "next" <=> cur = NoTask
    /\ \A w \in Workers : wtask[w] = NoTask <=> wpc[w] \in {"off", "idle", "exited"}

\* Whoever holds a task holds a row in the state its next statement expects.
HeldRow(t) ==
    /\ sub[t] \in {"idle", "create"} => rows[t] = NoRow /\ sent[t] = 0
    /\ sub[t] = "idle" => ~Working(t)
    /\ sub[t] = "mark" => rows[t].status = "accepted"
    /\ sub[t] \in {"enqueue", "send", "fail"} => rows[t].status = "queued"
    /\ Submitting(t) => mark[t] = "none" /\ sent[t] = 0
    /\ Queued(t) => rows[t].status = "queued" /\ mark[t] = "none"
    /\ t \in scan => rows[t].status \in Pending
    /\ t = cur => rows[t].status = "queued"
    /\ mark[t] # "none" => rows[t].status \notin {"accepted", "queued"} /\ sent[t] > 0

WorkerRow(w) ==
    /\ wpc[w] \in {"load", "markRunning"} =>
          rows[wtask[w]].status = "queued" /\ mark[wtask[w]] = "none"
    /\ wpc[w] = "forward" =>
          /\ rows[wtask[w]].status = "running" /\ ~rows[wtask[w]].dispatched
          /\ mark[wtask[w]] = "none"
    /\ wpc[w] \in {"sent", "finish"} =>
          rows[wtask[w]].status \notin {"accepted", "queued"}
    /\ wpc[w] = "sent" => mark[wtask[w]] # "none"
    /\ wpc[w] = "finish" => outcome[w] # "none"
    /\ outcome[w] \in {"succeeded", "uncertain"} =>
          wpc[w] = "finish" /\ sent[wtask[w]] > 0

HeldRows ==
    /\ \A t \in Tasks : HeldRow(t)
    /\ \A w \in Workers : WorkerRow(w)

SentCoherent ==
    \A t \in Tasks :
        /\ rows[t].dispatched => sent[t] > 0
        /\ rows[t].status = "uncertain" => sent[t] > 0
        /\ sent[t] <= deaths + (IF mark[t] = "none" THEN 0 ELSE 1)
        /\ sub[t] = "draining503" => rows[t] = NoRow /\ sent[t] = 0
        /\ sub[t] = "r503" /\ faults = 0 => ~Unfinished(rows[t]) /\ sent[t] = 0

\* Everything above follows from this one, and every step preserves it.
IInv ==
    /\ TypeOK /\ RowCoherent /\ BootCoherent /\ OneOwner /\ HeldRows
    /\ ReplayablePayload /\ SentCoherent
=============================================================================
