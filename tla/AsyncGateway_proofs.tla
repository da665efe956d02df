------------------------- MODULE AsyncGateway_proofs -------------------------
(***************************************************************************)
(* Proofs about AsyncGateway, for any set of tasks, any number of workers, *)
(* any queue and scan limit and any number of deaths and faults.           *)
(*                                                                         *)
(* IInv is inductive.  Its core is OneOwner: since the statements that     *)
(* move a task forward do not test the row they overwrite, what a holder   *)
(* of a task may assume of the row (HeldRow, WorkerRow) is only stable     *)
(* because nobody else holds the task.  IInv is split into a part per task *)
(* (TaskInv) and a part per worker (WorkerRow), so that each action is     *)
(* proved for the task it touches and framed for all others (TaskKept,     *)
(* WorkerKept).  The second half shows that a step moves one row along an  *)
(* arrow of TaskStates, or is the bulk statement of a forced shutdown;     *)
(* TerminalIsFinal and the refinement follow.                              *)
(***************************************************************************)
EXTENDS AsyncGateway, FiniteSetTheorems, TLAPS

USE DEF dbVars, scanVars, workerVars

-----------------------------------------------------------------------------
(* Rows.                                                                   *)

\* The two rows that are not made from another one: no row, and the row
\* of the INSERT.
LEMMA NewRows ==
    /\ NoRow \in Row /\ AcceptedRow \in Row
    /\ AcceptedRow.status = "accepted" /\ ~AcceptedRow.finished /\ ~AcceptedRow.dispatched
    /\ NoRow.status = "none" /\ ~NoRow.finished /\ ~NoRow.dispatched
    /\ AcceptedRow # NoRow /\ AcceptedRow.dispatched = NoRow.dispatched
    /\ NoRow.heartbeat # "recent"
BY DEF NoRow, AcceptedRow, Row, Status, Pending, Terminal, Code

\* markQueuedSQL sets the status of an existing row and nothing else.
LEMMA QueuedRowIs ==
    ASSUME NEW r \in Row, r.status # "none"
    PROVE  /\ QueuedRow(r) \in Row
           /\ QueuedRow(r).status = "queued"
           /\ QueuedRow(r).finished = r.finished
           /\ QueuedRow(r).dispatched = r.dispatched
BY DEF QueuedRow, Exists, Row, Status, Pending, Terminal, Code

\* markRunningSQL sets the status and the heartbeat of an existing row.
LEMMA RunningRowIs ==
    ASSUME NEW r \in Row, r.status # "none"
    PROVE  /\ RunningRow(r) \in Row
           /\ RunningRow(r).status = "running"
           /\ RunningRow(r).finished = r.finished
           /\ RunningRow(r).dispatched = r.dispatched
BY DEF RunningRow, Exists, Row, Status, Pending, Terminal, Code

\* markRequestDispatchedSQL changes neither the status nor the result.
LEMMA DispatchedRowIs ==
    ASSUME NEW r \in Row
    PROVE  /\ DispatchedRow(r) \in Row
           /\ DispatchedRow(r).status = r.status
           /\ DispatchedRow(r).finished = r.finished
           /\ DispatchedRow(r).code = r.code
           /\ r.status # "none" => DispatchedRow(r).dispatched
           /\ r.status = "none" => DispatchedRow(r) = r
BY DEF DispatchedRow, Exists, Row, Status, Pending, Terminal, Code

\* updateHeartbeatSQL changes nothing that a property reads.
LEMMA HeartbeatRowIs ==
    ASSUME NEW r \in Row
    PROVE  /\ HeartbeatRow(r) \in Row
           /\ HeartbeatRow(r).status = r.status
           /\ HeartbeatRow(r).finished = r.finished
           /\ HeartbeatRow(r).dispatched = r.dispatched
           /\ HeartbeatRow(r).code = r.code
           /\ r.status = "none" => HeartbeatRow(r) = r
BY DEF HeartbeatRow, Row, Status, Pending, Terminal, Code

\* The three finishing statements end an unfinished row and leave any
\* other row alone.
LEMMA FinishedRowIs ==
    ASSUME NEW r \in Row, NEW s \in Terminal, NEW c \in Code
    PROVE  /\ FinishedRow(r, s, c) \in Row
           /\ FinishedRow(r, s, c).dispatched = r.dispatched
           /\ Unfinished(r) =>
                 FinishedRow(r, s, c).status = s /\ FinishedRow(r, s, c).finished
           /\ ~Unfinished(r) => FinishedRow(r, s, c) = r
BY DEF FinishedRow, Unfinished, Exists, Row, Status, Pending, Terminal, Code

\* The statement of a forced shutdown only touches dispatched running rows.
LEMMA ForcedRowIs ==
    ASSUME NEW r \in Row
    PROVE  /\ ForcedRow(r) \in Row
           /\ \/ ForcedRow(r) = r
              \/ /\ r.status = "running" /\ ~r.finished /\ r.dispatched
                 /\ ForcedRow(r).status = "uncertain" /\ ForcedRow(r).finished
                 /\ ForcedRow(r).dispatched
<1>1. "uncertain" \in Terminal /\ "gateway_shutdown_uncertain" \in Code
  BY DEF Terminal, Code
<1>. QED BY <1>1, FinishedRowIs DEF ForcedRow, Unfinished, Exists

\* What a statement does, whether it is lost or not.
LEMMA ExecIs ==
    ASSUME TypeOK, NEW t \in Tasks, NEW r \in Row, NEW ok \in BOOLEAN, Exec(t, r, ok)
    PROVE  /\ rows' \in [Tasks -> Row]
           /\ faults' \in Nat
           /\ \A u \in Tasks : u # t => rows'[u] = rows[u]
           /\ rows'[t] = rows[t] \/ rows'[t] = r
           /\ ok => rows'[t] = r
           /\ faults' = 0 => faults = 0 /\ rows'[t] = r
<1>1. rows' = rows \/ rows' = [rows EXCEPT ![t] = r]
  BY DEF Exec
<1>2. rows \in [Tasks -> Row] /\ faults \in Nat
  BY DEF TypeOK
<1>3. CASE ok
  BY <1>2, <1>3 DEF Exec
<1>4. CASE ~ok
  <2>1. faults' = faults + 1
    BY <1>4 DEF Exec
  <2>. QED BY <1>1, <1>2, <1>4, <2>1
<1>. QED BY <1>3, <1>4

-----------------------------------------------------------------------------
(* The parts of IInv that speak of one task.                               *)

TaskInv(t) ==
    /\ rows[t].finished <=> rows[t].status \in Terminal
    /\ rows[t].dispatched => rows[t].status \in {"running"} \cup Terminal
    /\ rows[t].status = "none" => rows[t] = NoRow
    /\ HeldRow(t)
    /\ rows[t].status # "none" /\ ~rows[t].finished /\ ~rows[t].dispatched => t \in payload
    /\ rows[t].dispatched => sent[t] > 0
    /\ rows[t].status = "uncertain" => sent[t] > 0
    /\ sent[t] <= deaths + (IF mark[t] = "none" THEN 0 ELSE 1)
    /\ sub[t] = "draining503" => rows[t] = NoRow /\ sent[t] = 0
    /\ sub[t] = "r503" /\ faults = 0 =>
          (rows[t].status = "none" \/ rows[t].finished) /\ sent[t] = 0

\* IInv, seen task by task and worker by worker.
LEMMA IInvParts ==
    IInv <=> /\ TypeOK /\ BootCoherent /\ OneOwner
             /\ \A t \in Tasks : TaskInv(t)
             /\ \A w \in Workers : WorkerRow(w)
BY DEF IInv, RowCoherent, HeldRows, ReplayablePayload, SentCoherent, TaskInv, Unfinished, Exists

\* The same for the next state.
LEMMA IInvPartsNext ==
    ASSUME TypeOK', BootCoherent', OneOwner',
           \A t \in Tasks : TaskInv(t)', \A w \in Workers : WorkerRow(w)'
    PROVE  IInv'
BY DEF IInv, RowCoherent, HeldRows, ReplayablePayload, SentCoherent, TaskInv, Unfinished, Exists

\* Two versions of a row that no invariant tells apart.
SameRow(r, s) ==
    /\ s.status = r.status /\ s.finished = r.finished /\ s.dispatched = r.dispatched
    /\ r = NoRow => s = NoRow

\* A step that leaves a task alone, or only lets go of it, keeps TaskInv.
LEMMA TaskKept ==
    ASSUME NEW u \in Tasks, TaskInv(u), SameRow(rows[u], rows'[u]),
           mark'[u] = mark[u], sent'[u] = sent[u], sub'[u] = sub[u], deaths' = deaths,
           u \in payload => u \in payload', faults' = 0 => faults = 0,
           Queued(u)' => Queued(u), u \in scan' => u \in scan, u = cur' => u = cur,
           Working(u)' => Working(u)
    PROVE  TaskInv(u)'
BY DEF TaskInv, HeldRow, SameRow, Submitting

\* A step that leaves a worker and the row of its task alone keeps WorkerRow.
LEMMA WorkerKept ==
    ASSUME TypeOK, BootCoherent, NEW v \in Workers, WorkerRow(v),
           wpc'[v] = wpc[v], wtask'[v] = wtask[v], outcome'[v] = outcome[v],
           wtask[v] \in Tasks =>
              /\ SameRow(rows[wtask[v]], rows'[wtask[v]])
              /\ mark'[wtask[v]] = mark[wtask[v]] /\ sent'[wtask[v]] = sent[wtask[v]]
    PROVE  WorkerRow(v)'
BY DEF WorkerRow, SameRow, TypeOK, BootCoherent

\* Nobody takes a task.
LEMMA OwnersShrink ==
    ASSUME TypeOK, OneOwner, queue' = queue,
           scan' \subseteq scan, cur' \in {cur, NoTask},
           \A w \in Workers : wtask'[w] \in {wtask[w], NoTask},
           \A t \in Tasks : sub'[t] \in SubBusy => sub[t] \in SubBusy
    PROVE  OneOwner'
BY ConstantsAssumption DEF OneOwner, TypeOK, Submitting, Queued, Scanning, Working

\* TryEnqueue.
LEMMA AppendIs ==
    ASSUME queue \in Seq(Tasks), NEW t \in Tasks, queue' = Append(queue, t)
    PROVE  /\ queue' \in Seq(Tasks)
           /\ \A u \in Tasks : Queued(u)' => Queued(u) \/ u = t
           /\ (~Queued(t) /\ \A i, j \in DOMAIN queue : queue[i] = queue[j] => i = j)
                 => \A i, j \in DOMAIN queue' : queue'[i] = queue'[j] => i = j
<1>1. /\ queue' \in Seq(Tasks)
      /\ Len(queue) \in Nat /\ DOMAIN queue = 1 .. Len(queue) /\ DOMAIN queue' = 1 .. Len(queue) + 1
      /\ \A i \in DOMAIN queue : queue'[i] = queue[i]
      /\ queue'[Len(queue) + 1] = t
  OBVIOUS
<1>2. \A i \in DOMAIN queue' : i \in DOMAIN queue \/ i = Len(queue) + 1
  BY <1>1
<1>. QED BY <1>1, <1>2 DEF Queued

-----------------------------------------------------------------------------
(* Submit handlers.                                                        *)

\* SubmitGate preserves the invariant.
LEMMA SubmitGateInv ==
    ASSUME IInv, NEW t \in Tasks, SubmitGate(t)
    PROVE  IInv'
<1>. USE IInvParts
<1>1. TypeOK'
  BY DEF TypeOK, SubmitGate, SubBusy, SubAnswer
<1>2. BootCoherent'
  BY DEF BootCoherent, SubmitGate, Submitting
<1>3. OneOwner'
  <2>1. ~Queued(t) /\ ~Scanning(t) /\ ~Working(t)
    BY NewRows DEF TaskInv, HeldRow, Scanning, SubmitGate, Pending
  <2>. QED BY <2>1 DEF OneOwner, SubmitGate, Submitting, Queued, Scanning, Working, TypeOK
<1>4. \A u \in Tasks : TaskInv(u)'
  BY DEF TaskInv, HeldRow, SubmitGate, TypeOK, Submitting, SubBusy, Queued, Working, BootCoherent
<1>5. \A v \in Workers : WorkerRow(v)'
  BY WorkerKept DEF SubmitGate, SameRow
<1>. QED BY <1>1, <1>2, <1>3, <1>4, <1>5, IInvPartsNext

\* CreateAcceptedTask preserves the invariant.
LEMMA CreateAcceptedTaskInv ==
    ASSUME IInv, NEW t \in Tasks, CreateAcceptedTask(t)
    PROVE  IInv'
<1>. USE IInvParts
<1>0. PICK ok \in BOOLEAN :
         /\ Exec(t, AcceptedRow, ok)
         /\ payload' = IF Exists(rows'[t]) THEN payload \cup {t} ELSE payload
         /\ sub' = [sub EXCEPT ![t] = IF ok THEN "mark" ELSE "r500"]
  BY DEF CreateAcceptedTask
<1>a. /\ rows' \in [Tasks -> Row] /\ faults' \in Nat
      /\ \A u \in Tasks : u # t => rows'[u] = rows[u]
      /\ rows'[t] = NoRow \/ rows'[t] = AcceptedRow
      /\ ok => rows'[t] = AcceptedRow
      /\ faults' = 0 => faults = 0
      /\ rows[t] = NoRow /\ sent[t] = 0 /\ mark[t] = "none" /\ sub[t] = "create"
  BY <1>0, ExecIs, NewRows DEF CreateAcceptedTask, TaskInv, HeldRow, Submitting, SubBusy
<1>1. TypeOK'
  BY <1>0, <1>a DEF TypeOK, CreateAcceptedTask, SubBusy, SubAnswer
<1>2. BootCoherent'
  BY <1>0, <1>a DEF BootCoherent, CreateAcceptedTask, Submitting, SubBusy, TypeOK
<1>3. OneOwner'
  BY <1>0, <1>a, OwnersShrink DEF CreateAcceptedTask, SubBusy, TypeOK
<1>4. ASSUME NEW u \in Tasks PROVE TaskInv(u)'
  <2>1. CASE u # t
    BY <2>1, <1>0, <1>a, TaskKept DEF SameRow, TypeOK, CreateAcceptedTask, Queued, Working, Exists
  <2>2. CASE u = t
    <3>1. ~Queued(t) /\ ~Scanning(t)
      BY <1>a DEF OneOwner, Submitting, SubBusy
    <3>. QED
      BY <2>2, <1>0, <1>a, <3>1, NewRows
      DEF TaskInv, HeldRow, TypeOK, CreateAcceptedTask, Queued, Scanning, Exists, Submitting, Terminal
  <2>. QED BY <2>1, <2>2
<1>5. ASSUME NEW v \in Workers PROVE WorkerRow(v)'
  <2>1. wtask[v] # t
    BY <1>a DEF OneOwner, Submitting, SubBusy, Working
  <2>. QED BY <2>1, <1>a, WorkerKept DEF CreateAcceptedTask, SameRow
<1>. QED BY <1>1, <1>2, <1>3, <1>4, <1>5, IInvPartsNext

\* SubmitMarkQueued preserves the invariant.
LEMMA SubmitMarkQueuedInv ==
    ASSUME IInv, NEW t \in Tasks, SubmitMarkQueued(t)
    PROVE  IInv'
<1>. USE IInvParts
<1>0. PICK ok \in BOOLEAN :
         /\ Exec(t, QueuedRow(rows[t]), ok)
         /\ sub' = [sub EXCEPT ![t] = IF Updated(ok, Exists(rows[t])) THEN "enqueue" ELSE "r500"]
  BY DEF SubmitMarkQueued
<1>a. /\ rows[t] \in Row /\ rows[t].status = "accepted" /\ ~rows[t].finished /\ ~rows[t].dispatched
      /\ sent[t] = 0 /\ mark[t] = "none" /\ sub[t] = "mark"
      /\ ~Queued(t) /\ ~Scanning(t) /\ ~Working(t)
  BY DEF SubmitMarkQueued, TaskInv, HeldRow, Submitting, SubBusy, TypeOK, OneOwner, Terminal
<1>b. /\ rows' \in [Tasks -> Row] /\ faults' \in Nat
      /\ \A u \in Tasks : u # t => rows'[u] = rows[u]
      /\ rows'[t].status \in {"accepted", "queued"}
      /\ ~rows'[t].finished /\ ~rows'[t].dispatched
      /\ ok => rows'[t].status = "queued"
      /\ faults' = 0 => faults = 0
  BY <1>0, <1>a, ExecIs, QueuedRowIs
<1>1. TypeOK'
  BY <1>0, <1>b DEF TypeOK, SubmitMarkQueued, SubBusy, SubAnswer
<1>2. BootCoherent'
  BY <1>0, <1>a DEF BootCoherent, SubmitMarkQueued, Submitting, SubBusy, TypeOK
<1>3. OneOwner'
  BY <1>0, <1>a, OwnersShrink DEF SubmitMarkQueued, SubBusy, TypeOK
<1>4. ASSUME NEW u \in Tasks PROVE TaskInv(u)'
  <2>1. CASE u # t
    BY <2>1, <1>0, <1>b, TaskKept DEF SameRow, TypeOK, SubmitMarkQueued, Queued, Working
  <2>2. CASE u = t
    BY <2>2, <1>0, <1>a, <1>b, NewRows
    DEF TaskInv, HeldRow, TypeOK, SubmitMarkQueued, Queued, Scanning, Updated, Submitting, Terminal
  <2>. QED BY <2>1, <2>2
<1>5. ASSUME NEW v \in Workers PROVE WorkerRow(v)'
  BY <1>a, <1>b, WorkerKept DEF SubmitMarkQueued, SameRow, Working
<1>. QED BY <1>1, <1>2, <1>3, <1>4, <1>5, IInvPartsNext

\* SubmitTestClosed preserves the invariant.
LEMMA SubmitTestClosedInv ==
    ASSUME IInv, NEW t \in Tasks, SubmitTestClosed(t)
    PROVE  IInv'
<1>. USE IInvParts
<1>1. TypeOK'
  BY DEF TypeOK, SubmitTestClosed, SubBusy
<1>2. BootCoherent'
  BY DEF BootCoherent, SubmitTestClosed, Submitting, SubBusy, TypeOK
<1>3. OneOwner'
  BY OwnersShrink DEF SubmitTestClosed, SubBusy, TypeOK
<1>4. ASSUME NEW u \in Tasks PROVE TaskInv(u)'
  BY DEF TaskInv, HeldRow, TypeOK, SubmitTestClosed, Queued, Working, Submitting, SubBusy
<1>5. \A v \in Workers : WorkerRow(v)'
  BY WorkerKept DEF SubmitTestClosed, SameRow
<1>. QED BY <1>1, <1>2, <1>3, <1>4, <1>5, IInvPartsNext

\* SubmitSend preserves the invariant.
LEMMA SubmitSendInv ==
    ASSUME IInv, NEW t \in Tasks, SubmitSend(t)
    PROVE  IInv'
<1>. USE IInvParts
<1>a. /\ sub[t] = "send" /\ rows[t].status = "queued" /\ sent[t] = 0 /\ mark[t] = "none"
      /\ ~Queued(t) /\ ~Scanning(t) /\ ~Working(t)
  BY DEF SubmitSend, TaskInv, HeldRow, Submitting, SubBusy, OneOwner
<1>b. \/ queue' = queue /\ sub' \in {[sub EXCEPT ![t] = "panic"], [sub EXCEPT ![t] = "fail"]}
      \/ queue' = Append(queue, t) /\ sub' = [sub EXCEPT ![t] = "r202"]
  BY DEF SubmitSend
<1>c. \A u \in Tasks : Queued(u)' => Queued(u) \/ (u = t /\ sub'[t] = "r202")
  BY <1>b, AppendIs DEF Queued, TypeOK
<1>1. TypeOK'
  <2>1. queue' \in Seq(Tasks)
    BY <1>b, AppendIs DEF TypeOK
  <2>. QED BY <1>b, <2>1 DEF TypeOK, SubmitSend, SubBusy, SubAnswer
<1>2. BootCoherent'
  BY <1>a, <1>b DEF BootCoherent, SubmitSend, Submitting, SubBusy, TypeOK
<1>3. OneOwner'
  <2>1. CASE queue' = queue
    BY <2>1, <1>a, <1>b, OwnersShrink DEF SubmitSend, SubBusy, TypeOK
  <2>2. CASE queue' = Append(queue, t) /\ sub' = [sub EXCEPT ![t] = "r202"]
    <3>1. \A i, j \in DOMAIN queue' : queue'[i] = queue'[j] => i = j
      BY <2>2, <1>a, AppendIs DEF OneOwner, TypeOK
    <3>. QED
      BY <2>2, <3>1, <1>a, <1>c DEF OneOwner, Submitting, SubBusy, Scanning, Working, TypeOK, SubmitSend
  <2>. QED BY <1>b, <2>1, <2>2
<1>4. ASSUME NEW u \in Tasks PROVE TaskInv(u)'
  <2>1. CASE u # t
    BY <2>1, <1>b, <1>c, TaskKept DEF SameRow, TypeOK, SubmitSend, Working
  <2>2. CASE u = t
    BY <2>2, <1>a, <1>b, <1>c
    DEF TaskInv, HeldRow, TypeOK, SubmitSend, Scanning, Working, Submitting, SubBusy
  <2>. QED BY <2>1, <2>2
<1>5. \A v \in Workers : WorkerRow(v)'
  BY WorkerKept DEF SubmitSend, SameRow
<1>. QED BY <1>1, <1>2, <1>3, <1>4, <1>5, IInvPartsNext

\* SubmitFinishFailed preserves the invariant.
LEMMA SubmitFinishFailedInv ==
    ASSUME IInv, NEW t \in Tasks, SubmitFinishFailed(t)
    PROVE  IInv'
<1>. USE IInvParts
<1>0. PICK ok \in BOOLEAN : Exec(t, FinishedRow(rows[t], "failed", "queue_full"), ok)
  BY DEF SubmitFinishFailed
<1>a. /\ rows[t] \in Row /\ rows[t].status = "queued" /\ ~rows[t].finished /\ ~rows[t].dispatched
      /\ sent[t] = 0 /\ mark[t] = "none" /\ sub[t] = "fail"
      /\ ~Queued(t) /\ ~Scanning(t) /\ ~Working(t) /\ t \in payload
  BY DEF SubmitFinishFailed, TaskInv, HeldRow, Submitting, SubBusy, TypeOK, OneOwner, Terminal
<1>b. /\ rows' \in [Tasks -> Row] /\ faults' \in Nat
      /\ \A u \in Tasks : u # t => rows'[u] = rows[u]
      /\ \/ rows'[t] = rows[t]
         \/ rows'[t].status = "failed" /\ rows'[t].finished /\ ~rows'[t].dispatched
      /\ faults' = 0 => faults = 0 /\ rows'[t].finished
  <2>1. "failed" \in Terminal /\ "queue_full" \in Code
    BY DEF Terminal, Code
  <2>. QED BY <1>0, <1>a, <2>1, ExecIs, FinishedRowIs DEF Unfinished, Exists
<1>1. TypeOK'
  BY <1>b DEF TypeOK, SubmitFinishFailed, SubAnswer
<1>2. BootCoherent'
  BY <1>a DEF BootCoherent, SubmitFinishFailed, Submitting, SubBusy, TypeOK
<1>3. OneOwner'
  BY <1>a, OwnersShrink DEF SubmitFinishFailed, SubBusy, TypeOK
<1>4. ASSUME NEW u \in Tasks PROVE TaskInv(u)'
  <2>1. CASE u # t
    BY <2>1, <1>b, TaskKept DEF SameRow, TypeOK, SubmitFinishFailed, Queued, Working
  <2>2. CASE u = t
    BY <2>2, <1>a, <1>b, NewRows
    DEF TaskInv, HeldRow, TypeOK, SubmitFinishFailed, Queued, Scanning, Submitting, SubBusy, Terminal
  <2>. QED BY <2>1, <2>2
<1>5. ASSUME NEW v \in Workers PROVE WorkerRow(v)'
  BY <1>a, <1>b, WorkerKept DEF SubmitFinishFailed, SameRow, Working
<1>. QED BY <1>1, <1>2, <1>3, <1>4, <1>5, IInvPartsNext

-----------------------------------------------------------------------------
(* Workers and the forwarder.                                              *)

\* Dequeue preserves the invariant.
LEMMA DequeueInv ==
    ASSUME IInv, NEW w \in Workers, Dequeue(w)
    PROVE  IInv'
<1>. USE IInvParts
<1>1. CASE queue = << >>
  <2>0. /\ wpc' = [wpc EXCEPT ![w] = "exited"] /\ wpc[w] = "idle"
        /\ UNCHANGED <<queue, wtask>>
    BY <1>1 DEF Dequeue, Advance
  <2>1. TypeOK'
    BY <2>0 DEF TypeOK, Dequeue, WorkerPc
  <2>2. BootCoherent'
    BY <2>0 DEF BootCoherent, Dequeue, Submitting, TypeOK
  <2>3. OneOwner'
    BY <2>0, OwnersShrink DEF Dequeue
  <2>4. ASSUME NEW u \in Tasks PROVE TaskInv(u)'
    BY <2>0, TaskKept DEF Dequeue, SameRow, Queued, Working
  <2>5. ASSUME NEW v \in Workers PROVE WorkerRow(v)'
    <3>1. CASE v # w
      BY <3>1, <2>0, WorkerKept DEF Dequeue, SameRow, TypeOK
    <3>2. CASE v = w
      BY <3>2, <2>0 DEF WorkerRow, Dequeue, TypeOK
    <3>. QED BY <3>1, <3>2
  <2>. QED BY <2>1, <2>2, <2>3, <2>4, <2>5, IInvPartsNext
<1>2. CASE queue # << >>
  <2> DEFINE t == Head(queue)
  <2>0. /\ wpc' = [wpc EXCEPT ![w] = "load"] /\ wpc[w] = "idle" /\ wtask[w] = NoTask
        /\ wtask' = [wtask EXCEPT ![w] = t]
        /\ queue' = Tail(queue)
    BY <1>2 DEF Dequeue, BootCoherent
  <2>a. /\ t \in Tasks /\ Queued(t)
        /\ \A u \in Tasks : Queued(u)' => Queued(u) /\ u # t
    <3>1. queue \in Seq(Tasks) /\ 1 \in DOMAIN queue /\ t = queue[1]
      BY <1>2 DEF TypeOK
    <3>2. queue' \in Seq(Tasks) /\ \A i \in DOMAIN queue' : i + 1 \in DOMAIN queue /\ queue'[i] = queue[i + 1] /\ i # 0
      BY <1>2, <2>0, <3>1
    <3>. QED BY <3>1, <3>2 DEF Queued, OneOwner, TypeOK
  <2>b. /\ ~Submitting(t) /\ ~Scanning(t) /\ ~Working(t)
        /\ rows[t].status = "queued" /\ mark[t] = "none" /\ sub[t] # "idle"
    BY <2>a, NewRows DEF OneOwner, TaskInv, HeldRow
  <2>c. \A u \in Tasks : Working(u)' <=> Working(u) \/ u = t
    BY <2>0, <2>a, ConstantsAssumption DEF Working, TypeOK
  <2>. HIDE DEF t
  <2>1. TypeOK'
    <3>1. queue' \in Seq(Tasks)
      BY <1>2, <2>0 DEF TypeOK
    <3>. QED BY <2>0, <2>a, <3>1 DEF TypeOK, Dequeue, WorkerPc
  <2>2. BootCoherent'
    BY <1>2, <2>0, <2>a, ConstantsAssumption DEF BootCoherent, Dequeue, Submitting, TypeOK
  <2>3. OneOwner'
    <3>1. \A i, j \in DOMAIN queue' : queue'[i] = queue'[j] => i = j
      BY <1>2, <2>0 DEF OneOwner, TypeOK
    <3>2. \A x, y \in Workers : wtask'[x] = wtask'[y] => x = y \/ wtask'[x] = NoTask
      BY <2>0, <2>b DEF OneOwner, TypeOK, Working
    <3>. QED BY <2>a, <2>b, <2>c, <3>1, <3>2 DEF OneOwner, Dequeue, Submitting, Scanning
  <2>4. ASSUME NEW u \in Tasks PROVE TaskInv(u)'
    <3>1. CASE u # t
      BY <3>1, <2>a, <2>c, TaskKept DEF Dequeue, SameRow
    <3>2. CASE u = t
      BY <3>2, <2>a, <2>b DEF TaskInv, HeldRow, Dequeue, Submitting
    <3>. QED BY <3>1, <3>2
  <2>5. ASSUME NEW v \in Workers PROVE WorkerRow(v)'
    <3>1. CASE v # w
      BY <3>1, <2>0, WorkerKept DEF Dequeue, SameRow, TypeOK
    <3>2. CASE v = w
      BY <3>2, <2>0, <2>a, <2>b DEF WorkerRow, Dequeue, TypeOK
    <3>. QED BY <3>1, <3>2
  <2>. QED BY <2>1, <2>2, <2>3, <2>4, <2>5, IInvPartsNext
<1>. QED BY <1>1, <1>2

\* A worker that lets go of its task, whatever the statement did to the row.
LEMMA ReleaseInv ==
    ASSUME IInv, NEW w \in Workers, NEW t \in Tasks, wtask[w] = t, Release(w),
           wpc[w] \in {"load", "markRunning", "finish"},
           rows' \in [Tasks -> Row], faults' \in Nat,
           \A u \in Tasks : u # t => rows'[u] = rows[u],
           TaskInv(t)',
           faults' = 0 => faults = 0,
           UNCHANGED <<payload, boot, down, deaths, queue, scanVars, sub, mark, sent>>
    PROVE  IInv'
<1>. USE IInvParts
<1>a. \A v \in Workers : v # w => wtask[v] # t
  BY ConstantsAssumption DEF OneOwner
<1>1. TypeOK'
  BY DEF TypeOK, Release, WorkerPc, Outcome
<1>2. BootCoherent'
  BY DEF BootCoherent, Release, Submitting, TypeOK
<1>3. OneOwner'
  BY OwnersShrink DEF Release, TypeOK
<1>4. ASSUME NEW u \in Tasks PROVE TaskInv(u)'
  <2>1. CASE u # t
    BY <2>1, TaskKept, ConstantsAssumption DEF SameRow, Queued, Working, Release, TypeOK
  <2>. QED BY <2>1
<1>5. ASSUME NEW v \in Workers PROVE WorkerRow(v)'
  <2>1. CASE v # w
    BY <2>1, <1>a, WorkerKept DEF Release, SameRow, TypeOK
  <2>2. CASE v = w
    BY <2>2 DEF WorkerRow, Release, TypeOK
  <2>. QED BY <2>1, <2>2
<1>. QED BY <1>1, <1>2, <1>3, <1>4, <1>5, IInvPartsNext

\* A worker that goes on with its task.
LEMMA AdvanceInv ==
    ASSUME IInv, NEW w \in Workers, NEW t \in Tasks, wtask[w] = t,
           NEW pc \in {"markRunning", "forward", "sent", "finish"},
           Advance(w, pc), wpc[w] \in {"load", "markRunning", "forward", "sent"},
           rows' \in [Tasks -> Row], faults' \in Nat,
           outcome' \in [Workers -> Outcome], mark' \in [Tasks -> MarkStep],
           sent' \in [Tasks -> Nat],
           \A u \in Tasks : u # t =>
              rows'[u] = rows[u] /\ mark'[u] = mark[u] /\ sent'[u] = sent[u],
           \A v \in Workers : v # w => outcome'[v] = outcome[v],
           TaskInv(t)', WorkerRow(w)',
           faults' = 0 => faults = 0,
           UNCHANGED <<payload, boot, down, deaths, queue, scanVars, sub>>
    PROVE  IInv'
<1>. USE IInvParts
<1>a. \A v \in Workers : v # w => wtask[v] # t
  BY ConstantsAssumption DEF OneOwner
<1>1. TypeOK'
  BY DEF TypeOK, Advance, WorkerPc
<1>2. BootCoherent'
  <2>1. boot = "serving"
    BY DEF BootCoherent
  <2>. QED BY <2>1 DEF BootCoherent, Advance, TypeOK
<1>3. OneOwner'
  BY OwnersShrink DEF Advance, TypeOK
<1>4. ASSUME NEW u \in Tasks PROVE TaskInv(u)'
  <2>1. CASE u # t
    BY <2>1, TaskKept DEF SameRow, Queued, Working, Advance, TypeOK
  <2>. QED BY <2>1
<1>5. ASSUME NEW v \in Workers PROVE WorkerRow(v)'
  <2>1. CASE v # w
    BY <2>1, <1>a, WorkerKept DEF Advance, SameRow, TypeOK
  <2>. QED BY <2>1
<1>. QED BY <1>1, <1>2, <1>3, <1>4, <1>5, IInvPartsNext

\* The task a worker holds.
LEMMA HeldTask ==
    ASSUME IInv, NEW w \in Workers, wpc[w] \notin {"off", "idle", "exited"}
    PROVE  \E t \in Tasks :
              /\ wtask[w] = t /\ rows[t] \in Row /\ Working(t)
              /\ TaskInv(t) /\ WorkerRow(w)
              /\ ~Submitting(t) /\ ~Queued(t) /\ ~Scanning(t)
<1>. USE IInvParts
<1>1. wtask[w] \in Tasks
  BY DEF BootCoherent, TypeOK
<1>. QED BY <1>1 DEF Working, OneOwner, TypeOK

\* LoadTask preserves the invariant.
LEMMA LoadTaskInv ==
    ASSUME IInv, NEW w \in Workers, LoadTask(w)
    PROVE  IInv'
<1>. USE IInvParts
<1>t. PICK t \in Tasks : wtask[w] = t /\ TaskInv(t) /\ Working(t) /\ WorkerRow(w)
  BY HeldTask DEF LoadTask
<1>0. PICK ok \in BOOLEAN :
         /\ ReadDB(ok)
         /\ IF ok /\ Exists(rows[t]) /\ t \in payload
            THEN Advance(w, "markRunning") /\ UNCHANGED outcome
            ELSE Release(w)
  BY <1>t DEF LoadTask
<1>a. faults' \in Nat /\ (faults' = 0 => faults = 0) /\ rows' \in [Tasks -> Row]
  BY <1>0 DEF ReadDB, TypeOK, LoadTask
<1>1. TaskInv(t)'
  BY <1>t, <1>a, TaskKept DEF LoadTask, SameRow, Queued
<1>2. CASE Release(w)
  BY <1>2, <1>t, <1>a, <1>1, ReleaseInv DEF LoadTask
<1>3. CASE Advance(w, "markRunning") /\ UNCHANGED outcome
  <2>1. WorkerRow(w)'
    BY <1>3, <1>t DEF LoadTask, Advance, WorkerRow, TypeOK
  <2>. QED BY <1>3, <1>t, <1>a, <1>1, <2>1, AdvanceInv DEF LoadTask, TypeOK
<1>. QED BY <1>0, <1>2, <1>3

\* MarkRunning preserves the invariant.
LEMMA MarkRunningInv ==
    ASSUME IInv, NEW w \in Workers, MarkRunning(w)
    PROVE  IInv'
<1>. USE IInvParts
<1>t. PICK t \in Tasks :
         /\ wtask[w] = t /\ rows[t] \in Row /\ TaskInv(t) /\ WorkerRow(w)
         /\ ~Submitting(t) /\ ~Queued(t) /\ ~Scanning(t) /\ Working(t)
  BY HeldTask DEF MarkRunning
<1>0. PICK ok \in BOOLEAN :
         /\ Exec(t, RunningRow(rows[t]), ok)
         /\ IF Updated(ok, Exists(rows[t]))
            THEN Advance(w, "forward") /\ UNCHANGED outcome
            ELSE Release(w)
  BY <1>t DEF MarkRunning
<1>a. rows[t].status = "queued" /\ ~rows[t].finished /\ ~rows[t].dispatched /\ mark[t] = "none"
  BY <1>t DEF MarkRunning, WorkerRow, TaskInv, Terminal
<1>b. /\ rows' \in [Tasks -> Row] /\ faults' \in Nat
      /\ \A u \in Tasks : u # t => rows'[u] = rows[u]
      /\ rows'[t].status \in {"queued", "running"} /\ ~rows'[t].finished /\ ~rows'[t].dispatched
      /\ ok => rows'[t].status = "running"
      /\ faults' = 0 => faults = 0
  BY <1>0, <1>t, <1>a, ExecIs, RunningRowIs
<1>c. TaskInv(t)'
  <2>1. sub[t] \notin {"idle", "create", "mark", "enqueue", "send", "fail", "draining503"}
    BY <1>t, <1>a, NewRows DEF TaskInv, HeldRow, Submitting, SubBusy
  <2>2. ~Queued(t)' /\ t \notin scan' /\ t # cur' /\ ~Submitting(t)'
    BY <1>t DEF MarkRunning, Queued, Scanning, Submitting
  <2>. QED BY <1>t, <1>a, <1>b, <2>1, <2>2, NewRows DEF TaskInv, HeldRow, MarkRunning, Terminal
<1>1. CASE Release(w)
  BY <1>1, <1>t, <1>b, <1>c, ReleaseInv DEF MarkRunning
<1>2. CASE ok /\ Advance(w, "forward") /\ UNCHANGED outcome
  <2>1. WorkerRow(w)'
    BY <1>2, <1>t, <1>a, <1>b DEF MarkRunning, Advance, WorkerRow, TypeOK
  <2>. QED BY <1>2, <1>t, <1>b, <1>c, <2>1, AdvanceInv DEF MarkRunning, TypeOK
<1>. QED BY <1>0, <1>1, <1>2 DEF Updated

\* A step that changes nothing but rows, payload and faults, and no row in a
\* way that matters to its holder.
LEMMA RowsOnlyInv ==
    ASSUME IInv, rows' \in [Tasks -> Row], payload' \in SUBSET Tasks, faults' \in Nat,
           faults' = 0 => faults = 0,
           \A u \in Tasks : TaskInv(u)',
           \A v \in Workers : wtask[v] \in Tasks =>
              \/ SameRow(rows[wtask[v]], rows'[wtask[v]])
              \/ /\ wpc[v] \in {"sent", "finish"}
                 /\ rows'[wtask[v]].status \notin {"accepted", "queued"},
           UNCHANGED <<boot, down, deaths, queue, scanVars, sub, workerVars, mark, sent>>
    PROVE  IInv'
<1>. USE IInvParts
<1>1. TypeOK'
  BY DEF TypeOK
<1>2. BootCoherent'
  BY DEF BootCoherent, Submitting
<1>3. OneOwner'
  BY OwnersShrink
<1>5. ASSUME NEW v \in Workers PROVE WorkerRow(v)'
  <2>1. CASE wtask[v] \in Tasks => SameRow(rows[wtask[v]], rows'[wtask[v]])
    BY <2>1, WorkerKept
  <2>2. CASE /\ wpc[v] \in {"sent", "finish"}
             /\ rows'[wtask[v]].status \notin {"accepted", "queued"}
    BY <2>2 DEF WorkerRow
  <2>. QED BY <2>1, <2>2
<1>. QED BY <1>1, <1>2, <1>3, <1>5, IInvPartsNext

\* UpdateHeartbeat preserves the invariant.
LEMMA UpdateHeartbeatInv ==
    ASSUME IInv, NEW w \in Workers, UpdateHeartbeat(w)
    PROVE  IInv'
<1>. USE IInvParts
<1>t. PICK t \in Tasks : wtask[w] = t /\ rows[t] \in Row
  BY HeldTask DEF UpdateHeartbeat
<1>0. PICK ok \in BOOLEAN : Exec(t, HeartbeatRow(rows[t]), ok)
  BY <1>t DEF UpdateHeartbeat
<1>a. /\ rows' \in [Tasks -> Row] /\ faults' \in Nat /\ (faults' = 0 => faults = 0)
      /\ \A u \in Tasks : u # t => rows'[u] = rows[u]
      /\ rows'[t] = rows[t] \/ rows'[t] = HeartbeatRow(rows[t])
  BY <1>0, <1>t, ExecIs, HeartbeatRowIs
<1>b. \A u \in Tasks : SameRow(rows[u], rows'[u])
  BY <1>a, <1>t, HeartbeatRowIs, NewRows DEF SameRow
<1>1. \A u \in Tasks : TaskInv(u)'
  BY <1>a, <1>b, TaskKept DEF UpdateHeartbeat, Queued, Working
<1>. QED BY <1>a, <1>b, <1>1, RowsOnlyInv DEF UpdateHeartbeat, TypeOK

\* ForwardFailsBeforeWrite preserves the invariant.
LEMMA ForwardFailsBeforeWriteInv ==
    ASSUME IInv, NEW w \in Workers, ForwardFailsBeforeWrite(w)
    PROVE  IInv'
<1>. USE IInvParts
<1>t. PICK t \in Tasks : wtask[w] = t /\ TaskInv(t) /\ Working(t) /\ WorkerRow(w)
  BY HeldTask DEF ForwardFailsBeforeWrite
<1>1. TaskInv(t)'
  BY <1>t, TaskKept DEF ForwardFailsBeforeWrite, SameRow, Queued
<1>2. WorkerRow(w)'
  BY <1>t DEF ForwardFailsBeforeWrite, Advance, WorkerRow, TypeOK
<1>. QED BY <1>t, <1>1, <1>2, AdvanceInv DEF ForwardFailsBeforeWrite, TypeOK, Outcome

\* WriteRequest preserves the invariant.
LEMMA WriteRequestInv ==
    ASSUME IInv, NEW w \in Workers, WriteRequest(w)
    PROVE  IInv'
<1>. USE IInvParts
<1>t. PICK t \in Tasks :
         /\ wtask[w] = t /\ TaskInv(t) /\ WorkerRow(w) /\ Working(t)
         /\ ~Submitting(t) /\ ~Queued(t) /\ ~Scanning(t)
  BY HeldTask DEF WriteRequest
<1>a. /\ rows[t].status = "running" /\ ~rows[t].finished /\ mark[t] = "none"
      /\ mark'[t] = "written" /\ sent'[t] = sent[t] + 1 /\ sent[t] \in Nat /\ deaths \in Nat
  BY <1>t DEF WriteRequest, WorkerRow, TaskInv, TypeOK, Terminal
<1>1. TaskInv(t)'
  <2>1. sub[t] \notin {"idle", "create", "draining503"} /\ ~(sub[t] = "r503" /\ faults = 0)
    BY <1>t, <1>a, NewRows DEF TaskInv, HeldRow
  <2>2. ~Queued(t)' /\ t \notin scan' /\ t # cur' /\ ~Submitting(t)'
    BY <1>t DEF WriteRequest, Queued, Scanning, Submitting
  <2>. QED BY <1>t, <1>a, <2>1, <2>2 DEF TaskInv, HeldRow, WriteRequest, Submitting, SubBusy
<1>2. WorkerRow(w)'
  BY <1>t, <1>a DEF WriteRequest, Advance, WorkerRow, TypeOK
<1>3. /\ mark' \in [Tasks -> MarkStep] /\ sent' \in [Tasks -> Nat]
      /\ \A u \in Tasks : u # t => mark'[u] = mark[u] /\ sent'[u] = sent[u]
  BY <1>t DEF WriteRequest, TypeOK, MarkStep
<1>. QED BY <1>t, <1>1, <1>2, <1>3, AdvanceInv DEF WriteRequest, TypeOK

\* ForwardEnds preserves the invariant.
LEMMA ForwardEndsInv ==
    ASSUME IInv, NEW w \in Workers, ForwardEnds(w)
    PROVE  IInv'
<1>. USE IInvParts
<1>0. /\ wpc[w] = "sent" /\ Advance(w, "finish")
      /\ \E o \in {"succeeded", "failed", "uncertain"} : outcome' = [outcome EXCEPT ![w] = o]
      /\ UNCHANGED <<dbVars, boot, down, deaths, queue, scanVars, sub, mark, sent>>
  BY DEF ForwardEnds, UpstreamAnswers, TransportBreaks
<1>t. PICK t \in Tasks : wtask[w] = t /\ TaskInv(t) /\ Working(t) /\ WorkerRow(w)
  BY <1>0, HeldTask
<1>1. TaskInv(t)'
  BY <1>0, <1>t, TaskKept DEF SameRow, Queued
<1>2. WorkerRow(w)'
  BY <1>0, <1>t DEF Advance, WorkerRow, TypeOK, TaskInv, HeldRow
<1>3. outcome' \in [Workers -> Outcome] /\ \A v \in Workers : v # w => outcome'[v] = outcome[v]
  BY <1>0 DEF TypeOK, Outcome
<1>. QED BY <1>0, <1>t, <1>1, <1>2, <1>3, AdvanceInv DEF TypeOK

\* FinishTask preserves the invariant.
LEMMA FinishTaskInv ==
    ASSUME IInv, NEW w \in Workers, FinishTask(w)
    PROVE  IInv'
<1>. USE IInvParts
<1>t. PICK t \in Tasks :
         /\ wtask[w] = t /\ rows[t] \in Row /\ TaskInv(t) /\ WorkerRow(w) /\ Working(t)
         /\ ~Submitting(t) /\ ~Queued(t) /\ ~Scanning(t)
  BY HeldTask DEF FinishTask
<1> DEFINE r == FinishedRow(rows[t], outcome[w], OutcomeCode(outcome[w]))
<1>0. PICK ok \in BOOLEAN : Exec(t, r, ok)
  BY <1>t DEF FinishTask
<1>a. /\ outcome[w] \in Terminal /\ OutcomeCode(outcome[w]) \in Code
      /\ rows[t].status \notin {"accepted", "queued"}
      /\ outcome[w] = "uncertain" => sent[t] > 0
  BY <1>t DEF FinishTask, WorkerRow, TypeOK, Outcome, OutcomeCode, Terminal, Code
<1>b. /\ r \in Row
      /\ \/ r = rows[t]
         \/ /\ ~rows[t].finished /\ rows[t].status = "running"
            /\ r.status = outcome[w] /\ r.finished /\ r.dispatched = rows[t].dispatched
  BY <1>t, <1>a, FinishedRowIs DEF Unfinished, Exists, Row, Status, Pending, Terminal, TaskInv
<1>. HIDE DEF r
<1>c. /\ rows' \in [Tasks -> Row] /\ faults' \in Nat /\ (faults' = 0 => faults = 0)
      /\ \A u \in Tasks : u # t => rows'[u] = rows[u]
      /\ rows'[t] = rows[t] \/ rows'[t] = r
  BY <1>0, <1>t, <1>b, ExecIs
<1>1. TaskInv(t)'
  <2>1. CASE rows'[t] = rows[t]
    BY <2>1, <1>c, <1>t, TaskKept, ConstantsAssumption DEF SameRow, FinishTask, Release, Queued, Working, TypeOK
  <2>2. CASE rows'[t] # rows[t]
    <3>1. /\ rows'[t].status = outcome[w] /\ rows'[t].finished
          /\ rows'[t].dispatched = rows[t].dispatched /\ rows[t].status = "running"
      BY <2>2, <1>b, <1>c
    <3>2. ~Queued(t)' /\ t \notin scan' /\ t # cur' /\ ~Submitting(t)'
      BY <1>t DEF FinishTask, Queued, Scanning, Submitting
    <3>3. sub[t] \notin {"idle", "create", "mark", "enqueue", "send", "fail", "draining503"}
      BY <1>t, <3>1, NewRows DEF TaskInv, HeldRow
    <3>. QED
      BY <1>t, <1>a, <1>c, <3>1, <3>2, <3>3 DEF TaskInv, HeldRow, FinishTask, Terminal
  <2>. QED BY <2>1, <2>2
<1>. QED BY <1>t, <1>c, <1>1, ReleaseInv DEF FinishTask

-----------------------------------------------------------------------------
(* The callback, time and the cleaner.                                     *)

\* WroteRequest preserves the invariant.
LEMMA WroteRequestInv ==
    ASSUME IInv, NEW t \in Tasks, WroteRequest(t)
    PROVE  IInv'
<1>. USE IInvParts
<1>1. TypeOK'
  BY DEF TypeOK, WroteRequest, MarkStep
<1>2. BootCoherent'
  BY DEF BootCoherent, WroteRequest, Submitting
<1>3. OneOwner'
  BY OwnersShrink DEF WroteRequest
<1>4. ASSUME NEW u \in Tasks PROVE TaskInv(u)'
  BY DEF TaskInv, HeldRow, WroteRequest, Queued, Working, Submitting, TypeOK
<1>5. ASSUME NEW v \in Workers PROVE WorkerRow(v)'
  BY DEF WorkerRow, WroteRequest, TypeOK, BootCoherent
<1>. QED BY <1>1, <1>2, <1>3, <1>4, <1>5, IInvPartsNext

\* MarkRequestDispatched preserves the invariant.
LEMMA MarkRequestDispatchedInv ==
    ASSUME IInv, NEW t \in Tasks, MarkRequestDispatched(t)
    PROVE  IInv'
<1>. USE IInvParts
<1>a. /\ mark[t] = "wrote" /\ rows[t] \in Row /\ sent[t] > 0
      /\ rows[t].status \notin {"accepted", "queued"}
  BY DEF MarkRequestDispatched, TaskInv, HeldRow, TypeOK
<1>b. /\ rows' \in [Tasks -> Row] /\ faults' \in Nat /\ (faults' = 0 => faults = 0)
      /\ \A u \in Tasks : u # t => rows'[u] = rows[u]
      /\ rows'[t] = rows[t] \/ rows'[t] = DispatchedRow(rows[t])
  <2>1. CASE UNCHANGED <<rows, faults>>
    BY <2>1 DEF TypeOK
  <2>2. CASE \E ok \in BOOLEAN : Exec(t, DispatchedRow(rows[t]), ok)
    BY <2>2, <1>a, ExecIs, DispatchedRowIs
  <2>. QED BY <2>1, <2>2 DEF MarkRequestDispatched
<1>c. /\ rows'[t].status = rows[t].status /\ rows'[t].finished = rows[t].finished
      /\ rows[t].status = "none" => rows'[t] = rows[t]
      /\ rows'[t].status # "none" \/ rows'[t].dispatched = rows[t].dispatched
  BY <1>a, <1>b, DispatchedRowIs
<1>1. TypeOK'
  BY <1>b DEF TypeOK, MarkRequestDispatched, MarkStep
<1>2. BootCoherent'
  BY DEF BootCoherent, MarkRequestDispatched, Submitting
<1>3. OneOwner'
  BY OwnersShrink DEF MarkRequestDispatched
<1>4. ASSUME NEW u \in Tasks PROVE TaskInv(u)'
  <2>1. CASE u # t
    BY <2>1, <1>b, TaskKept DEF SameRow, MarkRequestDispatched, Queued, Working, TypeOK
  <2>2. CASE u = t
    <3>1. rows[t].status \in {"none", "running"} \cup Terminal
      BY <1>a DEF Row, Status, Pending
    <3>2. mark'[t] = "done" /\ UNCHANGED <<payload, deaths, queue, scan, cur, sub, wtask, sent>>
      BY DEF MarkRequestDispatched, TypeOK
    <3>3. ~Submitting(t) /\ ~Queued(t) /\ rows[t].status \notin {"accepted", "queued"}
      BY <1>a DEF TaskInv, HeldRow
    <3>4. HeldRow(t)'
      BY <1>a, <1>c, <3>2, <3>3, NewRows DEF TaskInv, HeldRow, Queued, Working, Submitting
    <3>5. \/ rows'[t] = rows[t]
          \/ rows[t].status \in {"running"} \cup Terminal /\ rows[t] # NoRow
      BY <1>a, <1>b, <3>1, DispatchedRowIs, NewRows DEF Terminal
    <3>6. CASE rows'[t] = rows[t]
      BY <2>2, <1>a, <1>b, <3>2, <3>4, <3>6 DEF TaskInv
    <3>7. CASE rows[t].status \in {"running"} \cup Terminal /\ rows[t] # NoRow
      <4>1. rows'[t].status \in {"running"} \cup Terminal /\ rows'[t].status # "none"
        BY <3>7, <1>c DEF Terminal
      <4>2. /\ sent'[t] = sent[t] /\ sub'[t] = sub[t] /\ deaths' = deaths /\ payload' = payload
            /\ mark[t] # "none" /\ mark'[t] # "none"
        BY <1>a, <3>2
      <4>3. rows'[t].dispatched \/ rows'[t].dispatched = rows[t].dispatched
        BY <1>a, <1>b, DispatchedRowIs
      <4>4. TaskInv(t)
        OBVIOUS
      <4>5. /\ rows'[t].finished <=> rows'[t].status \in Terminal
            /\ rows'[t].status # "none" /\ ~rows'[t].finished /\ ~rows'[t].dispatched => t \in payload'
            /\ sub'[t] # "draining503"
            /\ sub'[t] = "r503" /\ faults' = 0 => FALSE
        BY <4>1, <4>2, <4>3, <4>4, <1>a, <1>b, <1>c, <3>7 DEF TaskInv
      <4>6. /\ rows'[t].status = "uncertain" => sent'[t] > 0
            /\ sent'[t] <= deaths' + (IF mark'[t] = "none" THEN 0 ELSE 1)
        BY <4>2, <4>4, <1>a, <1>c DEF TaskInv
      <4>. QED BY <2>2, <1>a, <3>4, <4>1, <4>2, <4>5, <4>6 DEF TaskInv
    <3>. QED BY <3>5, <3>6, <3>7
  <2>. QED BY <2>1, <2>2
<1>5. ASSUME NEW v \in Workers PROVE WorkerRow(v)'
  <2>0. UNCHANGED <<wpc, wtask, outcome, sent>> /\ mark' = [mark EXCEPT ![t] = "done"] /\ WorkerRow(v)
    BY DEF MarkRequestDispatched
  <2>1. CASE wtask[v] # t
    BY <2>0, <2>1, <1>b, WorkerKept DEF SameRow, TypeOK
  <2>2. CASE wtask[v] = t
    BY <2>0, <2>2, <1>a, <1>c DEF WorkerRow, TypeOK
  <2>. QED BY <2>1, <2>2
<1>. QED BY <1>1, <1>2, <1>3, <1>4, <1>5, IInvPartsNext

\* Age preserves the invariant.
LEMMA AgeInv ==
    ASSUME IInv, NEW t \in Tasks, Age(t)
    PROVE  IInv'
<1>. USE IInvParts
<1>a. rows' \in [Tasks -> Row]
  BY DEF Age, TypeOK, Row
<1>b. \A u \in Tasks : SameRow(rows[u], rows'[u])
  BY NewRows DEF Age, TypeOK, SameRow, Row
<1>1. \A u \in Tasks : TaskInv(u)'
  BY <1>b, TaskKept DEF Age, Queued, Working
<1>. QED BY <1>a, <1>b, <1>1, RowsOnlyInv DEF Age, TypeOK

\* DeleteExpiredTask preserves the invariant.
LEMMA DeleteExpiredTaskInv ==
    ASSUME IInv, NEW t \in Tasks, DeleteExpiredTask(t)
    PROVE  IInv'
<1>. USE IInvParts
<1>a. /\ rows' \in [Tasks -> Row] /\ rows'[t] = NoRow
      /\ \A u \in Tasks : u # t => rows'[u] = rows[u]
      /\ rows[t].finished /\ rows[t].status \in Terminal
  BY NewRows DEF DeleteExpiredTask, TypeOK, Deletable
<1>1. ASSUME NEW u \in Tasks PROVE TaskInv(u)'
  <2>1. CASE u # t
    BY <2>1, <1>a, TaskKept DEF SameRow, DeleteExpiredTask, Queued, Working
  <2>2. CASE u = t
    BY <2>2, <1>a, NewRows
    DEF TaskInv, HeldRow, DeleteExpiredTask, Queued, Working, Submitting, SubBusy, Terminal, Pending
  <2>. QED BY <2>1, <2>2
<1>2. ASSUME NEW v \in Workers, wtask[v] = t
      PROVE  wpc[v] \in {"sent", "finish"}
  BY <1>2, <1>a, ConstantsAssumption DEF WorkerRow, BootCoherent, TypeOK, WorkerPc, TaskInv, Terminal
<1>. QED BY <1>a, <1>1, <1>2, NewRows, RowsOnlyInv DEF DeleteExpiredTask, TypeOK, SameRow

\* DeleteExpiredPayload preserves the invariant.
LEMMA DeleteExpiredPayloadInv ==
    ASSUME IInv, NEW t \in Tasks, DeleteExpiredPayload(t)
    PROVE  IInv'
<1>. USE IInvParts
<1>1. ASSUME NEW u \in Tasks PROVE TaskInv(u)'
  <2>1. CASE u # t
    BY <2>1, TaskKept DEF SameRow, DeleteExpiredPayload, Queued, Working
  <2>2. CASE u = t
    BY <2>2 DEF TaskInv, HeldRow, DeleteExpiredPayload, PayloadDeletable, Queued, Working, Submitting
  <2>. QED BY <2>1, <2>2
<1>. QED BY <1>1, RowsOnlyInv DEF DeleteExpiredPayload, TypeOK, SameRow

-----------------------------------------------------------------------------
(* The recovery scan.                                                      *)

\* StartProcess preserves the invariant.
LEMMA StartProcessInv ==
    ASSUME IInv, StartProcess
    PROVE  IInv'
<1>. USE IInvParts
<1>a. scan' \subseteq Tasks /\ \A t \in scan' : Recoverable(rows[t])
  BY DEF StartProcess
<1>b. /\ boot = "off" /\ queue = << >> /\ cur = NoTask
      /\ \A t \in Tasks : ~Submitting(t)
      /\ \A w \in Workers : wtask[w] = NoTask
  BY DEF StartProcess, BootCoherent
<1>1. TypeOK'
  BY <1>a DEF TypeOK, StartProcess
<1>2. BootCoherent'
  BY DEF BootCoherent, StartProcess, Submitting
<1>3. OneOwner'
  BY <1>a, <1>b, ConstantsAssumption DEF OneOwner, StartProcess, Submitting, Queued, Scanning, Working
<1>4. ASSUME NEW u \in Tasks PROVE TaskInv(u)'
  <2>1. u \in scan' => rows[u].status \in Pending
    BY <1>a DEF Recoverable, Pending
  <2>. QED BY <2>1 DEF TaskInv, HeldRow, StartProcess, Queued, Working, Submitting
<1>5. ASSUME NEW v \in Workers PROVE WorkerRow(v)'
  BY WorkerKept DEF StartProcess, SameRow
<1>. QED BY <1>1, <1>2, <1>3, <1>4, <1>5, IInvPartsNext

\* During the scan there are no handlers, no workers and no callbacks.
LEMMA ScanAlone ==
    ASSUME IInv, boot # "serving"
    PROVE  /\ \A t \in Tasks : ~Submitting(t) /\ ~Working(t) /\ mark[t] = "none"
           /\ \A w \in Workers : wpc[w] = "off" /\ wtask[w] = NoTask
BY IInvParts, ConstantsAssumption DEF BootCoherent, Working

\* ScanHandle preserves the invariant.
LEMMA ScanHandleInv ==
    ASSUME IInv, NEW t \in Tasks, ScanHandle(t)
    PROVE  IInv'
<1>. USE IInvParts
<1>a. /\ boot = "scan" /\ cur = NoTask /\ t \in scan /\ rows[t] \in Row
      /\ rows[t].status \in Pending /\ ~rows[t].finished /\ ~Queued(t)
  BY DEF ScanHandle, BootCoherent, TaskInv, HeldRow, TypeOK, OneOwner, Scanning, Pending, Terminal
<1>b. /\ \A u \in Tasks : ~Submitting(u) /\ ~Working(u) /\ mark[u] = "none"
      /\ \A w \in Workers : wpc[w] = "off" /\ wtask[w] = NoTask
  BY <1>a, ScanAlone
<1>c. /\ "failed" \in Terminal /\ "uncertain" \in Terminal
      /\ "recovery_payload_missing" \in Code /\ "upstream_transport_uncertain" \in Code
  BY DEF Terminal, Code
<1>d. /\ rows' \in [Tasks -> Row]
      /\ \A u \in Tasks : u # t => rows'[u] = rows[u]
      /\ \/ /\ UNCHANGED <<cur, rpc>>
            /\ rows'[t].finished /\ rows'[t].dispatched = rows[t].dispatched
            /\ \/ rows'[t].status = "failed"
               \/ rows'[t].status = "uncertain" /\ rows[t].dispatched
         \/ /\ cur' = t /\ rpc' = "enqueue" /\ t \in payload
            /\ rows'[t].status = "queued" /\ ~rows'[t].finished /\ ~rows'[t].dispatched
  <2>1. Unfinished(rows[t])
    BY <1>a DEF Unfinished, Exists, Pending
  <2>2. CASE t \notin payload
    <3>1. /\ rows' = [rows EXCEPT ![t] = FinishedRow(rows[t], "failed", "recovery_payload_missing")]
          /\ UNCHANGED <<cur, rpc>>
      BY <2>2 DEF ScanHandle
    <3>. QED BY <2>1, <3>1, <1>a, <1>c, FinishedRowIs DEF TypeOK
  <2>3. CASE t \in payload /\ Ambiguous(rows[t])
    <3>1. /\ rows' = [rows EXCEPT ![t] = FinishedRow(rows[t], "uncertain", "upstream_transport_uncertain")]
          /\ UNCHANGED <<cur, rpc>>
      BY <2>3 DEF ScanHandle
    <3>. QED BY <2>1, <2>3, <3>1, <1>a, <1>c, FinishedRowIs DEF TypeOK, Ambiguous
  <2>4. CASE t \in payload /\ ~Ambiguous(rows[t])
    <3>1. ~rows[t].dispatched /\ rows[t].status # "none"
      BY <2>4, <1>a DEF TaskInv, Ambiguous, Pending, Terminal
    <3>. QED BY <2>4, <3>1, <1>a, QueuedRowIs DEF ScanHandle, TypeOK
  <2>. QED BY <2>2, <2>3, <2>4
<1>1. TypeOK'
  BY <1>d DEF TypeOK, ScanHandle, RpcStep
<1>2. BootCoherent'
  BY <1>a, <1>b, <1>d, ConstantsAssumption DEF BootCoherent, ScanHandle, Submitting
<1>3. OneOwner'
  BY <1>a, <1>b, <1>d, ConstantsAssumption
  DEF OneOwner, ScanHandle, Submitting, Queued, Scanning, Working, TypeOK
<1>4. ASSUME NEW u \in Tasks PROVE TaskInv(u)'
  <2>1. CASE u # t
    BY <2>1, <1>d, TaskKept DEF ScanHandle, SameRow, Queued, Working
  <2>2. CASE u = t
    <3>1. ~Queued(t)' /\ ~Working(t)' /\ ~Submitting(t)' /\ t \notin scan'
      BY <1>a, <1>b DEF ScanHandle, Queued, Working, Submitting
    <3>2. sub[t] \notin {"idle", "create", "mark", "enqueue", "send", "fail", "draining503"}
      BY <1>a, <1>b, NewRows DEF TaskInv, HeldRow, Submitting, SubBusy, Pending
    <3>. QED
      BY <2>2, <1>a, <1>b, <1>d, <3>1, <3>2, ConstantsAssumption, NewRows
      DEF TaskInv, HeldRow, ScanHandle, Terminal, Pending
  <2>. QED BY <2>1, <2>2
<1>5. ASSUME NEW v \in Workers PROVE WorkerRow(v)'
  BY <1>b, <1>d, WorkerKept, ConstantsAssumption DEF ScanHandle
<1>. QED BY <1>1, <1>2, <1>3, <1>4, <1>5, IInvPartsNext

\* ScanTestClosed preserves the invariant.
LEMMA ScanTestClosedInv ==
    ASSUME IInv, ScanTestClosed
    PROVE  IInv'
<1>. USE IInvParts
<1>1. TypeOK'
  BY DEF TypeOK, ScanTestClosed, RpcStep
<1>2. BootCoherent'
  BY DEF BootCoherent, ScanTestClosed, Submitting
<1>3. OneOwner'
  BY OwnersShrink DEF ScanTestClosed
<1>4. ASSUME NEW u \in Tasks PROVE TaskInv(u)'
  BY TaskKept DEF ScanTestClosed, SameRow, Queued, Working
<1>5. ASSUME NEW v \in Workers PROVE WorkerRow(v)'
  BY WorkerKept DEF ScanTestClosed, SameRow
<1>. QED BY <1>1, <1>2, <1>3, <1>4, <1>5, IInvPartsNext

\* ScanSend preserves the invariant.
LEMMA ScanSendInv ==
    ASSUME IInv, ScanSend
    PROVE  IInv'
<1>. USE IInvParts
<1>a. /\ boot = "scan" /\ cur \in Tasks /\ rows[cur].status = "queued"
      /\ ~Queued(cur) /\ cur \notin scan
  BY DEF ScanSend, BootCoherent, TaskInv, HeldRow, TypeOK, OneOwner, Scanning
<1>b. /\ \A u \in Tasks : ~Submitting(u) /\ ~Working(u) /\ mark[u] = "none"
      /\ \A w \in Workers : wpc[w] = "off" /\ wtask[w] = NoTask
  BY <1>a, ScanAlone
<1>5. ASSUME NEW v \in Workers PROVE WorkerRow(v)'
  BY WorkerKept DEF ScanSend, SameRow
<1>6. CASE HasRoom
  <2>0. queue' = Append(queue, cur) /\ cur' = NoTask /\ rpc' = "next"
    BY <1>6 DEF ScanSend
  <2>a. PICK t \in Tasks : t = cur
    BY <1>a
  <2>b. /\ queue' \in Seq(Tasks)
        /\ \A u \in Tasks : Queued(u)' => Queued(u) \/ u = t
        /\ \A i, j \in DOMAIN queue' : queue'[i] = queue'[j] => i = j
    BY <2>0, <2>a, <1>a, AppendIs DEF OneOwner, TypeOK
  <2>1. TypeOK'
    BY <2>0, <2>b DEF TypeOK, ScanSend, RpcStep
  <2>2. BootCoherent'
    BY <2>0, <1>a DEF BootCoherent, ScanSend, Submitting
  <2>3. OneOwner'
    BY <2>0, <2>a, <2>b, <1>a, <1>b, ConstantsAssumption
    DEF OneOwner, ScanSend, Submitting, Scanning, Working, TypeOK
  <2>4. ASSUME NEW u \in Tasks PROVE TaskInv(u)'
    <3>1. CASE u # t
      BY <3>1, <2>0, <2>b, TaskKept, ConstantsAssumption DEF ScanSend, SameRow, Working
    <3>2. CASE u = t
      BY <3>2, <2>0, <2>a, <1>a, <1>b, ConstantsAssumption DEF TaskInv, HeldRow, ScanSend, Submitting, Working
    <3>. QED BY <3>1, <3>2
  <2>. QED BY <2>1, <2>2, <2>3, <2>4, <1>5, IInvPartsNext
<1>7. CASE ~HasRoom
  <2>0. rpc' = "fail" /\ UNCHANGED <<queue, cur>>
    BY <1>7 DEF ScanSend
  <2>1. TypeOK'
    BY <2>0 DEF TypeOK, ScanSend, RpcStep
  <2>2. BootCoherent'
    BY <2>0, <1>a, ConstantsAssumption DEF BootCoherent, ScanSend, Submitting
  <2>3. OneOwner'
    BY <2>0, OwnersShrink DEF ScanSend
  <2>4. ASSUME NEW u \in Tasks PROVE TaskInv(u)'
    BY <2>0, TaskKept DEF ScanSend, SameRow, Queued, Working
  <2>. QED BY <2>1, <2>2, <2>3, <2>4, <1>5, IInvPartsNext
<1>. QED BY <1>6, <1>7

\* ScanFinishFailed preserves the invariant.
LEMMA ScanFinishFailedInv ==
    ASSUME IInv, ScanFinishFailed
    PROVE  IInv'
<1>. USE IInvParts
<1>a. PICK t \in Tasks :
         /\ t = cur /\ boot = "scan" /\ rows[t] \in Row /\ rows[t].status = "queued"
         /\ ~rows[t].finished /\ ~rows[t].dispatched /\ ~Queued(t) /\ t \notin scan
  BY DEF ScanFinishFailed, BootCoherent, TaskInv, HeldRow, TypeOK, OneOwner, Scanning, Terminal
<1>b. /\ \A u \in Tasks : ~Submitting(u) /\ ~Working(u) /\ mark[u] = "none"
      /\ \A w \in Workers : wpc[w] = "off" /\ wtask[w] = NoTask
  BY <1>a, ScanAlone
<1>c. /\ rows' \in [Tasks -> Row]
      /\ \A u \in Tasks : u # t => rows'[u] = rows[u]
      /\ rows'[t].status = "failed" /\ rows'[t].finished /\ ~rows'[t].dispatched
  <2>1. "failed" \in Terminal /\ "queue_full" \in Code
    BY DEF Terminal, Code
  <2>. QED BY <2>1, <1>a, FinishedRowIs DEF ScanFinishFailed, Unfinished, Exists, TypeOK
<1>1. TypeOK'
  BY <1>c DEF TypeOK, ScanFinishFailed, RpcStep
<1>2. BootCoherent'
  BY <1>a DEF BootCoherent, ScanFinishFailed, Submitting
<1>3. OneOwner'
  BY OwnersShrink DEF ScanFinishFailed
<1>4. ASSUME NEW u \in Tasks PROVE TaskInv(u)'
  <2>1. CASE u # t
    BY <2>1, <1>c, TaskKept, ConstantsAssumption DEF ScanFinishFailed, SameRow, Queued, Working
  <2>2. CASE u = t
    <3>1. ~Queued(t)' /\ ~Working(t)' /\ ~Submitting(t)' /\ t \notin scan' /\ t # cur'
      BY <1>a, <1>b, ConstantsAssumption DEF ScanFinishFailed, Queued, Working, Submitting
    <3>2. sub[t] \notin {"idle", "create", "mark", "enqueue", "send", "fail", "draining503"}
      BY <1>a, <1>b, NewRows DEF TaskInv, HeldRow, Submitting, SubBusy
    <3>. QED
      BY <2>2, <1>a, <1>b, <1>c, <3>1, <3>2 DEF TaskInv, HeldRow, ScanFinishFailed, Terminal
  <2>. QED BY <2>1, <2>2
<1>5. ASSUME NEW v \in Workers PROVE WorkerRow(v)'
  BY <1>b, WorkerKept, ConstantsAssumption DEF ScanFinishFailed
<1>. QED BY <1>1, <1>2, <1>3, <1>4, <1>5, IInvPartsNext

\* ScanDone preserves the invariant.
LEMMA ScanDoneInv ==
    ASSUME IInv, ScanDone
    PROVE  IInv'
<1>. USE IInvParts
<1>b. \A w \in Workers : wpc[w] = "off" /\ wtask[w] = NoTask
  BY ScanAlone DEF ScanDone
<1>1. TypeOK'
  BY DEF TypeOK, ScanDone, WorkerPc
<1>2. BootCoherent'
  BY <1>b DEF BootCoherent, ScanDone, Submitting
<1>3. OneOwner'
  BY OwnersShrink DEF ScanDone
<1>4. ASSUME NEW u \in Tasks PROVE TaskInv(u)'
  BY TaskKept DEF ScanDone, SameRow, Queued, Working
<1>5. ASSUME NEW v \in Workers PROVE WorkerRow(v)'
  BY <1>b DEF WorkerRow, ScanDone
<1>. QED BY <1>1, <1>2, <1>3, <1>4, <1>5, IInvPartsNext

-----------------------------------------------------------------------------
(* Shutdown and death.                                                     *)

\* A step of runShutdown that only changes how far the shutdown is.
LEMMA DownOnlyInv ==
    ASSUME IInv, down' \in DownStage, down' = "forced" => boot = "serving",
           UNCHANGED <<dbVars, boot, deaths, queue, scanVars, sub, workerVars, mark, sent>>
    PROVE  IInv'
<1>. USE IInvParts
<1>1. TypeOK'
  BY DEF TypeOK
<1>2. BootCoherent'
  BY DEF BootCoherent, Submitting
<1>3. OneOwner'
  BY OwnersShrink
<1>4. ASSUME NEW u \in Tasks PROVE TaskInv(u)'
  BY TaskKept DEF SameRow, Queued, Working
<1>5. ASSUME NEW v \in Workers PROVE WorkerRow(v)'
  BY WorkerKept DEF SameRow
<1>. QED BY <1>1, <1>2, <1>3, <1>4, <1>5, IInvPartsNext

\* MarkDispatchedRunningUncertain preserves the invariant.
LEMMA MarkDispatchedRunningUncertainInv ==
    ASSUME IInv, MarkDispatchedRunningUncertain
    PROVE  IInv'
<1>. USE IInvParts
<1>a. /\ rows \in [Tasks -> Row] /\ faults \in Nat
      /\ rows' = rows \/ rows' = [t \in Tasks |-> ForcedRow(rows[t])]
      /\ faults' = faults \/ faults' = faults + 1
  BY DEF MarkDispatchedRunningUncertain, TypeOK
<1>b. /\ rows' \in [Tasks -> Row] /\ faults' \in Nat /\ (faults' = 0 => faults = 0)
      /\ \A t \in Tasks :
            \/ rows'[t] = rows[t]
            \/ /\ rows[t].status = "running" /\ ~rows[t].finished /\ rows[t].dispatched
               /\ rows'[t].status = "uncertain" /\ rows'[t].finished /\ rows'[t].dispatched
  BY <1>a, ForcedRowIs
<1>1. TypeOK'
  BY <1>b DEF TypeOK, MarkDispatchedRunningUncertain, DownStage
<1>2. BootCoherent'
  BY DEF BootCoherent, MarkDispatchedRunningUncertain, Submitting
<1>3. OneOwner'
  BY OwnersShrink DEF MarkDispatchedRunningUncertain
<1>4. ASSUME NEW u \in Tasks PROVE TaskInv(u)'
  <2>1. CASE rows'[u] = rows[u]
    BY <2>1, <1>b, TaskKept DEF MarkDispatchedRunningUncertain, SameRow, Queued, Working
  <2>2. CASE rows'[u] # rows[u]
    <3>0. UNCHANGED <<payload, deaths, queue, scan, cur, sub, wtask, mark, sent>>
      BY DEF MarkDispatchedRunningUncertain
    <3>1. /\ rows[u].status = "running" /\ ~rows[u].finished /\ rows[u].dispatched
          /\ rows'[u].status = "uncertain" /\ rows'[u].finished /\ rows'[u].dispatched
      BY <2>2, <1>b
    <3>2. u \notin scan /\ u # cur /\ ~Queued(u)
      BY <3>1 DEF TaskInv, HeldRow, BootCoherent, MarkDispatchedRunningUncertain
    <3>. QED
      BY <3>0, <3>1, <3>2, <1>b, NewRows DEF TaskInv, HeldRow, Queued, Working, Submitting, Terminal
  <2>. QED BY <2>1, <2>2
<1>5. ASSUME NEW v \in Workers PROVE WorkerRow(v)'
  <2>0. /\ UNCHANGED <<wpc, wtask, outcome, mark, sent>> /\ WorkerRow(v)
        /\ wpc[v] \notin {"off", "idle", "exited"} => wtask[v] \in Tasks
    BY DEF MarkDispatchedRunningUncertain, BootCoherent, TypeOK
  <2>1. CASE wtask[v] \in Tasks => rows'[wtask[v]] = rows[wtask[v]]
    BY <2>0, <2>1, WorkerKept DEF SameRow
  <2>2. CASE wtask[v] \in Tasks /\ rows'[wtask[v]] # rows[wtask[v]]
    <3>1. /\ rows[wtask[v]].status = "running" /\ rows[wtask[v]].dispatched
          /\ rows'[wtask[v]].status = "uncertain"
      BY <2>2, <1>b
    <3>. QED BY <2>0, <3>1 DEF WorkerRow
  <2>. QED BY <2>1, <2>2
<1>. QED BY <1>1, <1>2, <1>3, <1>4, <1>5, IInvPartsNext

\* ProcessDies preserves the invariant.
LEMMA ProcessDiesInv ==
    ASSUME IInv, ProcessDies
    PROVE  IInv'
<1>. USE IInvParts
<1>a. \A t \in Tasks : ~Queued(t)' /\ ~Scanning(t)' /\ ~Working(t)' /\ ~Submitting(t)'
  BY ConstantsAssumption DEF ProcessDies, Queued, Scanning, Working, Submitting, SubBusy
<1>1. TypeOK'
  <2>1. sub' \in [Tasks -> {"idle"} \cup SubBusy \cup SubAnswer]
    BY DEF TypeOK, ProcessDies, SubAnswer
  <2>2. queue' \in Seq(Tasks) /\ deaths' \in Nat
    BY DEF TypeOK, ProcessDies
  <2>. QED BY <2>1, <2>2 DEF TypeOK, ProcessDies, DownStage, RpcStep, WorkerPc, Outcome, MarkStep
<1>2. BootCoherent'
  BY <1>a DEF BootCoherent, ProcessDies
<1>3. OneOwner'
  BY <1>a DEF OneOwner, ProcessDies
<1>4. ASSUME NEW u \in Tasks PROVE TaskInv(u)'
  <2>1. /\ sub'[u] = sub[u] \/ sub'[u] = "reset"
        /\ mark'[u] = "none" /\ sent'[u] = sent[u] /\ sent[u] \in Nat
        /\ deaths' = deaths + 1 /\ deaths \in Nat
        /\ UNCHANGED <<rows, payload, faults>>
    BY DEF ProcessDies, TypeOK
  <2>2. HeldRow(u)'
    BY <1>a, <2>1 DEF TaskInv, HeldRow, Scanning
  <2>. QED BY <2>1, <2>2 DEF TaskInv
<1>5. ASSUME NEW v \in Workers PROVE WorkerRow(v)'
  BY DEF WorkerRow, ProcessDies
<1>. QED BY <1>1, <1>2, <1>3, <1>4, <1>5, IInvPartsNext

-----------------------------------------------------------------------------
(* Theorems.                                                               *)

\* The invariant holds of an empty database and a process not yet started.
LEMMA InitInv == Init => IInv
<1>. SUFFICES ASSUME Init PROVE IInv
  OBVIOUS
<1>1. TypeOK
  BY NewRows DEF Init, TypeOK, DownStage, RpcStep, WorkerPc, Outcome, MarkStep
<1>2. \A t \in Tasks : ~Queued(t) /\ ~Scanning(t) /\ ~Working(t) /\ ~Submitting(t)
  BY ConstantsAssumption DEF Init, Queued, Scanning, Working, Submitting, SubBusy
<1>3. BootCoherent
  BY <1>2 DEF Init, BootCoherent
<1>4. OneOwner
  BY <1>2 DEF Init, OneOwner
<1>5. ASSUME NEW t \in Tasks PROVE TaskInv(t)
  BY <1>2, NewRows DEF Init, TaskInv, HeldRow, Scanning, Terminal
<1>6. \A w \in Workers : WorkerRow(w)
  BY DEF Init, WorkerRow
<1>. QED BY <1>1, <1>3, <1>4, <1>5, <1>6, IInvParts

\* Every step preserves the invariant: one case per action.
LEMMA NextInv == IInv /\ [Next]_vars => IInv'
<1>. SUFFICES ASSUME IInv, [Next]_vars PROVE IInv'
  OBVIOUS
<1>1. CASE UNCHANGED vars
  <2>1. down \in DownStage /\ (down = "forced" => boot = "serving")
    BY DEF IInv, TypeOK, BootCoherent
  <2>. QED BY <1>1, <2>1, DownOnlyInv DEF vars
<1>2. ASSUME NEW t \in Tasks, SubmitGate(t) \/ SubmitStep(t)
      PROVE  IInv'
  BY <1>2, SubmitGateInv, CreateAcceptedTaskInv, SubmitMarkQueuedInv, SubmitTestClosedInv,
     SubmitSendInv, SubmitFinishFailedInv DEF SubmitStep
<1>3. ASSUME NEW t \in Tasks,
             CallbackStep(t) \/ Age(t) \/ DeleteExpiredTask(t) \/ DeleteExpiredPayload(t)
      PROVE  IInv'
  BY <1>3, WroteRequestInv, MarkRequestDispatchedInv, AgeInv, DeleteExpiredTaskInv,
     DeleteExpiredPayloadInv DEF CallbackStep
<1>4. ASSUME NEW w \in Workers, WorkerStep(w) \/ UpdateHeartbeat(w)
      PROVE  IInv'
  BY <1>4, DequeueInv, LoadTaskInv, MarkRunningInv, UpdateHeartbeatInv,
     ForwardFailsBeforeWriteInv, WriteRequestInv, ForwardEndsInv, FinishTaskInv DEF WorkerStep
<1>5. CASE StartProcess \/ ScanStep
  BY <1>5, StartProcessInv, ScanHandleInv, ScanTestClosedInv, ScanSendInv, ScanFinishFailedInv,
     ScanDoneInv DEF ScanStep
<1>6. CASE StartDraining \/ CloseQueue
  BY <1>6, DownOnlyInv DEF StartDraining, CloseQueue, DownStage
<1>7. CASE PoolShutdown
  <2>1. boot = "serving" \/ \A w \in Workers : wpc[w] \in {"off", "exited"}
    BY ScanAlone
  <2>. QED BY <1>7, <2>1, DownOnlyInv DEF PoolShutdown, DownStage
<1>8. CASE MarkDispatchedRunningUncertain \/ ProcessDies
  BY <1>8, MarkDispatchedRunningUncertainInv, ProcessDiesInv
<1>. QED BY <1>1, <1>2, <1>3, <1>4, <1>5, <1>6, <1>7, <1>8 DEF Next, ShutdownStep

\* IInv is inductive.
THEOREM Invariant == Spec => []IInv
<1>. QED BY InitInv, NextInv, PTL DEF Spec

\* The types of the specification's variables.
THEOREM TypeCorrect == Spec => []TypeOK
<1>1. IInv => TypeOK
  BY DEF IInv
<1>. QED BY <1>1, Invariant, PTL

\* No task is ever in two hands.
THEOREM OneOwnerHolds == Spec => []OneOwner
<1>1. IInv => OneOwner
  BY DEF IInv
<1>. QED BY <1>1, Invariant, PTL

\* A task marked dispatched is never sent again.
THEOREM NoReplay == Spec => []NoReplayOfDispatched
<1>1. IInv => NoReplayOfDispatched
  BY HeldTask DEF NoReplayOfDispatched, WorkerRow, TaskInv, Terminal
<1>. QED BY <1>1, Invariant, PTL

\* A task that may have to be sent has its payload.
THEOREM PayloadKept == Spec => []ReplayablePayload
<1>1. IInv => ReplayablePayload
  BY DEF IInv
<1>. QED BY <1>1, Invariant, PTL

\* "uncertain" is only said of a task that was sent.
THEOREM UncertainSound == Spec => []UncertainWasSent
<1>1. IInv => UncertainWasSent
  BY DEF IInv, SentCoherent, UncertainWasSent
<1>. QED BY <1>1, Invariant, PTL

\* Every request after the first costs a death of the process.
THEOREM SentBound == Spec => []SentOncePerLife
<1>1. IInv => SentOncePerLife
  BY DEF IInv, SentCoherent, SentOncePerLife, TypeOK
<1>. QED BY <1>1, Invariant, PTL

\* A refused submission is not executed.
THEOREM RefusedSound == Spec => []RefusedNotExecuted
<1>1. IInv => RefusedNotExecuted
  BY DEF IInv, SentCoherent, RefusedNotExecuted
<1>. QED BY <1>1, Invariant, PTL

-----------------------------------------------------------------------------
(* What a step may do to a row, and the refinement of TaskStates.          *)

LegalMove(r, s) ==
    \/ s.status = r.status /\ s.dispatched = r.dispatched
    \/ r.status = "none" /\ s.status = "accepted" /\ s.dispatched = r.dispatched
    \/ r.status \in Pending /\ ~r.dispatched /\ s.status = "queued" /\ ~s.dispatched
    \/ r.status = "queued" /\ ~r.dispatched /\ s.status = "running" /\ ~s.dispatched
    \/ r.status \in {"running"} \cup Terminal /\ s.status = r.status /\ s.dispatched
    \/ r.status \in Pending /\ s.status = "failed" /\ s.dispatched = r.dispatched
    \/ r.status = "running" /\ s.status \in {"succeeded", "uncertain"} /\ s.dispatched = r.dispatched
    \/ r.status \in Terminal /\ s = NoRow

ResultKept(r, s) ==
    r.finished => s = NoRow \/ (s.status = r.status /\ s.finished /\ s.code = r.code)

RowMove(t) ==
    /\ LegalMove(rows[t], rows'[t])
    /\ ResultKept(rows[t], rows'[t])
    /\ \A u \in Tasks : u # t => rows'[u] = rows[u]

\* A step of a submit handler moves at most one row.
LEMMA SubmitRowMove ==
    ASSUME IInv, NEW t \in Tasks, SubmitGate(t) \/ SubmitStep(t)
    PROVE  UNCHANGED rows \/ RowMove(t)
<1>. USE IInvParts
<1>1. rows[t] \in Row /\ TaskInv(t)
  BY DEF TypeOK
<1>2. CASE SubmitGate(t) \/ SubmitTestClosed(t) \/ SubmitSend(t)
  BY <1>2 DEF SubmitGate, SubmitTestClosed, SubmitSend
<1>3. CASE CreateAcceptedTask(t)
  <2>1. PICK ok \in BOOLEAN : Exec(t, AcceptedRow, ok)
    BY <1>3 DEF CreateAcceptedTask
  <2>2. rows[t] = NoRow
    BY <1>1, <1>3 DEF CreateAcceptedTask, TaskInv, HeldRow
  <2>3. /\ rows'[t] = NoRow \/ rows'[t] = AcceptedRow
        /\ \A u \in Tasks : u # t => rows'[u] = rows[u]
    BY <2>1, <2>2, ExecIs, NewRows
  <2>. QED BY <2>2, <2>3, NewRows DEF RowMove, LegalMove, ResultKept
<1>4. CASE SubmitMarkQueued(t)
  <2>1. PICK ok \in BOOLEAN : Exec(t, QueuedRow(rows[t]), ok)
    BY <1>4 DEF SubmitMarkQueued
  <2>2. rows[t].status = "accepted" /\ ~rows[t].finished /\ ~rows[t].dispatched
    BY <1>1, <1>4 DEF SubmitMarkQueued, TaskInv, HeldRow, Terminal
  <2>. QED BY <1>1, <2>1, <2>2, ExecIs, QueuedRowIs DEF RowMove, LegalMove, ResultKept, Pending
<1>5. CASE SubmitFinishFailed(t)
  <2>1. PICK ok \in BOOLEAN : Exec(t, FinishedRow(rows[t], "failed", "queue_full"), ok)
    BY <1>5 DEF SubmitFinishFailed
  <2>2. rows[t].status = "queued" /\ ~rows[t].finished
    BY <1>1, <1>5 DEF SubmitFinishFailed, TaskInv, HeldRow, Terminal
  <2>3. "failed" \in Terminal /\ "queue_full" \in Code
    BY DEF Terminal, Code
  <2>. QED
    BY <1>1, <2>1, <2>2, <2>3, ExecIs, FinishedRowIs
    DEF RowMove, LegalMove, ResultKept, Pending, Unfinished, Exists
<1>. QED BY <1>2, <1>3, <1>4, <1>5 DEF SubmitStep

\* A callback, the clock or the cleaner moves at most one row.
LEMMA CleanerRowMove ==
    ASSUME IInv, NEW t \in Tasks,
           CallbackStep(t) \/ Age(t) \/ DeleteExpiredTask(t) \/ DeleteExpiredPayload(t)
    PROVE  UNCHANGED rows \/ RowMove(t)
<1>. USE IInvParts
<1>1. rows \in [Tasks -> Row] /\ rows[t] \in Row /\ TaskInv(t)
  BY DEF TypeOK
<1>2. CASE WroteRequest(t) \/ DeleteExpiredPayload(t)
  BY <1>2 DEF WroteRequest, DeleteExpiredPayload
<1>3. CASE MarkRequestDispatched(t)
  <2>1. \/ UNCHANGED rows
        \/ \E ok \in BOOLEAN : Exec(t, DispatchedRow(rows[t]), ok)
    BY <1>3 DEF MarkRequestDispatched
  <2>2. rows[t].status \in {"none", "running"} \cup Terminal
    BY <1>1, <1>3 DEF MarkRequestDispatched, TaskInv, HeldRow, Row, Status, Pending
  <2>3. ASSUME \E ok \in BOOLEAN : Exec(t, DispatchedRow(rows[t]), ok)
        PROVE  /\ rows'[t] = rows[t] \/ rows'[t] = DispatchedRow(rows[t])
               /\ \A u \in Tasks : u # t => rows'[u] = rows[u]
    BY <1>1, <2>3, ExecIs, DispatchedRowIs
  <2>. QED BY <1>1, <2>1, <2>2, <2>3, DispatchedRowIs DEF RowMove, LegalMove, ResultKept
<1>4. CASE Age(t)
  BY <1>1, <1>4 DEF Age, RowMove, LegalMove, ResultKept, Row
<1>5. CASE DeleteExpiredTask(t)
  BY <1>1, <1>5 DEF DeleteExpiredTask, Deletable, RowMove, LegalMove, ResultKept
<1>. QED BY <1>2, <1>3, <1>4, <1>5 DEF CallbackStep

\* A worker moves at most the row of its task.
LEMMA WorkerRowMove ==
    ASSUME IInv, NEW w \in Workers, WorkerStep(w) \/ UpdateHeartbeat(w)
    PROVE  UNCHANGED rows \/ \E t \in Tasks : RowMove(t)
<1>. USE IInvParts
<1>1. CASE \/ Dequeue(w) \/ LoadTask(w) \/ ForwardFailsBeforeWrite(w)
           \/ WriteRequest(w) \/ ForwardEnds(w)
  BY <1>1 DEF Dequeue, LoadTask, ForwardFailsBeforeWrite, WriteRequest, ForwardEnds,
              UpstreamAnswers, TransportBreaks
<1>2. ASSUME wpc[w] \notin {"off", "idle", "exited"}
      PROVE  \E t \in Tasks : wtask[w] = t /\ rows[t] \in Row /\ TaskInv(t) /\ WorkerRow(w)
  BY <1>2, HeldTask
<1>3. CASE MarkRunning(w)
  <2>1. PICK t \in Tasks : wtask[w] = t /\ rows[t] \in Row /\ TaskInv(t) /\ WorkerRow(w)
    BY <1>2, <1>3 DEF MarkRunning
  <2>2. PICK ok \in BOOLEAN : Exec(t, RunningRow(rows[t]), ok)
    BY <2>1, <1>3 DEF MarkRunning
  <2>3. rows[t].status = "queued" /\ ~rows[t].finished /\ ~rows[t].dispatched
    BY <2>1, <1>3 DEF MarkRunning, WorkerRow, TaskInv, Terminal
  <2>4. RowMove(t)
    BY <2>1, <2>2, <2>3, ExecIs, RunningRowIs DEF RowMove, LegalMove, ResultKept
  <2>. QED BY <2>4
<1>4. CASE UpdateHeartbeat(w)
  <2>1. PICK t \in Tasks : wtask[w] = t /\ rows[t] \in Row
    BY <1>2, <1>4 DEF UpdateHeartbeat
  <2>2. PICK ok \in BOOLEAN : Exec(t, HeartbeatRow(rows[t]), ok)
    BY <2>1, <1>4 DEF UpdateHeartbeat
  <2>3. RowMove(t)
    BY <2>1, <2>2, ExecIs, HeartbeatRowIs DEF RowMove, LegalMove, ResultKept
  <2>. QED BY <2>3
<1>5. CASE FinishTask(w)
  <2>1. PICK t \in Tasks : wtask[w] = t /\ rows[t] \in Row /\ TaskInv(t) /\ WorkerRow(w)
    BY <1>2, <1>5 DEF FinishTask
  <2> DEFINE r == FinishedRow(rows[t], outcome[w], OutcomeCode(outcome[w]))
  <2>2. PICK ok \in BOOLEAN : Exec(t, r, ok)
    BY <2>1, <1>5 DEF FinishTask
  <2>3. /\ outcome[w] \in {"succeeded", "failed", "uncertain"}
        /\ outcome[w] \in Terminal /\ OutcomeCode(outcome[w]) \in Code
        /\ rows[t].status \notin {"accepted", "queued"}
    BY <2>1, <1>5 DEF FinishTask, WorkerRow, TypeOK, Outcome, OutcomeCode, Terminal, Code
  <2>4. /\ r \in Row
        /\ \/ r = rows[t]
           \/ /\ ~rows[t].finished /\ rows[t].status = "running"
              /\ r.status = outcome[w] /\ r.dispatched = rows[t].dispatched
    BY <2>1, <2>3, FinishedRowIs DEF Unfinished, Exists, Row, Status, Pending, Terminal, TaskInv
  <2>. HIDE DEF r
  <2>5. RowMove(t)
    BY <2>1, <2>2, <2>3, <2>4, ExecIs DEF RowMove, LegalMove, ResultKept, Pending
  <2>. QED BY <2>5
<1>. QED BY <1>1, <1>3, <1>4, <1>5 DEF WorkerStep

\* The recovery scan moves at most one row at a time.
LEMMA ScanRowMove ==
    ASSUME IInv, ScanStep
    PROVE  UNCHANGED rows \/ \E t \in Tasks : RowMove(t)
<1>. USE IInvParts
<1>0. /\ "failed" \in Terminal /\ "uncertain" \in Terminal
      /\ "recovery_payload_missing" \in Code /\ "upstream_transport_uncertain" \in Code
      /\ "queue_full" \in Code
  BY DEF Terminal, Code
<1>1. CASE ScanTestClosed \/ ScanSend \/ ScanDone
  BY <1>1 DEF ScanTestClosed, ScanSend, ScanDone
<1>2. ASSUME NEW t \in Tasks, ScanHandle(t) PROVE RowMove(t)
  <2>1. /\ rows \in [Tasks -> Row] /\ rows[t] \in Row
        /\ rows[t].status \in Pending /\ ~rows[t].finished /\ Unfinished(rows[t])
    BY <1>2 DEF ScanHandle, TypeOK, TaskInv, HeldRow, Pending, Terminal, Unfinished, Exists
  <2>2. CASE t \notin payload
    <3>1. rows' = [rows EXCEPT ![t] = FinishedRow(rows[t], "failed", "recovery_payload_missing")]
      BY <1>2, <2>2 DEF ScanHandle
    <3>. QED BY <1>0, <2>1, <3>1, FinishedRowIs DEF RowMove, LegalMove, ResultKept
  <2>3. CASE t \in payload /\ Ambiguous(rows[t])
    <3>1. rows' = [rows EXCEPT ![t] = FinishedRow(rows[t], "uncertain", "upstream_transport_uncertain")]
      BY <1>2, <2>3 DEF ScanHandle
    <3>2. /\ rows'[t].status = "uncertain" /\ rows'[t].dispatched = rows[t].dispatched
          /\ rows[t].status = "running" /\ \A u \in Tasks : u # t => rows'[u] = rows[u]
      BY <1>0, <2>1, <2>3, <3>1, FinishedRowIs DEF Ambiguous
    <3>. QED BY <2>1, <3>2 DEF RowMove, LegalMove, ResultKept
  <2>4. CASE t \in payload /\ ~Ambiguous(rows[t])
    <3>1. rows' = [rows EXCEPT ![t] = QueuedRow(rows[t])]
      BY <1>2, <2>4 DEF ScanHandle
    <3>2. ~rows[t].dispatched /\ rows[t].status # "none"
      BY <2>1, <2>4 DEF TaskInv, Ambiguous, Pending, Terminal
    <3>. QED BY <2>1, <3>1, <3>2, QueuedRowIs DEF RowMove, LegalMove, ResultKept
  <2>. QED BY <2>2, <2>3, <2>4
<1>3. CASE ScanFinishFailed
  <2>1. PICK t \in Tasks : /\ t = cur /\ rows[t] \in Row /\ rows[t].status = "queued"
                           /\ ~rows[t].finished
    BY <1>3 DEF ScanFinishFailed, BootCoherent, TaskInv, HeldRow, TypeOK, Terminal
  <2>2. rows' = [rows EXCEPT ![t] = FinishedRow(rows[t], "failed", "queue_full")]
    BY <1>3, <2>1 DEF ScanFinishFailed
  <2>3. RowMove(t)
    BY <1>0, <2>1, <2>2, FinishedRowIs
    DEF RowMove, LegalMove, ResultKept, Unfinished, Exists, Pending, TypeOK
  <2>. QED BY <2>3
<1>. QED BY <1>1, <1>2, <1>3 DEF ScanStep

\* Every step moves one row, or is the bulk statement of a forced shutdown.
LEMMA RowMoves ==
    ASSUME IInv, [Next]_vars
    PROVE  \/ UNCHANGED rows
           \/ MarkDispatchedRunningUncertain
           \/ \E t \in Tasks : RowMove(t)
<1>1. CASE UNCHANGED vars
  BY <1>1 DEF vars
<1>2. CASE StartProcess \/ StartDraining \/ CloseQueue \/ PoolShutdown \/ ProcessDies
  BY <1>2 DEF StartProcess, StartDraining, CloseQueue, PoolShutdown, ProcessDies
<1>. QED
  BY <1>1, <1>2, SubmitRowMove, CleanerRowMove, WorkerRowMove, ScanRowMove
  DEF Next, ShutdownStep

\* The bulk statement only ends dispatched running tasks, as uncertain.
LEMMA ForcedRows ==
    ASSUME IInv, MarkDispatchedRunningUncertain
    PROVE  \A t \in Tasks :
              \/ rows'[t] = rows[t]
              \/ /\ rows[t].status = "running" /\ ~rows[t].finished /\ rows[t].dispatched
                 /\ rows'[t].status = "uncertain" /\ rows'[t].dispatched
<1>1. /\ rows \in [Tasks -> Row]
      /\ rows' = rows \/ rows' = [t \in Tasks |-> ForcedRow(rows[t])]
  BY DEF IInv, TypeOK, MarkDispatchedRunningUncertain
<1>. QED BY <1>1, ForcedRowIs

\* A stored result stays until its row is deleted.
THEOREM ResultsAreFinal == Spec => TerminalIsFinal
<1>1. ASSUME IInv, [Next]_vars, NEW t \in Tasks, rows[t].finished
      PROVE  \/ rows'[t] = NoRow
             \/ /\ rows'[t].status = rows[t].status
                /\ rows'[t].finished
                /\ rows'[t].code = rows[t].code
  BY <1>1, RowMoves, ForcedRows DEF RowMove, ResultKept
<1>2. IInv /\ [Next]_vars =>
         [\A t \in Tasks : rows[t].finished =>
             \/ rows'[t] = NoRow
             \/ /\ rows'[t].status = rows[t].status
                /\ rows'[t].finished
                /\ rows'[t].code = rows[t].code]_vars
  BY <1>1
<1>. QED BY <1>2, Invariant, PTL DEF Spec, TerminalIsFinal

\* Every step is a step of TaskStates or leaves its variables unchanged.
LEMMA StepIsAbstract ==
    ASSUME IInv, [Next]_vars
    PROVE  [TS!Next]_(TS!vars)
<1>1. CASE UNCHANGED rows
  BY <1>1 DEF TS!vars
<1>2. CASE MarkDispatchedRunningUncertain
  <2> DEFINE S == {t \in Tasks : rows'[t] # rows[t]}
  <2>1. \A t \in S : rows[t].status = "running" /\ rows'[t].status = "uncertain"
    BY <1>2, ForcedRows
  <2>2. \A t \in Tasks \ S : rows'[t].status = rows[t].status
    OBVIOUS
  <2>3. \A t \in Tasks : rows'[t].dispatched <=> rows[t].dispatched
    BY <1>2, ForcedRows
  <2>4. TS!Finish(S, "uncertain")
    BY <2>1, <2>2, <2>3 DEF TS!Finish, TS!Open
  <2>. QED BY <2>4 DEF TS!Next, TS!Done
<1>3. ASSUME NEW t \in Tasks, RowMove(t) PROVE [TS!Next]_(TS!vars)
  <2> DEFINE r == rows[t]
             s == rows'[t]
  <2>0. \A u \in Tasks : u # t => rows'[u] = rows[u]
    BY <1>3 DEF RowMove
  <2>1. CASE s.status = r.status /\ s.dispatched = r.dispatched
    BY <2>0, <2>1 DEF TS!vars
  <2>2. CASE r.status = "none" /\ s.status = "accepted" /\ s.dispatched = r.dispatched
    <3>1. TS!Accept(t)
      BY <2>0, <2>2 DEF TS!Accept
    <3>. QED BY <3>1 DEF TS!Next
  <2>3. CASE r.status \in Pending /\ ~r.dispatched /\ s.status = "queued" /\ ~s.dispatched
    <3>1. TS!Enqueue(t)
      BY <2>0, <2>3 DEF TS!Enqueue, TS!Open, Pending
    <3>. QED BY <3>1 DEF TS!Next
  <2>4. CASE r.status = "queued" /\ ~r.dispatched /\ s.status = "running" /\ ~s.dispatched
    <3>1. TS!Run(t)
      BY <2>0, <2>4 DEF TS!Run
    <3>. QED BY <3>1 DEF TS!Next
  <2>5. CASE r.status \in {"running"} \cup Terminal /\ s.status = r.status /\ s.dispatched
    <3>1. TS!Dispatch(t)
      BY <2>0, <2>5 DEF TS!Dispatch, TS!Done, Terminal
    <3>. QED BY <3>1 DEF TS!Next
  <2>6. CASE r.status \in Pending /\ s.status = "failed" /\ s.dispatched = r.dispatched
    <3>1. TS!Finish({t}, "failed")
      BY <2>0, <2>6 DEF TS!Finish, TS!Open, Pending
    <3>. QED BY <3>1 DEF TS!Next, TS!Done
  <2>7. CASE r.status = "running" /\ s.status \in {"succeeded", "uncertain"} /\ s.dispatched = r.dispatched
    <3>1. PICK d \in {"succeeded", "uncertain"} : s.status = d
      BY <2>7
    <3>2. TS!Finish({t}, d)
      BY <2>0, <2>7, <3>1 DEF TS!Finish, TS!Open
    <3>. QED BY <3>2 DEF TS!Next, TS!Done
  <2>8. CASE r.status \in Terminal /\ s = NoRow
    <3>1. TS!Purge(t)
      BY <2>0, <2>8, NewRows DEF TS!Purge, TS!Done, Terminal
    <3>. QED BY <3>1 DEF TS!Next
  <2>. QED
    BY <1>3, <2>1, <2>2, <2>3, <2>4, <2>5, <2>6, <2>7, <2>8 DEF RowMove, LegalMove
<1>. QED BY <1>1, <1>2, <1>3, RowMoves

\* The gateway implements the task state machine.
THEOREM Refinement == Spec => StateMachine
<1>1. Init => TS!Init
  BY NewRows DEF Init, TS!Init
<1>2. IInv /\ [Next]_vars => [TS!Next]_(TS!vars)
  BY StepIsAbstract
<1>. QED BY <1>1, <1>2, Invariant, PTL DEF Spec, StateMachine, TS!Spec

-----------------------------------------------------------------------------
(* No waiting task is lost.  The lemmas take one task u, a step without a  *)
(* failed statement after which u still waits, and show who has u then.    *)

\* A step that leaves a waiting task with whoever has it.
LEMMA WayKept ==
    ASSUME NEW u \in Tasks, ToBeSent(u)' => ToBeSent(u), ToBeSent(u) => OnItsWay(u), ToBeSent(u)',
           boot = "off" => boot' = "off",
           sub'[u] = sub[u], ItemsClosed => ItemsClosed',
           Queued(u) => Queued(u)', Scanning(u) => Scanning(u)', Working(u) => Working(u)'
    PROVE  OnItsWay(u)'
BY DEF OnItsWay, Submitting

\* The step of a submit handler.
LEMMA SubmitKeepsWay ==
    ASSUME IInv, NEW t \in Tasks, SubmitGate(t) \/ SubmitStep(t),
           NEW u \in Tasks, ToBeSent(u) => OnItsWay(u), faults' = 0, ToBeSent(u)'
    PROVE  OnItsWay(u)'
<1>. USE IInvParts
<1>1. rows[t] \in Row /\ TaskInv(t) /\ faults \in Nat /\ queue \in Seq(Tasks)
  BY DEF TypeOK
<1>2. /\ UNCHANGED <<boot, down, scan, cur, wtask>>
      /\ queue' = queue \/ queue' = Append(queue, t)
      /\ \A v \in Tasks : v # t => rows'[v] = rows[v] /\ sub'[v] = sub[v]
  <2>1. CASE SubmitGate(t) \/ SubmitTestClosed(t) \/ SubmitSend(t)
    BY <2>1 DEF SubmitGate, SubmitTestClosed, SubmitSend, TypeOK
  <2>2. CASE CreateAcceptedTask(t) \/ SubmitMarkQueued(t) \/ SubmitFinishFailed(t)
    BY <2>2 DEF CreateAcceptedTask, SubmitMarkQueued, SubmitFinishFailed, Exec, TypeOK
  <2>. QED BY <2>1, <2>2 DEF SubmitStep
<1>3. \A v \in Tasks : Queued(v) => Queued(v)'
  BY <1>1, <1>2, AppendIs DEF Queued
<1>4. CASE u # t
  BY <1>2, <1>3, <1>4, WayKept DEF ToBeSent, Scanning, Working, ItemsClosed
<1>5. CASE u = t
  <2>1. CASE SubmitGate(t)
    <3>1. rows'[t] = NoRow
      BY <1>1, <2>1 DEF SubmitGate, TaskInv, HeldRow
    <3>. QED BY <1>5, <3>1, NewRows DEF ToBeSent
  <2>2. CASE CreateAcceptedTask(t)
    <3>1. PICK ok \in BOOLEAN : /\ Exec(t, AcceptedRow, ok)
                                /\ sub' = [sub EXCEPT ![t] = IF ok THEN "mark" ELSE "r500"]
      BY <2>2 DEF CreateAcceptedTask
    <3>2. ok
      BY <1>1, <3>1 DEF Exec
    <3>. QED BY <1>5, <3>1, <3>2 DEF OnItsWay, Submitting, SubBusy, TypeOK
  <2>3. CASE SubmitMarkQueued(t)
    <3>1. PICK ok \in BOOLEAN :
             /\ Exec(t, QueuedRow(rows[t]), ok)
             /\ sub' = [sub EXCEPT ![t] = IF Updated(ok, Exists(rows[t])) THEN "enqueue" ELSE "r500"]
      BY <2>3 DEF SubmitMarkQueued
    <3>2. ok /\ Exists(rows[t])
      BY <1>1, <2>3, <3>1 DEF Exec, SubmitMarkQueued, TaskInv, HeldRow, Exists
    <3>. QED BY <1>5, <3>1, <3>2 DEF OnItsWay, Submitting, SubBusy, TypeOK, Updated
  <2>4. CASE SubmitTestClosed(t)
    BY <1>5, <2>4 DEF SubmitTestClosed, OnItsWay, Submitting, SubBusy, TypeOK
  <2>5. CASE SubmitSend(t)
    <3>1. CASE ItemsClosed
      BY <1>5, <2>5, <3>1 DEF SubmitSend, OnItsWay, ItemsClosed, TypeOK
    <3>2. CASE ~ItemsClosed /\ HasRoom
      <4>1. queue' = Append(queue, t)
        BY <2>5, <3>2 DEF SubmitSend
      <4>2. Queued(t)'
        BY <1>1, <4>1, AppendIs DEF Queued
      <4>. QED BY <1>5, <4>2 DEF OnItsWay
    <3>3. CASE ~ItemsClosed /\ ~HasRoom
      BY <1>5, <2>5, <3>3 DEF SubmitSend, OnItsWay, Submitting, SubBusy, TypeOK
    <3>. QED BY <3>1, <3>2, <3>3
  <2>6. CASE SubmitFinishFailed(t)
    <3>1. PICK ok \in BOOLEAN : Exec(t, FinishedRow(rows[t], "failed", "queue_full"), ok)
      BY <2>6 DEF SubmitFinishFailed
    <3>2. Unfinished(rows[t])
      BY <1>1, <2>6 DEF SubmitFinishFailed, TaskInv, HeldRow, Terminal, Unfinished, Exists
    <3>3. "failed" \in Terminal /\ "queue_full" \in Code
      BY DEF Terminal, Code
    <3>4. rows'[t].status = "failed"
      BY <1>1, <3>1, <3>2, <3>3, ExecIs, FinishedRowIs
    <3>. QED BY <1>5, <3>4 DEF ToBeSent
  <2>. QED BY <2>1, <2>2, <2>3, <2>4, <2>5, <2>6 DEF SubmitStep
<1>. QED BY <1>4, <1>5

\* A callback, the clock or the cleaner changes no status except to none.
LEMMA CleanerStatus ==
    ASSUME IInv, NEW t \in Tasks,
           CallbackStep(t) \/ Age(t) \/ DeleteExpiredTask(t) \/ DeleteExpiredPayload(t),
           NEW u \in Tasks
    PROVE  /\ UNCHANGED <<boot, down, queue, scan, cur, sub, wtask>>
           /\ rows'[u].status \in {rows[u].status, "none"}
<1>. USE IInvParts
<1>1. rows \in [Tasks -> Row] /\ rows[t] \in Row
  BY DEF TypeOK
<1>2. UNCHANGED <<boot, down, queue, scan, cur, sub, wtask>>
  BY DEF CallbackStep, WroteRequest, MarkRequestDispatched, Age, DeleteExpiredTask,
         DeleteExpiredPayload
<1>3. CASE WroteRequest(t) \/ DeleteExpiredPayload(t)
  BY <1>2, <1>3 DEF WroteRequest, DeleteExpiredPayload
<1>4. CASE MarkRequestDispatched(t)
  BY <1>1, <1>2, <1>4, ExecIs, DispatchedRowIs DEF MarkRequestDispatched
<1>5. CASE Age(t)
  BY <1>1, <1>2, <1>5 DEF Age, Row
<1>6. CASE DeleteExpiredTask(t)
  BY <1>1, <1>2, <1>6, NewRows DEF DeleteExpiredTask
<1>. QED BY <1>3, <1>4, <1>5, <1>6 DEF CallbackStep

\* The step of a worker: what it takes from the queue it holds, and it lets
\* go only of a task whose row it has moved on.
LEMMA WorkerKeepsWay ==
    ASSUME IInv, NEW w \in Workers, WorkerStep(w) \/ UpdateHeartbeat(w),
           NEW u \in Tasks, ToBeSent(u) => OnItsWay(u), faults' = 0, ToBeSent(u)'
    PROVE  OnItsWay(u)'
<1>. USE IInvParts
<1>1. rows \in [Tasks -> Row] /\ queue \in Seq(Tasks) /\ faults \in Nat
  BY DEF TypeOK
<1>2. UNCHANGED <<boot, down, scan, cur, sub>>
  BY DEF WorkerStep, UpdateHeartbeat, Dequeue, LoadTask, MarkRunning, ForwardFailsBeforeWrite,
         WriteRequest, ForwardEnds, UpstreamAnswers, TransportBreaks, FinishTask
<1>3. ASSUME Release(w), NEW t \in Tasks, wtask[w] = t, u # t, Working(u)
      PROVE  Working(u)'
  BY <1>3 DEF Release, Working, TypeOK
<1>4. CASE Dequeue(w)
  <2>1. UNCHANGED rows
    BY <1>4 DEF Dequeue
  <2>2. CASE queue = << >>
    BY <1>2, <1>4, <2>1, <2>2, WayKept
    DEF Dequeue, Advance, ToBeSent, Queued, Scanning, Working, ItemsClosed
  <2>3. CASE queue # << >>
    <3>1. wtask' = [wtask EXCEPT ![w] = Head(queue)] /\ queue' = Tail(queue) /\ wtask[w] = NoTask
      BY <1>4, <2>3 DEF Dequeue, BootCoherent
    <3>2. Working(u) => Working(u)'
      BY <3>1, ConstantsAssumption DEF Working, TypeOK
    <3>3. CASE u = Head(queue)
      <4>1. Working(u)'
        BY <3>1, <3>3 DEF Working, TypeOK
      <4>. QED BY <4>1 DEF OnItsWay
    <3>4. CASE u # Head(queue)
      <4>1. Queued(u) => Queued(u)'
        <5>. SUFFICES ASSUME NEW i \in DOMAIN queue, queue[i] = u
                      PROVE  Queued(u)'
          BY DEF Queued
        <5>1. i - 1 \in DOMAIN Tail(queue) /\ Tail(queue)[i - 1] = u
          BY <1>1, <2>3, <3>4
        <5>. QED BY <3>1, <5>1 DEF Queued
      <4>. QED BY <1>2, <2>1, <3>2, <4>1, WayKept DEF ToBeSent, Scanning, ItemsClosed
    <3>. QED BY <3>3, <3>4
  <2>. QED BY <2>2, <2>3
<1>5. CASE LoadTask(w)
  <2>1. PICK t \in Tasks : wtask[w] = t /\ TaskInv(t) /\ WorkerRow(w)
    BY <1>5, HeldTask DEF LoadTask
  <2>2. Exists(rows[t]) /\ t \in payload
    BY <1>5, <2>1 DEF LoadTask, WorkerRow, TaskInv, Exists, Terminal
  <2>3. UNCHANGED <<rows, queue, wtask>>
    BY <1>1, <1>5, <2>1, <2>2 DEF LoadTask, ReadDB, Advance
  <2>. QED BY <1>2, <2>3, WayKept DEF ToBeSent, Queued, Scanning, Working, ItemsClosed
<1>6. CASE MarkRunning(w)
  <2>1. PICK t \in Tasks : wtask[w] = t /\ rows[t] \in Row /\ TaskInv(t) /\ WorkerRow(w)
    BY <1>6, HeldTask DEF MarkRunning
  <2>2. PICK ok \in BOOLEAN :
           /\ Exec(t, RunningRow(rows[t]), ok)
           /\ IF Updated(ok, Exists(rows[t]))
              THEN Advance(w, "forward") /\ UNCHANGED outcome
              ELSE Release(w)
    BY <1>6, <2>1 DEF MarkRunning
  <2>3. rows'[t].status = "running" /\ \A v \in Tasks : v # t => rows'[v] = rows[v]
    BY <1>6, <2>1, <2>2, ExecIs, RunningRowIs DEF MarkRunning, WorkerRow
  <2>4. u # t /\ rows'[u] = rows[u]
    BY <2>3 DEF ToBeSent
  <2>5. Working(u) => Working(u)'
    BY <1>3, <2>1, <2>2, <2>4 DEF Advance, Working
  <2>. QED BY <1>2, <1>6, <2>4, <2>5, WayKept
           DEF MarkRunning, ToBeSent, Queued, Scanning, ItemsClosed
<1>7. CASE UpdateHeartbeat(w)
  <2>1. PICK t \in Tasks : wtask[w] = t /\ rows[t] \in Row
    BY <1>7, HeldTask DEF UpdateHeartbeat
  <2>2. rows'[u].status = rows[u].status
    BY <1>7, <2>1, ExecIs, HeartbeatRowIs DEF UpdateHeartbeat
  <2>. QED BY <1>2, <1>7, <2>2, WayKept
           DEF UpdateHeartbeat, ToBeSent, Queued, Scanning, Working, ItemsClosed
<1>8. CASE ForwardFailsBeforeWrite(w) \/ WriteRequest(w) \/ ForwardEnds(w)
  <2>1. UNCHANGED <<rows, queue, wtask>>
    BY <1>8 DEF ForwardFailsBeforeWrite, WriteRequest, ForwardEnds, UpstreamAnswers,
                TransportBreaks, Advance
  <2>. QED BY <1>2, <2>1, WayKept DEF ToBeSent, Queued, Scanning, Working, ItemsClosed
<1>9. CASE FinishTask(w)
  <2>1. PICK t \in Tasks : wtask[w] = t /\ rows[t] \in Row /\ TaskInv(t) /\ WorkerRow(w)
    BY <1>9, HeldTask DEF FinishTask
  <2> DEFINE r == FinishedRow(rows[t], outcome[w], OutcomeCode(outcome[w]))
  <2>2. PICK ok \in BOOLEAN : Exec(t, r, ok)
    BY <1>9, <2>1 DEF FinishTask
  <2>3. /\ outcome[w] \in Terminal /\ OutcomeCode(outcome[w]) \in Code
        /\ rows[t].status \notin {"accepted", "queued"}
    BY <1>9, <2>1 DEF FinishTask, WorkerRow, TypeOK, Outcome, OutcomeCode, Terminal, Code
  <2>4. r \in Row /\ (r = rows[t] \/ r.status \in Terminal)
    BY <2>1, <2>3, FinishedRowIs
  <2>. HIDE DEF r
  <2>5. /\ rows'[t].status \notin {"accepted", "queued"}
        /\ \A v \in Tasks : v # t => rows'[v] = rows[v]
    BY <2>2, <2>3, <2>4, ExecIs DEF Terminal
  <2>6. u # t /\ rows'[u] = rows[u]
    BY <2>5 DEF ToBeSent
  <2>7. Working(u) => Working(u)'
    BY <1>3, <1>9, <2>1, <2>6 DEF FinishTask
  <2>. QED BY <1>2, <1>9, <2>6, <2>7, WayKept
           DEF FinishTask, ToBeSent, Queued, Scanning, ItemsClosed
<1>. QED BY <1>4, <1>5, <1>6, <1>7, <1>8, <1>9 DEF WorkerStep

\* A scan that takes in all tasks finds every task that waits.
LEMMA StartKeepsWay ==
    ASSUME IInv, StartProcess, IsFiniteSet(Tasks), Cardinality(Tasks) <= ScanLimit,
           NEW u \in Tasks, ToBeSent(u)'
    PROVE  OnItsWay(u)'
<1> DEFINE found == {t \in Tasks : Recoverable(rows[t])}
<1>1. /\ scan' \in SUBSET found
      /\ Cardinality(scan') = ScanLimit \/ scan' = found
  BY DEF StartProcess
<1>2. u \in found
  BY DEF ToBeSent, StartProcess, Recoverable
<1>3. found \in SUBSET Tasks
  OBVIOUS
<1>. HIDE DEF found
<1>4. IsFiniteSet(found) /\ Cardinality(found) <= Cardinality(Tasks)
  BY <1>3, FS_Subset
<1>5. CASE Cardinality(scan') = ScanLimit
  <2>1. Cardinality(found) \in Nat /\ Cardinality(Tasks) \in Nat /\ IsFiniteSet(scan')
    BY <1>1, <1>4, FS_Subset, FS_CardinalityType
  <2>2. Cardinality(scan') <= Cardinality(found)
    BY <1>1, <1>4, FS_Subset
  <2>3. Cardinality(scan') = Cardinality(found)
    BY <1>4, <1>5, <2>1, <2>2, ConstantsAssumption
  <2>4. scan' = found
    BY <1>1, <1>4, <2>3, FS_Subset
  <2>. QED BY <1>2, <2>4 DEF OnItsWay, Scanning
<1>6. CASE scan' = found
  BY <1>2, <1>6 DEF OnItsWay, Scanning
<1>. QED BY <1>1, <1>5, <1>6

\* The recovery scan puts every task it lets go of into the queue, or ends it.
LEMMA ScanKeepsWay ==
    ASSUME IInv, ScanStep, NEW u \in Tasks, ToBeSent(u) => OnItsWay(u), ToBeSent(u)'
    PROVE  OnItsWay(u)'
<1>. USE IInvParts
<1>0. /\ "failed" \in Terminal /\ "uncertain" \in Terminal
      /\ "recovery_payload_missing" \in Code /\ "upstream_transport_uncertain" \in Code
      /\ "queue_full" \in Code
  BY DEF Terminal, Code
<1>1. rows \in [Tasks -> Row] /\ queue \in Seq(Tasks)
  BY DEF TypeOK
<1>2. UNCHANGED <<down, sub, wtask>> /\ boot # "off"
  BY DEF ScanStep, ScanHandle, ScanTestClosed, ScanSend, ScanFinishFailed, ScanDone, BootCoherent
<1>3. ASSUME NEW t \in Tasks, ScanHandle(t) PROVE OnItsWay(u)'
  <2>1. /\ rows[t].status \in Pending /\ Unfinished(rows[t])
        /\ cur = NoTask /\ UNCHANGED <<boot, queue>> /\ scan' = scan \ {t}
    BY <1>3 DEF ScanHandle, TaskInv, HeldRow, Pending, Terminal, Unfinished, Exists, BootCoherent
  <2>2. CASE u = t
    <3>1. CASE cur' = t
      BY <2>2, <3>1 DEF OnItsWay, Scanning
    <3>2. CASE cur' # t
      <4>1. \/ rows'[t] = FinishedRow(rows[t], "failed", "recovery_payload_missing")
            \/ rows'[t] = FinishedRow(rows[t], "uncertain", "upstream_transport_uncertain")
        BY <1>1, <1>3, <3>2 DEF ScanHandle
      <4>2. rows'[t].status \in {"failed", "uncertain"}
        BY <1>0, <1>1, <2>1, <4>1, FinishedRowIs
      <4>. QED BY <2>2, <4>2 DEF ToBeSent
    <3>. QED BY <3>1, <3>2
  <2>3. CASE u # t
    <3>1. rows'[u] = rows[u]
      BY <1>1, <1>3, <2>3 DEF ScanHandle
    <3>2. Scanning(u) => Scanning(u)'
      BY <2>1, <2>3, ConstantsAssumption DEF Scanning
    <3>. QED BY <1>2, <2>1, <3>1, <3>2, WayKept DEF ToBeSent, Queued, Working, ItemsClosed
  <2>. QED BY <2>2, <2>3
<1>4. CASE ScanTestClosed
  BY <1>2, <1>4, WayKept
  DEF ScanTestClosed, ToBeSent, Queued, Scanning, Working, ItemsClosed
<1>5. CASE ScanSend
  <2>1. CASE HasRoom
    <3>1. /\ queue' = Append(queue, cur) /\ cur \in Tasks
          /\ UNCHANGED <<rows, boot, scan>>
      BY <1>5, <2>1 DEF ScanSend, BootCoherent, TypeOK
    <3>2. Queued(u) => Queued(u)'
      BY <1>1, <3>1 DEF Queued
    <3>3. CASE u = cur
      <4>1. PICK i \in DOMAIN queue' : queue'[i] = u
        <5>1. Len(queue) + 1 \in DOMAIN queue' /\ queue'[Len(queue) + 1] = cur
          BY <1>1, <3>1
        <5>. QED BY <3>3, <5>1
      <4>. QED BY <4>1 DEF OnItsWay, Queued
    <3>4. CASE u # cur
      <4>1. Scanning(u) => Scanning(u)'
        BY <3>1, <3>4 DEF Scanning
      <4>. QED BY <1>2, <3>1, <3>2, <4>1, WayKept DEF ToBeSent, Working, ItemsClosed
    <3>. QED BY <3>3, <3>4
  <2>2. CASE ~HasRoom
    BY <1>2, <1>5, <2>2, WayKept
    DEF ScanSend, ToBeSent, Queued, Scanning, Working, ItemsClosed
  <2>. QED BY <2>1, <2>2
<1>6. CASE ScanFinishFailed
  <2>1. PICK t \in Tasks : t = cur /\ Unfinished(rows[t])
    <3>1. cur \in Tasks
      BY <1>6 DEF ScanFinishFailed, BootCoherent, TypeOK
    <3>2. rows[cur].status = "queued" /\ ~rows[cur].finished
      BY <3>1 DEF TaskInv, HeldRow, Terminal
    <3>. QED BY <3>1, <3>2 DEF Unfinished, Exists
  <2>2. rows' = [rows EXCEPT ![t] = FinishedRow(rows[t], "failed", "queue_full")]
    BY <1>6, <2>1 DEF ScanFinishFailed
  <2>3. rows'[t].status = "failed" /\ \A v \in Tasks : v # t => rows'[v] = rows[v]
    <3>1. rows[t] \in Row
      BY <1>1
    <3>2. FinishedRow(rows[t], "failed", "queue_full").status = "failed"
      BY <1>0, <2>1, <3>1, FinishedRowIs
    <3>. QED BY <1>1, <2>2, <3>2
  <2>4. u # t /\ rows'[u] = rows[u]
    BY <2>3 DEF ToBeSent
  <2>. QED BY <1>2, <1>6, <2>1, <2>4, WayKept
           DEF ScanFinishFailed, ToBeSent, Queued, Scanning, Working, ItemsClosed
<1>7. CASE ScanDone
  BY <1>2, <1>7, WayKept DEF ScanDone, ToBeSent, Queued, Scanning, Working, ItemsClosed
<1>. QED BY <1>3, <1>4, <1>5, <1>6, <1>7 DEF ScanStep

\* Shutdown closes the queue and never opens it; death leaves the next scan.
LEMMA ShutdownKeepsWay ==
    ASSUME IInv, StartDraining \/ ShutdownStep \/ ProcessDies,
           NEW u \in Tasks, ToBeSent(u) => OnItsWay(u), ToBeSent(u)'
    PROVE  OnItsWay(u)'
<1>1. CASE StartDraining \/ CloseQueue \/ PoolShutdown
  BY <1>1, WayKept
  DEF StartDraining, CloseQueue, PoolShutdown, ToBeSent, Queued, Scanning, Working, ItemsClosed
<1>2. CASE MarkDispatchedRunningUncertain
  <2>1. rows'[u] = rows[u]
    BY <1>2, ForcedRows DEF ToBeSent
  <2>. QED BY <1>2, <2>1, WayKept
           DEF MarkDispatchedRunningUncertain, ToBeSent, Queued, Scanning, Working, ItemsClosed
<1>3. CASE ProcessDies
  BY <1>3 DEF ProcessDies, OnItsWay
<1>. QED BY <1>1, <1>2, <1>3 DEF ShutdownStep

\* Statements that fail are counted and never forgotten.
LEMMA FaultsCount ==
    ASSUME IInv, [Next]_vars, faults' = 0
    PROVE  faults = 0
<1>. faults \in Nat
  BY DEF IInv, TypeOK
<1>. USE DEF Exec, ReadDB
<1>1. ASSUME NEW t \in Tasks, SubmitGate(t) \/ SubmitStep(t) PROVE faults = 0
  BY <1>1 DEF SubmitGate, SubmitStep, CreateAcceptedTask, SubmitMarkQueued, SubmitTestClosed,
              SubmitSend, SubmitFinishFailed
<1>2. ASSUME NEW t \in Tasks,
             CallbackStep(t) \/ Age(t) \/ DeleteExpiredTask(t) \/ DeleteExpiredPayload(t)
      PROVE  faults = 0
  BY <1>2 DEF CallbackStep, WroteRequest, MarkRequestDispatched, Age, DeleteExpiredTask,
              DeleteExpiredPayload
<1>3. ASSUME NEW w \in Workers, WorkerStep(w) \/ UpdateHeartbeat(w) PROVE faults = 0
  BY <1>3 DEF WorkerStep, UpdateHeartbeat, Dequeue, LoadTask, MarkRunning,
              ForwardFailsBeforeWrite, WriteRequest, ForwardEnds, UpstreamAnswers,
              TransportBreaks, FinishTask
<1>4. CASE StartProcess \/ ScanStep \/ StartDraining \/ ShutdownStep \/ ProcessDies
  BY <1>4 DEF StartProcess, ScanStep, ScanHandle, ScanTestClosed, ScanSend, ScanFinishFailed,
              ScanDone, StartDraining, ShutdownStep, CloseQueue, PoolShutdown,
              MarkDispatchedRunningUncertain, ProcessDies
<1>5. CASE UNCHANGED vars
  BY <1>5 DEF vars
<1>. QED BY <1>1, <1>2, <1>3, <1>4, <1>5 DEF Next

\* A task that waits to be sent is in exactly one hand: a submit handler, the
\* memory queue, the recovery scan or a worker.  At most one has it always, at
\* least one while no statement fails and the scan takes in all tasks, for any
\* number of tasks, workers and restarts and any queue.
THEOREM WaitingTaskHeld == Spec => []InOneHand
<1>1. Init => NothingForgotten
  BY NewRows DEF Init, NothingForgotten, ToBeSent
<1>2. IInv /\ NothingForgotten /\ [Next]_vars => NothingForgotten'
  <2>. SUFFICES ASSUME IInv, NothingForgotten, [Next]_vars, faults' = 0,
                       IsFiniteSet(Tasks), Cardinality(Tasks) <= ScanLimit,
                       NEW u \in Tasks, ToBeSent(u)'
                PROVE  OnItsWay(u)'
    BY DEF NothingForgotten
  <2>1. ToBeSent(u) => OnItsWay(u)
    BY FaultsCount DEF NothingForgotten
  <2>2. CASE UNCHANGED vars
    BY <2>1, <2>2, WayKept DEF vars, ToBeSent, Queued, Scanning, Working, ItemsClosed
  <2>3. CASE Next
    <3>1. ASSUME NEW t \in Tasks,
                 CallbackStep(t) \/ Age(t) \/ DeleteExpiredTask(t) \/ DeleteExpiredPayload(t)
          PROVE  OnItsWay(u)'
      BY <2>1, <3>1, CleanerStatus, WayKept
      DEF ToBeSent, Queued, Scanning, Working, ItemsClosed
    <3>. QED
      BY <2>1, <2>3, <3>1, SubmitKeepsWay, WorkerKeepsWay, StartKeepsWay, ScanKeepsWay,
         ShutdownKeepsWay DEF Next
  <2>. QED BY <2>2, <2>3
<1>3. Spec => []NothingForgotten
  BY <1>1, <1>2, Invariant, PTL DEF Spec
<1>. QED BY <1>3, OneOwnerHolds, PTL DEF InOneHand

-----------------------------------------------------------------------------
(* How a task can be stranded.                                             *)

\* No step of a submit handler makes a row run.
LEMMA SubmitStrandsNone ==
    ASSUME IInv, NEW s \in Tasks, SubmitGate(s) \/ SubmitStep(s),
           NEW t \in Tasks, Stranded(t)'
    PROVE  Stranded(t)
<1>. USE IInvParts
<1>1. rows \in [Tasks -> Row] /\ rows[s] \in Row /\ TaskInv(s)
  BY DEF TypeOK
<1>2. UNCHANGED <<boot, wtask>>
  BY DEF SubmitGate, SubmitStep, CreateAcceptedTask, SubmitMarkQueued, SubmitTestClosed,
         SubmitSend, SubmitFinishFailed
<1>3. rows'[t].status = "running" => rows[t].status = "running"
  <2>1. CASE SubmitGate(s) \/ SubmitTestClosed(s) \/ SubmitSend(s)
    BY <2>1 DEF SubmitGate, SubmitTestClosed, SubmitSend
  <2>2. CASE CreateAcceptedTask(s)
    BY <1>1, <2>2, ExecIs, NewRows DEF CreateAcceptedTask
  <2>3. CASE SubmitMarkQueued(s)
    <3>1. rows[s].status # "none"
      BY <1>1, <2>3 DEF SubmitMarkQueued, TaskInv, HeldRow
    <3>. QED BY <1>1, <2>3, <3>1, ExecIs, QueuedRowIs DEF SubmitMarkQueued
  <2>4. CASE SubmitFinishFailed(s)
    <3> DEFINE r == FinishedRow(rows[s], "failed", "queue_full")
    <3>1. "failed" \in Terminal /\ "queue_full" \in Code
      BY DEF Terminal, Code
    <3>2. r \in Row /\ r.status \in {rows[s].status, "failed"}
      BY <1>1, <3>1, FinishedRowIs
    <3>3. PICK ok \in BOOLEAN : Exec(s, r, ok)
      BY <2>4 DEF SubmitFinishFailed
    <3>. HIDE DEF r
    <3>. QED BY <3>2, <3>3, ExecIs
  <2>. QED BY <2>1, <2>2, <2>3, <2>4 DEF SubmitStep
<1>. QED BY <1>2, <1>3 DEF Stranded, Working

\* A worker that lets go of a task leaves no running row, unless the
\* statement that should have ended it failed.
LEMMA WorkerStrandsNone ==
    ASSUME IInv, NEW w \in Workers, WorkerStep(w) \/ UpdateHeartbeat(w),
           faults' = faults, NEW t \in Tasks, Stranded(t)'
    PROVE  Stranded(t)
<1>. USE IInvParts
<1>1. rows \in [Tasks -> Row] /\ faults \in Nat
  BY DEF TypeOK
<1>2. UNCHANGED boot
  BY DEF WorkerStep, UpdateHeartbeat, Dequeue, LoadTask, MarkRunning, ForwardFailsBeforeWrite,
         WriteRequest, ForwardEnds, UpstreamAnswers, TransportBreaks, FinishTask
<1>3. CASE Dequeue(w)
  <2>1. wtask[w] = NoTask /\ UNCHANGED rows
    BY <1>3 DEF Dequeue, BootCoherent
  <2>2. Working(t) => Working(t)'
    BY <1>3, <2>1, ConstantsAssumption DEF Dequeue, Advance, Working, TypeOK
  <2>. QED BY <1>2, <2>1, <2>2 DEF Stranded
<1>4. CASE LoadTask(w)
  <2>1. PICK s \in Tasks : wtask[w] = s /\ WorkerRow(w)
    BY <1>4, HeldTask DEF LoadTask
  <2>2. UNCHANGED rows /\ rows[s].status = "queued"
    BY <1>4, <2>1 DEF LoadTask, WorkerRow
  <2>3. t # s
    BY <2>2 DEF Stranded
  <2>4. Working(t) => Working(t)'
    BY <1>4, <2>1, <2>3 DEF LoadTask, Advance, Release, Working, TypeOK
  <2>. QED BY <1>2, <2>2, <2>4 DEF Stranded
<1>5. CASE MarkRunning(w)
  <2>1. PICK s \in Tasks : wtask[w] = s /\ rows[s] \in Row /\ WorkerRow(w)
    BY <1>5, HeldTask DEF MarkRunning
  <2>2. PICK ok \in BOOLEAN :
           /\ Exec(s, RunningRow(rows[s]), ok)
           /\ IF Updated(ok, Exists(rows[s]))
              THEN Advance(w, "forward") /\ UNCHANGED outcome
              ELSE Release(w)
    BY <1>5, <2>1 DEF MarkRunning
  <2>3. ok /\ Exists(rows[s])
    BY <1>1, <1>5, <2>1, <2>2 DEF Exec, MarkRunning, WorkerRow, Exists
  <2>4. UNCHANGED wtask
    BY <2>2, <2>3 DEF Updated, Advance
  <2>5. t # s
    BY <2>1, <2>4 DEF Stranded, Working
  <2>6. rows'[t] = rows[t]
    BY <1>5, <2>1, <2>2, <2>5, ExecIs, RunningRowIs DEF MarkRunning, WorkerRow
  <2>. QED BY <1>2, <2>4, <2>6 DEF Stranded, Working
<1>6. CASE UpdateHeartbeat(w)
  <2>1. PICK s \in Tasks : wtask[w] = s /\ rows[s] \in Row
    BY <1>6, HeldTask DEF UpdateHeartbeat
  <2>2. rows'[t].status = rows[t].status
    BY <1>6, <2>1, ExecIs, HeartbeatRowIs DEF UpdateHeartbeat
  <2>. QED BY <1>2, <1>6, <2>2 DEF UpdateHeartbeat, Stranded, Working
<1>7. CASE ForwardFailsBeforeWrite(w) \/ WriteRequest(w) \/ ForwardEnds(w)
  <2>1. UNCHANGED <<rows, wtask>>
    BY <1>7 DEF ForwardFailsBeforeWrite, WriteRequest, ForwardEnds, UpstreamAnswers,
                TransportBreaks, Advance
  <2>. QED BY <1>2, <2>1 DEF Stranded, Working
<1>8. CASE FinishTask(w)
  <2>1. PICK s \in Tasks : wtask[w] = s /\ rows[s] \in Row /\ TaskInv(s) /\ WorkerRow(w)
    BY <1>8, HeldTask DEF FinishTask
  <2> DEFINE r == FinishedRow(rows[s], outcome[w], OutcomeCode(outcome[w]))
  <2>2. PICK ok \in BOOLEAN : Exec(s, r, ok)
    BY <1>8, <2>1 DEF FinishTask
  <2>3. outcome[w] \in Terminal /\ OutcomeCode(outcome[w]) \in Code
    BY <1>8, <2>1 DEF FinishTask, WorkerRow, TypeOK, Outcome, OutcomeCode, Terminal, Code
  <2>4. r \in Row /\ r.status # "running"
    <3>1. /\ r \in Row
          /\ Unfinished(rows[s]) => r.status = outcome[w]
          /\ ~Unfinished(rows[s]) => r = rows[s]
      BY <2>1, <2>3, FinishedRowIs
    <3>2. ~Unfinished(rows[s]) => rows[s].status # "running"
      BY <2>1 DEF Unfinished, Exists, TaskInv, Terminal
    <3>. QED BY <2>3, <3>1, <3>2 DEF Terminal
  <2>. HIDE DEF r
  <2>5. ok
    BY <1>1, <2>2 DEF Exec
  <2>6. t # s /\ rows'[t] = rows[t]
    BY <2>2, <2>4, <2>5, ExecIs DEF Stranded
  <2>7. Working(t) => Working(t)'
    BY <1>8, <2>1, <2>6 DEF FinishTask, Release, Working, TypeOK
  <2>. QED BY <1>2, <2>6, <2>7 DEF Stranded
<1>. QED BY <1>3, <1>4, <1>5, <1>6, <1>7, <1>8 DEF WorkerStep

\* The finding of gateway_stranded is the whole of it: while a process serves,
\* a running row loses its worker only through a failed statement, whatever
\* handlers, workers, the cleaner and a forced shutdown do at the same time.
THEOREM StrandedSound == Spec => StrandedByFaultOnly
<1>1. ASSUME IInv, [Next]_vars, NEW t \in Tasks, boot = "serving", Stranded(t)',
             ~(faults' > faults)
      PROVE  Stranded(t)
  <2>1. CASE UNCHANGED vars
    BY <1>1, <2>1 DEF vars, Stranded, Working
  <2>2. ASSUME NEW s \in Tasks,
               CallbackStep(s) \/ Age(s) \/ DeleteExpiredTask(s) \/ DeleteExpiredPayload(s)
        PROVE  Stranded(t)
    BY <1>1, <2>2, CleanerStatus DEF Stranded, Working
  <2>3. ASSUME NEW w \in Workers, WorkerStep(w) \/ UpdateHeartbeat(w)
        PROVE  Stranded(t)
    <3>1. faults' = faults
      <4>1. faults \in Nat /\ faults' \in {faults, faults + 1}
        BY <1>1, <2>3 DEF IInv, TypeOK, WorkerStep, UpdateHeartbeat, Dequeue, LoadTask, MarkRunning,
                    ForwardFailsBeforeWrite, WriteRequest, ForwardEnds, UpstreamAnswers,
                    TransportBreaks, FinishTask, Exec, ReadDB
      <4>. QED BY <1>1, <4>1
    <3>. QED BY <1>1, <2>3, <3>1, WorkerStrandsNone
  <2>4. ASSUME StartProcess \/ ScanStep
        PROVE  FALSE
    BY <1>1, <2>4 DEF StartProcess, ScanStep, ScanHandle, ScanTestClosed, ScanSend,
                      ScanFinishFailed, ScanDone, IInv, BootCoherent
  <2>5. CASE StartDraining \/ CloseQueue \/ PoolShutdown
    BY <1>1, <2>5 DEF StartDraining, CloseQueue, PoolShutdown, Stranded, Working
  <2>6. CASE MarkDispatchedRunningUncertain
    <3>1. UNCHANGED <<boot, wtask>>
      BY <2>6 DEF MarkDispatchedRunningUncertain
    <3>. QED BY <1>1, <2>6, <3>1, ForcedRows DEF Stranded, Working
  <2>7. CASE ProcessDies
    BY <1>1, <2>7 DEF ProcessDies, Stranded
  <2>. QED BY <1>1, <2>1, <2>2, <2>3, <2>4, <2>5, <2>6, <2>7, SubmitStrandsNone
           DEF Next, ShutdownStep
<1>2. IInv /\ [Next]_vars =>
         [\A t \in Tasks :
             boot = "serving" /\ Stranded(t)' => Stranded(t) \/ faults' > faults]_vars
  BY <1>1
<1>. QED BY <1>2, Invariant, PTL DEF Spec, StrandedByFaultOnly
=============================================================================
