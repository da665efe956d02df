-------------------------- MODULE ProxyRequest_proofs --------------------------
(***************************************************************************)
(* Proofs about ProxyRequest, for any finite sets of requests and URLs,    *)
(* any budget and any limits: types, that the handlers and their tasks use *)
(* the blob runtime so that its accounting holds and it is an atomic store *)
(* whatever requests fail, race or are dropped, what the handlers may rely *)
(* on, the admin log and the policies of uploads.                          *)
(***************************************************************************)
EXTENDS ProxyRequest, BlobRuntime_proofs, SequenceTheorems

Codes == {0, 200, 400, 502, 503}

(* The loop over the replacements starts at the first one.                 *)
CleanupPosition == \A r \in Requests : pc[r] = "cleanup" => next[r] >= 1

LocalOK ==
  /\ pc \in [Requests -> Stages]
  /\ refs \in [Requests -> Seq(Urls)]
  /\ next \in [Requests -> Nat]
  /\ poll \in [Requests -> [fails : Nat, expired : BOOLEAN]]
  /\ outputs \in [Requests -> Seq({"r2", "legacy", "base64"})]
  /\ left \in [Requests -> Nat]
  /\ status \in [Requests -> Codes]
  /\ logId \in [Requests -> Nat]
  /\ CleanupPosition

TasksOK == task \in [Requests -> [Slots -> TaskStates]]

AdminOK ==
  /\ totalRequests \in Nat /\ errorRequests \in Nat /\ nextId \in Nat
  /\ entries \in Seq([id : Nat, req : Requests])

ProxyInv == LocalOK /\ TasksOK /\ AdminOK /\ BlobInv

LEMMA ProxyInvTypeOK == ProxyInv => TypeOK
  BY DEF ProxyInv, LocalOK, TasksOK, AdminOK, BlobInv, TypeOK, Codes

LEMMA ProxyInitInv == Init => ProxyInv
<1> SUFFICES ASSUME Init PROVE ProxyInv
  OBVIOUS
<1>1. LocalOK
  BY DEF Init, LocalOK, CleanupPosition, Stages, Codes
<1>2. TasksOK
  BY DEF Init, TasksOK, TaskStates
<1>3. AdminOK
  BY DEF Init, AdminInit, AdminOK
<1>4. BlobInv
  BY BlobInitInv DEF Init
<1>5. QED
  BY <1>1, <1>2, <1>3, <1>4 DEF ProxyInv

-----------------------------------------------------------------------------
(* The pieces the actions are made of.                                     *)

LEMMA ReplyOK ==
  ASSUME LocalOK, NEW r \in Requests, NEW code \in Codes, Reply(r, code)
  PROVE  LocalOK'
<1>1. <<>> \in Seq(Urls)
  OBVIOUS
<1>2. [fails |-> 0, expired |-> FALSE] \in [fails : Nat, expired : BOOLEAN]
  OBVIOUS
<1>3. QED
  BY <1>1, <1>2 DEF LocalOK, CleanupPosition, Reply, Goto, Stages

LEMMA ErrorOK ==
  ASSUME LocalOK, NEW r \in Requests, BadGateway(r) \/ UpstreamError(r) \/ ClientError(r)
  PROVE  LocalOK'
<1>1. 502 \in Codes /\ 503 \in Codes /\ 400 \in Codes
  BY DEF Codes
<1>2. QED
  BY <1>1, ReplyOK DEF BadGateway, UpstreamError, ClientError

(* To another stage, with nothing else changed.                            *)
LEMMA GotoOK ==
  ASSUME LocalOK, NEW r \in Requests, NEW stage \in Stages, stage # "cleanup", Goto(r, stage),
         UNCHANGED <<refs, next, poll, outputs, left, status, logId>>
  PROVE  LocalOK'
  BY DEF LocalOK, CleanupPosition, Goto

LEMMA SetTaskOK ==
  ASSUME TasksOK, NEW r \in Requests, NEW s \in Slots, NEW state \in TaskStates,
         SetTask(r, s, state)
  PROVE  TasksOK'
  BY DEF TasksOK, SetTask

LEMMA StopFetchesOK ==
  ASSUME TasksOK, NEW r \in Requests, task' = [task EXCEPT ![r] = StopFetches(r)]
  PROVE  TasksOK'
<1>1. StopFetches(r) \in [Slots -> TaskStates]
  BY DEF TasksOK, StopFetches, TaskStates
<1>2. QED
  BY <1>1 DEF TasksOK

LEMMA KeepLocal ==
  ASSUME LocalOK, UNCHANGED <<pc, refs, next, poll, outputs, left, status, logId>>
  PROVE  LocalOK'
  BY DEF LocalOK, CleanupPosition

LEMMA KeepTasks ==
  ASSUME TasksOK, UNCHANGED task
  PROVE  TasksOK'
  BY DEF TasksOK

LEMMA KeepAdmin ==
  ASSUME AdminOK, UNCHANGED adminVars
  PROVE  AdminOK'
  BY DEF AdminOK, adminVars

(* A request's blobs are blobs of the runtime.                             *)
LEMMA BlobsIn ==
  ASSUME NEW r \in Requests, NEW s \in Slots
  PROVE  Blob(r, s) \in Blobs
  BY BlobsOfRequests DEF Blob

LEMMA SlotsIn == /\ Body \in Slots
                 /\ \A u \in Urls : u \in Slots
  BY DEF Slots

-----------------------------------------------------------------------------
(* What every step does: it keeps the types, and it is a step of the blob  *)
(* runtime or leaves that alone.                                           *)
StepOK == LocalOK' /\ TasksOK' /\ AdminOK' /\ [BlobNext]_blobVars

(* Steps of the handler that touch neither tasks, blobs nor the log.       *)
LEMMA LocalStep ==
  ASSUME ProxyInv, LocalOK', UNCHANGED <<task, blobVars, adminVars>>
  PROVE  StepOK
  BY KeepTasks, KeepAdmin DEF StepOK, ProxyInv

(* Steps of a blob b of the runtime.                                       *)
LEMMA BlobStep ==
  ASSUME NEW b \in Blobs,
         \/ StoreExternal(b) \/ BeginSpill(b) \/ LoadHot(b) \/ ExchangeHot(b)
         \/ FinishSpill(b) \/ FailSpill(b) \/ Remove(b) \/ RemoveFails(b)
  PROVE  BlobNext
  BY DEF BlobNext

LEMMA AcceptGeminiOK ==
  ASSUME ProxyInv, NEW r \in Requests, AcceptGemini(r)
  PROVE  StepOK
<1>1. PICK list \in RefLists[r] :
         \/ TooManyImages(list) /\ BadGateway(r) /\ UNCHANGED task
         \/ /\ Goto(r, "materialize")
            /\ refs' = [refs EXCEPT ![r] = list]
            /\ task' = [task EXCEPT ![r] =
                          [s \in Slots |-> IF s \in Range(list) THEN "queued" ELSE "idle"]]
            /\ UNCHANGED <<next, poll, outputs, left, status, logId>>
  BY DEF AcceptGemini
<1>2. UNCHANGED <<blobVars, adminVars>>
  BY DEF AcceptGemini
<1>3. CASE BadGateway(r) /\ UNCHANGED task
  BY <1>2, <1>3, ErrorOK, LocalStep DEF ProxyInv
<1>4. CASE Goto(r, "materialize") /\ ~(BadGateway(r) /\ UNCHANGED task)
  <2>1. list \in Seq(Urls)
    BY RefListsAssumption
  <2>2. LocalOK'
    BY <1>1, <1>4, <2>1 DEF ProxyInv, LocalOK, CleanupPosition, Goto, Stages
  <2>3. [s \in Slots |-> IF s \in Range(list) THEN "queued" ELSE "idle"] \in [Slots -> TaskStates]
    BY DEF TaskStates
  <2>4. TasksOK'
    BY <1>1, <1>4, <2>3 DEF ProxyInv, TasksOK
  <2>5. QED
    BY <1>2, <2>2, <2>4, KeepAdmin DEF StepOK, ProxyInv
<1>5. QED
  BY <1>1, <1>3, <1>4

LEMMA ArriveOK ==
  ASSUME ProxyInv, NEW r \in Requests, Arrive(r)
  PROVE  StepOK
<1>1. "create" \in Stages /\ "openai_send" \in Stages
  BY DEF Stages
<1>2. CASE RejectModelRequest(r)
  BY <1>2, ErrorOK, LocalStep DEF RejectModelRequest, ProxyInv
<1>3. CASE AcceptAiapidev(r)
  BY <1>1, <1>3, GotoOK, LocalStep DEF AcceptAiapidev, ProxyInv
<1>4. CASE AcceptGemini(r)
  BY <1>4, AcceptGeminiOK
<1>5. CASE RejectImageRequest(r)
  BY <1>5, ErrorOK, LocalStep DEF RejectImageRequest, ProxyInv
<1>6. CASE AcceptOpenAi(r)
  BY <1>1, <1>6, GotoOK, LocalStep DEF AcceptOpenAi, ProxyInv
<1>7. QED
  BY <1>2, <1>3, <1>4, <1>5, <1>6 DEF Arrive

-----------------------------------------------------------------------------
(* The steps of the spawned tasks.                                         *)

(* A task step: one slot's task state and, through the runtime, its blob.  *)
LEMMA TaskStep ==
  ASSUME ProxyInv, UNCHANGED TaskVars, TasksOK', [BlobNext]_blobVars
  PROVE  StepOK
<1>1. UNCHANGED <<pc, refs, next, poll, outputs, left, status, logId>> /\ UNCHANGED adminVars
  BY DEF TaskVars
<1>2. QED
  BY <1>1, KeepLocal, KeepAdmin DEF StepOK, ProxyInv

LEMMA FetchTaskOK ==
  ASSUME ProxyInv, NEW r \in Requests, NEW u \in Urls, FetchTask(r, u)
  PROVE  StepOK
<1> DEFINE b == Blob(r, u)
<1>1. u \in Slots /\ b \in Blobs
  BY SlotsIn, BlobsIn
<1>2. {"fetching", "err", "ok", "storing"} \subseteq TaskStates
  BY DEF TaskStates
<1>3. TasksOK
  BY DEF ProxyInv
<1>4. CASE FetchStart(r, u)
  <2>1. TasksOK'
    BY <1>1, <1>2, <1>3, <1>4, SetTaskOK DEF FetchStart
  <2>2. UNCHANGED blobVars /\ UNCHANGED TaskVars
    BY <1>4 DEF FetchStart
  <2>3. QED
    BY <2>1, <2>2, TaskStep
<1>5. CASE FetchFails(r, u)
  <2>1. TasksOK'
    BY <1>1, <1>2, <1>3, <1>5, SetTaskOK DEF FetchFails
  <2>2. UNCHANGED blobVars /\ UNCHANGED TaskVars
    BY <1>5 DEF FetchFails
  <2>3. QED
    BY <2>1, <2>2, TaskStep
<1>6. CASE FetchCached(r, u)
  <2>1. TasksOK'
    BY <1>1, <1>2, <1>3, <1>6, SetTaskOK DEF FetchCached
  <2>2. StoreExternal(b) /\ UNCHANGED TaskVars
    BY <1>6 DEF FetchCached
  <2>3. QED
    BY <1>1, <2>1, <2>2, BlobStep, TaskStep
<1>7. CASE FetchFresh(r, u)
  <2>1. TasksOK'
    BY <1>1, <1>2, <1>3, <1>7, SetTaskOK DEF FetchFresh
  <2>2. (BeginSpill(b) \/ LoadHot(b)) /\ UNCHANGED TaskVars
    BY <1>7 DEF FetchFresh
  <2>3. QED
    BY <1>1, <2>1, <2>2, BlobStep, TaskStep
<1>8. QED
  BY <1>4, <1>5, <1>6, <1>7 DEF FetchTask

LEMMA StreamTaskOK ==
  ASSUME ProxyInv, NEW r \in Requests, StreamTask(r)
  PROVE  StepOK
<1> DEFINE b == Blob(r, Body)
<1>1. Body \in Slots /\ b \in Blobs
  BY SlotsIn, BlobsIn
<1>2. {"err", "ok", "storing"} \subseteq TaskStates
  BY DEF TaskStates
<1>3. TasksOK
  BY DEF ProxyInv
<1>4. CASE StreamOverflow(r)
  <2>1. BeginSpill(b) /\ UNCHANGED TaskVars /\ UNCHANGED task
    BY <1>4 DEF StreamOverflow
  <2>2. QED
    BY <1>1, <1>3, <2>1, KeepTasks, BlobStep, TaskStep
<1>5. CASE StreamEnd(r)
  <2>1. /\ \/ FinishSpill(b) /\ SetTask(r, Body, "ok")
           \/ LoadHot(b) /\ SetTask(r, Body, "storing")
        /\ UNCHANGED TaskVars
    BY <1>5 DEF StreamEnd
  <2>2. TasksOK'
    BY <1>1, <1>2, <1>3, <2>1, SetTaskOK
  <2>3. QED
    BY <1>1, <2>1, <2>2, BlobStep, TaskStep
<1>6. CASE StreamFails(r)
  <2>1. FailSpill(b) /\ SetTask(r, Body, "err") /\ UNCHANGED TaskVars
    BY <1>6 DEF StreamFails
  <2>2. TasksOK'
    BY <1>1, <1>2, <1>3, <2>1, SetTaskOK
  <2>3. QED
    BY <1>1, <2>1, <2>2, BlobStep, TaskStep
<1>7. QED
  BY <1>4, <1>5, <1>6 DEF StreamTask

LEMMA TaskOK ==
  ASSUME ProxyInv, NEW r \in Requests, NEW s \in Slots, Task(r, s)
  PROVE  StepOK
<1> DEFINE b == Blob(r, s)
<1>1. b \in Blobs
  BY BlobsIn
<1>2. {"err", "ok"} \subseteq TaskStates
  BY DEF TaskStates
<1>3. TasksOK
  BY DEF ProxyInv
<1>4. CASE s \in Urls /\ FetchTask(r, s)
  BY <1>4, FetchTaskOK
<1>5. CASE s = Body /\ StreamTask(r)
  BY <1>5, StreamTaskOK
<1>6. CASE StoreReserve(r, s)
  <2>1. /\ \/ ExchangeHot(b) /\ SetTask(r, s, "ok")
           \/ LoadHot(b) /\ UNCHANGED task
        /\ UNCHANGED TaskVars
    BY <1>6 DEF StoreReserve
  <2>2. TasksOK'
    BY <1>2, <1>3, <2>1, SetTaskOK, KeepTasks
  <2>3. QED
    BY <1>1, <2>1, <2>2, BlobStep, TaskStep
<1>7. CASE StoreSpill(r, s)
  <2>1. /\ \/ FinishSpill(b) /\ SetTask(r, s, "ok")
           \/ FailSpill(b) /\ SetTask(r, s, "err")
        /\ UNCHANGED TaskVars
    BY <1>7 DEF StoreSpill
  <2>2. TasksOK'
    BY <1>2, <1>3, <2>1, SetTaskOK
  <2>3. QED
    BY <1>1, <2>1, <2>2, BlobStep, TaskStep
<1>8. QED
  BY <1>4, <1>5, <1>6, <1>7 DEF Task

-----------------------------------------------------------------------------
(* The handler, from the spawned fetches to the answer of the upstream.    *)

LEMMA MaterializeOK ==
  ASSUME ProxyInv, NEW r \in Requests,
         \/ \E u \in Urls : JoinFetch(r, u) \/ JoinFails(r, u)
         \/ EncodeStart(r)
  PROVE  StepOK
<1>1. Body \in Slots /\ \A u \in Urls : u \in Slots
  BY SlotsIn
<1>2. "joined" \in TaskStates /\ "streaming" \in TaskStates /\ "encode" \in Stages
  BY DEF TaskStates, Stages
<1>3. LocalOK /\ TasksOK /\ AdminOK
  BY DEF ProxyInv
<1>4. CASE \E u \in Urls : JoinFetch(r, u)
  <2>1. PICK u \in Urls : JoinFetch(r, u)
    BY <1>4
  <2>2. TasksOK'
    BY <1>1, <1>2, <1>3, <2>1, SetTaskOK DEF JoinFetch
  <2>3. UNCHANGED TaskVars /\ UNCHANGED blobVars
    BY <2>1 DEF JoinFetch, ForwardVars, TaskVars
  <2>4. QED
    BY <2>2, <2>3, TaskStep
<1>5. CASE \E u \in Urls : JoinFails(r, u)
  <2>1. /\ BadGateway(r)
        /\ task' = [task EXCEPT ![r] = StopFetches(r)]
        /\ UNCHANGED <<blobVars, adminVars>>
    BY <1>5 DEF JoinFails
  <2>2. QED
    BY <1>3, <2>1, ErrorOK, StopFetchesOK, KeepAdmin DEF StepOK
<1>6. CASE EncodeStart(r)
  <2>1. /\ Goto(r, "encode")
        /\ SetTask(r, Body, "streaming")
        /\ UNCHANGED <<refs, next, poll, outputs, left, status, logId>>
        /\ UNCHANGED adminVars
        /\ UNCHANGED blobVars
    BY <1>6 DEF EncodeStart, ForwardVars
  <2>2. QED
    BY <1>1, <1>2, <1>3, <2>1, GotoOK, SetTaskOK, KeepAdmin DEF StepOK
<1>7. QED
  BY <1>4, <1>5, <1>6

LEMMA EncodeOK ==
  ASSUME ProxyInv, NEW r \in Requests, WriteBody(r) \/ WriteFails(r) \/ JoinBody(r)
  PROVE  StepOK
<1>1. Body \in Slots /\ Blob(r, Body) \in Blobs
  BY SlotsIn, BlobsIn
<1>2. {"err", "stopped", "joined"} \subseteq TaskStates /\ "encoded" \in Stages
  BY DEF TaskStates, Stages
<1>3. LocalOK /\ TasksOK /\ AdminOK
  BY DEF ProxyInv
<1>4. CASE WriteBody(r)
  <2>1. /\ Goto(r, "encoded")
        /\ UNCHANGED <<refs, next, poll, outputs, left, status, logId>>
        /\ UNCHANGED <<task, blobVars, adminVars>>
    BY <1>4 DEF WriteBody, ForwardVars
  <2>2. QED
    BY <1>2, <1>3, <2>1, GotoOK, LocalStep
<1>5. CASE WriteFails(r)
  <2>1. /\ BadGateway(r)
        /\ FailSpill(Blob(r, Body)) \/ UNCHANGED blobVars
        /\ \/ SetTask(r, Body, "err")
           \/ SetTask(r, Body, "stopped")
        /\ UNCHANGED adminVars
    BY <1>5 DEF WriteFails
  <2>2. TasksOK'
    BY <1>1, <1>2, <1>3, <2>1, SetTaskOK
  <2>3. [BlobNext]_blobVars
    BY <1>1, <2>1, BlobStep
  <2>4. QED
    BY <1>3, <2>1, <2>2, <2>3, ErrorOK, KeepAdmin DEF StepOK
<1>6. CASE JoinBody(r)
  <2>1. UNCHANGED <<blobVars, adminVars>>
    BY <1>6 DEF JoinBody
  <2>2. CASE BadGateway(r) /\ UNCHANGED task
    BY <1>3, <2>1, <2>2, ErrorOK, LocalStep
  <2>3. CASE /\ Goto(r, "cleanup")
             /\ SetTask(r, Body, "joined")
             /\ next' = [next EXCEPT ![r] = 1]
             /\ UNCHANGED <<refs, poll, outputs, left, status, logId>>
    <3>1. LocalOK'
      BY <1>3, <2>3 DEF LocalOK, CleanupPosition, Goto, Stages
    <3>2. TasksOK'
      BY <1>1, <1>2, <1>3, <2>3, SetTaskOK
    <3>3. QED
      BY <1>3, <2>1, <3>1, <3>2, KeepAdmin DEF StepOK
  <2>4. QED
    BY <1>6, <2>2, <2>3 DEF JoinBody
<1>7. QED
  BY <1>4, <1>5, <1>6

LEMMA SendOK ==
  ASSUME ProxyInv, NEW r \in Requests, RemoveReplacement(r) \/ OpenBody(r) \/ Send(r)
  PROVE  StepOK
<1>1. Blob(r, Body) \in Blobs
  BY SlotsIn, BlobsIn
<1>2. "send" \in Stages /\ "respond" \in Stages
  BY DEF Stages
<1>3. LocalOK /\ TasksOK /\ AdminOK
  BY DEF ProxyInv
<1>4. CASE RemoveReplacement(r)
  <2> DEFINE b == Blob(r, refs[r][next[r]])
  <2>1. /\ \/ /\ Remove(b)
              /\ next' = [next EXCEPT ![r] = @ + 1]
              /\ UNCHANGED <<pc, refs, poll, outputs, left, status, logId>>
           \/ RemoveFails(b) /\ BadGateway(r)
        /\ UNCHANGED <<task, adminVars>>
        /\ pc[r] = "cleanup" /\ next[r] <= Len(refs[r])
    BY <1>4 DEF RemoveReplacement
  <2>2. refs[r] \in Seq(Urls) /\ next[r] \in Nat /\ next[r] >= 1
    BY <1>3, <2>1 DEF LocalOK, CleanupPosition
  <2>3. refs[r][next[r]] \in Urls
    BY <2>1, <2>2
  <2>4. b \in Blobs
    BY <2>3, SlotsIn, BlobsIn
  <2>5. LocalOK'
    <3>1. CASE BadGateway(r)
      BY <1>3, <3>1, ErrorOK
    <3>2. CASE /\ next' = [next EXCEPT ![r] = @ + 1]
               /\ UNCHANGED <<pc, refs, poll, outputs, left, status, logId>>
      BY <1>3, <3>2 DEF LocalOK, CleanupPosition
    <3>3. QED
      BY <2>1, <3>1, <3>2
  <2>6. QED
    BY <1>3, <2>1, <2>4, <2>5, BlobStep, KeepTasks, KeepAdmin DEF StepOK
<1>5. CASE OpenBody(r)
  BY <1>2, <1>3, <1>5, GotoOK, ErrorOK, LocalStep DEF OpenBody
<1>6. CASE Send(r)
  <2>1. /\ \/ /\ Goto(r, "respond")
              /\ UNCHANGED <<refs, next, poll, outputs, left, status, logId>>
           \/ BadGateway(r)
        /\ Remove(Blob(r, Body)) \/ RemoveFails(Blob(r, Body))
        /\ UNCHANGED <<task, adminVars>>
    BY <1>6 DEF Send
  <2>2. LocalOK'
    BY <1>2, <1>3, <2>1, GotoOK, ErrorOK
  <2>3. QED
    BY <1>1, <1>3, <2>1, <2>2, BlobStep, KeepTasks, KeepAdmin DEF StepOK
<1>7. QED
  BY <1>4, <1>5, <1>6

-----------------------------------------------------------------------------
(* The handler, from the answer of the upstream to its own.                *)

LEMMA StartUploadOK ==
  ASSUME LocalOK, NEW r \in Requests, NEW stage \in {"upload", "openai_upload"},
         NEW images \in Nat, StartUpload(r, stage, images)
  PROVE  LocalOK'
  BY DEF LocalOK, CleanupPosition, StartUpload, Goto, Stages

LEMMA OutputOK ==
  ASSUME LocalOK, NEW r \in Requests, NEW output \in {"r2", "legacy", "base64"},
         left[r] > 0, Output(r, output)
  PROVE  LocalOK'
<1>1. Append(outputs[r], output) \in Seq({"r2", "legacy", "base64"})
  BY DEF LocalOK
<1>2. left[r] - 1 \in Nat
  BY DEF LocalOK
<1>3. QED
  BY <1>1, <1>2 DEF LocalOK, CleanupPosition, Output

LEMMA UploadStepOK ==
  ASSUME ProxyInv, NEW r \in Requests, Upload(r) \/ UploadFails(r)
  PROVE  StepOK
<1>1. LocalOK
  BY DEF ProxyInv
<1>2. /\ left[r] > 0
      /\ \E output \in {"r2", "legacy", "base64"} :
           Output(r, output) \/ NextHost(r) \/ BadGateway(r)
      /\ UNCHANGED <<task, blobVars, adminVars>>
  BY DEF Upload, UploadFails, Provider
<1>3. LocalOK'
  <2>1. CASE NextHost(r)
    BY <1>1, <2>1 DEF NextHost, LocalOK, CleanupPosition
  <2>2. QED
    BY <1>1, <1>2, <2>1, OutputOK, ErrorOK
<1>4. QED
  BY <1>2, <1>3, LocalStep

LEMMA RespondOK ==
  ASSUME ProxyInv, NEW r \in Requests,
         \/ Respond(r) \/ RewriteResponse(r) \/ OpenAiSend(r) \/ OpenAiRespond(r)
         \/ DecodeFails(r) \/ PatchUrls(r) \/ BuildPayload(r)
  PROVE  StepOK
<1>1. "rewrite" \in Stages /\ "openai_respond" \in Stages /\ 200 \in Codes
  BY DEF Stages, Codes
<1>2. LocalOK
  BY DEF ProxyInv
<1>3. 0 .. MaxImages \subseteq Nat /\ 1 .. MaxImages \subseteq Nat
  BY LimitsAssumption
<1>4. CASE Respond(r)
  BY <1>1, <1>2, <1>4, ErrorOK, ReplyOK, GotoOK, LocalStep DEF Respond
<1>5. CASE RewriteResponse(r)
  BY <1>1, <1>2, <1>3, <1>5, ErrorOK, ReplyOK, StartUploadOK, LocalStep DEF RewriteResponse
<1>6. CASE OpenAiSend(r)
  BY <1>1, <1>2, <1>6, ErrorOK, GotoOK, LocalStep DEF OpenAiSend
<1>7. CASE OpenAiRespond(r)
  BY <1>1, <1>2, <1>3, <1>7, ErrorOK, StartUploadOK, LocalStep DEF OpenAiRespond
<1>8. CASE DecodeFails(r)
  BY <1>2, <1>8, ErrorOK, LocalStep DEF DecodeFails
<1>9. CASE PatchUrls(r) \/ BuildPayload(r)
  BY <1>1, <1>2, <1>9, ReplyOK, LocalStep DEF PatchUrls, BuildPayload
<1>10. QED
  BY <1>4, <1>5, <1>6, <1>7, <1>8, <1>9

LEMMA SetFailsOK ==
  ASSUME LocalOK, NEW r \in Requests, NEW n \in Nat, SetFails(r, n)
  PROVE  LocalOK'
  BY DEF LocalOK, CleanupPosition, SetFails

LEMMA PollOK ==
  ASSUME ProxyInv, NEW r \in Requests,
         \/ CreateTask(r) \/ PollDeadline(r) \/ PollFails(r) \/ PollRefused(r)
         \/ PollPending(r) \/ PollTerminal(r) \/ NormalizeTask(r)
  PROVE  StepOK
<1>1. "poll" \in Stages /\ 200 \in Codes
  BY DEF Stages, Codes
<1>2. LocalOK
  BY DEF ProxyInv
<1>3. poll[r].fails \in Nat /\ 0 \in Nat
  BY <1>2 DEF LocalOK
<1>4. CASE CreateTask(r)
  BY <1>1, <1>2, <1>4, ErrorOK, GotoOK, LocalStep DEF CreateTask
<1>5. CASE PollDeadline(r)
  <2>1. LocalOK'
    BY <1>2, <1>5 DEF PollDeadline, LocalOK, CleanupPosition
  <2>2. QED
    BY <1>5, <2>1, LocalStep DEF PollDeadline
<1>6. CASE PollFails(r)
  <2>1. poll[r].fails + 1 \in Nat
    BY <1>3
  <2>2. QED
    BY <1>2, <1>6, <2>1, ErrorOK, SetFailsOK, LocalStep DEF PollFails
<1>7. CASE PollRefused(r)
  BY <1>2, <1>7, ErrorOK, LocalStep DEF PollRefused
<1>8. CASE PollPending(r)
  BY <1>2, <1>3, <1>8, ErrorOK, SetFailsOK, LocalStep DEF PollPending
<1>9. CASE PollTerminal(r)
  <2>1. CASE BadGateway(r)
    BY <1>2, <1>9, <2>1, ErrorOK, LocalStep DEF PollTerminal
  <2>2. CASE ~BadGateway(r)
    <3>1. /\ Goto(r, "normalize")
          /\ poll' = [poll EXCEPT ![r] = [fails |-> 0, expired |-> FALSE]]
          /\ UNCHANGED <<refs, next, outputs, left, status, logId>>
          /\ UNCHANGED <<task, blobVars, adminVars>>
      BY <1>9, <2>2 DEF PollTerminal
    <3>2. [fails |-> 0, expired |-> FALSE] \in [fails : Nat, expired : BOOLEAN]
      OBVIOUS
    <3>3. LocalOK'
      BY <1>2, <3>1, <3>2 DEF LocalOK, CleanupPosition, Goto, Stages
    <3>4. QED
      BY <3>1, <3>3, LocalStep
  <2>3. QED
    BY <2>1, <2>2
<1>10. CASE NormalizeTask(r)
  BY <1>1, <1>2, <1>10, ErrorOK, ReplyOK, LocalStep DEF NormalizeTask
<1>11. QED
  BY <1>4, <1>5, <1>6, <1>7, <1>8, <1>9, <1>10

-----------------------------------------------------------------------------
(* The admin log, and the client that goes away.                           *)

LEMMA FinalizeOK ==
  ASSUME ProxyInv, NEW r \in Requests, Finalize(r)
  PROVE  StepOK
<1>1. LocalOK /\ TasksOK /\ AdminOK
  BY DEF ProxyInv
<1>2. /\ outputs' = [outputs EXCEPT ![r] = <<>>]
      /\ UNCHANGED <<task, refs, next, poll, left, status, logId>>
      /\ UNCHANGED blobVars
      /\ Goto(r, "counted") \/ Goto(r, "answered")
      /\ Count(status[r]) \/ UNCHANGED adminVars
  BY DEF Finalize
<1>3. <<>> \in Seq({"r2", "legacy", "base64"})
  OBVIOUS
<1>4. LocalOK'
  BY <1>1, <1>2, <1>3 DEF LocalOK, CleanupPosition, Goto, Stages
<1>5. AdminOK'
  <2>1. CASE Count(status[r])
    BY <1>1, <2>1 DEF AdminOK, Count
  <2>2. QED
    BY <1>1, <1>2, <2>1, KeepAdmin
<1>6. QED
  BY <1>1, <1>2, <1>4, <1>5, KeepTasks DEF StepOK

LEMMA TakeLogIdOK ==
  ASSUME ProxyInv, NEW r \in Requests, TakeLogId(r)
  PROVE  StepOK
<1>1. LocalOK /\ TasksOK /\ AdminOK
  BY DEF ProxyInv
<1>2. nextId + 1 \in Nat
  BY <1>1 DEF AdminOK
<1>3. LocalOK'
  BY <1>1, <1>2 DEF TakeLogId, LocalOK, CleanupPosition, Goto, Stages
<1>4. AdminOK'
  BY <1>1 DEF TakeLogId, TakeId, AdminOK
<1>5. UNCHANGED task /\ UNCHANGED blobVars
  BY DEF TakeLogId
<1>6. QED
  BY <1>1, <1>3, <1>4, <1>5, KeepTasks DEF StepOK

LEMMA RecordOK ==
  ASSUME ProxyInv, NEW r \in Requests, Record(r)
  PROVE  StepOK
<1>1. LocalOK /\ TasksOK /\ AdminOK
  BY DEF ProxyInv
<1>2. /\ PushEntry(logId[r], r)
      /\ Goto(r, "answered")
      /\ UNCHANGED <<refs, next, poll, outputs, left, status, logId>>
      /\ UNCHANGED task /\ UNCHANGED blobVars
  BY DEF Record
<1>3. "answered" \in Stages
  BY DEF Stages
<1>4. AdminOK'
  <2> DEFINE all == <<[id |-> logId[r], req |-> r]>> \o entries
             kept == IF Len(all) < LogCapacity THEN Len(all) ELSE LogCapacity
  <2>1. [id |-> logId[r], req |-> r] \in [id : Nat, req : Requests]
    BY <1>1 DEF LocalOK
  <2>2. all \in Seq([id : Nat, req : Requests])
    BY <1>1, <2>1 DEF AdminOK
  <2>3. kept \in 0 .. Len(all)
    BY <2>2, LogCapacityAssumption
  <2>4. SubSeq(all, 1, kept) \in Seq([id : Nat, req : Requests])
    <3> HIDE DEF all, kept
    <3>1. Len(all) \in Nat /\ \A i \in 1 .. Len(all) : all[i] \in [id : Nat, req : Requests]
      BY <2>2, LenProperties, ElementOfSeq
    <3>2. kept \in Int /\ 1 \in Int /\ 1 .. kept \subseteq 1 .. Len(all)
      BY <2>3, <3>1
    <3>3. QED
      BY <3>1, <3>2, SubSeqProperties
  <2>5. QED
    BY <1>1, <1>2, <2>4 DEF PushEntry, AdminOK
<1>5. QED
  BY <1>1, <1>2, <1>3, <1>4, GotoOK, KeepTasks DEF StepOK

LEMMA CancelOK ==
  ASSUME ProxyInv, NEW r \in Requests, Cancel(r)
  PROVE  StepOK
<1>1. LocalOK /\ TasksOK /\ AdminOK
  BY DEF ProxyInv
<1>2. <<>> \in Seq(Urls) /\ <<>> \in Seq({"r2", "legacy", "base64"})
  OBVIOUS
<1>3. [fails |-> 0, expired |-> FALSE] \in [fails : Nat, expired : BOOLEAN]
  OBVIOUS
<1>4. LocalOK'
  BY <1>1, <1>2, <1>3 DEF Cancel, LocalOK, CleanupPosition, Goto, Stages
<1>5. UNCHANGED blobVars /\ UNCHANGED adminVars
  BY DEF Cancel
<1>6. TasksOK'
  BY <1>1, StopFetchesOK DEF Cancel
<1>7. QED
  BY <1>1, <1>4, <1>5, <1>6, KeepAdmin DEF StepOK

-----------------------------------------------------------------------------
LEMMA NextOK ==
  ASSUME ProxyInv, Next
  PROVE  StepOK
<1>1. PICK r \in Requests :
         \/ Arrive(r) \/ Handler(r) \/ PollDeadline(r) \/ Cancel(r)
         \/ \E s \in Slots : Task(r, s)
  BY DEF Next
<1>2. CASE Arrive(r)
  BY <1>2, ArriveOK
<1>3. CASE Handler(r)
  BY <1>3, MaterializeOK, EncodeOK, SendOK, RespondOK, UploadStepOK, PollOK, FinalizeOK,
     TakeLogIdOK, RecordOK DEF Handler, HandlerStep, ResponseFetch
<1>4. CASE PollDeadline(r)
  BY <1>4, PollOK
<1>5. CASE Cancel(r)
  BY <1>5, CancelOK
<1>6. CASE \E s \in Slots : Task(r, s)
  BY <1>6, TaskOK
<1>7. QED
  BY <1>1, <1>2, <1>3, <1>4, <1>5, <1>6

LEMMA ProxyNextInv == ProxyInv /\ [Next]_vars => ProxyInv' /\ [BlobNext]_blobVars
<1> SUFFICES ASSUME ProxyInv, [Next]_vars PROVE ProxyInv' /\ [BlobNext]_blobVars
  OBVIOUS
<1>1. StepOK
  <2>1. CASE Next
    BY <2>1, NextOK
  <2>2. CASE UNCHANGED vars
    <3>1. /\ UNCHANGED <<pc, refs, next, poll, outputs, left, status, logId>>
          /\ UNCHANGED <<task, blobVars, adminVars>>
      BY <2>2 DEF vars, reqVars
    <3>2. QED
      BY <3>1, KeepLocal, LocalStep DEF ProxyInv
  <2>3. QED
    BY <2>1, <2>2
<1>2. BlobInv'
  BY <1>1, BlobNextInv DEF StepOK, ProxyInv
<1>3. QED
  BY <1>1, <1>2 DEF StepOK, ProxyInv

(* The inductive invariant of the request handlers and their tasks.        *)
THEOREM ProxyInvariant == Spec => []ProxyInv
<1>1. QED
  BY ProxyInitInv, ProxyNextInv, PTL DEF Spec

(* Every variable keeps its type, for any number of requests and URLs.     *)
THEOREM ProxyTypes == Spec => []TypeOK
<1>1. QED
  BY ProxyInvariant, ProxyInvTypeOK, PTL

(* Whatever the handlers, their spawned tasks and the clients that go away *)
(* do, nothing is stored, spilled or removed but through blob_runtime.rs.  *)
LEMMA ProxyUsesBlobRuntime == Spec => BlobSpec
<1>1. Init => BlobInit
  BY DEF Init
<1>2. QED
  BY <1>1, ProxyInitInv, ProxyNextInv, PTL DEF Spec, BlobSpec

(* HotAccounting in the composed system: no request, failed, answered or   *)
(* dropped, makes global_hot_bytes drift or exceed its budget.             *)
THEOREM ProxyHotExact == Spec => []HotAccounting
<1>1. QED
  BY ProxyUsesBlobRuntime, HotExact, PTL

(* SpillAccounting in the composed system.                                 *)
THEOREM ProxySpillExact == Spec => []SpillAccounting
<1>1. QED
  BY ProxyUsesBlobRuntime, SpillExact, PTL

(* AtomicStore in the composed system: requests that race for the last of  *)
(* the budget, lose the exchange, fail, are dropped or remove an image     *)
(* once per reference see one atomic store.                                *)
THEOREM ProxyStoreIsAtomic == Spec => AtomicStore
<1>1. QED
  BY ProxyUsesBlobRuntime, RuntimeIsAtomic, PTL

-----------------------------------------------------------------------------
(* What a handler may rely on: the blobs of its request, by the state of   *)
(* the task that stores each one, and by its own stage.                    *)

(* A blob is stored when its task says so, and not begun before.           *)
SlotBlob(r, s) ==
  /\ task[r][s] \in {"idle", "queued", "fetching"} => storage[Blob(r, s)] = "none"
  /\ task[r][s] = "streaming" => storage[Blob(r, s)] \in {"none", "writing"}
  /\ task[r][s] = "storing" => storage[Blob(r, s)] \in {"reserving", "writing"}
  /\ task[r][s] \in {"ok", "joined"} => Stored(Blob(r, s))

TaskBlobs(r) == \A s \in Slots : SlotBlob(r, s)

(* Nothing of the slot is held any more, and nothing will be.              *)
SlotDone(r, s) ==
  \/ task[r][s] = "idle"
  \/ /\ task[r][s] = "joined"
     /\ Blob(r, s) \in removed
     /\ Blob(r, s) \notin spillFiles

Quiet(r) == \A s \in Slots : SlotDone(r, s)

QuietStages ==
  {"new", "respond", "rewrite", "upload", "create", "poll", "normalize", "openai_send",
   "openai_respond", "openai_upload"}

Unremoved(r) == \A s \in Slots : Blob(r, s) \notin removed

(* Exactly the images of the body have tasks.                              *)
OnlyRefs(r) == \A u \in Urls \ Range(refs[r]) : task[r][u] = "idle"

ImagesJoined(r) == \A u \in Range(refs[r]) : task[r][u] = "joined"

(* The loop over the replacements: what is behind it is removed, and what  *)
(* is removed is gone.                                                     *)
Cleaning(r) ==
  /\ ImagesJoined(r) /\ OnlyRefs(r)
  /\ task[r][Body] = "joined" /\ Blob(r, Body) \notin removed
  /\ \A u \in Urls : Blob(r, u) \in removed => Blob(r, u) \notin spillFiles
  /\ \A i \in DOMAIN refs[r] : i < next[r] => Blob(r, refs[r][i]) \in removed

StageOK(r) ==
  /\ pc[r] = "new" => \A s \in Slots : task[r][s] = "idle"
  /\ pc[r] = "materialize" => Unremoved(r) /\ OnlyRefs(r) /\ task[r][Body] = "idle"
  /\ pc[r] = "encode" => Unremoved(r) /\ OnlyRefs(r) /\ ImagesJoined(r)
                           /\ task[r][Body] \in {"streaming", "err"}
  /\ pc[r] = "encoded" => Unremoved(r) /\ OnlyRefs(r) /\ ImagesJoined(r)
  /\ pc[r] = "cleanup" => Cleaning(r)
  /\ pc[r] = "send" => /\ \A u \in Urls : SlotDone(r, u)
                       /\ task[r][Body] = "joined" /\ Blob(r, Body) \notin removed
  /\ pc[r] \in QuietStages => Quiet(r)
  /\ status[r] \notin {0, 502} => Quiet(r)
  /\ pc[r] \notin {"finalize", "counted", "recording"} \cup Ended => status[r] = 0

Live(r) == TaskBlobs(r) /\ StageOK(r)

LiveInv == \A r \in Requests : Live(r)

-----------------------------------------------------------------------------
(* A step of one request leaves the others alone.                          *)

BlobOnly(b) ==
  \A c \in Blobs \ {b} :
    /\ storage'[c] = storage[c]
    /\ c \in removed' <=> c \in removed
    /\ c \in spillFiles' <=> c \in spillFiles

ReqOnly(r) ==
  \A q \in Requests \ {r} :
    /\ pc'[q] = pc[q] /\ task'[q] = task[q] /\ refs'[q] = refs[q]
    /\ next'[q] = next[q] /\ status'[q] = status[q]

LEMMA BlobActionOnly ==
  ASSUME BlobInv, NEW b \in Blobs,
         \/ StoreExternal(b) \/ BeginSpill(b) \/ LoadHot(b) \/ ExchangeHot(b)
         \/ FinishSpill(b) \/ FailSpill(b) \/ Remove(b) \/ RemoveFails(b)
         \/ UNCHANGED blobVars
  PROVE  BlobOnly(b)
<1>1. CASE StoreExternal(b) \/ BeginSpill(b) \/ LoadHot(b) \/ ExchangeHot(b)
  BY <1>1 DEF BlobInv, BlobTypeOK, BlobOnly, StoreExternal, BeginSpill, LoadHot, ExchangeHot
<1>2. CASE FinishSpill(b) \/ FailSpill(b)
  BY <1>2 DEF BlobInv, BlobTypeOK, BlobOnly, FinishSpill, FailSpill
<1>3. CASE Remove(b) \/ RemoveFails(b)
  BY <1>3 DEF BlobInv, BlobTypeOK, BlobOnly, Remove, RemoveFails
<1>4. CASE UNCHANGED blobVars
  BY <1>4 DEF BlobOnly, blobVars
<1>5. QED
  BY <1>1, <1>2, <1>3, <1>4

(* The references of a request are URLs, and URLs are slots.               *)
LEMMA RefsIn ==
  ASSUME ProxyInv, NEW r \in Requests
  PROVE  /\ refs[r] \in Seq(Urls)
         /\ \A i \in DOMAIN refs[r] : refs[r][i] \in Urls /\ refs[r][i] \in Slots
         /\ Range(refs[r]) \subseteq Urls
<1>1. refs[r] \in Seq(Urls)
  BY DEF ProxyInv, LocalOK
<1>2. \A i \in DOMAIN refs[r] : refs[r][i] \in Urls
  BY <1>1
<1>3. QED
  BY <1>1, <1>2, SlotsIn DEF Range

(* What is left to show for a step of request r.                           *)
LEMMA LiveOthers ==
  ASSUME ProxyInv, LiveInv, NEW r \in Requests, NEW t \in Slots, ReqOnly(r), BlobOnly(Blob(r, t)),
         Live(r)'
  PROVE  LiveInv'
<1> SUFFICES ASSUME NEW q \in Requests, q # r PROVE Live(q)'
  BY DEF LiveInv
<1>1. \A s \in Slots : Blob(q, s) \in Blobs \ {Blob(r, t)}
  BY BlobsOfRequests DEF Blob
<1>2. \A s \in Slots : /\ storage'[Blob(q, s)] = storage[Blob(q, s)]
                       /\ Blob(q, s) \in removed' <=> Blob(q, s) \in removed
                       /\ Blob(q, s) \in spillFiles' <=> Blob(q, s) \in spillFiles
  BY <1>1 DEF BlobOnly
<1>3. /\ pc'[q] = pc[q] /\ task'[q] = task[q] /\ refs'[q] = refs[q]
      /\ next'[q] = next[q] /\ status'[q] = status[q]
  BY DEF ReqOnly
<1>4. TaskBlobs(q) /\ StageOK(q)
  BY DEF LiveInv, Live
<1>5. TaskBlobs(q)'
  BY <1>2, <1>3, <1>4 DEF TaskBlobs, SlotBlob, Stored, Blob
<1>6. \A s \in Slots : SlotDone(q, s) => SlotDone(q, s)'
  BY <1>2, <1>3 DEF SlotDone, Blob
<1>7. Quiet(q) => Quiet(q)'
  BY <1>6 DEF Quiet
<1>8. /\ Unremoved(q) => Unremoved(q)'
      /\ OnlyRefs(q) => OnlyRefs(q)'
      /\ ImagesJoined(q) => ImagesJoined(q)'
  BY <1>2, <1>3 DEF Unremoved, OnlyRefs, ImagesJoined, Blob
<1>9. Cleaning(q) => Cleaning(q)'
  <2>1. \A i \in DOMAIN refs[q] : refs[q][i] \in Slots
    BY RefsIn
  <2>2. QED
    BY <1>2, <1>3, <1>8, <2>1, SlotsIn DEF Cleaning, Blob
<1>10. StageOK(q)'
  BY <1>2, <1>3, <1>4, <1>6, <1>7, <1>8, <1>9, SlotsIn DEF StageOK, Blob
<1>11. QED
  BY <1>5, <1>10 DEF Live

(* The handler fails with 502 (or without an answer from upstream): all it *)
(* owes is that its tasks and blobs agree.                                 *)
LEMMA FailLive ==
  ASSUME ProxyInv, LiveInv, NEW r \in Requests, NEW t \in Slots, BadGateway(r),
         \A q \in Requests \ {r} : task'[q] = task[q], BlobOnly(Blob(r, t)), TaskBlobs(r)'
  PROVE  LiveInv'
<1>1. /\ pc' = [pc EXCEPT ![r] = "finalize"]
      /\ status' = [status EXCEPT ![r] = 502]
      /\ refs' = [refs EXCEPT ![r] = <<>>]
      /\ next' = [next EXCEPT ![r] = 0]
  BY DEF BadGateway, Reply, Goto
<1>2. pc'[r] = "finalize" /\ status'[r] = 502
  BY <1>1 DEF ProxyInv, LocalOK
<1>3. StageOK(r)'
  BY <1>2 DEF StageOK, QuietStages
<1>4. ReqOnly(r)
  BY <1>1 DEF ReqOnly, ProxyInv, LocalOK
<1>5. QED
  BY <1>3, <1>4, LiveOthers DEF Live

(* Nothing of the request's tasks and blobs changes.                       *)
LEMMA KeepSlots ==
  ASSUME NEW r \in Requests, task'[r] = task[r], UNCHANGED blobVars
  PROVE  /\ TaskBlobs(r) => TaskBlobs(r)'
         /\ Quiet(r) => Quiet(r)'
  BY DEF TaskBlobs, SlotBlob, Stored, Quiet, SlotDone, blobVars, Blob

(* The handler answers, with anything but 502 only when it holds nothing.  *)
LEMMA ReplyLive ==
  ASSUME ProxyInv, LiveInv, NEW r \in Requests, NEW code \in Codes, Reply(r, code),
         UNCHANGED task, UNCHANGED blobVars, code = 502 \/ Quiet(r)
  PROVE  LiveInv'
<1>1. /\ pc' = [pc EXCEPT ![r] = "finalize"]
      /\ status' = [status EXCEPT ![r] = code]
      /\ refs' = [refs EXCEPT ![r] = <<>>]
      /\ next' = [next EXCEPT ![r] = 0]
  BY DEF Reply, Goto
<1>2. pc'[r] = "finalize" /\ status'[r] = code
  BY <1>1 DEF ProxyInv, LocalOK
<1>3. TaskBlobs(r)' /\ (Quiet(r) => Quiet(r)')
  BY KeepSlots DEF LiveInv, Live
<1>4. StageOK(r)'
  BY <1>2, <1>3 DEF StageOK, QuietStages
<1>5. ReqOnly(r)
  BY <1>1 DEF ReqOnly, ProxyInv, LocalOK
<1>6. BlobOnly(Blob(r, Body)) /\ Body \in Slots
  BY BlobActionOnly, BlobsIn, SlotsIn DEF ProxyInv
<1>7. QED
  BY <1>3, <1>4, <1>5, <1>6, LiveOthers DEF Live

LEMMA ErrorLive ==
  ASSUME ProxyInv, LiveInv, NEW r \in Requests,
         \/ BadGateway(r)
         \/ Quiet(r) /\ (UpstreamError(r) \/ ClientError(r)),
         UNCHANGED task, UNCHANGED blobVars
  PROVE  LiveInv'
<1>1. 502 \in Codes /\ 503 \in Codes /\ 400 \in Codes
  BY DEF Codes
<1>2. QED
  BY <1>1, ReplyLive DEF BadGateway, UpstreamError, ClientError

(* The handler goes on among the stages in which it holds nothing.         *)
LEMMA QuietLive ==
  ASSUME ProxyInv, LiveInv, NEW r \in Requests, pc[r] \in QuietStages,
         pc'[r] \in QuietStages \ {"new"}, ReqOnly(r), task'[r] = task[r],
         status'[r] = status[r], UNCHANGED blobVars
  PROVE  LiveInv'
<1>1. TaskBlobs(r) /\ StageOK(r)
  BY DEF LiveInv, Live
<1>2. TaskBlobs(r)' /\ Quiet(r)'
  BY <1>1, KeepSlots DEF StageOK
<1>3. status[r] = 0
  BY <1>1 DEF StageOK, QuietStages, Ended
<1>4. StageOK(r)'
  BY <1>2, <1>3 DEF StageOK, QuietStages
<1>5. BlobOnly(Blob(r, Body)) /\ Body \in Slots
  BY BlobActionOnly, BlobsIn, SlotsIn DEF ProxyInv
<1>6. QED
  BY <1>2, <1>4, <1>5, LiveOthers DEF Live

(* A step of the task of slot s, which moves to state x.                   *)
TaskMoves(r, s, x) ==
  /\ task'[r][s] = x
  /\ \A z \in Slots \ {s} : task'[r][z] = task[r][z]
  /\ \A q \in Requests \ {r} : task'[q] = task[q]

LEMMA SetTaskMoves ==
  ASSUME ProxyInv, NEW r \in Requests, NEW s \in Slots, NEW x \in TaskStates, SetTask(r, s, x)
  PROVE  TaskMoves(r, s, x)
  BY DEF ProxyInv, TasksOK, SetTask, TaskMoves

(* A running task is none of the ones its handler has done with.           *)
LEMMA TaskLive ==
  ASSUME ProxyInv, LiveInv, NEW r \in Requests, NEW s \in Slots, NEW x \in TaskStates,
         Running(r, s), TaskMoves(r, s, x), UNCHANGED TaskVars, UNCHANGED removed,
         BlobOnly(Blob(r, s)), SlotBlob(r, s)',
         pc[r] = "encode" /\ s = Body => x \in {"streaming", "err"}
  PROVE  LiveInv'
<1>1. UNCHANGED <<pc, refs, next, status>>
  BY DEF TaskVars
<1>2. TaskBlobs(r) /\ StageOK(r)
  BY DEF LiveInv, Live
<1>3. \A z \in Slots \ {s} : Blob(r, z) \in Blobs \ {Blob(r, s)}
  BY BlobsOfRequests DEF Blob
<1>4. \A z \in Slots \ {s} : SlotBlob(r, z)'
  BY <1>2, <1>3 DEF TaskBlobs, SlotBlob, BlobOnly, TaskMoves, Stored, Blob
<1>5. TaskBlobs(r)'
  BY <1>4 DEF TaskBlobs
<1>6. task[r][s] \notin {"idle", "joined"} /\ ~SlotDone(r, s)
  BY DEF Running, SlotDone
<1>7. ~Quiet(r) /\ pc[r] \notin QuietStages
  BY <1>2, <1>6 DEF Quiet, StageOK
<1>8. s = Body \/ s \in Urls
  BY DEF Slots
<1>9. pc[r] \notin {"cleanup", "send"}
  BY <1>2, <1>6, <1>8 DEF StageOK, Cleaning, ImagesJoined, OnlyRefs
<1>10. Unremoved(r) => Unremoved(r)'
  BY DEF Unremoved, Blob
<1>11. OnlyRefs(r) => OnlyRefs(r)'
  BY <1>1, <1>6, SlotsIn DEF OnlyRefs, TaskMoves
<1>12. ImagesJoined(r) => ImagesJoined(r)'
  BY <1>1, <1>6, RefsIn, SlotsIn DEF ImagesJoined, TaskMoves
<1>13. ImagesJoined(r) /\ OnlyRefs(r) => s = Body
  BY <1>6, <1>8 DEF ImagesJoined, OnlyRefs
<1>14. pc[r] = "materialize" => s # Body /\ task'[r][Body] = "idle"
  BY <1>2, <1>6, SlotsIn DEF StageOK, TaskMoves
<1>15. pc[r] = "encode" => task'[r][Body] \in {"streaming", "err"}
  BY <1>2, <1>13 DEF StageOK, TaskMoves
<1>16. StageOK(r)'
  BY <1>1, <1>2, <1>7, <1>9, <1>10, <1>11, <1>12, <1>14, <1>15 DEF StageOK, QuietStages
<1>17. ReqOnly(r)
  BY <1>1 DEF ReqOnly, TaskMoves
<1>18. QED
  BY <1>5, <1>16, <1>17, LiveOthers DEF Live

-----------------------------------------------------------------------------
(* LiveInv, action by action.                                              *)

LEMMA AcceptGeminiLive ==
  ASSUME ProxyInv, LiveInv, NEW r \in Requests, AcceptGemini(r)
  PROVE  LiveInv'
<1>1. TaskBlobs(r) /\ StageOK(r)
  BY DEF LiveInv, Live
<1>2. (\A s \in Slots : task[r][s] = "idle") /\ status[r] = 0
  BY <1>1 DEF AcceptGemini, StageOK, Ended
<1>3. PICK list \in RefLists[r] :
         \/ BadGateway(r) /\ UNCHANGED task
         \/ /\ pc' = [pc EXCEPT ![r] = "materialize"]
            /\ refs' = [refs EXCEPT ![r] = list]
            /\ task' = [task EXCEPT ![r] =
                          [s \in Slots |-> IF s \in Range(list) THEN "queued" ELSE "idle"]]
            /\ UNCHANGED <<next, status>>
  BY DEF AcceptGemini, Goto
<1>4. UNCHANGED blobVars
  BY DEF AcceptGemini
<1>5. CASE BadGateway(r) /\ UNCHANGED task
  BY <1>4, <1>5, ErrorLive
<1>6. CASE ~(BadGateway(r) /\ UNCHANGED task)
  <2>1. /\ pc'[r] = "materialize" /\ refs'[r] = list /\ status'[r] = 0
        /\ \A s \in Slots : task'[r][s] = IF s \in Range(list) THEN "queued" ELSE "idle"
    BY <1>2, <1>3, <1>6 DEF ProxyInv, LocalOK, TasksOK
  <2>2. list \in Seq(Urls)
    BY RefListsAssumption
  <2>3. Range(list) \subseteq Urls
    BY <2>2 DEF Range
  <2>4. \A s \in Slots : storage'[Blob(r, s)] = "none" /\ Blob(r, s) \notin removed'
    BY <1>1, <1>2, <1>4 DEF TaskBlobs, SlotBlob, blobVars, ProxyInv, BlobInv, RemovedStored, Stored
  <2>5. TaskBlobs(r)'
    BY <2>1, <2>4 DEF TaskBlobs, SlotBlob, Blob
  <2>6. Unremoved(r)'
    BY <2>4 DEF Unremoved, Blob
  <2>7. OnlyRefs(r)' /\ task'[r][Body] = "idle"
    BY <2>1, <2>3, SlotsIn, UrlsAssumption DEF OnlyRefs
  <2>8. StageOK(r)'
    BY <2>1, <2>6, <2>7 DEF StageOK, QuietStages
  <2>9. ReqOnly(r)
    BY <1>3, <1>6 DEF ReqOnly, ProxyInv, LocalOK, TasksOK
  <2>10. BlobOnly(Blob(r, Body)) /\ Body \in Slots
    BY <1>4, BlobActionOnly, BlobsIn, SlotsIn DEF ProxyInv
  <2>11. QED
    BY <2>5, <2>8, <2>9, <2>10, LiveOthers DEF Live
<1>7. QED
  BY <1>5, <1>6

LEMMA ArriveLive ==
  ASSUME ProxyInv, LiveInv, NEW r \in Requests, Arrive(r)
  PROVE  LiveInv'
<1>1. CASE AcceptGemini(r)
  BY <1>1, AcceptGeminiLive
<1>2. CASE RejectModelRequest(r) \/ RejectImageRequest(r)
  <2>1. pc[r] = "new" /\ (ClientError(r) \/ BadGateway(r)) /\ UNCHANGED task /\ UNCHANGED blobVars
    BY <1>2 DEF RejectModelRequest, RejectImageRequest
  <2>2. Quiet(r)
    BY <2>1 DEF LiveInv, Live, StageOK, QuietStages
  <2>3. QED
    BY <2>1, <2>2, ErrorLive
<1>3. CASE AcceptAiapidev(r) \/ AcceptOpenAi(r)
  <2>1. /\ pc[r] = "new" /\ pc' \in {[pc EXCEPT ![r] = "create"], [pc EXCEPT ![r] = "openai_send"]}
        /\ UNCHANGED <<task, refs, next, status>> /\ UNCHANGED blobVars
    BY <1>3 DEF AcceptAiapidev, AcceptOpenAi, Goto
  <2>2. pc[r] \in QuietStages /\ pc'[r] \in QuietStages \ {"new"} /\ ReqOnly(r)
    BY <2>1 DEF QuietStages, ReqOnly, ProxyInv, LocalOK
  <2>3. QED
    BY <2>1, <2>2, QuietLive
<1>4. QED
  BY <1>1, <1>2, <1>3 DEF Arrive

LEMMA FetchTaskLive ==
  ASSUME ProxyInv, LiveInv, NEW r \in Requests, NEW u \in Urls, FetchTask(r, u)
  PROVE  LiveInv'
<1> DEFINE b == Blob(r, u)
<1>1. u \in Slots /\ b \in Blobs /\ u # Body
  BY SlotsIn, BlobsIn, UrlsAssumption
<1>2. UNCHANGED TaskVars
  BY DEF FetchTask, FetchStart, FetchFails, FetchCached, FetchFresh
<1>3. SlotBlob(r, u) /\ BlobInv /\ storage \in [Blobs -> Storages]
  BY <1>1 DEF LiveInv, Live, TaskBlobs, ProxyInv, BlobInv, BlobTypeOK
<1>4. CASE FetchStart(r, u) \/ FetchFails(r, u)
  <2>1. PICK x \in {"fetching", "err"} : SetTask(r, u, x)
    BY <1>4 DEF FetchStart, FetchFails
  <2>2. x \in TaskStates
    BY DEF TaskStates
  <2>3. TaskMoves(r, u, x) /\ Running(r, u) /\ UNCHANGED blobVars
    BY <1>1, <1>4, <2>1, <2>2, SetTaskMoves DEF FetchStart, FetchFails, Running
  <2>4. SlotBlob(r, u)'
    BY <1>3, <1>4, <2>3 DEF SlotBlob, TaskMoves, blobVars, FetchStart, FetchFails, Blob
  <2>5. QED
    BY <1>1, <1>2, <1>3, <2>2, <2>3, <2>4, TaskLive, BlobActionOnly DEF blobVars
<1>5. CASE FetchCached(r, u)
  <2>1. StoreExternal(b) /\ SetTask(r, u, "ok") /\ Running(r, u) /\ "ok" \in TaskStates
    BY <1>5 DEF FetchCached, Running, TaskStates
  <2>2. TaskMoves(r, u, "ok")
    BY <1>1, <2>1, SetTaskMoves
  <2>3. SlotBlob(r, u)'
    BY <1>1, <1>3, <2>1, <2>2 DEF SlotBlob, TaskMoves, StoreExternal, Stored, Blob
  <2>4. UNCHANGED removed
    BY <2>1 DEF StoreExternal
  <2>5. QED
    BY <1>1, <1>2, <1>3, <2>1, <2>2, <2>3, <2>4, TaskLive, BlobActionOnly
<1>6. CASE FetchFresh(r, u)
  <2>1. /\ BeginSpill(b) \/ LoadHot(b)
        /\ SetTask(r, u, "storing") /\ Running(r, u) /\ "storing" \in TaskStates
    BY <1>6 DEF FetchFresh, Running, TaskStates
  <2>2. TaskMoves(r, u, "storing")
    BY <1>1, <2>1, SetTaskMoves
  <2>3. SlotBlob(r, u)'
    BY <1>1, <1>3, <2>1, <2>2 DEF SlotBlob, TaskMoves, BeginSpill, LoadHot, Blob
  <2>4. UNCHANGED removed
    BY <2>1 DEF BeginSpill, LoadHot
  <2>5. QED
    BY <1>1, <1>2, <1>3, <2>1, <2>2, <2>3, <2>4, TaskLive, BlobActionOnly
<1>7. QED
  BY <1>4, <1>5, <1>6 DEF FetchTask

LEMMA StreamTaskLive ==
  ASSUME ProxyInv, LiveInv, NEW r \in Requests, StreamTask(r)
  PROVE  LiveInv'
<1> DEFINE b == Blob(r, Body)
<1>1. Body \in Slots /\ b \in Blobs
  BY SlotsIn, BlobsIn
<1>2. UNCHANGED TaskVars
  BY DEF StreamTask, StreamOverflow, StreamEnd, StreamFails
<1>3. SlotBlob(r, Body) /\ BlobInv /\ storage \in [Blobs -> Storages]
  BY <1>1 DEF LiveInv, Live, TaskBlobs, ProxyInv, BlobInv, BlobTypeOK
<1>4. Running(r, Body) /\ {"streaming", "ok", "storing", "err"} \subseteq TaskStates
  BY DEF StreamTask, StreamOverflow, StreamEnd, StreamFails, Running, TaskStates
<1>5. CASE StreamOverflow(r)
  <2>1. BeginSpill(b) /\ TaskMoves(r, Body, "streaming")
    BY <1>5 DEF StreamOverflow, TaskMoves
  <2>2. SlotBlob(r, Body)' /\ UNCHANGED removed
    BY <1>1, <1>3, <2>1 DEF SlotBlob, TaskMoves, BeginSpill, Blob
  <2>3. QED
    BY <1>1, <1>2, <1>3, <1>4, <2>1, <2>2, TaskLive, BlobActionOnly
<1>6. CASE StreamEnd(r)
  <2>1. /\ pc[r] # "encode"
        /\ \/ FinishSpill(b) /\ SetTask(r, Body, "ok")
           \/ LoadHot(b) /\ SetTask(r, Body, "storing")
    BY <1>6 DEF StreamEnd
  <2>2. CASE FinishSpill(b) /\ SetTask(r, Body, "ok")
    <3>1. TaskMoves(r, Body, "ok")
      BY <1>1, <1>4, <2>2, SetTaskMoves
    <3>2. SlotBlob(r, Body)' /\ UNCHANGED removed
      BY <1>1, <1>3, <2>2, <3>1 DEF SlotBlob, TaskMoves, FinishSpill, Stored, Blob
    <3>3. QED
      BY <1>1, <1>2, <1>3, <1>4, <2>1, <2>2, <3>1, <3>2, TaskLive, BlobActionOnly
  <2>3. CASE LoadHot(b) /\ SetTask(r, Body, "storing")
    <3>1. TaskMoves(r, Body, "storing")
      BY <1>1, <1>4, <2>3, SetTaskMoves
    <3>2. SlotBlob(r, Body)' /\ UNCHANGED removed
      BY <1>1, <1>3, <2>3, <3>1 DEF SlotBlob, TaskMoves, LoadHot, Blob
    <3>3. QED
      BY <1>1, <1>2, <1>3, <1>4, <2>1, <2>3, <3>1, <3>2, TaskLive, BlobActionOnly
  <2>4. QED
    BY <2>1, <2>2, <2>3
<1>7. CASE StreamFails(r)
  <2>1. FailSpill(b) /\ TaskMoves(r, Body, "err")
    BY <1>1, <1>4, <1>7, SetTaskMoves DEF StreamFails
  <2>2. SlotBlob(r, Body)' /\ UNCHANGED removed
    BY <2>1 DEF SlotBlob, TaskMoves, FailSpill
  <2>3. QED
    BY <1>1, <1>2, <1>3, <1>4, <2>1, <2>2, TaskLive, BlobActionOnly
<1>8. QED
  BY <1>5, <1>6, <1>7 DEF StreamTask

LEMMA TaskStepLive ==
  ASSUME ProxyInv, LiveInv, NEW r \in Requests, NEW s \in Slots, Task(r, s)
  PROVE  LiveInv'
<1> DEFINE b == Blob(r, s)
<1>1. b \in Blobs /\ {"ok", "err", "storing"} \subseteq TaskStates
  BY BlobsIn DEF TaskStates
<1>2. SlotBlob(r, s) /\ BlobInv /\ storage \in [Blobs -> Storages]
  BY DEF LiveInv, Live, TaskBlobs, ProxyInv, BlobInv, BlobTypeOK
<1>3. CASE s \in Urls /\ FetchTask(r, s)
  BY <1>3, FetchTaskLive
<1>4. CASE s = Body /\ StreamTask(r)
  BY <1>4, StreamTaskLive
<1>5. ASSUME StoreReserve(r, s) \/ StoreSpill(r, s) PROVE LiveInv'
  <2>1. /\ UNCHANGED TaskVars /\ task[r][s] = "storing" /\ Running(r, s)
        /\ \/ ExchangeHot(b) /\ SetTask(r, s, "ok")
           \/ LoadHot(b) /\ UNCHANGED task
           \/ FinishSpill(b) /\ SetTask(r, s, "ok")
           \/ FailSpill(b) /\ SetTask(r, s, "err")
    BY <1>5 DEF StoreReserve, StoreSpill, Running
  <2>2. pc[r] = "encode" => s # Body
    BY <2>1 DEF LiveInv, Live, StageOK
  <2>3. UNCHANGED removed
    BY <2>1 DEF ExchangeHot, LoadHot, FinishSpill, FailSpill
  <2>4. BlobOnly(b)
    BY <1>1, <1>2, <2>1, BlobActionOnly
  <2>5. CASE (ExchangeHot(b) \/ FinishSpill(b)) /\ SetTask(r, s, "ok")
    <3>1. TaskMoves(r, s, "ok")
      BY <1>1, <2>5, SetTaskMoves
    <3>2. SlotBlob(r, s)'
      BY <1>1, <1>2, <2>5, <3>1 DEF SlotBlob, TaskMoves, ExchangeHot, FinishSpill, Stored, Blob
    <3>3. QED
      BY <1>1, <2>1, <2>2, <2>3, <2>4, <3>1, <3>2, TaskLive
  <2>6. CASE LoadHot(b) /\ UNCHANGED task
    <3>1. TaskMoves(r, s, "storing")
      BY <2>1, <2>6 DEF TaskMoves
    <3>2. SlotBlob(r, s)'
      BY <1>1, <1>2, <2>6, <3>1 DEF SlotBlob, TaskMoves, LoadHot, Blob
    <3>3. QED
      BY <1>1, <2>1, <2>2, <2>3, <2>4, <3>1, <3>2, TaskLive
  <2>7. CASE FailSpill(b) /\ SetTask(r, s, "err")
    <3>1. TaskMoves(r, s, "err")
      BY <1>1, <2>7, SetTaskMoves
    <3>2. SlotBlob(r, s)'
      BY <3>1 DEF SlotBlob, TaskMoves
    <3>3. QED
      BY <1>1, <2>1, <2>2, <2>3, <2>4, <3>1, <3>2, TaskLive
  <2>8. QED
    BY <2>1, <2>5, <2>6, <2>7
<1>6. QED
  BY <1>3, <1>4, <1>5 DEF Task

(* Tasks of a dropped JoinSet leave what they stored.                      *)
LEMMA StopFetchesLive ==
  ASSUME ProxyInv, LiveInv, NEW r \in Requests, UNCHANGED blobVars,
         task' = [task EXCEPT ![r] = StopFetches(r)]
  PROVE  /\ TaskBlobs(r)'
         /\ Quiet(r) => Quiet(r)'
         /\ \A q \in Requests \ {r} : task'[q] = task[q]
<1>1. \A s \in Slots :
        task'[r][s] = IF task[r][s] \in {"queued", "fetching"} THEN "stopped" ELSE task[r][s]
  BY DEF ProxyInv, TasksOK, StopFetches
<1>2. TaskBlobs(r)
  BY DEF LiveInv, Live
<1>3. TaskBlobs(r)'
  BY <1>1, <1>2 DEF TaskBlobs, SlotBlob, Stored, blobVars, Blob
<1>4. Quiet(r) => Quiet(r)'
  BY <1>1 DEF Quiet, SlotDone, blobVars, Blob
<1>5. QED
  BY <1>3, <1>4 DEF ProxyInv, TasksOK

LEMMA MaterializeLive ==
  ASSUME ProxyInv, LiveInv, NEW r \in Requests,
         \/ \E u \in Urls : JoinFetch(r, u) \/ JoinFails(r, u)
         \/ EncodeStart(r)
  PROVE  LiveInv'
<1>1. TaskBlobs(r) /\ StageOK(r)
  BY DEF LiveInv, Live
<1>2. Unremoved(r) /\ OnlyRefs(r) /\ task[r][Body] = "idle" /\ status[r] = 0
  BY <1>1 DEF StageOK, JoinFetch, JoinFails, EncodeStart, Ended
<1>3. UNCHANGED blobVars
  BY DEF JoinFetch, JoinFails, EncodeStart
<1>4. BlobOnly(Blob(r, Body)) /\ Body \in Slots
  BY <1>3, BlobActionOnly, BlobsIn, SlotsIn DEF ProxyInv
<1>5. CASE \E u \in Urls : JoinFetch(r, u)
  <2>1. PICK u \in Urls : JoinFetch(r, u)
    BY <1>5
  <2>2. u \in Slots /\ u # Body /\ "joined" \in TaskStates
    BY SlotsIn, UrlsAssumption DEF TaskStates
  <2>3. TaskMoves(r, u, "joined") /\ UNCHANGED <<pc, refs, next, status>> /\ task[r][u] = "ok"
    BY <2>1, <2>2, SetTaskMoves DEF JoinFetch, ForwardVars
  <2>4. TaskBlobs(r)'
    BY <1>1, <1>3, <2>3 DEF TaskBlobs, SlotBlob, Stored, TaskMoves, blobVars, Blob
  <2>5. Unremoved(r)'
    BY <1>2, <1>3 DEF Unremoved, blobVars, Blob
  <2>6. OnlyRefs(r)' /\ task'[r][Body] = "idle"
    BY <1>2, <1>4, <2>2, <2>3, SlotsIn DEF OnlyRefs, TaskMoves
  <2>7. pc'[r] = "materialize" /\ status'[r] = 0
    BY <1>2, <2>1, <2>3 DEF JoinFetch
  <2>8. StageOK(r)'
    BY <2>5, <2>6, <2>7 DEF StageOK, QuietStages
  <2>9. ReqOnly(r)
    BY <2>3 DEF ReqOnly, TaskMoves
  <2>10. QED
    BY <1>4, <2>4, <2>8, <2>9, LiveOthers DEF Live
<1>6. CASE \E u \in Urls : JoinFails(r, u)
  <2>1. BadGateway(r) /\ task' = [task EXCEPT ![r] = StopFetches(r)]
    BY <1>6 DEF JoinFails
  <2>2. QED
    BY <1>3, <1>4, <2>1, StopFetchesLive, FailLive
<1>7. CASE EncodeStart(r)
  <2>1. /\ ImagesJoined(r)
        /\ pc' = [pc EXCEPT ![r] = "encode"]
        /\ SetTask(r, Body, "streaming")
        /\ UNCHANGED <<refs, next, status>>
    BY <1>7 DEF EncodeStart, ForwardVars, Goto, ImagesJoined
  <2>2. TaskMoves(r, Body, "streaming")
    <3>1. "streaming" \in TaskStates
      BY DEF TaskStates
    <3>2. QED
      BY <1>4, <2>1, <3>1, SetTaskMoves
  <2>3. TaskBlobs(r)'
    BY <1>1, <1>2, <1>3, <2>2 DEF TaskBlobs, SlotBlob, Stored, TaskMoves, blobVars, Blob
  <2>4. Unremoved(r)'
    BY <1>2, <1>3 DEF Unremoved, blobVars, Blob
  <2>5. OnlyRefs(r)' /\ ImagesJoined(r)'
    BY <1>2, <2>1, <2>2, SlotsIn, UrlsAssumption, RefsIn DEF OnlyRefs, ImagesJoined, TaskMoves
  <2>6. pc'[r] = "encode" /\ status'[r] = 0 /\ task'[r][Body] = "streaming"
    BY <1>2, <2>1, <2>2 DEF ProxyInv, LocalOK, TaskMoves
  <2>7. StageOK(r)'
    BY <2>4, <2>5, <2>6 DEF StageOK, QuietStages
  <2>8. ReqOnly(r)
    BY <2>1, <2>2 DEF ReqOnly, TaskMoves, ProxyInv, LocalOK
  <2>9. QED
    BY <1>4, <2>3, <2>7, <2>8, LiveOthers DEF Live
<1>8. QED
  BY <1>5, <1>6, <1>7

LEMMA WriteLive ==
  ASSUME ProxyInv, LiveInv, NEW r \in Requests, WriteBody(r) \/ WriteFails(r)
  PROVE  LiveInv'
<1>1. TaskBlobs(r) /\ StageOK(r)
  BY DEF LiveInv, Live
<1>2. /\ Unremoved(r) /\ OnlyRefs(r) /\ ImagesJoined(r) /\ status[r] = 0
      /\ task[r][Body] \in {"streaming", "err"}
  BY <1>1 DEF StageOK, WriteBody, WriteFails, Ended
<1>3. Body \in Slots /\ Blob(r, Body) \in Blobs
  BY SlotsIn, BlobsIn
<1>4. CASE WriteBody(r)
  <2>1. pc' = [pc EXCEPT ![r] = "encoded"] /\ UNCHANGED <<task, refs, next, status>>
        /\ UNCHANGED blobVars
    BY <1>4 DEF WriteBody, ForwardVars, Goto
  <2>2. TaskBlobs(r)'
    BY <1>1, <2>1, KeepSlots
  <2>3. Unremoved(r)' /\ OnlyRefs(r)' /\ ImagesJoined(r)'
    BY <1>2, <2>1 DEF Unremoved, OnlyRefs, ImagesJoined, blobVars, Blob
  <2>4. pc'[r] = "encoded" /\ status'[r] = 0
    BY <1>2, <2>1 DEF ProxyInv, LocalOK
  <2>5. StageOK(r)'
    BY <2>3, <2>4 DEF StageOK, QuietStages
  <2>6. ReqOnly(r)
    BY <2>1 DEF ReqOnly, ProxyInv, LocalOK
  <2>7. BlobOnly(Blob(r, Body))
    BY <1>3, <2>1, BlobActionOnly DEF ProxyInv
  <2>8. QED
    BY <1>3, <2>2, <2>5, <2>6, <2>7, LiveOthers DEF Live
<1>5. CASE WriteFails(r)
  <2>1. PICK x \in {"err", "stopped"} : SetTask(r, Body, x)
    BY <1>5 DEF WriteFails
  <2>2. x \in TaskStates
    BY DEF TaskStates
  <2>3. TaskMoves(r, Body, x) /\ BadGateway(r)
    BY <1>3, <1>5, <2>1, <2>2, SetTaskMoves DEF WriteFails
  <2>4. BlobOnly(Blob(r, Body))
    BY <1>3, <1>5, BlobActionOnly DEF WriteFails, ProxyInv
  <2>5. \A z \in Slots \ {Body} : Blob(r, z) \in Blobs \ {Blob(r, Body)}
    BY BlobsOfRequests DEF Blob
  <2>6. TaskBlobs(r)'
    BY <1>1, <2>3, <2>4, <2>5 DEF TaskBlobs, SlotBlob, BlobOnly, TaskMoves, Stored, Blob
  <2>7. \A q \in Requests \ {r} : task'[q] = task[q]
    BY <2>3 DEF TaskMoves
  <2>8. QED
    BY <1>3, <2>3, <2>4, <2>6, <2>7, FailLive
<1>6. QED
  BY <1>4, <1>5

LEMMA JoinBodyLive ==
  ASSUME ProxyInv, LiveInv, NEW r \in Requests, JoinBody(r)
  PROVE  LiveInv'
<1>1. TaskBlobs(r) /\ StageOK(r)
  BY DEF LiveInv, Live
<1>2. Unremoved(r) /\ OnlyRefs(r) /\ ImagesJoined(r) /\ status[r] = 0
  BY <1>1 DEF StageOK, JoinBody, Ended
<1>3. UNCHANGED blobVars
  BY DEF JoinBody
<1>4. CASE BadGateway(r) /\ UNCHANGED task
  BY <1>3, <1>4, ErrorLive
<1>5. CASE ~(BadGateway(r) /\ UNCHANGED task)
  <2>1. /\ task[r][Body] = "ok"
        /\ pc' = [pc EXCEPT ![r] = "cleanup"]
        /\ SetTask(r, Body, "joined")
        /\ next' = [next EXCEPT ![r] = 1]
        /\ UNCHANGED <<refs, status>>
    BY <1>5 DEF JoinBody, Goto
  <2>2. Body \in Slots /\ "joined" \in TaskStates
    BY SlotsIn DEF TaskStates
  <2>3. TaskMoves(r, Body, "joined")
    BY <2>1, <2>2, SetTaskMoves
  <2>4. TaskBlobs(r)'
    BY <1>1, <1>3, <2>1, <2>3 DEF TaskBlobs, SlotBlob, Stored, TaskMoves, blobVars, Blob
  <2>5. OnlyRefs(r)' /\ ImagesJoined(r)'
    BY <1>2, <2>1, <2>3, SlotsIn, UrlsAssumption, RefsIn DEF OnlyRefs, ImagesJoined, TaskMoves
  <2>6. pc'[r] = "cleanup" /\ status'[r] = 0 /\ task'[r][Body] = "joined" /\ next'[r] = 1
    BY <1>2, <2>1, <2>3 DEF ProxyInv, LocalOK, TaskMoves
  <2>7. \A s \in Slots : Blob(r, s) \notin removed'
    BY <1>2, <1>3 DEF Unremoved, blobVars
  <2>8. \A i \in DOMAIN refs'[r] : ~(i < next'[r])
    BY <2>1, <2>6, RefsIn
  <2>9. Cleaning(r)'
    BY <2>2, <2>5, <2>6, <2>7, <2>8, SlotsIn DEF Cleaning, Blob
  <2>10. StageOK(r)'
    BY <2>6, <2>9 DEF StageOK, QuietStages
  <2>11. ReqOnly(r)
    BY <2>1, <2>3 DEF ReqOnly, TaskMoves, ProxyInv, LocalOK
  <2>12. BlobOnly(Blob(r, Body))
    BY <1>3, BlobActionOnly, BlobsIn, SlotsIn DEF ProxyInv
  <2>13. QED
    BY <2>2, <2>4, <2>10, <2>11, <2>12, LiveOthers DEF Live
<1>6. QED
  BY <1>4, <1>5

(* A removal changes no task and nothing that was stored.                  *)
LEMMA RemoveKeepsTaskBlobs ==
  ASSUME NEW r \in Requests, TaskBlobs(r), UNCHANGED <<task, storage>>
  PROVE  TaskBlobs(r)'
  BY DEF TaskBlobs, SlotBlob, Stored, Blob

(* The second removal of an image finds it removed and gone.               *)
LEMMA RemoveReplacementLive ==
  ASSUME ProxyInv, LiveInv, NEW r \in Requests, RemoveReplacement(r)
  PROVE  LiveInv'
<1> DEFINE u == refs[r][next[r]]
           b == Blob(r, u)
<1>1. TaskBlobs(r) /\ Cleaning(r) /\ status[r] = 0
  BY DEF LiveInv, Live, StageOK, RemoveReplacement, Ended
<1>2. /\ pc[r] = "cleanup" /\ next[r] <= Len(refs[r]) /\ UNCHANGED task
      /\ \/ /\ Remove(b)
            /\ next' = [next EXCEPT ![r] = @ + 1]
            /\ UNCHANGED <<pc, refs, status>>
         \/ RemoveFails(b) /\ BadGateway(r)
  BY DEF RemoveReplacement
<1>3. next[r] \in Nat /\ next[r] >= 1 /\ next[r] \in DOMAIN refs[r]
  BY <1>2, RefsIn DEF ProxyInv, LocalOK, CleanupPosition
<1>4. u \in Urls /\ u \in Slots /\ b \in Blobs /\ u # Body
  BY <1>3, RefsIn, BlobsIn, UrlsAssumption
<1>5. BlobOnly(b)
  BY <1>2, <1>4, BlobActionOnly DEF ProxyInv
<1>6. TaskBlobs(r)'
  BY <1>1, <1>2, RemoveKeepsTaskBlobs DEF Remove, RemoveFails
<1>7. CASE RemoveFails(b) /\ BadGateway(r)
  BY <1>2, <1>4, <1>5, <1>6, <1>7, FailLive
<1>8. CASE ~(RemoveFails(b) /\ BadGateway(r))
  <2>1. Remove(b) /\ next' = [next EXCEPT ![r] = @ + 1] /\ UNCHANGED <<pc, refs, status, task>>
    BY <1>2, <1>8
  <2>2. next'[r] = next[r] + 1 /\ pc'[r] = "cleanup" /\ status'[r] = 0
    BY <1>1, <1>2, <2>1 DEF ProxyInv, LocalOK
  <2>3. b \in removed' /\ b \notin spillFiles'
    BY <1>1, <1>4, <2>1 DEF Remove, Cleaning
  <2>4. \A v \in Slots \ {u} :
          /\ Blob(r, v) \in removed' <=> Blob(r, v) \in removed
          /\ Blob(r, v) \in spillFiles' <=> Blob(r, v) \in spillFiles
    <3>1. \A v \in Slots \ {u} : Blob(r, v) \in Blobs \ {b}
      BY <1>4, BlobsOfRequests DEF Blob
    <3>2. QED
      BY <1>5, <3>1 DEF BlobOnly
  <2>5. ImagesJoined(r)' /\ OnlyRefs(r)' /\ task'[r][Body] = "joined"
    BY <1>1, <2>1 DEF Cleaning, ImagesJoined, OnlyRefs
  <2>6. Blob(r, Body) \notin removed'
    BY <1>1, <1>4, <2>4, SlotsIn DEF Cleaning
  <2>7. \A v \in Urls : Blob(r, v) \in removed' => Blob(r, v) \notin spillFiles'
    BY <1>1, <2>3, <2>4, SlotsIn DEF Cleaning
  <2>8. \A i \in DOMAIN refs[r] : i < next'[r] => Blob(r, refs[r][i]) \in removed'
    <3>1. TAKE i \in DOMAIN refs[r]
    <3>2. HAVE i < next'[r]
    <3>3. refs[r][i] \in Slots /\ i \in Int
      BY <3>1, RefsIn
    <3>4. CASE refs[r][i] = u
      BY <2>3, <3>4
    <3>5. CASE refs[r][i] # u
      <4>1. i < next[r]
        BY <1>3, <2>2, <3>2, <3>3, <3>5
      <4>2. Blob(r, refs[r][i]) \in removed
        BY <1>1, <3>1, <4>1 DEF Cleaning
      <4>3. QED
        BY <2>4, <3>3, <3>5, <4>2
    <3>6. QED
      BY <3>4, <3>5
  <2>9. Cleaning(r)'
    BY <2>1, <2>5, <2>6, <2>7, <2>8 DEF Cleaning, Blob
  <2>10. StageOK(r)'
    BY <2>2, <2>9 DEF StageOK, QuietStages
  <2>11. ReqOnly(r)
    BY <2>1 DEF ReqOnly, ProxyInv, LocalOK
  <2>12. QED
    BY <1>4, <1>5, <1>6, <2>10, <2>11, LiveOthers DEF Live
<1>9. QED
  BY <1>7, <1>8

(* Behind the loop every image is removed.                                 *)
LEMMA OpenBodyLive ==
  ASSUME ProxyInv, LiveInv, NEW r \in Requests, OpenBody(r)
  PROVE  LiveInv'
<1>1. TaskBlobs(r) /\ Cleaning(r) /\ status[r] = 0
  BY DEF LiveInv, Live, StageOK, OpenBody, Ended
<1>2. UNCHANGED task /\ UNCHANGED blobVars /\ next[r] > Len(refs[r])
  BY DEF OpenBody
<1>3. CASE BadGateway(r)
  BY <1>2, <1>3, ErrorLive
<1>4. CASE ~BadGateway(r)
  <2>1. pc' = [pc EXCEPT ![r] = "send"] /\ UNCHANGED <<refs, next, status>>
    BY <1>4 DEF OpenBody, Goto
  <2>2. pc'[r] = "send" /\ status'[r] = 0
    BY <1>1, <2>1 DEF ProxyInv, LocalOK
  <2>3. \A u \in Range(refs[r]) : Blob(r, u) \in removed
    <3>1. \A i \in DOMAIN refs[r] : i < next[r]
      BY <1>2, RefsIn DEF ProxyInv, LocalOK
    <3>2. QED
      BY <1>1, <3>1 DEF Cleaning, Range
  <2>4. \A u \in Urls : SlotDone(r, u)
    BY <1>1, <2>3 DEF Cleaning, ImagesJoined, OnlyRefs, SlotDone
  <2>5. \A u \in Urls : SlotDone(r, u)'
    BY <1>2, <2>4 DEF SlotDone, blobVars, Blob
  <2>6. task'[r][Body] = "joined" /\ Blob(r, Body) \notin removed'
    BY <1>1, <1>2 DEF Cleaning, blobVars
  <2>7. StageOK(r)'
    BY <2>2, <2>5, <2>6 DEF StageOK, QuietStages, Blob
  <2>8. TaskBlobs(r)'
    BY <1>1, <1>2, KeepSlots
  <2>9. ReqOnly(r)
    BY <1>2, <2>1 DEF ReqOnly, ProxyInv, LocalOK
  <2>10. BlobOnly(Blob(r, Body)) /\ Body \in Slots
    BY <1>2, BlobActionOnly, BlobsIn, SlotsIn DEF ProxyInv
  <2>11. QED
    BY <2>7, <2>8, <2>9, <2>10, LiveOthers DEF Live
<1>5. QED
  BY <1>3, <1>4

LEMMA SendLive ==
  ASSUME ProxyInv, LiveInv, NEW r \in Requests, Send(r)
  PROVE  LiveInv'
<1> DEFINE b == Blob(r, Body)
<1>1. /\ TaskBlobs(r) /\ (\A u \in Urls : SlotDone(r, u)) /\ status[r] = 0
      /\ task[r][Body] = "joined" /\ b \notin removed
  BY DEF LiveInv, Live, StageOK, Send, Ended
<1>2. Body \in Slots /\ b \in Blobs
  BY SlotsIn, BlobsIn
<1>3. UNCHANGED task /\ (Remove(b) \/ RemoveFails(b))
  BY DEF Send
<1>4. BlobOnly(b)
  BY <1>2, <1>3, BlobActionOnly DEF ProxyInv
<1>5. TaskBlobs(r)'
  BY <1>1, <1>3, RemoveKeepsTaskBlobs DEF Remove, RemoveFails
<1>6. CASE BadGateway(r)
  BY <1>2, <1>3, <1>4, <1>5, <1>6, FailLive
<1>7. CASE ~BadGateway(r)
  <2>1. Remove(b) /\ pc' = [pc EXCEPT ![r] = "respond"] /\ UNCHANGED <<refs, next, status>>
    BY <1>7 DEF Send, Goto
  <2>2. pc'[r] = "respond" /\ status'[r] = 0
    BY <1>1, <2>1 DEF ProxyInv, LocalOK
  <2>3. b \in removed' /\ b \notin spillFiles'
    BY <1>1, <2>1 DEF Remove
  <2>4. \A u \in Slots \ {Body} : Blob(r, u) \in Blobs \ {b} /\ u \in Urls
    BY <1>2, BlobsOfRequests DEF Blob, Slots
  <2>5. \A s \in Slots : SlotDone(r, s)'
    BY <1>1, <1>3, <1>4, <2>3, <2>4 DEF SlotDone, BlobOnly, Blob
  <2>6. Quiet(r)'
    BY <2>5 DEF Quiet
  <2>7. StageOK(r)'
    BY <2>2, <2>6 DEF StageOK
  <2>8. ReqOnly(r)
    BY <1>3, <2>1 DEF ReqOnly, ProxyInv, LocalOK
  <2>9. QED
    BY <1>2, <1>4, <1>5, <2>7, <2>8, LiveOthers DEF Live
<1>8. QED
  BY <1>6, <1>7

(* The rest of the handler holds nothing, or is done.                      *)
LEMMA RespondLive ==
  ASSUME ProxyInv, LiveInv, NEW r \in Requests,
         \/ Respond(r) \/ RewriteResponse(r) \/ OpenAiSend(r) \/ OpenAiRespond(r)
         \/ Upload(r) \/ UploadFails(r) \/ DecodeFails(r) \/ PatchUrls(r) \/ BuildPayload(r)
         \/ CreateTask(r) \/ PollFails(r) \/ PollRefused(r) \/ PollPending(r)
         \/ PollTerminal(r) \/ NormalizeTask(r) \/ PollDeadline(r)
  PROVE  LiveInv'
<1> USE DEF QuietStages
<1>1. pc[r] \in QuietStages
  BY DEF Respond, RewriteResponse, OpenAiSend, OpenAiRespond, Upload, UploadFails, DecodeFails, PatchUrls,
         BuildPayload, CreateTask, PollFails, PollRefused, PollPending, PollTerminal,
         NormalizeTask, PollDeadline
<1>2. UNCHANGED task /\ UNCHANGED blobVars
  BY DEF Respond, RewriteResponse, OpenAiSend, OpenAiRespond, Upload, UploadFails, DecodeFails, PatchUrls,
         BuildPayload, CreateTask, PollFails, PollRefused, PollPending, PollTerminal,
         NormalizeTask, PollDeadline
<1>3. Quiet(r)
  BY <1>1 DEF LiveInv, Live, StageOK
<1>4. CASE BadGateway(r) \/ UpstreamError(r) \/ Reply(r, 200)
  <2>1. 200 \in Codes
    BY DEF Codes
  <2>2. QED
    BY <1>2, <1>3, <1>4, <2>1, ErrorLive, ReplyLive
<1>5. CASE ~(BadGateway(r) \/ UpstreamError(r) \/ Reply(r, 200))
  <2>1. /\ \/ UNCHANGED pc
           \/ \E stage \in QuietStages \ {"new"} : pc' = [pc EXCEPT ![r] = stage]
        /\ UNCHANGED <<refs, status>>
        /\ UNCHANGED next \/ \E n \in Nat : next' = [next EXCEPT ![r] = n]
    <3>1. CASE Respond(r) \/ OpenAiSend(r) \/ CreateTask(r) \/ PollTerminal(r)
      BY <1>5, <3>1 DEF Respond, OpenAiSend, CreateTask, PollTerminal, Goto
    <3>2. CASE RewriteResponse(r) \/ OpenAiRespond(r)
      BY <1>5, <3>2 DEF RewriteResponse, OpenAiRespond, StartUpload, Goto
    <3>3. CASE Upload(r) \/ UploadFails(r)
      <4>1. \/ \E o \in {"r2", "legacy", "base64"} : Output(r, o)
            \/ NextHost(r)
        BY <1>5, <3>3 DEF Upload, UploadFails, Provider
      <4>2. next[r] + 1 \in Nat
        BY DEF ProxyInv, LocalOK
      <4>3. QED
        BY <4>1, <4>2 DEF Output, NextHost
    <3>4. CASE PollFails(r) \/ PollPending(r) \/ PollDeadline(r)
      BY <1>5, <3>4 DEF PollFails, PollPending, PollDeadline, SetFails
    <3>5. QED
      BY <1>5, <3>1, <3>2, <3>3, <3>4 DEF DecodeFails, PatchUrls, BuildPayload, PollRefused,
         NormalizeTask
  <2>2. pc[r] # "new" \/ pc' # pc
    BY DEF Respond, RewriteResponse, OpenAiSend, OpenAiRespond, Upload, UploadFails, DecodeFails, PatchUrls,
           BuildPayload, CreateTask, PollFails, PollRefused, PollPending, PollTerminal,
           NormalizeTask, PollDeadline
  <2>3. pc'[r] \in QuietStages \ {"new"}
    BY <1>1, <2>1, <2>2 DEF ProxyInv, LocalOK
  <2>4. ReqOnly(r) /\ status'[r] = status[r] /\ task'[r] = task[r]
    BY <1>2, <2>1 DEF ReqOnly, ProxyInv, LocalOK
  <2>5. QED
    BY <1>1, <1>2, <2>3, <2>4, QuietLive
<1>6. QED
  BY <1>4, <1>5

LEMMA EndLive ==
  ASSUME ProxyInv, LiveInv, NEW r \in Requests, Finalize(r) \/ TakeLogId(r) \/ Record(r) \/ Cancel(r)
  PROVE  LiveInv'
<1>1. TaskBlobs(r) /\ StageOK(r)
  BY DEF LiveInv, Live
<1>2. UNCHANGED status /\ UNCHANGED blobVars
  BY DEF Finalize, TakeLogId, Record, Cancel
<1>3. /\ TaskBlobs(r)'
      /\ Quiet(r) => Quiet(r)'
      /\ \A q \in Requests \ {r} : task'[q] = task[q]
  <2>1. CASE Finalize(r) \/ TakeLogId(r) \/ Record(r)
    BY <1>1, <1>2, <2>1, KeepSlots DEF Finalize, TakeLogId, Record
  <2>2. CASE Cancel(r)
    BY <1>2, <2>2, StopFetchesLive DEF Cancel
  <2>3. QED
    BY <2>1, <2>2
<1>4. pc'[r] \in {"counted", "recording", "answered", "dropped"}
  BY DEF Finalize, TakeLogId, Record, Cancel, Goto, ProxyInv, LocalOK
<1>5. StageOK(r)'
  BY <1>1, <1>2, <1>3, <1>4 DEF StageOK, QuietStages, Ended
<1>6. ReqOnly(r)
  BY <1>2, <1>3 DEF ReqOnly, Finalize, TakeLogId, Record, Cancel, Goto, ProxyInv, LocalOK
<1>7. BlobOnly(Blob(r, Body)) /\ Body \in Slots
  BY <1>2, BlobActionOnly, BlobsIn, SlotsIn DEF ProxyInv
<1>8. QED
  BY <1>3, <1>5, <1>6, <1>7, LiveOthers DEF Live

LEMMA LiveNext ==
  ASSUME ProxyInv, LiveInv, [Next]_vars
  PROVE  LiveInv'
<1>1. CASE UNCHANGED vars
  <2>1. \A r \in Requests : Live(r)'
    BY <1>1 DEF LiveInv, Live, TaskBlobs, SlotBlob, Stored, StageOK, Quiet, SlotDone, Unremoved,
       OnlyRefs, ImagesJoined, Cleaning, Blob, vars, reqVars, blobVars
  <2>2. QED
    BY <2>1 DEF LiveInv
<1>2. CASE Next
  <2>1. PICK r \in Requests :
           \/ Arrive(r) \/ Handler(r) \/ PollDeadline(r) \/ Cancel(r)
           \/ \E s \in Slots : Task(r, s)
    BY <1>2 DEF Next
  <2>2. CASE Handler(r)
    BY <2>2, MaterializeLive, WriteLive, JoinBodyLive, RemoveReplacementLive, OpenBodyLive,
       SendLive, RespondLive, EndLive DEF Handler, HandlerStep, ResponseFetch
  <2>3. QED
    BY <2>1, <2>2, ArriveLive, RespondLive, EndLive, TaskStepLive
<1>3. QED
  BY <1>1, <1>2

LEMMA LiveInit == Init => LiveInv
<1> SUFFICES ASSUME Init, NEW r \in Requests PROVE Live(r)
  BY DEF LiveInv
<1>1. pc[r] = "new" /\ status[r] = 0 /\ \A s \in Slots : task[r][s] = "idle"
  BY DEF Init
<1>2. \A s \in Slots : storage[Blob(r, s)] = "none"
  BY BlobsIn DEF Init, BlobInit
<1>3. QED
  BY <1>1, <1>2 DEF Live, TaskBlobs, SlotBlob, StageOK, Quiet, SlotDone

(* The blobs of every request are where its tasks and its stage say.       *)
THEOREM LiveInvariant == Spec => []LiveInv
<1>1. ProxyInv /\ LiveInv /\ [Next]_vars => LiveInv'
  BY LiveNext
<1>2. QED
  BY <1>1, LiveInit, ProxyInvariant, PTL DEF Spec

(* ReadsLiveBlobs for any number of requests, URLs and references: what    *)
(* write_blob_as_base64, read_bytes and open_reader are about to read is   *)
(* stored and not removed, whoever stored it.                              *)
THEOREM ProxyReadsLiveBlobs == Spec => []ReadsLiveBlobs
<1>1. ASSUME ProxyInv, LiveInv PROVE ReadsLiveBlobs
  <2> SUFFICES ASSUME NEW r \in Requests
               PROVE  /\ pc[r] = "encode" =>
                           \A u \in Range(refs[r]) :
                             Readable(Blob(r, u)) /\ Blob(r, u) \notin removed
                      /\ pc[r] \in {"cleanup", "send"} =>
                           Readable(Blob(r, Body)) /\ Blob(r, Body) \notin removed
    BY DEF ReadsLiveBlobs
  <2>1. TaskBlobs(r) /\ StageOK(r)
    BY <1>1 DEF LiveInv, Live
  <2>2. \A s \in Slots : task[r][s] = "joined" /\ Blob(r, s) \notin removed => Readable(Blob(r, s))
    BY <1>1, <2>1, BlobsIn DEF TaskBlobs, SlotBlob, Stored, Readable, ProxyInv, BlobInv,
       SpillAccounting
  <2>3. CASE pc[r] = "encode"
    BY <1>1, <2>1, <2>2, <2>3, RefsIn, SlotsIn DEF StageOK, Unremoved, ImagesJoined
  <2>4. CASE pc[r] \in {"cleanup", "send"}
    BY <2>1, <2>2, <2>4, SlotsIn DEF StageOK, Cleaning
  <2>5. QED
    BY <2>3, <2>4
<1>2. QED
  BY <1>1, ProxyInvariant, LiveInvariant, PTL

(* AnsweredHoldsNothing for any number of requests: an answer other than   *)
(* 502 leaves neither hot memory nor a spill file behind.                  *)
THEOREM ProxyAnsweredHoldsNothing == Spec => []AnsweredHoldsNothing
<1>1. ASSUME ProxyInv, LiveInv PROVE AnsweredHoldsNothing
  <2> SUFFICES ASSUME NEW r \in Requests, NEW s \in Slots,
                      pc[r] \in {"respond", "rewrite", "upload"} \/ status[r] \notin {0, 502}
               PROVE  ~Held(Blob(r, s))
    BY DEF AnsweredHoldsNothing
  <2>1. TaskBlobs(r) /\ StageOK(r)
    BY <1>1 DEF LiveInv, Live
  <2>2. SlotDone(r, s)
    BY <2>1 DEF StageOK, Quiet, QuietStages
  <2>3. CASE task[r][s] = "idle"
    <3>1. storage[Blob(r, s)] = "none"
      BY <2>1, <2>3 DEF TaskBlobs, SlotBlob
    <3>2. QED
      BY <1>1, <3>1 DEF Held, HotBlobs, ProxyInv, BlobInv, SpillAccounting
  <2>4. CASE Blob(r, s) \in removed /\ Blob(r, s) \notin spillFiles
    BY <2>4 DEF Held, HotBlobs
  <2>5. QED
    BY <2>2, <2>3, <2>4 DEF SlotDone
<1>2. QED
  BY <1>1, ProxyInvariant, LiveInvariant, PTL

-----------------------------------------------------------------------------
(* The admin log.                                                          *)

(* Stages with an id, and stages counted.                                  *)
Late == {"recording", "answered", "dropped"}
Past == Late \cup {"counted"}

ErrorsCounted == {r \in Counted : status[r] >= 400}

(* AdminAccounting with what makes it inductive: ids are not above the     *)
(* counter, nobody has one before the end, and only requests that are      *)
(* answered have an entry.                                                 *)
AdminInv ==
  /\ AdminAccounting
  /\ \A r \in Requests : logId[r] <= nextId
  /\ \A r \in Requests : pc[r] \notin Late => logId[r] = 0
  /\ \A r \in Requests : pc[r] = "recording" => logId[r] # 0
  /\ \A i \in DOMAIN entries : pc[entries[i].req] = "answered"

(* Images without a URL are those of a Gemini response that is on its way. *)
OutputsInv ==
  \A r \in Requests : pc[r] \notin {"upload", "finalize"} => "base64" \notin Range(outputs[r])

(* A step that neither counts nor logs: status and stage of r at most, and *)
(* those only before r is counted, unless its client goes away.            *)
Plain(r) ==
  /\ UNCHANGED adminVars /\ UNCHANGED logId
  /\ \/ UNCHANGED pc
     \/ /\ pc[r] \notin {"counted", "answered"}
        /\ \E x \in Stages \ {"counted", "recording", "answered"} :
             pc' = [pc EXCEPT ![r] = x] /\ (x = "dropped" \/ pc[r] \notin Past)
  /\ \/ UNCHANGED status
     \/ pc[r] \notin Past /\ \E c \in Codes : status' = [status EXCEPT ![r] = c]

LEMMA ReplyPlain ==
  ASSUME NEW r \in Requests, pc[r] \notin Past, UNCHANGED adminVars,
         BadGateway(r) \/ UpstreamError(r) \/ ClientError(r) \/ Reply(r, 200)
  PROVE  Plain(r)
<1>1. PICK c \in Codes : Reply(r, c)
  BY DEF BadGateway, UpstreamError, ClientError, Codes
<1>2. "finalize" \in Stages \ {"counted", "recording", "answered"}
  BY DEF Stages
<1>3. QED
  BY <1>1, <1>2 DEF Plain, Reply, Goto, Late, Past

LEMMA GotoPlain ==
  ASSUME NEW r \in Requests, NEW x \in Stages \ {"counted", "recording", "answered"}, pc[r] \notin Past,
         Goto(r, x), UNCHANGED <<status, logId>>, UNCHANGED adminVars
  PROVE  Plain(r)
  BY DEF Plain, Goto, Late, Past

LEMMA StepPlain ==
  ASSUME NEW r \in Requests,
         \/ Arrive(r) \/ PollDeadline(r) \/ Cancel(r) \/ \E s \in Slots : Task(r, s)
         \/ Handler(r) /\ ~Finalize(r) /\ ~TakeLogId(r) /\ ~Record(r)
  PROVE  Plain(r)
<1> USE DEF Late, Past
<1>1. {"materialize", "encode", "encoded", "cleanup", "send", "respond", "rewrite", "upload",
       "create", "poll", "normalize", "openai_send", "openai_respond", "openai_upload"}
        \subseteq Stages \ {"counted", "recording", "answered"}
  BY DEF Stages
<1>2. CASE Arrive(r)
  BY <1>1, <1>2, ReplyPlain, GotoPlain DEF Arrive, RejectModelRequest, AcceptAiapidev,
     AcceptGemini, RejectImageRequest, AcceptOpenAi
<1>3. CASE PollDeadline(r)
  BY <1>3 DEF PollDeadline, Plain
<1>4. CASE Cancel(r)
  <2>1. "dropped" \in Stages \ {"counted", "recording", "answered"}
    BY DEF Stages
  <2>2. QED
    BY <1>4, <2>1 DEF Cancel, Plain, Goto, Ended
<1>5. CASE \E s \in Slots : Task(r, s)
  BY <1>5 DEF Task, FetchTask, FetchStart, FetchFails, FetchCached, FetchFresh, StreamTask,
     StreamOverflow, StreamEnd, StreamFails, StoreReserve, StoreSpill, TaskVars, Plain
<1>6. CASE \E u \in Urls : JoinFetch(r, u) \/ JoinFails(r, u)
  <2>1. CASE \E u \in Urls : JoinFetch(r, u)
    BY <2>1 DEF JoinFetch, ForwardVars, Plain
  <2>2. CASE \E u \in Urls : JoinFails(r, u)
    BY <2>2, ReplyPlain DEF JoinFails
  <2>3. QED
    BY <1>6, <2>1, <2>2
<1>7. CASE EncodeStart(r) \/ WriteBody(r)
  BY <1>1, <1>7, GotoPlain DEF EncodeStart, WriteBody, ForwardVars
<1>8. CASE WriteFails(r) \/ JoinBody(r) \/ OpenBody(r) \/ Send(r)
  BY <1>1, <1>8, ReplyPlain, GotoPlain DEF WriteFails, JoinBody, OpenBody, Send
<1>9. CASE RemoveReplacement(r)
  BY <1>9, ReplyPlain DEF RemoveReplacement, Plain
<1>10. CASE Respond(r) \/ OpenAiSend(r) \/ CreateTask(r)
  BY <1>1, <1>10, ReplyPlain, GotoPlain DEF Respond, OpenAiSend, CreateTask
<1>11. CASE RewriteResponse(r) \/ OpenAiRespond(r)
  BY <1>1, <1>11, ReplyPlain, GotoPlain DEF RewriteResponse, OpenAiRespond, StartUpload
<1>12. CASE Upload(r) \/ UploadFails(r)
  <2>1. /\ pc[r] \notin Past /\ UNCHANGED adminVars
        /\ \/ \E o \in {"r2", "legacy", "base64"} : Output(r, o)
           \/ NextHost(r) \/ BadGateway(r)
    BY <1>12 DEF Upload, UploadFails, Provider
  <2>2. QED
    BY <2>1, ReplyPlain DEF Output, NextHost, Plain
<1>13. CASE DecodeFails(r) \/ PatchUrls(r) \/ BuildPayload(r) \/ NormalizeTask(r)
            \/ PollRefused(r)
  BY <1>13, ReplyPlain DEF DecodeFails, PatchUrls, BuildPayload, NormalizeTask, PollRefused
<1>14. CASE PollFails(r) \/ PollPending(r)
  <2>1. /\ pc[r] \notin Past /\ UNCHANGED adminVars
        /\ (\E n : SetFails(r, n)) \/ BadGateway(r) \/ UpstreamError(r)
    BY <1>14 DEF PollFails, PollPending
  <2>2. QED
    BY <2>1, ReplyPlain DEF SetFails, Plain
<1>15. CASE PollTerminal(r)
  BY <1>1, <1>15, ReplyPlain, GotoPlain DEF PollTerminal
<1>16. QED
  BY <1>2, <1>3, <1>4, <1>5, <1>6, <1>7, <1>8, <1>9, <1>10, <1>11, <1>12, <1>13, <1>14, <1>15
     DEF Handler, HandlerStep, ResponseFetch

LEMMA EntriesIn ==
  ASSUME ProxyInv
  PROVE  /\ entries \in Seq([id : Nat, req : Requests])
         /\ \A i \in DOMAIN entries : entries[i].req \in Requests /\ entries[i].id \in Nat
<1>1. entries \in Seq([id : Nat, req : Requests])
  BY DEF ProxyInv, AdminOK
<1>2. \A i \in DOMAIN entries : entries[i] \in [id : Nat, req : Requests]
  BY <1>1, LenProperties
<1>3. QED
  BY <1>1, <1>2

(* Counted requests keep id, status and place in the log.                  *)
LEMMA PlainAdmin ==
  ASSUME ProxyInv, AdminInv, NEW r \in Requests, Plain(r)
  PROVE  AdminInv'
<1>1. UNCHANGED <<totalRequests, errorRequests, nextId, entries, logId>>
  BY DEF Plain, adminVars
<1>2. \A q \in Requests : /\ pc'[q] = "answered" <=> pc[q] = "answered"
                          /\ pc'[q] = "counted" <=> pc[q] = "counted"
                          /\ pc'[q] = "recording" => pc[q] = "recording"
                          /\ pc'[q] \notin Late => pc[q] \notin Late
  BY DEF Plain, ProxyInv, LocalOK, Late, Past
<1>3. Numbered' = Numbered /\ Counted' = Counted
  BY <1>1, <1>2 DEF Numbered, Counted
<1>4. \A q \in Counted : status'[q] = status[q]
  BY DEF Plain, AdminInv, Counted, Numbered, ProxyInv, LocalOK, Late, Past
<1>5. ErrorsCounted' = ErrorsCounted
  BY <1>3, <1>4 DEF ErrorsCounted
<1>6. AdminAccounting'
  BY <1>1, <1>2, <1>3, <1>5 DEF AdminInv, AdminAccounting, ErrorsCounted
<1>7. \A i \in DOMAIN entries : entries[i].req \in Requests
  BY EntriesIn
<1>8. QED
  BY <1>1, <1>2, <1>6, <1>7 DEF AdminInv

(* A request is counted once.                                              *)
LEMMA FinalizeAdmin ==
  ASSUME ProxyInv, AdminInv, NEW r \in Requests, Finalize(r)
  PROVE  AdminInv'
<1>1. /\ logId[r] = 0 /\ pc[r] = "finalize" /\ status[r] \in Codes
      /\ totalRequests \in Nat /\ errorRequests \in Nat
  BY DEF Finalize, AdminInv, Late, ProxyInv, LocalOK, AdminOK
<1>2. \A i \in DOMAIN entries : entries[i].req # r /\ entries[i].req \in Requests
  BY <1>1, EntriesIn DEF AdminInv
<1>3. UNCHANGED <<status, logId, nextId, entries>>
  BY DEF Finalize, Count, adminVars
<1>4. Numbered' = Numbered
  BY <1>3 DEF Numbered
<1>5. CASE AdminEnabled
  <2>1. Count(status[r]) /\ pc' = [pc EXCEPT ![r] = "counted"]
    BY <1>5 DEF Finalize, Goto
  <2>2. pc'[r] = "counted" /\ \A q \in Requests \ {r} : pc'[q] = pc[q]
    BY <2>1 DEF ProxyInv, LocalOK
  <2>3. Counted' = Counted \cup {r} /\ r \notin Counted /\ Counted \subseteq Requests
    BY <1>1, <1>4, <2>2 DEF Counted, Numbered
  <2>4. IsFiniteSet(Counted) /\ IsFiniteSet(ErrorsCounted) /\ r \notin ErrorsCounted
    BY <2>3, FS_Subset, RequestsAssumption DEF ErrorsCounted
  <2>5. Cardinality(Counted') = Cardinality(Counted) + 1
    BY <2>3, <2>4, FS_AddElement
  <2>6. errorRequests' = Cardinality(ErrorsCounted')
    <3>1. CASE status[r] >= 400
      <4>1. ErrorsCounted' = ErrorsCounted \cup {r}
        BY <1>3, <2>3, <3>1 DEF ErrorsCounted
      <4>2. Cardinality(ErrorsCounted') = Cardinality(ErrorsCounted) + 1
        BY <2>4, <4>1, FS_AddElement
      <4>3. errorRequests' = errorRequests + 1
        BY <2>1, <3>1 DEF Count
      <4>4. QED
        BY <4>2, <4>3 DEF AdminInv, AdminAccounting, ErrorsCounted
    <3>2. CASE ~(status[r] >= 400)
      <4>1. ErrorsCounted' = ErrorsCounted
        BY <1>3, <2>3, <3>2 DEF ErrorsCounted
      <4>2. errorRequests' = errorRequests
        BY <1>1, <2>1, <3>2 DEF Count
      <4>3. QED
        BY <4>1, <4>2 DEF AdminInv, AdminAccounting, ErrorsCounted
    <3>3. QED
      BY <3>1, <3>2
  <2>7. totalRequests' = totalRequests + 1
    BY <2>1 DEF Count
  <2>8. AdminAccounting'
    BY <1>3, <1>4, <1>5, <2>2, <2>5, <2>6, <2>7 DEF AdminInv, AdminAccounting, ErrorsCounted
  <2>9. QED
    BY <1>1, <1>2, <1>3, <2>2, <2>8 DEF AdminInv, Late
<1>6. CASE ~AdminEnabled
  <2>1. pc' = [pc EXCEPT ![r] = "answered"] /\ UNCHANGED <<totalRequests, errorRequests>>
    BY <1>6 DEF Finalize, Goto, adminVars
  <2>2. pc'[r] = "answered" /\ \A q \in Requests \ {r} : pc'[q] = pc[q]
    BY <2>1 DEF ProxyInv, LocalOK
  <2>3. Counted' = Counted
    BY <1>1, <1>4, <2>2 DEF Counted
  <2>4. ErrorsCounted' = ErrorsCounted
    BY <1>3, <2>3 DEF ErrorsCounted
  <2>5. AdminAccounting'
    BY <1>3, <1>4, <1>6, <2>1, <2>3, <2>4 DEF AdminInv, AdminAccounting, ErrorsCounted
  <2>6. QED
    BY <1>2, <1>3, <2>2, <2>5 DEF AdminInv, Late
<1>7. QED
  BY <1>5, <1>6

(* A request takes one id, which nobody has.                               *)
LEMMA TakeIdAdmin ==
  ASSUME ProxyInv, AdminInv, NEW r \in Requests, TakeLogId(r)
  PROVE  AdminInv'
<1>1. /\ logId[r] = 0 /\ pc[r] = "counted" /\ nextId \in Nat /\ logId \in [Requests -> Nat]
  BY DEF TakeLogId, AdminInv, Late, ProxyInv, LocalOK, AdminOK
<1>2. \A i \in DOMAIN entries : entries[i].req # r /\ entries[i].req \in Requests
  BY <1>1, EntriesIn DEF AdminInv
<1>3. /\ UNCHANGED <<status, entries, totalRequests, errorRequests>>
      /\ nextId' = nextId + 1
      /\ logId' = [logId EXCEPT ![r] = nextId + 1]
      /\ pc' = [pc EXCEPT ![r] = "recording"]
  BY DEF TakeLogId, TakeId, Goto
<1>4. logId'[r] = nextId + 1 /\ \A q \in Requests \ {r} : logId'[q] = logId[q]
  BY <1>1, <1>3
<1>5. pc'[r] = "recording" /\ \A q \in Requests \ {r} : pc'[q] = pc[q]
  BY <1>3 DEF ProxyInv, LocalOK
<1>6. Numbered' = Numbered \cup {r} /\ r \notin Numbered /\ Numbered \subseteq Requests
  BY <1>1, <1>4 DEF Numbered
<1>7. Cardinality(Numbered') = Cardinality(Numbered) + 1
  BY <1>6, FS_Subset, FS_AddElement, RequestsAssumption
<1>8. Counted' = Counted
  BY <1>1, <1>5, <1>6 DEF Counted
<1>9. ErrorsCounted' = ErrorsCounted
  BY <1>3, <1>8 DEF ErrorsCounted
<1>10. \A q \in Requests : logId[q] <= nextId /\ logId[q] \in Nat
  BY <1>1 DEF AdminInv
<1>11. \A r1, r2 \in Numbered' : logId'[r1] = logId'[r2] => r1 = r2
  BY <1>1, <1>4, <1>6, <1>10 DEF AdminInv, AdminAccounting
<1>12. \A i \in DOMAIN entries' : entries'[i].id = logId'[entries'[i].req]
  BY <1>2, <1>3, <1>4 DEF AdminInv, AdminAccounting
<1>13. AdminEnabled => \A q \in Requests : pc'[q] = "answered" => q \in Numbered'
  BY <1>5, <1>6 DEF AdminInv, AdminAccounting
<1>14. AdminAccounting'
  BY <1>3, <1>7, <1>8, <1>9, <1>11, <1>12, <1>13 DEF AdminInv, AdminAccounting, ErrorsCounted
<1>15. \A q \in Requests : logId'[q] <= nextId'
  BY <1>1, <1>3, <1>4, <1>10
<1>16. \A q \in Requests : /\ pc'[q] \notin Late => logId'[q] = 0
                           /\ pc'[q] = "recording" => logId'[q] # 0
  BY <1>1, <1>4, <1>5 DEF AdminInv, Late
<1>17. \A i \in DOMAIN entries' : pc'[entries'[i].req] = "answered"
  BY <1>2, <1>3, <1>5 DEF AdminInv
<1>18. QED
  BY <1>14, <1>15, <1>16, <1>17 DEF AdminInv

(* An entry goes to the front; what is kept was there.                     *)
LEMMA PushEntryKeeps ==
  ASSUME ProxyInv, NEW r \in Requests, NEW id \in Nat, PushEntry(id, r)
  PROVE  /\ entries' \in Seq([id : Nat, req : Requests])
         /\ Len(entries') >= 1 /\ Len(entries') <= Len(entries) + 1
         /\ entries'[1] = [id |-> id, req |-> r]
         /\ \A i \in DOMAIN entries' : i # 1 => i - 1 \in DOMAIN entries /\ entries'[i] = entries[i - 1]
<1> DEFINE all == <<[id |-> id, req |-> r]>> \o entries
           kept == IF Len(all) < LogCapacity THEN Len(all) ELSE LogCapacity
<1>1. entries \in Seq([id : Nat, req : Requests]) /\ [id |-> id, req |-> r] \in [id : Nat, req : Requests]
  BY EntriesIn
<1>2. /\ all \in Seq([id : Nat, req : Requests]) /\ Len(all) = Len(entries) + 1
      /\ all[1] = [id |-> id, req |-> r]
      /\ \A i \in 2 .. Len(all) : all[i] = entries[i - 1]
  BY <1>1
<1>3. kept \in Int /\ 1 <= kept /\ kept <= Len(all) /\ Len(entries) \in Nat
  BY <1>1, <1>2, LogCapacityAssumption, LenProperties
<1>4. entries' = SubSeq(all, 1, kept)
  BY DEF PushEntry
<1> HIDE DEF all, kept
<1>5. \A i \in 1 .. kept : all[i] \in [id : Nat, req : Requests]
  <2>1. \A i \in 1 .. Len(all) : all[i] \in [id : Nat, req : Requests]
    BY <1>2, ElementOfSeq
  <2>2. 1 .. kept \subseteq 1 .. Len(all)
    BY <1>2, <1>3
  <2>3. QED
    BY <2>1, <2>2
<1>6. /\ entries' \in Seq([id : Nat, req : Requests])
      /\ Len(entries') = kept
      /\ \A i \in 1 .. kept : entries'[i] = all[i]
  BY <1>3, <1>4, <1>5, SubSeqProperties
<1>7. DOMAIN entries' = 1 .. kept /\ DOMAIN entries = 1 .. Len(entries)
  BY <1>1, <1>6, LenProperties
<1>8. QED
  BY <1>2, <1>3, <1>6, <1>7

LEMMA RecordAdmin ==
  ASSUME ProxyInv, AdminInv, NEW r \in Requests, Record(r)
  PROVE  AdminInv'
<1>1. /\ pc[r] = "recording" /\ PushEntry(logId[r], r) /\ pc' = [pc EXCEPT ![r] = "answered"]
      /\ UNCHANGED <<status, logId, totalRequests, errorRequests, nextId>>
  BY DEF Record, PushEntry, Goto
<1>2. logId[r] \in Nat /\ logId[r] # 0 /\ r \in Numbered
  BY <1>1 DEF AdminInv, Numbered, ProxyInv, LocalOK
<1>3. pc'[r] = "answered" /\ \A q \in Requests \ {r} : pc'[q] = pc[q]
  BY <1>1 DEF ProxyInv, LocalOK
<1>4. /\ DOMAIN entries' \subseteq Nat
      /\ entries'[1] = [id |-> logId[r], req |-> r]
      /\ \A i \in DOMAIN entries' :
           i # 1 => i - 1 \in DOMAIN entries /\ entries'[i] = entries[i - 1]
  BY <1>1, <1>2, PushEntryKeeps
<1>5. \A i \in DOMAIN entries : entries[i].req \in Requests /\ entries[i].req # r
  BY <1>1, EntriesIn DEF AdminInv
<1>6. Numbered' = Numbered /\ Counted' = Counted /\ ErrorsCounted' = ErrorsCounted
  BY <1>1, <1>3 DEF Numbered, Counted, ErrorsCounted
<1>7. \A i, j \in DOMAIN entries' : entries'[i].req = entries'[j].req => i = j
  <2>1. SUFFICES ASSUME NEW i \in DOMAIN entries', NEW j \in DOMAIN entries',
                        entries'[i].req = entries'[j].req
                 PROVE  i = j
    OBVIOUS
  <2>2. CASE i = 1 \/ j = 1
    BY <1>4, <1>5, <2>1, <2>2
  <2>3. CASE i # 1 /\ j # 1
    <3>1. i - 1 = j - 1
      BY <1>4, <2>1, <2>3 DEF AdminInv, AdminAccounting
    <3>2. i \in Nat /\ j \in Nat
      BY <1>4, <2>1
    <3>3. QED
      BY <3>1, <3>2
  <2>4. QED
    BY <2>2, <2>3
<1>8. \A i \in DOMAIN entries' : entries'[i].id = logId'[entries'[i].req]
  BY <1>1, <1>4 DEF AdminInv, AdminAccounting
<1>9. AdminAccounting'
  BY <1>1, <1>2, <1>3, <1>6, <1>7, <1>8 DEF AdminInv, AdminAccounting, ErrorsCounted
<1>10. \A i \in DOMAIN entries' : pc'[entries'[i].req] = "answered"
  BY <1>3, <1>4, <1>5 DEF AdminInv
<1>11. QED
  BY <1>1, <1>3, <1>9, <1>10 DEF AdminInv, Late

LEMMA AdminNext ==
  ASSUME ProxyInv, AdminInv, [Next]_vars
  PROVE  AdminInv'
<1>1. CASE UNCHANGED vars
  BY <1>1 DEF AdminInv, AdminAccounting, Counted, Numbered, vars, reqVars, adminVars
<1>2. CASE Next
  <2>1. PICK r \in Requests :
           \/ Arrive(r) \/ Handler(r) \/ PollDeadline(r) \/ Cancel(r)
           \/ \E s \in Slots : Task(r, s)
    BY <1>2 DEF Next
  <2>2. CASE Finalize(r)
    BY <2>2, FinalizeAdmin
  <2>3. CASE Record(r)
    BY <2>3, RecordAdmin
  <2>4. CASE TakeLogId(r)
    BY <2>4, TakeIdAdmin
  <2>5. CASE ~Finalize(r) /\ ~TakeLogId(r) /\ ~Record(r)
    BY <2>1, <2>5, StepPlain, PlainAdmin
  <2>6. QED
    BY <2>2, <2>3, <2>4, <2>5
<1>3. QED
  BY <1>1, <1>2

LEMMA AdminStart == Init => AdminInv
<1> SUFFICES ASSUME Init PROVE AdminInv
  OBVIOUS
<1>1. Numbered = {} /\ Counted = {} /\ ErrorsCounted = {}
  BY DEF Init, Numbered, Counted, ErrorsCounted
<1>2. Cardinality({}) = 0
  BY FS_EmptySet
<1>3. entries = <<>> /\ DOMAIN entries = {} /\ nextId = 0 /\ totalRequests = 0 /\ errorRequests = 0
  BY DEF Init, AdminInit
<1>4. AdminAccounting
  BY <1>1, <1>2, <1>3 DEF AdminAccounting, ErrorsCounted, Init
<1>5. QED
  BY <1>3, <1>4 DEF AdminInv, Init

(* AdminInv holds: the entries of the log have ids that were given out, no *)
(* two the same, and the counters of the log agree with the answers.       *)
THEOREM AdminInvariant == Spec => []AdminInv
<1>1. ProxyInv /\ AdminInv /\ [Next]_vars => AdminInv'
  BY AdminNext
<1>2. QED
  BY <1>1, AdminStart, ProxyInvariant, PTL DEF Spec

(* AdminAccounting for any number of requests and any capacity of the log: *)
(* finalize_admin_response and record count and log every answer once,     *)
(* although handlers race and are dropped between their steps.             *)
THEOREM ProxyAdminAccounting == Spec => []AdminAccounting
<1>1. AdminInv => AdminAccounting
  BY DEF AdminInv
<1>2. QED
  BY <1>1, AdminInvariant, PTL

-----------------------------------------------------------------------------
(* The policies of uploads.                                                *)

Unpatched == {"upload", "finalize"}

(* Steps of r that leave its outputs alone and do not take it out of the   *)
(* stages in which an image may be without a URL.                          *)
OutputsStay(r) ==
  /\ UNCHANGED outputs
  /\ pc[r] \notin Unpatched \/ pc'[r] \in Unpatched
  /\ \A q \in Requests \ {r} : pc'[q] = pc[q]

LEMMA OutputsNext ==
  ASSUME ProxyInv, OutputsInv, [Next]_vars
  PROVE  OutputsInv'
<1> USE DEF Unpatched
<1>1. CASE UNCHANGED vars
  BY <1>1 DEF OutputsInv, vars, reqVars
<1>2. ASSUME NEW r \in Requests, OutputsStay(r) PROVE OutputsInv'
  BY <1>2 DEF OutputsInv, OutputsStay
<1>3. ASSUME NEW r \in Requests, outputs' = [outputs EXCEPT ![r] = <<>>],
             \A q \in Requests \ {r} : pc'[q] = pc[q]
      PROVE  OutputsInv'
  <2>1. Range(outputs'[r]) = {}
    BY <1>3 DEF Range, ProxyInv, LocalOK
  <2>2. \A q \in Requests \ {r} : outputs'[q] = outputs[q]
    BY <1>3 DEF ProxyInv, LocalOK
  <2>3. QED
    BY <1>3, <2>1, <2>2 DEF OutputsInv
<1>4. ASSUME NEW r \in Requests, Plain(r), UNCHANGED outputs, pc[r] \notin Unpatched
      PROVE  OutputsInv'
  BY <1>2, <1>4 DEF OutputsStay, Plain, ProxyInv, LocalOK
<1>5. ASSUME NEW r \in Requests, NEW s \in Slots, Task(r, s) PROVE OutputsInv'
  <2>1. UNCHANGED <<pc, outputs>>
    BY <1>5 DEF Task, FetchTask, FetchStart, FetchFails, FetchCached, FetchFresh, StreamTask,
       StreamOverflow, StreamEnd, StreamFails, StoreReserve, StoreSpill, TaskVars
  <2>2. QED
    BY <2>1 DEF OutputsInv
<1>6. ASSUME NEW r \in Requests, Upload(r) \/ UploadFails(r) PROVE OutputsInv'
  <2>1. CASE pc[r] = "upload"
    <3>1. pc' = pc /\ \A q \in Requests \ {r} : outputs'[q] = outputs[q]
      BY <1>6, <2>1 DEF Upload, UploadFails, Output, NextHost, ProxyInv, LocalOK
    <3>2. QED
      BY <2>1, <3>1 DEF OutputsInv
  <2>2. CASE pc[r] # "upload"
    <3>1. pc[r] = "openai_upload"
      BY <1>6, <2>2 DEF Upload, UploadFails
    <3>2. \/ \E o \in {"r2", "legacy"} : Output(r, o)
          \/ NextHost(r)
          \/ BadGateway(r)
      BY <1>6, <2>2 DEF Upload, UploadFails, Provider
    <3>3. CASE \E o \in {"r2", "legacy"} : Output(r, o)
      <4>1. PICK o \in {"r2", "legacy"} : Output(r, o)
        BY <3>3
      <4>2. outputs[r] \in Seq({"r2", "legacy", "base64"}) /\ "base64" \notin Range(outputs[r])
        BY <3>1 DEF OutputsInv, ProxyInv, LocalOK
      <4>3. outputs'[r] = Append(outputs[r], o)
        BY <4>1 DEF Output, ProxyInv, LocalOK
      <4>4. "base64" \notin Range(outputs'[r])
        BY <4>2, <4>3 DEF Range
      <4>5. pc' = pc /\ \A q \in Requests \ {r} : outputs'[q] = outputs[q]
        BY <4>1 DEF Output, ProxyInv, LocalOK
      <4>6. QED
        BY <4>4, <4>5 DEF OutputsInv
    <3>4. CASE NextHost(r)
      BY <3>4 DEF NextHost, OutputsInv
    <3>5. CASE BadGateway(r)
      BY <1>2, <3>1, <3>5 DEF OutputsStay, BadGateway, Reply, Goto, ProxyInv, LocalOK
    <3>6. QED
      BY <3>2, <3>3, <3>4, <3>5
  <2>3. QED
    BY <2>1, <2>2
<1>7. ASSUME NEW r \in Requests, PatchUrls(r) PROVE OutputsInv'
  BY <1>2, <1>7 DEF OutputsStay, PatchUrls, Reply, Goto, ProxyInv, LocalOK
<1>8. ASSUME NEW r \in Requests, Finalize(r) \/ Cancel(r) PROVE OutputsInv'
  BY <1>3, <1>8 DEF Finalize, Cancel, Goto, ProxyInv, LocalOK
<1>9. ASSUME NEW r \in Requests, TakeLogId(r) \/ Record(r) PROVE OutputsInv'
  BY <1>2, <1>9 DEF TakeLogId, Record, OutputsStay, Goto, ProxyInv, LocalOK
<1>10. ASSUME NEW r \in Requests, Arrive(r) \/ PollDeadline(r) PROVE OutputsInv'
  <2>1. pc[r] \notin Unpatched /\ UNCHANGED outputs
    BY <1>10 DEF Arrive, RejectModelRequest, AcceptAiapidev, AcceptGemini, RejectImageRequest,
       AcceptOpenAi, PollDeadline, BadGateway, ClientError, Reply
  <2>2. QED
    BY <1>4, <1>10, <2>1, StepPlain
<1>11. ASSUME NEW r \in Requests, Handler(r), ~Upload(r), ~UploadFails(r), ~PatchUrls(r),
              ~Finalize(r), ~TakeLogId(r), ~Record(r)
       PROVE  OutputsInv'
  <2>1. pc[r] \notin Unpatched /\ UNCHANGED outputs
    <3> USE DEF BadGateway, UpstreamError, Reply
    <3>1. CASE \/ \E u \in Urls : JoinFetch(r, u) \/ JoinFails(r, u)
               \/ EncodeStart(r) \/ WriteBody(r) \/ WriteFails(r) \/ JoinBody(r)
      BY <3>1 DEF JoinFetch, JoinFails, EncodeStart, WriteBody, WriteFails, JoinBody, ForwardVars
    <3>2. CASE RemoveReplacement(r) \/ OpenBody(r) \/ Send(r) \/ Respond(r)
               \/ RewriteResponse(r) \/ OpenAiSend(r) \/ OpenAiRespond(r)
      BY <3>2 DEF RemoveReplacement, OpenBody, Send, Respond, RewriteResponse, OpenAiSend,
         OpenAiRespond, StartUpload
    <3>3. CASE DecodeFails(r) \/ BuildPayload(r) \/ CreateTask(r) \/ PollFails(r)
               \/ PollRefused(r) \/ PollPending(r) \/ PollTerminal(r) \/ NormalizeTask(r)
      BY <3>3 DEF DecodeFails, BuildPayload, CreateTask, PollFails, PollRefused, PollPending,
         PollTerminal, NormalizeTask, SetFails
    <3>4. QED
      BY <1>11, <3>1, <3>2, <3>3 DEF Handler, HandlerStep, ResponseFetch
  <2>2. QED
    BY <1>4, <1>11, <2>1, StepPlain
<1>12. QED
  BY <1>1, <1>5, <1>6, <1>7, <1>8, <1>9, <1>10, <1>11 DEF Next

(* UploadPolicy for any hosts' answers: Gemini uploads fail open, OpenAI   *)
(* uploads fail closed.                                                    *)
THEOREM ProxyUploadPolicy == Spec => UploadPolicy
<1> DEFINE Policy ==
      \A r \in Requests :
        /\ pc[r] = "upload" /\ pc'[r] = "finalize" => status'[r] = 200
        /\ pc[r] = "openai_upload" /\ status'[r] = 200 => "base64" \notin Range(outputs[r])
<1>1. ASSUME ProxyInv, Next, NEW r \in Requests, pc[r] = "upload", pc'[r] = "finalize"
      PROVE  status'[r] = 200
  <2>1. PICK q \in Requests :
           \/ Arrive(q) \/ Handler(q) \/ PollDeadline(q) \/ Cancel(q)
           \/ \E s \in Slots : Task(q, s)
    BY <1>1 DEF Next
  <2>2. q = r
    <3>1. CASE Finalize(q) \/ TakeLogId(q) \/ Record(q)
      BY <1>1, <3>1 DEF Finalize, TakeLogId, Record, Goto, ProxyInv, LocalOK
    <3>2. CASE ~Finalize(q) /\ ~TakeLogId(q) /\ ~Record(q)
      BY <1>1, <2>1, <3>2, StepPlain DEF Plain, ProxyInv, LocalOK
    <3>3. QED
      BY <3>1, <3>2
  <2>3. CASE Arrive(r) \/ PollDeadline(r) \/ Cancel(r)
    BY <1>1, <2>3 DEF Arrive, RejectModelRequest, AcceptAiapidev, AcceptGemini,
       RejectImageRequest, AcceptOpenAi, PollDeadline, Cancel, Goto, ProxyInv, LocalOK
  <2>4. CASE \E s \in Slots : Task(r, s)
    <3>1. UNCHANGED pc
      BY <2>4 DEF Task, FetchTask, FetchStart, FetchFails, FetchCached, FetchFresh, StreamTask,
         StreamOverflow, StreamEnd, StreamFails, StoreReserve, StoreSpill, TaskVars
    <3>2. QED
      BY <1>1, <3>1
  <2>5. CASE Upload(r) \/ UploadFails(r)
    BY <1>1, <2>5 DEF Upload, UploadFails, Output, NextHost
  <2>6. CASE PatchUrls(r)
    BY <1>1, <2>6 DEF PatchUrls, Reply, ProxyInv, LocalOK
  <2>7. CASE Handler(r) /\ ~Upload(r) /\ ~UploadFails(r) /\ ~PatchUrls(r)
    BY <1>1, <2>7 DEF Handler, HandlerStep, ResponseFetch, JoinFetch, JoinFails, EncodeStart, WriteBody, WriteFails, JoinBody,
       RemoveReplacement, OpenBody, Send, Respond, RewriteResponse, OpenAiSend, OpenAiRespond,
       DecodeFails, BuildPayload, CreateTask, PollFails, PollRefused, PollPending, PollTerminal,
       NormalizeTask, Finalize, TakeLogId, Record
  <2>8. QED
    BY <2>1, <2>2, <2>3, <2>4, <2>5, <2>6, <2>7
<1>2. ASSUME ProxyInv, OutputsInv, [Next]_vars PROVE [Policy]_vars
  <2>1. CASE UNCHANGED vars
    BY <2>1
  <2>2. CASE Next
    <3>1. \A r \in Requests : pc[r] = "openai_upload" => "base64" \notin Range(outputs[r])
      BY <1>2 DEF OutputsInv
    <3>2. Policy
      BY <1>1, <1>2, <2>2, <3>1
    <3>3. QED
      BY <3>2
  <2>3. QED
    BY <1>2, <2>1, <2>2
<1>3. Init => OutputsInv
  BY DEF Init, OutputsInv, Range
<1>4. ProxyInv /\ OutputsInv /\ [Next]_vars => OutputsInv'
  BY OutputsNext
<1>5. QED
  BY <1>2, <1>3, <1>4, ProxyInvariant, PTL DEF Spec, UploadPolicy
================================================================================
