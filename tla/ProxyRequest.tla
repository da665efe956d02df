---------------------------- MODULE ProxyRequest ----------------------------
(***************************************************************************)
(* The life of the requests the Rust proxy serves concurrently (router.rs  *)
(* with request_materialize.rs, request_encode.rs, response_materialize.rs *)
(* and the modules BlobRuntime, Uploader and AdminLog).                    *)
(*                                                                         *)
(* A request is handled by one future.  For a Gemini upstream it spawns a  *)
(* task for every image URL and one for the encoded body; they run beside  *)
(* it, and outlive it for a while when it returns early or is dropped      *)
(* because the client went away.  Every await is a boundary of steps.      *)
(* JSON, headers and texts are left out: what they decide is a choice.     *)
(***************************************************************************)
EXTENDS BlobRuntime, AdminLog, Uploader, Functions

CONSTANTS
  Requests,           \* the requests of a behaviour
  Urls,               \* image URLs a request body may refer to
  Body,               \* names the encoded request body among a request's blobs
  RefLists,           \* request -> lists of image references its body may have
  MaxInlineDataUrls,  \* MAX_INLINE_DATA_URLS
  MaxFetches,         \* MAX_CONCURRENT_REQUEST_IMAGE_FETCHES
  MaxPollFailures,    \* AIAPIDEV_MAX_CONSECUTIVE_POLL_FAILURES
  MaxImages,          \* bound: images in one upstream response
  AdminEnabled        \* admin_password is set

Slots == Urls \cup {Body}

ASSUME RequestsAssumption == IsFiniteSet(Requests)
ASSUME UrlsAssumption == IsFiniteSet(Urls) /\ Body \notin Urls
ASSUME BlobsOfRequests == Blobs = Requests \X Slots
ASSUME RefListsAssumption == \A r \in Requests : RefLists[r] \subseteq Seq(Urls)
ASSUME LimitsAssumption ==
  /\ MaxInlineDataUrls \in Nat
  /\ MaxFetches \in Nat \ {0}
  /\ MaxPollFailures \in Nat \ {0}
  /\ MaxImages \in Nat \ {0}
ASSUME AdminEnabledAssumption == AdminEnabled \in BOOLEAN

VARIABLES
  pc,       \* where the handler of a request is
  task,     \* state of the spawned task of each slot
  refs,     \* image references found in the request body
  next,     \* position in a loop: replacement to remove, or host to try
  poll,     \* consecutive poll failures, and whether the deadline passed
  outputs,  \* what became of each image of the response so far
  left,     \* images of the response still to upload
  status,   \* status code of the answer, 0 before there is one
  logId     \* id taken by record, 0 before

reqVars == <<pc, task, refs, next, poll, outputs, left, status, logId>>
vars == <<reqVars, blobVars, adminVars>>

Stages ==
  {"new", "materialize", "encode", "encoded", "cleanup", "send", "respond", "rewrite",
   "upload", "create", "poll", "normalize", "openai_send", "openai_respond", "openai_upload",
   "finalize", "counted", "recording", "answered", "dropped"}

Ended == {"answered", "dropped"}

TaskStates ==
  {"idle", "queued", "fetching", "streaming", "storing", "ok", "err", "joined", "stopped"}

(* A spawned task that has not come to its end.                            *)
Running(r, s) == task[r][s] \in {"queued", "fetching", "streaming", "storing"}

Blob(r, s) == <<r, s>>

Init ==
  /\ BlobInit
  /\ AdminInit
  /\ pc = [r \in Requests |-> "new"]
  /\ task = [r \in Requests |-> [s \in Slots |-> "idle"]]
  /\ refs = [r \in Requests |-> <<>>]
  /\ next = [r \in Requests |-> 0]
  /\ poll = [r \in Requests |-> [fails |-> 0, expired |-> FALSE]]
  /\ outputs = [r \in Requests |-> <<>>]
  /\ left = [r \in Requests |-> 0]
  /\ status = [r \in Requests |-> 0]
  /\ logId = [r \in Requests |-> 0]

Goto(r, stage) == pc' = [pc EXCEPT ![r] = stage]

SetTask(r, s, state) == task' = [task EXCEPT ![r][s] = state]

(* The handler has an answer; its locals are dropped with it.  (What       *)
(* happens to its tasks is said by each action.)                           *)
Reply(r, code) ==
  /\ Goto(r, "finalize")
  /\ status' = [status EXCEPT ![r] = code]
  /\ refs' = [refs EXCEPT ![r] = <<>>]
  /\ next' = [next EXCEPT ![r] = 0]
  /\ poll' = [poll EXCEPT ![r] = [fails |-> 0, expired |-> FALSE]]
  /\ left' = [left EXCEPT ![r] = 0]
  /\ UNCHANGED <<outputs, logId>>

(* An error of any kind: how it is classified decides only the text.       *)
BadGateway(r) == Reply(r, 502)

(* The upstream's own error status, passed through.                        *)
UpstreamError(r) == Reply(r, 503)

(* The request is at fault: 400 stands for 400, 401 and 404.               *)
ClientError(r) == Reply(r, 400)

-----------------------------------------------------------------------------
(* The two POST handlers up to the forwarding call.  Every early return    *)
(* goes through finalize_admin_response as well.                           *)

(* model_action: wrong path, unreadable or invalid body, no usable token.  *)
RejectModelRequest(r) ==
  /\ pc[r] = "new"
  /\ ClientError(r) \/ BadGateway(r)
  /\ UNCHANGED <<task, blobVars, adminVars>>

(* model_action with an aiapidev upstream.                                 *)
AcceptAiapidev(r) ==
  /\ pc[r] = "new"
  /\ Goto(r, "create")
  /\ UNCHANGED <<task, refs, next, poll, outputs, left, status, logId, blobVars, adminVars>>

(* scan_request_image_urls refuses a body with too many references.        *)
TooManyImages(list) == Len(list) > MaxInlineDataUrls

(* model_action with a Gemini upstream: materialize_request_images scans   *)
(* the body and spawns one task for every distinct URL.                    *)
AcceptGemini(r) ==
  /\ pc[r] = "new"
  /\ \E list \in RefLists[r] :
       \/ /\ TooManyImages(list)
          /\ BadGateway(r)
          /\ UNCHANGED task
       \/ /\ ~TooManyImages(list)
          /\ Goto(r, "materialize")
          /\ refs' = [refs EXCEPT ![r] = list]
          /\ task' = [task EXCEPT ![r] =
                         [s \in Slots |-> IF s \in Range(list) THEN "queued" ELSE "idle"]]
          /\ UNCHANGED <<next, poll, outputs, left, status, logId>>
  /\ UNCHANGED <<blobVars, adminVars>>

(* image_generations_action: unreadable or invalid body, a request         *)
(* normalize_request_body refuses, no usable token.                        *)
RejectImageRequest(r) ==
  /\ pc[r] = "new"
  /\ ClientError(r) \/ BadGateway(r)
  /\ UNCHANGED <<task, blobVars, adminVars>>

AcceptOpenAi(r) ==
  /\ pc[r] = "new"
  /\ Goto(r, "openai_send")
  /\ UNCHANGED <<task, refs, next, poll, outputs, left, status, logId, blobVars, adminVars>>

-----------------------------------------------------------------------------
(* The tasks that fetch and store request images (fetch_request_image).    *)

TaskVars == <<pc, refs, next, poll, outputs, left, status, logId, adminVars>>

(* A permit of the semaphore is held from here to the end of the task.     *)
FetchStart(r, u) ==
  /\ pc[r] = "materialize"
  /\ task[r][u] = "queued"
  /\ Cardinality({v \in Urls : task[r][v] \in {"fetching", "storing"}}) < MaxFetches
  /\ SetTask(r, u, "fetching")
  /\ UNCHANGED <<TaskVars, blobVars>>

FetchFails(r, u) ==
  /\ task[r][u] = "fetching"
  /\ SetTask(r, u, "err")
  /\ UNCHANGED <<TaskVars, blobVars>>

(* The fetch service had the image cached: its bytes are shared.           *)
FetchCached(r, u) ==
  /\ task[r][u] = "fetching"
  /\ StoreExternal(Blob(r, u))
  /\ SetTask(r, u, "ok")
  /\ UNCHANGED TaskVars

(* Fresh bytes: store_shared_bytes begins.                                 *)
FetchFresh(r, u) ==
  /\ task[r][u] = "fetching"
  /\ BeginSpill(Blob(r, u)) \/ LoadHot(Blob(r, u))
  /\ SetTask(r, u, "storing")
  /\ UNCHANGED TaskVars

(* The reservation loop of any storing task: exchange, or load again.      *)
StoreReserve(r, s) ==
  /\ task[r][s] = "storing"
  /\ storage[Blob(r, s)] = "reserving"
  /\ \/ /\ ExchangeHot(Blob(r, s))
        /\ SetTask(r, s, "ok")
     \/ /\ LoadHot(Blob(r, s))
        /\ UNCHANGED task
  /\ UNCHANGED TaskVars

(* The spill write of any storing task ends.                               *)
StoreSpill(r, s) ==
  /\ task[r][s] = "storing"
  /\ \/ /\ FinishSpill(Blob(r, s))
        /\ SetTask(r, s, "ok")
     \/ /\ FailSpill(Blob(r, s))
        /\ SetTask(r, s, "err")
  /\ UNCHANGED TaskVars

(* The tasks of a dropped JoinSet: one that has nothing on disk yet ends   *)
(* here, one that is storing ends with its store (StoreReserve has no      *)
(* await; a write is finished by the thread that does it).                 *)
StopFetches(r) ==
  [s \in Slots |-> IF task[r][s] \in {"queued", "fetching"} THEN "stopped" ELSE task[r][s]]

-----------------------------------------------------------------------------
(* forward_gemini_request after the spawns, one action per await.          *)

ForwardVars == <<refs, next, poll, outputs, left, status, logId, adminVars>>

(* join_next returns an image.                                             *)
JoinFetch(r, u) ==
  /\ pc[r] = "materialize"
  /\ task[r][u] = "ok"
  /\ SetTask(r, u, "joined")
  /\ UNCHANGED <<pc, ForwardVars, blobVars>>

(* join_next returns an error: the rest of the JoinSet is dropped, and so  *)
(* are the handles of the images that were stored.                         *)
JoinFails(r, u) ==
  /\ pc[r] = "materialize"
  /\ task[r][u] = "err"
  /\ BadGateway(r)
  /\ task' = [task EXCEPT ![r] = StopFetches(r)]
  /\ UNCHANGED <<blobVars, adminVars>>

(* Mutant: the body is written when the first image is there.              *)
EncodeStartEarly(r) ==
  /\ pc[r] = "materialize"
  /\ \E u \in Range(refs[r]) : task[r][u] = "joined"
  /\ Goto(r, "encode")
  /\ SetTask(r, Body, "streaming")
  /\ UNCHANGED <<ForwardVars, blobVars>>

(* Every image is there: encode_request_body spawns the task that stores   *)
(* the body and begins to write it.                                        *)
EncodeStart(r) ==
  /\ pc[r] = "materialize"
  /\ \A u \in Range(refs[r]) : task[r][u] = "joined"
  /\ Goto(r, "encode")
  /\ SetTask(r, Body, "streaming")
  /\ UNCHANGED <<ForwardVars, blobVars>>

(* write_json_value wrote everything, each image read from its blob.       *)
WriteBody(r) ==
  /\ pc[r] = "encode"
  /\ task[r][Body] = "streaming"
  /\ \A u \in Range(refs[r]) : Readable(Blob(r, u))
  /\ Goto(r, "encoded")
  /\ UNCHANGED <<task, ForwardVars, blobVars>>

(* A read or the pipe failed: the task of the body is aborted, a spill     *)
(* file it has begun stays, and so do the images.                          *)
WriteFails(r) ==
  /\ pc[r] = "encode"
  /\ BadGateway(r)
  /\ IF storage[Blob(r, Body)] = "writing" THEN FailSpill(Blob(r, Body)) ELSE UNCHANGED blobVars
  /\ SetTask(r, Body, IF task[r][Body] = "err" THEN "err" ELSE "stopped")
  /\ UNCHANGED adminVars

(* store_stream: what arrived no longer fits in the buffer.                *)
StreamOverflow(r) ==
  /\ task[r][Body] = "streaming"
  /\ BeginSpill(Blob(r, Body))
  /\ UNCHANGED <<task, TaskVars>>

(* Mutant: the end of the pipe is seen only when the body was written.     *)
StreamEndWritten(r) ==
  /\ task[r][Body] = "streaming"
  /\ pc[r] = "encoded"
  /\ \/ /\ FinishSpill(Blob(r, Body))
        /\ SetTask(r, Body, "ok")
     \/ /\ LoadHot(Blob(r, Body))
        /\ SetTask(r, Body, "storing")
  /\ UNCHANGED TaskVars

(* store_stream at the end of the pipe, which is also what it sees when    *)
(* the handler was dropped in the middle of the body.                      *)
StreamEnd(r) ==
  /\ task[r][Body] = "streaming"
  /\ pc[r] # "encode"
  /\ \/ /\ FinishSpill(Blob(r, Body))
        /\ SetTask(r, Body, "ok")
     \/ /\ LoadHot(Blob(r, Body))
        /\ SetTask(r, Body, "storing")
  /\ UNCHANGED TaskVars

(* store_stream cannot write its spill file.                               *)
StreamFails(r) ==
  /\ task[r][Body] = "streaming"
  /\ FailSpill(Blob(r, Body))
  /\ SetTask(r, Body, "err")
  /\ UNCHANGED TaskVars

(* store_task.await                                                        *)
JoinBody(r) ==
  /\ pc[r] = "encoded"
  /\ \/ /\ task[r][Body] = "ok"
        /\ Goto(r, "cleanup")
        /\ SetTask(r, Body, "joined")
        /\ next' = [next EXCEPT ![r] = 1]
        /\ UNCHANGED <<refs, poll, outputs, left, status, logId>>
     \/ /\ task[r][Body] = "err"
        /\ BadGateway(r)
        /\ UNCHANGED task
  /\ UNCHANGED <<blobVars, adminVars>>

(* The loop over the replacements: one remove per reference, so a URL used *)
(* twice has its blob removed twice.                                       *)
RemoveReplacement(r) ==
  /\ pc[r] = "cleanup"
  /\ next[r] <= Len(refs[r])
  /\ LET b == Blob(r, refs[r][next[r]])
     IN  \/ /\ Remove(b)
            /\ next' = [next EXCEPT ![r] = @ + 1]
            /\ UNCHANGED <<pc, refs, poll, outputs, left, status, logId>>
         \/ /\ RemoveFails(b)
            /\ BadGateway(r)
  /\ UNCHANGED <<task, adminVars>>

(* read_bytes for the log, build_upstream_url and open_reader.             *)
OpenBody(r) ==
  /\ pc[r] = "cleanup"
  /\ next[r] > Len(refs[r])
  /\ \/ /\ Readable(Blob(r, Body))
        /\ Goto(r, "send")
        /\ UNCHANGED <<refs, next, poll, outputs, left, status, logId>>
     \/ BadGateway(r)
  /\ UNCHANGED <<task, blobVars, adminVars>>

(* Mutant: the body is removed only when the send failed.                  *)
SendKeepsBody(r) ==
  /\ pc[r] = "send"
  /\ \/ /\ Goto(r, "respond")
        /\ UNCHANGED <<refs, next, poll, outputs, left, status, logId, blobVars>>
     \/ /\ Remove(Blob(r, Body)) \/ RemoveFails(Blob(r, Body))
        /\ BadGateway(r)
  /\ UNCHANGED <<task, adminVars>>

(* The upstream answered or the send failed: the body is removed.          *)
Send(r) ==
  /\ pc[r] = "send"
  /\ LET b == Blob(r, Body)
     IN  \/ /\ Remove(b)
            /\ Goto(r, "respond")
            /\ UNCHANGED <<refs, next, poll, outputs, left, status, logId>>
         \/ /\ Remove(b)
            /\ BadGateway(r)
         \/ /\ RemoveFails(b)
            /\ BadGateway(r)
  /\ UNCHANGED <<task, adminVars>>

-----------------------------------------------------------------------------
(* Responses and uploads.                                                  *)

(* Upload what the response holds: images to go, from the first host.      *)
StartUpload(r, stage, images) ==
  /\ Goto(r, stage)
  /\ left' = [left EXCEPT ![r] = images]
  /\ next' = [next EXCEPT ![r] = 1]
  /\ UNCHANGED <<refs, poll, outputs, status, logId>>

(* handle_non_stream_response, the body of the response: it cannot be      *)
(* read; an error status or a body that is not JSON is passed on.          *)
Respond(r) ==
  /\ pc[r] = "respond"
  /\ \/ BadGateway(r)
     \/ UpstreamError(r)
     \/ Reply(r, 200)
     \/ /\ Goto(r, "rewrite")
        /\ UNCHANGED <<refs, next, poll, outputs, left, status, logId>>
  /\ UNCHANGED <<task, blobVars, adminVars>>

(* normalize_special_markdown_image_response, which may have to fetch an   *)
(* image, and optimize_inline_data_images; with output=url the images are  *)
(* uploaded next.                                                          *)
RewriteResponse(r) ==
  /\ pc[r] = "rewrite"
  /\ \/ BadGateway(r)
     \/ Reply(r, 200)
     \/ \E images \in 0 .. MaxImages : StartUpload(r, "upload", images)
  /\ UNCHANGED <<task, blobVars, adminVars>>

(* forward_openai_image_request up to the response.                        *)
OpenAiSend(r) ==
  /\ pc[r] = "openai_send"
  /\ \/ BadGateway(r)
     \/ /\ Goto(r, "openai_respond")
        /\ UNCHANGED <<refs, next, poll, outputs, left, status, logId>>
  /\ UNCHANGED <<task, blobVars, adminVars>>

(* handle_openai_image_response up to the loop over the images, of which   *)
(* extract_openai_b64_json_entries demands at least one.                   *)
OpenAiRespond(r) ==
  /\ pc[r] = "openai_respond"
  /\ \/ BadGateway(r)
     \/ UpstreamError(r)
     \/ \E images \in 1 .. MaxImages : StartUpload(r, "openai_upload", images)
  /\ UNCHANGED <<task, blobVars, adminVars>>

(* One image is done: go on with the next one from the first host.         *)
Output(r, output) ==
  /\ outputs' = [outputs EXCEPT ![r] = Append(@, output)]
  /\ left' = [left EXCEPT ![r] = @ - 1]
  /\ next' = [next EXCEPT ![r] = 1]
  /\ UNCHANGED <<pc, refs, poll, status, logId>>

NextHost(r) ==
  /\ next' = [next EXCEPT ![r] = @ + 1]
  /\ UNCHANGED <<pc, refs, poll, outputs, left, status, logId>>

(* Mutant: the loop does not look whether an image is left.                *)
UploadPastEnd(r) ==
  /\ pc[r] \in {"upload", "openai_upload"}
  /\ \E host \in Hosts : Output(r, Provider(host))
  /\ UNCHANGED <<task, blobVars, adminVars>>

(* upload_inline_data_base64 asks one host of the chain after the other.   *)
Upload(r) ==
  /\ pc[r] \in {"upload", "openai_upload"}
  /\ left[r] > 0
  /\ next[r] <= Len(HostChain)
  /\ \E reply \in HostReplies :
       LET host == HostChain[next[r]]
       IN  \/ Accepts(host, reply) /\ Output(r, Provider(host))
           \/ ~Accepts(host, reply) /\ NextHost(r)
  /\ UNCHANGED <<task, blobVars, adminVars>>

(* Mutant: a failed upload is skipped on either route.                     *)
UploadSkipped(r) ==
  /\ pc[r] \in {"upload", "openai_upload"}
  /\ left[r] > 0
  /\ next[r] > Len(HostChain)
  /\ Output(r, "base64")
  /\ UNCHANGED <<task, blobVars, adminVars>>

(* No host is left, or the mode of the configuration names none:           *)
(* finalize_output_urls leaves the image as it is, while                   *)
(* handle_openai_image_response fails the request.                         *)
UploadFails(r) ==
  /\ pc[r] \in {"upload", "openai_upload"}
  /\ left[r] > 0
  /\ next[r] > Len(HostChain)
  /\ IF pc[r] = "upload" THEN Output(r, "base64") ELSE BadGateway(r)
  /\ UNCHANGED <<task, blobVars, adminVars>>

(* An image of the OpenAI response that is not base64 fails the request    *)
(* when its turn comes.                                                    *)
DecodeFails(r) ==
  /\ pc[r] = "openai_upload"
  /\ left[r] > 0 /\ next[r] = 1
  /\ BadGateway(r)
  /\ UNCHANGED <<task, blobVars, adminVars>>

(* finalize_output_urls is through: patch_inline_data_urls.                *)
PatchUrls(r) ==
  /\ pc[r] = "upload"
  /\ left[r] = 0
  /\ Reply(r, 200)
  /\ UNCHANGED <<task, blobVars, adminVars>>

(* handle_openai_image_response after the loop: build_response_payload.    *)
BuildPayload(r) ==
  /\ pc[r] = "openai_upload"
  /\ left[r] = 0
  /\ Reply(r, 200)
  /\ UNCHANGED <<task, blobVars, adminVars>>

-----------------------------------------------------------------------------
(* The aiapidev upstream: create a task, poll it, fetch its images.        *)

CreateTask(r) ==
  /\ pc[r] = "create"
  /\ \/ BadGateway(r)
     \/ UpstreamError(r)
     \/ /\ Goto(r, "poll")
        /\ UNCHANGED <<refs, next, poll, outputs, left, status, logId>>
  /\ UNCHANGED <<task, blobVars, adminVars>>

(* AIAPIDEV_MAX_POLL_TIME is over.                                         *)
PollDeadline(r) ==
  /\ pc[r] = "poll"
  /\ ~poll[r].expired
  /\ poll' = [poll EXCEPT ![r].expired = TRUE]
  /\ UNCHANGED <<pc, task, refs, next, outputs, left, status, logId, blobVars, adminVars>>

SetFails(r, n) ==
  /\ poll' = [poll EXCEPT ![r].fails = n]
  /\ UNCHANGED <<pc, refs, next, outputs, left, status, logId>>

(* A poll without a response, or with a retryable status: the limit of     *)
(* consecutive failures is looked at before the deadline, then the loop    *)
(* sleeps.                                                                 *)
PollFails(r) ==
  /\ pc[r] = "poll"
  /\ LET n == poll[r].fails + 1
     IN  \/ n >= MaxPollFailures /\ (BadGateway(r) \/ UpstreamError(r))
         \/ n < MaxPollFailures /\ poll[r].expired /\ BadGateway(r)
         \/ n < MaxPollFailures /\ ~poll[r].expired /\ SetFails(r, n)
  /\ UNCHANGED <<task, blobVars, adminVars>>

(* A status that is not retried is passed on, an unparsable body is an     *)
(* error.                                                                  *)
PollRefused(r) ==
  /\ pc[r] = "poll"
  /\ BadGateway(r) \/ UpstreamError(r)
  /\ UNCHANGED <<task, blobVars, adminVars>>

(* The task is still in progress: the failures are forgotten, and only the *)
(* deadline ends the loop.                                                 *)
PollPending(r) ==
  /\ pc[r] = "poll"
  /\ IF poll[r].expired THEN BadGateway(r) ELSE SetFails(r, 0)
  /\ UNCHANGED <<task, blobVars, adminVars>>

(* A terminal status: an error, or a result to normalise, whatever the     *)
(* deadline says.                                                          *)
PollTerminal(r) ==
  /\ pc[r] = "poll"
  /\ \/ BadGateway(r)
     \/ /\ Goto(r, "normalize")
        /\ poll' = [poll EXCEPT ![r] = [fails |-> 0, expired |-> FALSE]]
        /\ UNCHANGED <<refs, next, outputs, left, status, logId>>
  /\ UNCHANGED <<task, blobVars, adminVars>>

(* normalize_aiapidev_task_response and the rewriting that follows.        *)
NormalizeTask(r) ==
  /\ pc[r] = "normalize"
  /\ BadGateway(r) \/ Reply(r, 200)
  /\ UNCHANGED <<task, blobVars, adminVars>>

-----------------------------------------------------------------------------
(* finalize_admin_response: with the admin pages on, the answer is         *)
(* counted, its entry takes an id, then waits for the lock of the log.     *)
Finalize(r) ==
  /\ pc[r] = "finalize"
  /\ outputs' = [outputs EXCEPT ![r] = <<>>]
  /\ \/ AdminEnabled /\ Count(status[r]) /\ Goto(r, "counted")
     \/ ~AdminEnabled /\ UNCHANGED adminVars /\ Goto(r, "answered")
  /\ UNCHANGED <<task, refs, next, poll, left, status, logId, blobVars>>

TakeLogId(r) ==
  /\ pc[r] = "counted"
  /\ TakeId
  /\ logId' = [logId EXCEPT ![r] = nextId + 1]
  /\ Goto(r, "recording")
  /\ UNCHANGED <<task, refs, next, poll, outputs, left, status, blobVars>>

Record(r) ==
  /\ pc[r] = "recording"
  /\ PushEntry(logId[r], r)
  /\ Goto(r, "answered")
  /\ UNCHANGED <<task, refs, next, poll, outputs, left, status, logId, blobVars>>

(* The client goes away while the handler awaits something: the future is  *)
(* dropped.  The JoinSet goes with it; the task of the body does not.      *)
Cancel(r) ==
  /\ pc[r] \notin Ended \cup {"new", "finalize", "counted"}
  /\ Goto(r, "dropped")
  /\ task' = [task EXCEPT ![r] = StopFetches(r)]
  /\ refs' = [refs EXCEPT ![r] = <<>>]
  /\ next' = [next EXCEPT ![r] = 0]
  /\ poll' = [poll EXCEPT ![r] = [fails |-> 0, expired |-> FALSE]]
  /\ outputs' = [outputs EXCEPT ![r] = <<>>]
  /\ left' = [left EXCEPT ![r] = 0]
  /\ UNCHANGED <<status, logId, blobVars, adminVars>>

-----------------------------------------------------------------------------
Arrive(r) ==
  RejectModelRequest(r) \/ AcceptAiapidev(r) \/ AcceptGemini(r)
    \/ RejectImageRequest(r) \/ AcceptOpenAi(r)

FetchTask(r, u) ==
  FetchStart(r, u) \/ FetchFails(r, u) \/ FetchCached(r, u) \/ FetchFresh(r, u)

StreamTask(r) == StreamOverflow(r) \/ StreamEnd(r) \/ StreamFails(r)

(* A spawned task: the fetch of an image, or the storing of the body.      *)
Task(r, s) ==
  \/ s \in Urls /\ FetchTask(r, s)
  \/ s = Body /\ StreamTask(r)
  \/ StoreReserve(r, s) \/ StoreSpill(r, s)

(* The steps that wait for response_inline_data_fetch_service, when the    *)
(* answer names an image by its URL.                                       *)
ResponseFetch(r) == RewriteResponse(r) \/ NormalizeTask(r)

HandlerStep(r) ==
  \/ \E u \in Urls : JoinFetch(r, u) \/ JoinFails(r, u)
  \/ EncodeStart(r) \/ WriteBody(r) \/ WriteFails(r) \/ JoinBody(r)
  \/ RemoveReplacement(r) \/ OpenBody(r) \/ Send(r)
  \/ Respond(r) \/ OpenAiSend(r) \/ OpenAiRespond(r)
  \/ Upload(r) \/ UploadFails(r) \/ DecodeFails(r) \/ PatchUrls(r) \/ BuildPayload(r)
  \/ CreateTask(r) \/ PollFails(r) \/ PollRefused(r) \/ PollPending(r) \/ PollTerminal(r)
  \/ Finalize(r) \/ TakeLogId(r) \/ Record(r)

Handler(r) == HandlerStep(r) \/ ResponseFetch(r)

Next ==
  \E r \in Requests :
    \/ Arrive(r) \/ Handler(r) \/ PollDeadline(r) \/ Cancel(r)
    \/ \E s \in Slots : Task(r, s)

Spec == Init /\ [][Next]_vars

(* What a task must do when it can: fetch, store, and take the end of the  *)
(* pipe.  A pipe that overflows the buffer or a write that fails is never  *)
(* promised.                                                               *)
Progress(r, s) ==
  \/ s \in Urls /\ FetchTask(r, s)
  \/ s = Body /\ StreamEnd(r)
  \/ StoreReserve(r, s) \/ StoreSpill(r, s)

(* A request that was dropped may have been the last one registered with a *)
(* download: it aborts that, and another one that waits for it without a   *)
(* timeout, in wait_for_task without the bridge, is never woken (fetch     *)
(* service, EveryCallAnswered).  Fetches of request images have both the   *)
(* bridge and a timeout.                                                   *)
MayHang(r) == \E q \in Requests \ {r} : pc[q] = "dropped"

(* Futures that can go on are polled; each network call of the handler and *)
(* of a fetch task ends, by its client's timeout at the latest; file       *)
(* operations end; the deadline of a poll loop passes.  The fetch of an    *)
(* image of the response is promised to return only while no other client  *)
(* has gone away.                                                          *)
Fairness ==
  \A r \in Requests :
    /\ WF_vars(HandlerStep(r))
    /\ WF_vars(ResponseFetch(r) /\ ~MayHang(r))
    /\ WF_vars(PollDeadline(r))
    /\ \A s \in Slots : WF_vars(Progress(r, s))

FairSpec == Spec /\ Fairness

-----------------------------------------------------------------------------
TypeOK ==
  /\ BlobTypeOK
  /\ pc \in [Requests -> Stages]
  /\ task \in [Requests -> [Slots -> TaskStates]]
  /\ refs \in [Requests -> Seq(Urls)]
  /\ next \in [Requests -> Nat]
  /\ poll \in [Requests -> [fails : Nat, expired : BOOLEAN]]
  /\ outputs \in [Requests -> Seq({"r2", "legacy", "base64"})]
  /\ left \in [Requests -> Nat]
  /\ status \in [Requests -> {0, 200, 400, 502, 503}]
  /\ logId \in [Requests -> Nat]
  /\ totalRequests \in Nat /\ errorRequests \in Nat /\ nextId \in Nat
  /\ entries \in Seq([id : Nat, req : Requests])

(* A blob that takes hot memory or a spill file.                           *)
Held(b) == b \in HotBlobs \cup spillFiles

(* What a handler is about to read is there and not removed: the images    *)
(* while the body is written (write_blob_as_base64), the body until the    *)
(* upstream has taken it (read_bytes, open_reader).  The images are stored *)
(* by other tasks and removed by a loop of this one, once per reference.   *)
ReadsLiveBlobs ==
  \A r \in Requests :
    /\ pc[r] = "encode" =>
         \A u \in Range(refs[r]) : Readable(Blob(r, u)) /\ Blob(r, u) \notin removed
    /\ pc[r] \in {"cleanup", "send"} =>
         Readable(Blob(r, Body)) /\ Blob(r, Body) \notin removed

(* A request that got an answer from upstream, or was refused before       *)
(* anything was stored, holds no hot memory and no spill file any more,    *)
(* whatever its tasks and the other requests did meanwhile: only answers   *)
(* 502 and dropped requests may leave something behind.                    *)
AnsweredHoldsNothing ==
  \A r \in Requests :
    pc[r] \in {"respond", "rewrite", "upload"} \/ status[r] \notin {0, 502} =>
      \A s \in Slots : ~Held(Blob(r, s))

(* Uploads fail open for Gemini (finalize_output_urls keeps the base64 and *)
(* the request succeeds) and fail closed for OpenAI (no answer 200 holds   *)
(* an image without a URL).                                                *)
UploadPolicy ==
  [][\A r \in Requests :
       /\ pc[r] = "upload" /\ pc'[r] = "finalize" => status'[r] = 200
       /\ pc[r] = "openai_upload" /\ status'[r] = 200 => "base64" \notin Range(outputs[r])]_vars

Numbered == {r \in Requests : logId[r] # 0}

Counted == Numbered \cup {r \in Requests : pc[r] = "counted"}

(* The statistics and the log agree with the answers, although every       *)
(* handler counts, takes an id and pushes its entry in separate steps      *)
(* among those of the others and may be dropped while it waits to push:    *)
(* one count and one id per answer, the error count is that of the codes   *)
(* from 400 up, and no request and no id is logged twice.                  *)
AdminAccounting ==
  /\ totalRequests = Cardinality(Counted)
  /\ nextId = Cardinality(Numbered)
  /\ errorRequests = Cardinality({r \in Counted : status[r] >= 400})
  /\ \A r1, r2 \in Numbered : logId[r1] = logId[r2] => r1 = r2
  /\ \A i, j \in DOMAIN entries : entries[i].req = entries[j].req => i = j
  /\ \A i \in DOMAIN entries : entries[i].id = logId[entries[i].req]
  /\ AdminEnabled => \A r \in Requests : pc[r] = "answered" => r \in Numbered

(* Every request that arrived is answered or dropped, and no task it       *)
(* spawned runs for ever: fetches wait for permits, the body task for the  *)
(* end of the pipe, the handler for its tasks, polls for an upstream that  *)
(* may stay in progress.  Excepted is a handler that waits for an image of *)
(* its response when another client has gone away.                         *)
AllAnswered ==
  \A r \in Requests :
    pc[r] # "new" ~>
      \/ pc[r] \in Ended /\ \A s \in Slots : ~Running(r, s)
      \/ pc[r] \in {"rewrite", "normalize"} /\ MayHang(r)

(* The promise of the memory redesign (request failed or cancelled: what   *)
(* it stored is reclaimed), which the code does not keep.                  *)
NothingLeaks ==
  \A r \in Requests :
    pc[r] \in Ended /\ (\A s \in Slots : ~Running(r, s)) =>
      \A s \in Slots : ~Held(Blob(r, s))
=============================================================================
