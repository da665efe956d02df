# A TLA+ model of gemini-worker-go

The repository holds several programs around one job: image generation through
NewAPI / Gemini. This directory models their protocols in TLA+, checks the
models with TLC and proves the main safety properties with TLAPS.
`PROJECT.json` is the index: components, runs, mutants, the map from
definitions to source lines, findings, hazards and theorems.

## 1. Inventory

### async-gateway (Go): asynchronous tasks

| part | state | operations | hard because |
|---|---|---|---|
| task store (`store/repository.go`, migrations) | rows of `tasks`, `task_payloads` in PostgreSQL | insert, mark queued / running / dispatched, heartbeat, finish, force uncertain, find recoverable, delete expired | most UPDATEs do not test the status they overwrite; a statement's answer can be lost |
| submit handlers (`httpapi/submit_handler.go`, `image_submit_handler.go`) | none of their own | validate, insert, mark queued, enqueue, answer 202 / 503 | four steps over two stores, any of which may be the last before a crash |
| memory queue (`queue/memory_queue.go`) | bounded channel, closed flag | `TryEnqueue`, `Dequeue`, `Close` | flag test and send are two steps; `Close` is two steps |
| worker pool, forwarder (`worker/`) | per worker: task, step, outcome | load, mark running, forward with heartbeats, finish | the `WroteRequest` callback runs on the transport's goroutine, before, during or after the rest |
| recovery scanner (`recovery/scanner.go`) | none | once per start: requeue, fail or mark uncertain | it sees what any crash left behind |
| cleaner (`cleanup/cleanup.go`) | none | delete expired tasks and payloads | runs beside everything |
| application (`app/`) | draining flag | start-up order, graceful shutdown, forced end | shutdown races with submissions and workers |
| query API, task cache, limiter (`httpapi/query_handler.go`, `cache/`, `ratelimit/`) | cached rows with TTLs, token times | get, batch get, list with a cursor | cache fills race; the cursor has whole seconds |

Interaction: handlers and the scanner write rows and feed the queue, workers
take from it and write rows, the cleaner deletes rows, the application closes
the queue and forces rows; the query API only reads.

What makes it correct: a task is in one hand at a time; a request known to have
been sent is never sent again; a task that may still have to be sent has its
payload; a stored result is final; a refused submission is never executed; an
accepted one comes to an end.

### rust-sync-proxy (Rust): synchronous proxy

| part | state | operations | hard because |
|---|---|---|---|
| fetch service (`cache.rs`) | inflight map; per task: result, waiter count, abort handle | `fetch`, `wait_for_task`, drop of a waiter, the spawned download | every await is a cancellation point; the map, the counter and the result have three different locks |
| memory and disk cache (`cache.rs`) | LRU list with a byte budget; a directory with two files per entry | get, set, prune | both services share the directory but not the lock; writes fail, processes die between two files |
| image download (`cache.rs`, `image_io.rs`) | attempt, bytes so far | send, read with a limit, retry once, convert | a server that lies about lengths, stalls or breaks off |
| blob runtime (`blob_runtime.rs`) | blobs shared, in hot memory or spilled; `global_hot_bytes`, `spill_count` | store, open, remove | a compare-and-swap loop on a budget shared by all requests; spill writes that fail |
| router (`http/router.rs`, `request_*.rs`, `response_*.rs`) | per request: spawned tasks, replacements, position in its loops | materialise, encode, send, poll, rewrite, upload, answer | early returns, and futures dropped at any await while their tasks run on |
| base64 streams (`request_encode.rs`, `upload.rs`) | carry buffer, pending bytes | encode, decode | chunk borders; lengths announced before the bytes exist |
| upload (`upload.rs`) | none | try hosts in order | each host has its own idea of success |
| admin log (`admin.rs`) | counters, bounded list | count, take an id, append | three steps of concurrent handlers that may be dropped between them |
| configuration, allocator | none | parsing | - |

Interaction: a handler fetches images through the fetch service, stores them
and the encoded body as blobs, sends the body upstream, removes the blobs,
uploads the images of the response and records the answer.

Correct means: a URL is downloaded once however many requests want it; every
waiting request is answered; the budgets hold exactly; nothing is read after it
was removed; what goes upstream or to a host is the image, as long as announced;
an answered request holds nothing; the log agrees with the answers.

### Go proxy (`main.go` and files beside it)

The predecessor of the Rust proxy, with the same parts: request pipeline,
inline-data cache with background fetch, response de-duplication, admin log,
memory tuning.

### cloudflare

`r2-cleaner` deletes old objects page by page; `task-dashboard` is a user
interface over the gateway's query API.

## 2. Plan

Done, in this order:

1. `TaskRepository`, `TaskStates`, `AsyncGateway`: the task lifecycle with
   crashes, shutdown and lost statements; refinement of the abstract state
   machine; proofs.
2. `FetchService`: shared downloads with cancellation, both sides; proofs.
3. `TaskQuery`: cache-then-database reads with expiry, deletion and restarts;
   proofs.
4. `BlobRuntime`, and on top of it `Uploader`, `AdminLog` and `ProxyRequest`:
   the life of concurrent requests of the Rust proxy; `BlobStore`, what the
   blob runtime promises, and its refinement; proofs.
5. `ImageCache`: memory and disk cache, two services, failures and crashes;
   proofs.
6. `Base64Stream` and `ImageTransfer`: an image from the server to the body and
   from a response to a host; proofs.

Left:

7. `TaskListing`: the list of tasks with its own cache and the page cursor that
   has whole seconds.
8. `BackgroundFetch` (Go), the predecessor of `FetchService`, with its own
   timing of result, notification and cache fill.
9. `RateLimiter`, `R2Cleaner`: small sequential components.

## 3. Modules

| module | models |
|---|---|
| `TaskRepository` | one row of `tasks` and every statement that writes it, as a function from row to row |
| `TaskStates` | abstract specification: the task state machine of the design (section 5.7 of the A3 design document) |
| `AsyncGateway` | all processes of the gateway around these rows; INSTANCEs `TaskStates` |
| `AsyncGateway_proofs` | its theorems |
| `MCAsyncGateway` | its instance for TLC |
| `FetchService` | `InlineDataUrlFetchService`, its tasks and waiters |
| `FetchService_proofs` | its theorems |
| `TaskQuery` | the reads of `query_handler.go` over `TaskCache` |
| `TaskQuery_proofs` | its theorems |
| `MCTaskQuery` | its instance for TLC |
| `BlobRuntime` | `blob_runtime.rs`: its operations and, as `BlobSpec`, what any use of them may look like |
| `BlobStore` | abstract specification: a store of blobs with one atomic step per call |
| `BlobRuntime_proofs` | its theorems, the refinement of `BlobStore` among them |
| `Uploader` | the image hosts: their order and when each accepts |
| `AdminLog` | counters and log of `admin.rs` |
| `ProxyRequest` | handlers and spawned tasks of the router; EXTENDS the three above |
| `ProxyRequest_proofs` | its theorems |
| `MCProxyRequest` | its instance for TLC |
| `ImageCache` | `MemoryCache` and `DiskCache` of `cache.rs` |
| `ImageCache_proofs` | its theorems |
| `MCImageCache` | its instance for TLC |
| `Base64Stream` | the encoder of request bodies and the decoder of uploads |
| `ImageTransfer` | the download of an image, composed with the streams |
| `ImageTransfer_proofs` | its theorems |

### AsyncGateway

A task is one submission. `rows` and `payload` survive a crash; all else is the
process. A row keeps what decisions are made on: status, the dispatched mark,
whether `finished_at` is set, whether the heartbeat is older than the stale
threshold (`Age` lets time pass), and the error code. `Exec` is a statement: it
is atomic, and while `faults < MaxFaults` it may fail with or without having
been applied. Handlers and workers carry a program counter, one step for each
statement or queue operation; `SubmitTestClosed` and `SubmitSend` are separate
because the code tests the flag and then sends. The `WroteRequest` callback is
`mark`, which moves on its own. Shutdown walks through `down`; `ProcessDies` is
a crash or the exit, and clears all memory. `sent` is a history variable.
Symmetry of tasks and workers is sound: nothing orders them.

Left out: the text of requests and answers, encryption, validation (a refused
body never reaches the store), metrics, a second gateway process on the same
database (the repository deploys one).

### FetchService

A call of `fetch` has a program counter `pc`, the spawned future of the
`FetchTask` it created has `tpc`. Steps are separated at every await and
between the atomic operations of different locks, since the runtime is
multi-threaded. `Cancel` drops a call at any await; its waiter is then dropped
in the steps `Leave`, `Abort`, `Unlink` of `Drop`. `bridge`, chosen in `Init`,
tells the request side (downloads outlive their waiters, waits time out) from
the response side. `notify_waiters` wakes the calls that have made their
`Notified` future, which is what tokio promises. A cache is a set of URLs and
may have lost an entry before any read, which covers eviction, expiry, pruning
and a cache that is switched off; a disk read may fail.

Left out: image bytes, MIME types, the WebP conversion, sizes, the proxy
prefix of `maybe_wrap_external_proxy_url`.

### TaskQuery

A request looks each of its ids up in the cache (`GetTask`, one lock at a
time), reads the missing rows in one statement (`GetTasksByIDs`), stores each
row (`SetTask`) and answers. A single read is a batch of one. `st` is the row's
status with accepted, queued and running as one, which is all the handlers
distinguish; that a result is written once is `TerminalIsFinal` of
`AsyncGateway`, proved there. `ttl` counts down with `Tick`; an expired entry is
deleted by the look-up that finds it. A copy of a row carries the id and the
`owner_hash` it was read with, as `domain.Task` does: the rows that a statement
brings back are filed under their own ids, in no order, and it is the
`owner_hash` of the copy, not of the row, that is compared, and only when the
answer is made. So all owners share the entries. `told` is a history variable:
who was told which copy when asking for which id.

Left out: the form of responses, the limiter (a refused request does nothing),
and the list of tasks, which has a cache of its own.

### BlobRuntime, Uploader, AdminLog, ProxyRequest

A request is a program counter `pc` with one stage per await of its handler.
For a Gemini upstream, `task` holds the state of the tasks it spawned: one per
distinct URL of the body (`fetch_request_image`, behind the semaphore of
`MaxFetches`) and one for the encoded body (`store_stream`), all of which move
on their own. The loop that removes the replacements is kept reference by
reference (`next`), because a URL used twice has its blob removed twice. OpenAI
requests and aiapidev requests (create, poll with a limit of consecutive
failures and a deadline, normalise) take their own stages. `Cancel` drops the
handler at any await: the JoinSet aborts its fetches, while the body task, a
plain spawn, goes on. `finalize_admin_response` is three steps: count
(`Count`; the counters of `apply_admin_stats`, which no property compares with
each other in between), take an id (`TakeId`) and push under the lock
(`PushEntry`). Only the last one can be dropped: there is no await before it.

`BlobRuntime` separates load and compare-and-swap of `try_inline_reserve`, and
start and end of a spill write. A blob too large for memory may start a spill
at once; any other takes one unit of `HotBudget`. Blobs are named by request
and slot, which stands for the id the runtime counts up.

`BlobStore` is what callers of the runtime rely on. It has no counter, no
compare-and-swap, no pending writes and no removed flags: a blob is absent, in
memory, with the cache, on disk, lost or gone, and every step moves one blob.
Memory is given out only while fewer blobs than the budget are there, counted
in blobs. `AtomicStore` maps the runtime's state to it (`PlaceOf`) and says that
every step of the runtime is one of these moves or does not show. This does not
follow from how `ProxyRequest` is built: a reservation that was granted on a
stale counter, a blob whose file is counted before it is written, or a removal
that gives a blob back twice is no move of `BlobStore`.

`Uploader` keeps a reply of a host as status and presence of a URL, because R2
looks at the status alone, uguu at both and kefan at the body alone. A mode that
`parse_image_host_mode` does not know has no hosts, so every upload fails.

Left out: JSON, headers, the texts of errors, signing and multipart framing,
the HTML pages, durations. What JSON decides is a choice of the model.

### ImageCache

Every file access of a get, a set or a removal is a step, and so is the listing
that pruning starts from, which reads all meta files (file by file in the code;
each is read once, and what changes meanwhile is a listing that is stale a
little earlier). `op` is the disk operation that holds the service's `io_lock`,
with what it remembers. Any access may fail: `GetMeta` and `GetBody` then report
an error, `SetFails` ends a set at any of its writes, the open of the meta file
included, `Scan` passes over meta files it cannot read, `ScanFails` gives up on
the directory, and `RemovalFails` leaves a meta file in place whose size is
subtracted all the same. `MaxFaults` bounds these and the crashes together; the
errors of reads, which change nothing, are not counted. Images may be empty.

`meta` and `body` are the contents of the
files: an image, `Torn` (truncated, not all written) or `Absent`. `byAge` is the
order of the modification times that pruning sorts by. `damaged` records the
URLs whose last set was cut short by a crash or an error, or overlapped one of
the other service, or whose meta file resisted its removal: the code makes no
promise for them beyond the next set. `unpruned` records that a crash or a
failed access came since the last complete scan, since when the directory may
be above its budget.
Memory hits, eviction by recency and copies of disk hits are whole operations,
as the code does them under one lock. `items` maps each URL to its entry and
`recent` is the order of use. A sum of sizes is the number of bytes in a set
(`BytesOf`), so that the budgets are about cardinalities; the listing that
pruning works from is a choice among the orderings that agree with `byAge`
(`Listings`, of which there is always one).

### Base64Stream, ImageTransfer

The bytes of an image are its positions, so a dropped, repeated or moved byte
is seen. The encoder's carry buffer keeps what earlier rounds left in it, as in
the code. The decoder is polled with buffers of any size and must fill its
announced length; broken symbols and leftover characters must end in an error.
Each chunk of 32 KiB of text is decoded as a text of its own, so padding at the
end of an inner chunk is accepted and decodes to fewer bytes (`bad`, `padded`,
`Lost`), while `decoded_base64_len` looks at the end of the text only: such a
text is delivered short of its announced length, and `DeliveredExactly` says
that it is the only one.
`ImageTransfer` adds the download: response with a length, chunks or neither,
limit before and during reading, one retry for what `should_retry_fetch_error`
lets pass, conversion, the total timeout.

## 4. Runs

| run | asks | bounds | result |
|---|---|---|---|
| `gateway_safety` | inductive invariant, a waiting task in exactly one hand, five more safety properties, finality of results, refinement of `TaskStates` | 2 tasks, 2 workers, queue of 1, scan limit 2, 1 death, 1 failed statement | passes, 318 thousand states |
| `gateway_liveness` | does every accepted task end? | 2 tasks, 1 worker, 1 death, no failed statement | passes, 166 thousand states |
| `gateway_stranded` | does a restart lose a running task? | 1 task, 1 worker, 1 death | violated |
| `gateway_recovery` | does recovery fail a dispatched task? | the same | violated |
| `gateway_panic` | does every late submission get its 503? | the same | violated |
| `fetch_calls` | inductive invariant, live entries, single flight, no empty and no lost wake-up, limit on downloads; is every call answered? | 2 calls, 2 URLs, limit 1, both sides | passes, 194 thousand states |
| `fetch_hang` | is every call answered, aborts included? | 2 calls, 1 URL | violated |
| `task_query` | do all copies and answers agree on a result, each filed under its own id, none ahead of the row, none told to a stranger; does the cache forget what is no longer true? | 2 tasks of different owners, 2 handlers of which one takes batches, TTLs 1 and 2 | passes, 740 thousand states |
| `proxy_requests` | accounting of memory, files and log; refinement of `BlobStore`; no read of what is gone; nothing held after an answer; upload policies; does every request end? | 2 requests, 2 URLs, budget of 1 blob, log of 1, 1 permit, 2 poll failures, 2 images per response, host R2 | passes, 343 thousand states |
| `proxy_leak` | does a failed or dropped request give everything back? | 1 request, 2 URLs, budget of 1 | violated |
| `disk_cache` | budgets; whole entries; reads that fail only for a reason | 2 services, 2 URLs, 2 images of sizes 1 and 2, budgets 2, 1 crash or failed access | passes, 1.08 million states |
| `image_transfer` | is what is sent the image, within the limit and as long as announced; does every download end? | images up to 19 bytes, limit 16, chunks of 4 and 8, buffers up to 7 | passes, 111 thousand states |

Why the bounds are enough to be interesting. Gateway: two tasks and one place
in the queue make it full; two workers finish in either order; one death gives
two lives, so every step can be cut by a crash and be recovered; one failed
statement can hit any step. The liveness run has one worker, so the tasks wait
for each other. Fetch: one call creates, the other joins, leaves or comes late;
two URLs with a limit of one take the direct path. Query: a late fill needs two
handlers, and either may ask again and read what it left; a batch of two tasks
has rows to mix up, of different owners; the time to live of a result is longer
than that of a pending task, as in the code. Proxy: one request has
three references to two URLs, so that a blob is removed twice and a fetch waits
for the permit; its three blobs and the body of the other request compete for
one unit, so reservations race, lose and spill; the log has room for one, so
the second answer pushes the first one out; of two images in a response the
first upload may fail and the second succeed, or the other way round, with one
host, since the order of hosts is the same for every image. Cache: one large or
two small images fill either budget, so every set may have to evict; one fault
can hit any access. `MemoryAlone` keeps
the memory cache of one service empty while the other one works on the disk:
the two caches meet only in a hit, which copies what the disk gave, and a hit
of any content is in the run. Transfer: the largest image is more than four
chunks and exceeds the limit by one read; chunk 4 is not a multiple of three,
as 64 KiB is not, so the carry takes all its values; reads cross every group
border. The theorems remove the bounds for the safety properties they state.

The violation runs:

- `gateway_stranded`: the scan runs once, at start, and skips running rows
  whose heartbeat is recent. After a quick restart such a row stays `running`
  for ever. The design says no answered task id may be lost.
- `gateway_recovery`: the scan looks for the payload first. The cleaner may
  have deleted the payload of a dispatched task, which then fails with
  `recovery_payload_missing`; the design says it becomes uncertain.
- `gateway_panic`: a handler past the draining gate and the flag test sends on
  the closed channel; the client's connection is dropped, not answered 503.
- `fetch_hang`: on the response side a waiter that leaves while another call
  has found or created the task but not yet registered counts as the last one
  and aborts the download. The other call waits on `notified.await`, which has
  no timeout there, until its own client gives up.

- `proxy_leak`: a request whose second image fails returns at once, and the
  blob of the first one is never removed; the same when the client leaves. The
  memory redesign promises a per-request scope that reclaims on failure and
  cancellation. Hot memory lost this way is lost until the process restarts.

Each violated property is paired with a passing one that excludes exactly this
case: `AcceptedIsSettled` excepts `Stranded`, `AnsweredUnlessAborted` excepts
`Abandoned`, `AnsweredHoldsNothing` excepts answers 502 and dropped requests.
`AllAnswered` inherits the hang of `fetch_hang`: it excepts a handler that waits
for an image of its response (`rewrite`, `normalize`) while another client has
left (`MayHang`).

`CHECK_DEADLOCK FALSE` for the gateway, the fetch service, the proxy's requests
and the transfer: all submissions, calls or requests may be over, and the bound
on deaths may leave the gateway off for good.

## 5. Fairness

`AsyncGateway`: goroutines that can run do run; `NEWAPI_REQUEST_TIMEOUT_MS`
ends every forward; the grace period ends every shutdown; the process exits
after shutdown or after a panic in the scan, and the platform that runs its
container restarts it. Nothing is assumed of clients, signals,
crashes, heartbeat ages or the cleaner. Weak fairness is enough: no step that
must happen is disabled again and again.

`FetchService`: the runtime polls every woken future, and `total_timeout` or
the HTTP client's own timeouts end every download. Nothing is assumed of
clients, in particular not that a waiting client gives up.

`ProxyRequest`: handlers and tasks that can go on are polled; the timeouts of
the HTTP clients end every call to the upstream, a server or a host; the
deadline of a poll loop passes. The fetch of an image of the response goes
through the fetch service without its bridge, which waits for a shared download
without a timeout; it is promised to return only while no other client has gone
away (`ResponseFetch(r) /\ ~MayHang(r)`), since only a dropped waiter aborts a
download. Fetches of request images have the bridge and a timeout. Nothing is assumed of clients, and never that a
spill write succeeds, that a body overflows its buffer or that an upstream's
task ends.

`ImageTransfer`: the client's own timeout makes every download go on or fail,
also without `total_timeout`; the handler reads a stored image to its end. No
fairness for single outcomes: the server may always choose the worst one.

`TaskQuery`: handlers that have started run on, and time passes. Nothing is
assumed of clients, workers, the cleaner or restarts; polling may go on for
ever, and does in the behaviours that matter.

## 6. Proofs

The modules `*_proofs` prove, for all values of the constants that the named
assumptions allow, every invariant and every action property that a passing run
checks, and both refinements, of `TaskStates` and of `BlobStore`. TLC evaluates
the same `IInv` in the runs of the gateway and the fetch service; in `TaskQuery`
it is the conjunction of the three properties with the types and `OwnersKept`.

*Gateway.* No property is inductive alone: `NoReplayOfDispatched`, say, needs
to know that whoever is about to write a row is its only holder, and what state
the row is in then. `IInv` therefore adds to `OneOwner` what each holder's row
looks like (`HeldRow`, `WorkerRow`), what exists at which stage of the boot
(`BootCoherent`) and that finished rows are stamped (`RowCoherent`). There is
one lemma per action or group of similar actions. `StepIsAbstract` classifies
every change of a row as one of the moves of `TaskStates`.

Two theorems are the safety side of `AcceptedIsSettled`. `WaitingTaskHeld`: a
task that waits to be sent is in exactly one hand. That it is not in two is
`OneOwner`. That it is in one (`NothingForgotten`) is inductive on top of
`IInv`: a handler or worker lets go only of a row it has moved on, because it
finds the row and the payload it expects (`HeldRow`, `ReplayablePayload`); a
scan with room for all tasks takes in all that wait, by cardinality. Its two
premises are the two ways the code does forget a task until the next start: a
failed statement, and more rows than `ScanLimit`. `StrandedSound`: while a
process serves, a running row loses its worker only through a failed statement
(`StrandedByFaultOnly`, an action property that only the proof states), so what `gateway_stranded` shows is the only other way.

*Fetch.* `IInv` says that a call's task is a task for the call's URL, that a
wake-up means a result, that `waiter_count` is the number of calls holding a
waiter, and that an entry of the map leads to a task that is alive or about to
be unlinked; on the request side a task keeps its entry until it has woken its
waiters. `CallOnly` and `TaskOnly` handle the steps that touch one call or one
task; insertion, removal, joining and leaving are proved one by one, with the
cardinality theorems for the counter and the limit. `DownloadLimit` maps each
download to its entry, an injection. `NoLostWakeup`, the safety side of
`AnsweredUnlessAborted`, is inductive on top of `IInv`: a call begins to wait
only when it found no result, so its task has yet to publish one, and the task
passes `notify_waiters` only by waking all that wait.

*Query.* A copy comes into being when a row is read, with the id, the status and
the owner of the row; `NoNewResult` says that every step other than `FinishTask`
only moves copies under the id they bear, or drops them (`CopiedOnly`), and that
the rows of a batch go where their ids say (`LoadedRow`). `FinishTask` meets a
pending row, of which by `NotAhead` no copy shows a result; so `OneResult` and
`NotAhead` are inductive together, and neither is alone. `OwnerOnly` needs
`OwnersKept`, that every copy still has the owner of its row: the test in the
answer looks at the copy only.

*Blob runtime.* `HotAccounting` is not inductive: an exchange keeps to the
budget because the value it compares with left room when it was loaded
(`SeenRoom`), and it adds a blob that counts because only blobs with a handle
are ever removed (`RemovedStored`). With the cardinality theorems each action
adds one, takes one or leaves the set alone; the second removal of a blob is
the case in which nothing may change. `RuntimeIsAtomic` rests on the same
invariant: an exchange that succeeds is `PutInMemory` only because the counter
is the number of blobs in memory and the value it was compared with left room;
load, failed exchange, start of a write and second removal are stutters.

*Proxy.* `ProxyInv` is the types, the blob invariant, and that the loop over the
replacements starts at one (without which the blob it removes might not be a
blob of the request). `StepOK` says of every action that it keeps the types and
is a step of `BlobNext` or leaves the blobs alone (a lemma, no result: the
module is built that way); the invariant of `BlobRuntime` and its refinement of
`BlobStore` then carry over, whatever the handlers do.

`ReadsLiveBlobs` and `AnsweredHoldsNothing` say nothing of the steps in between,
where the handler waits for tasks that store its blobs. `LiveInv` ties the three
together: what a blob is by the state of the task that stores it (`SlotBlob`),
and which blobs there are by the stage of the handler (`StageOK`): none removed
until the body is encoded, in the loop over the replacements those behind it
(`Cleaning`), afterwards none but the body, at last nothing (`Quiet`). The
case that needs care is the second removal of an image referred to twice: it
finds the image removed and its file gone, and changes nothing. A step of one
request leaves the blobs of the others alone (`BlobOnly`, `ReqOnly`), so
`LiveInv` is proved request by request. `AdminInv` adds to `AdminAccounting`
that ids are not above the counter and that nobody is counted early, which makes
a new id a fresh one; `UploadPolicy` rests on `OutputsInv`, that an image
without a URL belongs to a Gemini response that is still on its way.

*Transfer.* `TransferInv` has a part for each machine, and `Phases` says which
of them is at work. The download: what has come in is within the limit and
belongs to the image at the server. The encoder: what was written are the first
bytes in order, a multiple of three, and the front of the buffer holds the ones
that follow; a read continues the buffer (`BufferContinues`), so whole groups
continue the text. The decoder: every chunk so far was whole groups without an
invalid symbol, with padding in its last group at most, and what was delivered
followed by what is pending is what these chunks stand for, fewer bytes by the
padding among them (`DecodedTo`, `ReaderInv`), while the announced length is
that of all groups less the padding at the end; a poll that has put nothing into
its buffer had
room, so that it only ends the stream at the end of the text. Chunk sizes, image
sizes, limits and buffers are arbitrary; of `StreamChars` it is assumed that it
is a multiple of four, as the constant of the code is.

*Cache.* The memory half: taking an entry out of the list, evicting a prefix and
appending keep list and entries in step, and the bytes of what is left are the
bytes of before without those of the evicted ones; so `cur_bytes` is exact and
no subtraction saturates. The loop's end is where an exact count matters: when
the list is empty the count is zero, and the new entry fits alone.

The disk half (`DiskOK`) has to say what a service may rely on between two file
accesses while others work on the same files. `WholeUnlessDamaged` is not
inductive: an undisturbed set has no rival that could still remove its body file
(`SetAlone`) and finds what it wrote (`SetKeeps`); a body file about to be
removed has already lost its meta file, unless the entry was set since
(`Orphaned`); an undisturbed get sees the two files agree (`GetAgrees`).
`DiskBudget` is not inductive either, as a directory may be above its budget
while somebody works. `BudgetOrClaim` says that then, unless `unpruned`, some
service will bring it back (`Claim`): it has yet to list the directory, or the bytes that are there
now are all on the list it works from. The last service to finish a set lists
what the others wrote, and whoever writes in the meantime has a scan of its own
to come; removals by others only make a list too long. `VictimBytes` and
`BytesOf` make each of these steps an inclusion of finite sets.

Only model-checked: liveness (`AcceptedIsSettled`, `AnsweredUnlessAborted`,
`CacheConverges`, `AllAnswered`, `TransferEnds`), which needs fairness and
ENABLED, out of the prover's reach. The theorems above say what must be in hand
for them to hold, not that it comes to pass. That `Listings` always has a member
follows from `byAge` naming each meta file once (`TypeOK`), but by an induction
over the list, which the prover cannot do either; no theorem needs it.

## 7. Mutants

Definitions commented "Variant" or "Mutant" are plausible mistakes in the code they stand
next to: a dropped guard, a swapped order, a forgotten reset. Each property
has one that breaks it under its own run; they are listed in `PROJECT.json`.

## 8. Not modelled

- cryptography (owner hash, payload encryption, request signing), JSON
  validation and rewriting, pixels, configuration, metrics, HTML: pure data or
  out of reach;
- several gateway processes on one database, which the code does not support:
  the scan of one would take the tasks of another;
- in the Rust proxy: the choice of an upstream and its token from headers
  (`upstream.rs`), and upload variants that only tests call;
- the Go proxy, which the Rust proxy replaces and whose fetches and caches have
  the shape of the ones modelled here, the rate limiter, the list of tasks and
  the Cloudflare workers: items 7 to 9 of the plan.
