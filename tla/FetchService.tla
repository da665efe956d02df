----------------------------- MODULE FetchService -----------------------------
(***************************************************************************)
(* InlineDataUrlFetchService of rust-sync-proxy (cache.rs): downloads of   *)
(* image URLs shared between concurrent requests, in front of a memory and *)
(* a disk cache.  Two instances run in the program: the request side       *)
(* (background bridge on: a download outlives its waiters) and the         *)
(* response side (bridge off: the last waiter to leave aborts it).         *)
(*                                                                         *)
(* Steps are separated where another thread of the runtime can get in      *)
(* between: at every await, and between atomic operations.  A caller makes *)
(* one call, so the FetchTask a caller creates is named after it.  A cache *)
(* that is switched off is one that evicts at once; sizes, MIME types and  *)
(* the WebP conversion are left out.                                       *)
(***************************************************************************)
EXTENDS Naturals, FiniteSets

CONSTANTS
    Callers,       \* calls of fetch
    Urls,
    None,          \* no URL, no task
    MaxInflight    \* max_inflight; 0 turns sharing off

ASSUME FetchAssumption ==
    /\ None \notin Callers \cup Urls
    /\ IsFiniteSet(Callers) /\ IsFiniteSet(Urls)
    /\ MaxInflight \in Nat

VARIABLES
    bridge,    \* enable_background_bridge of this instance
    mem, disk, \* the URLs in the memory cache and in the disk cache
    inflight,  \* the map from URLs to FetchTasks
    pc, url,   \* each call: the step it is at, its argument
    wt,        \* the FetchTask it waits for
    fired,     \* its Notified future has been woken
    answer,    \* what it returned
    tpc,       \* each FetchTask: the step its spawned future is at
    result,    \* FetchTask.result
    waiters,   \* FetchTask.waiter_count
    handle,    \* FetchTask.abort_handle is set
    aborting   \* abort() was called; takes effect at an await

cacheVars == <<mem, disk>>
callVars  == <<pc, url, wt, fired, answer>>
taskVars  == <<tpc, result, waiters, handle, aborting>>
vars == <<bridge, cacheVars, inflight, callVars, taskVars>>

-----------------------------------------------------------------------------
LookingUp  == {"mem", "disk", "lookup", "start"}
Direct     == {"direct1", "direct2", "directStore"}
Waiting    == {"check", "wait", "woken", "expired"}
CallPc     == {"idle", "spawn", "handle", "join", "leave", "abort", "unlink", "done"}
                 \cup LookingUp \cup Direct \cup Waiting
Downloading == {"fetch1", "fetch2"}
TaskPc     == {"none", "publish", "notify", "unlink", "store", "done", "aborted"}
                 \cup Downloading

\* An image, from a cache or a download; an error, a time-out included, or
\* nobody to take it; or the error "background fetch finished without result".
Answers == {"none", "image", "error", "noresult"}

TypeOK ==
    /\ bridge \in BOOLEAN
    /\ mem \subseteq Urls /\ disk \subseteq Urls
    /\ inflight \in [Urls -> Callers \cup {None}]
    /\ pc \in [Callers -> CallPc]
    /\ url \in [Callers -> Urls \cup {None}]
    /\ wt \in [Callers -> Callers \cup {None}]
    /\ fired \in [Callers -> BOOLEAN]
    /\ answer \in [Callers -> Answers]
    /\ tpc \in [Callers -> TaskPc]
    /\ result \in [Callers -> {"none", "image", "error"}]
    /\ waiters \in [Callers -> Nat]
    /\ handle \in [Callers -> BOOLEAN]
    /\ aborting \in [Callers -> BOOLEAN]

Init ==
    /\ bridge \in BOOLEAN
    /\ mem = {} /\ disk \in SUBSET Urls
    /\ inflight = [u \in Urls |-> None]
    /\ pc = [c \in Callers |-> "idle"]
    /\ url = [c \in Callers |-> None]
    /\ wt = [c \in Callers |-> None]
    /\ fired = [c \in Callers |-> FALSE]
    /\ answer = [c \in Callers |-> "none"]
    /\ tpc = [c \in Callers |-> "none"]
    /\ result = [c \in Callers |-> "none"]
    /\ waiters = [c \in Callers |-> 0]
    /\ handle = [c \in Callers |-> FALSE]
    /\ aborting = [c \in Callers |-> FALSE]

-----------------------------------------------------------------------------
(* fetch: the caches, then the inflight map.                               *)

Goto(c, p) == pc' = [pc EXCEPT ![c] = p]

\* fetch returns; a call that holds a FetchTaskWaiter drops it first.
Return(c, a) ==
    /\ answer' = [answer EXCEPT ![c] = a]
    /\ Goto(c, IF pc[c] \in Waiting THEN "leave" ELSE "done")
    /\ fired' = [fired EXCEPT ![c] = FALSE]
    /\ UNCHANGED <<url, wt>>

Call(c) ==
    /\ pc[c] = "idle"
    /\ \E u \in Urls : url' = [url EXCEPT ![c] = u]
    /\ Goto(c, "mem")
    /\ UNCHANGED <<bridge, cacheVars, inflight, wt, fired, answer, taskVars>>

\* An entry may have been evicted by now.
MemoryGet(c) ==
    /\ pc[c] = "mem"
    /\ \/ url[c] \in mem /\ Return(c, "image") /\ UNCHANGED mem
       \/ /\ mem' = mem \ {url[c]}
          /\ Goto(c, "disk") /\ UNCHANGED <<url, wt, fired, answer>>
    /\ UNCHANGED <<bridge, disk, inflight, taskVars>>

\* A hit is copied to the memory cache; an entry may have expired or been
\* pruned; a file that cannot be read or parsed fails the call.
DiskGet(c) ==
    /\ pc[c] = "disk"
    /\ \/ url[c] \in disk /\ mem' = mem \cup {url[c]} /\ UNCHANGED disk /\ Return(c, "image")
       \/ url[c] \in disk /\ UNCHANGED cacheVars /\ Return(c, "error")
       \/ /\ disk' = disk \ {url[c]} /\ UNCHANGED mem
          /\ Goto(c, "lookup") /\ UNCHANGED <<url, wt, fired, answer>>
    /\ UNCHANGED <<bridge, inflight, taskVars>>

\* The map is locked, read and unlocked; a task found is joined afterwards.
JoinTask(c) ==
    /\ inflight[url[c]] # None
    /\ wt' = [wt EXCEPT ![c] = inflight[url[c]]]
    /\ Goto(c, "join")
    /\ UNCHANGED <<url, fired, answer>>

Lookup(c) ==
    /\ pc[c] = "lookup"
    /\ \/ JoinTask(c)
       \/ /\ inflight[url[c]] = None
          /\ Goto(c, "start") /\ UNCHANGED <<url, wt, fired, answer>>
    /\ UNCHANGED <<bridge, cacheVars, inflight, taskVars>>

\* Variant: one too many.
FullAfterNext == Cardinality({u \in Urls : inflight[u] # None}) > MaxInflight

Full == Cardinality({u \in Urls : inflight[u] # None}) >= MaxInflight

\* Variant: the task is not put into the map.
StartTaskUnlisted(c) ==
    /\ pc[c] = "start"
    /\ \/ JoinTask(c)
       \/ /\ inflight[url[c]] = None
          /\ wt' = [wt EXCEPT ![c] = c]
          /\ Goto(c, "spawn")
          /\ UNCHANGED <<url, fired, answer>>
    /\ UNCHANGED <<bridge, cacheVars, inflight, taskVars>>

\* The second look, under the lock that inserts.
StartTask(c) ==
    /\ pc[c] = "start"
    /\ \/ JoinTask(c) /\ UNCHANGED inflight
       \/ /\ inflight[url[c]] = None /\ Full
          /\ Goto(c, "direct1")
          /\ UNCHANGED <<inflight, url, wt, fired, answer>>
       \/ /\ inflight[url[c]] = None /\ ~Full
          /\ inflight' = [inflight EXCEPT ![url[c]] = c]
          /\ wt' = [wt EXCEPT ![c] = c]
          /\ Goto(c, "spawn")
          /\ UNCHANGED <<url, fired, answer>>
    /\ UNCHANGED <<bridge, cacheVars, taskVars>>

\* tokio::spawn; the future may run before the handle is stored.
Spawn(c) ==
    /\ pc[c] = "spawn"
    /\ tpc' = [tpc EXCEPT ![c] = "fetch1"]
    /\ Goto(c, "handle")
    /\ UNCHANGED <<bridge, cacheVars, inflight, url, wt, fired, answer, result, waiters, handle, aborting>>

StoreHandle(c) ==
    /\ pc[c] = "handle"
    /\ handle' = [handle EXCEPT ![c] = TRUE]
    /\ Goto(c, "join")
    /\ UNCHANGED <<bridge, cacheVars, inflight, url, wt, fired, answer, tpc, result, waiters, aborting>>

\* store_in_caches: memory, then disk, whose errors are ignored.
StoreInCaches(u) ==
    /\ mem' = mem \cup {u}
    /\ disk' \in {disk, disk \cup {u}}

\* direct_fetch in the caller: one retry of a retryable failure.
DirectFetch(c) ==
    /\ \/ pc[c] \in {"direct1", "direct2"} /\ Goto(c, "directStore") /\ UNCHANGED <<cacheVars, url, wt, fired, answer>>
       \/ pc[c] \in {"direct1", "direct2"} /\ Return(c, "error") /\ UNCHANGED cacheVars
       \/ pc[c] = "direct1" /\ Goto(c, "direct2") /\ UNCHANGED <<cacheVars, url, wt, fired, answer>>
       \/ pc[c] = "directStore" /\ StoreInCaches(url[c]) /\ Return(c, "image")
    /\ UNCHANGED <<bridge, inflight, taskVars>>

-----------------------------------------------------------------------------
(* wait_for_task.                                                          *)

\* FetchTaskWaiter::new, and the Notified future that the next
\* notify_waiters wakes.
Join(c) ==
    /\ pc[c] = "join"
    /\ waiters' = [waiters EXCEPT ![wt[c]] = @ + 1]
    /\ Goto(c, "check")
    /\ UNCHANGED <<bridge, cacheVars, inflight, url, wt, fired, answer, tpc, result, handle, aborting>>

\* published_result, with what to do when there is none.
Published(c, none) ==
    \/ result[wt[c]] # "none" /\ Return(c, result[wt[c]])
    \/ result[wt[c]] = "none" /\ none

\* Variant: wait without a first look at the result.
WaitUnchecked(c) ==
    /\ pc[c] = "check"
    /\ Goto(c, "wait")
    /\ UNCHANGED <<bridge, cacheVars, inflight, url, wt, fired, answer, taskVars>>

CheckResult(c) ==
    /\ pc[c] = "check"
    /\ Published(c, Goto(c, "wait") /\ UNCHANGED <<url, wt, fired, answer>>)
    /\ UNCHANGED <<bridge, cacheVars, inflight, taskVars>>

\* Woken, or out of patience; only the bridge has a wait_timeout.
Wake(c) ==
    /\ pc[c] = "wait"
    /\ \/ fired[c] /\ Goto(c, "woken")
       \/ bridge /\ ~fired[c] /\ Goto(c, "expired")
    /\ UNCHANGED <<bridge, cacheVars, inflight, url, wt, fired, answer, taskVars>>

\* The result is read once more.
TakeResult(c) ==
    /\ \/ pc[c] = "woken" /\ Published(c, Return(c, "noresult"))
       \/ pc[c] = "expired" /\ Published(c, Return(c, "error"))
    /\ UNCHANGED <<bridge, cacheVars, inflight, taskVars>>

\* Drop of the FetchTaskWaiter.
Leave(c) ==
    /\ pc[c] = "leave"
    /\ waiters' = [waiters EXCEPT ![wt[c]] = @ - 1]
    /\ LET quiet == waiters[wt[c]] # 1 \/ bridge
       IN  /\ Goto(c, IF quiet THEN "done" ELSE "abort")
           /\ wt' = [wt EXCEPT ![c] = IF quiet THEN None ELSE @]
    /\ UNCHANGED <<bridge, cacheVars, inflight, url, fired, answer, tpc, result, handle, aborting>>

\* The last waiter takes the handle, if it is there yet, and aborts.
Abort(c) ==
    /\ pc[c] = "abort"
    /\ aborting' = [aborting EXCEPT ![wt[c]] = @ \/ handle[wt[c]]]
    /\ handle' = [handle EXCEPT ![wt[c]] = FALSE]
    /\ Goto(c, "unlink")
    /\ UNCHANGED <<bridge, cacheVars, inflight, url, wt, fired, answer, tpc, result, waiters>>

\* Variant: the entry stays in the map.
UnlinkForgotten(c) ==
    /\ pc[c] = "unlink"
    /\ Goto(c, "done")
    /\ wt' = [wt EXCEPT ![c] = None]
    /\ UNCHANGED <<bridge, cacheVars, inflight, url, fired, answer, taskVars>>

\* At once, or in a spawned future when the map is locked.  Only the entry
\* of this very task.
Unlink(c) ==
    /\ pc[c] = "unlink"
    /\ inflight' = [u \in Urls |-> IF u = url[c] /\ inflight[u] = wt[c] THEN None ELSE inflight[u]]
    /\ Goto(c, "done")
    /\ wt' = [wt EXCEPT ![c] = None]
    /\ UNCHANGED <<bridge, cacheVars, url, fired, answer, taskVars>>

\* Variant: a cancelled call does not drop its waiter.
CancelKeepsWaiter(c) ==
    /\ pc[c] \in LookingUp \cup Direct \cup Waiting
    /\ answer' = [answer EXCEPT ![c] = "error"]
    /\ Goto(c, "done")
    /\ UNCHANGED <<bridge, cacheVars, inflight, url, wt, fired, taskVars>>

\* The client goes away: the call's future is dropped at an await, also at
\* the one between the two caches of store_in_caches.
Cancel(c) ==
    /\ pc[c] \in LookingUp \cup Direct \cup Waiting
    /\ Return(c, "error")
    /\ \/ UNCHANGED mem
       \/ pc[c] = "directStore" /\ mem' = mem \cup {url[c]}
    /\ UNCHANGED <<bridge, disk, inflight, taskVars>>

-----------------------------------------------------------------------------
(* The spawned future of task k.                                           *)

TaskGoto(k, p) == tpc' = [tpc EXCEPT ![k] = p]

\* direct_fetch: bounded by total_timeout, with one retry.
Download(k) ==
    /\ \/ tpc[k] \in Downloading /\ TaskGoto(k, "publish")
       \/ tpc[k] = "fetch1" /\ TaskGoto(k, "fetch2")
    /\ UNCHANGED <<bridge, cacheVars, inflight, callVars, result, waiters, handle, aborting>>

\* Variant: the result is not set before the waiters are woken.
PublishLate(k) ==
    /\ tpc[k] = "publish"
    /\ TaskGoto(k, "notify")
    /\ UNCHANGED <<bridge, cacheVars, inflight, callVars, result, waiters, handle, aborting>>

Publish(k) ==
    /\ tpc[k] = "publish"
    /\ \E r \in {"image", "error"} : result' = [result EXCEPT ![k] = r]
    /\ TaskGoto(k, "notify")
    /\ UNCHANGED <<bridge, cacheVars, inflight, callVars, waiters, handle, aborting>>

\* notify_waiters wakes every Notified future made before it.
NotifyWaiters(k) ==
    /\ tpc[k] = "notify"
    /\ fired' = [c \in Callers |-> fired[c] \/ (wt[c] = k /\ pc[c] \in {"check", "wait"})]
    /\ TaskGoto(k, "unlink")
    /\ UNCHANGED <<bridge, cacheVars, inflight, pc, url, wt, answer, result, waiters, handle, aborting>>

\* remove(&url): whichever task the entry names.
RemoveEntry(k) ==
    /\ tpc[k] = "unlink"
    /\ inflight' = [inflight EXCEPT ![url[k]] = None]
    /\ TaskGoto(k, IF result[k] = "image" THEN "store" ELSE "done")
    /\ UNCHANGED <<bridge, cacheVars, callVars, result, waiters, handle, aborting>>

StoreResult(k) ==
    /\ tpc[k] = "store"
    /\ StoreInCaches(url[k])
    /\ TaskGoto(k, "done")
    /\ UNCHANGED <<bridge, inflight, callVars, result, waiters, handle, aborting>>

\* An abort takes effect at an await of the future, if it gets there in time.
Aborted(k) ==
    /\ aborting[k]
    /\ tpc[k] \in Downloading \cup {"publish", "unlink", "store"}
    /\ TaskGoto(k, "aborted")
    /\ \/ UNCHANGED mem
       \/ tpc[k] = "store" /\ mem' = mem \cup {url[k]}
    /\ UNCHANGED <<bridge, disk, inflight, callVars, result, waiters, handle, aborting>>

-----------------------------------------------------------------------------
CallStep(c) ==
    \/ MemoryGet(c) \/ DiskGet(c) \/ Lookup(c) \/ StartTask(c) \/ Spawn(c) \/ StoreHandle(c)
    \/ DirectFetch(c) \/ Join(c) \/ CheckResult(c) \/ Wake(c) \/ TakeResult(c)
    \/ Leave(c) \/ Abort(c) \/ Unlink(c)

TaskStep(k) ==
    \/ Download(k) \/ Publish(k) \/ NotifyWaiters(k) \/ RemoveEntry(k) \/ StoreResult(k)

Next ==
    \E c \in Callers : Call(c) \/ CallStep(c) \/ Cancel(c) \/ TaskStep(c) \/ Aborted(c)

Spec == Init /\ [][Next]_vars

\* The runtime polls every woken future, and total_timeout or the client's
\* timeouts end every download.  Nothing is assumed of clients.
Fairness ==
    \A c \in Callers : WF_vars(CallStep(c)) /\ WF_vars(TaskStep(c) \/ Aborted(c))

FairSpec == Spec /\ Fairness

-----------------------------------------------------------------------------
(* Properties.                                                             *)

\* Task k is, or is about to be, downloading, or has not set its result.
Fetching(k) == pc[k] = "spawn" \/ tpc[k] \in Downloading \cup {"publish"}

\* An entry of the map leads to a task that will still be heard of, or
\* somebody is about to remove the entry: no call can be sent to wait for a
\* task that ended long ago.
EntryIsLive ==
    \A u \in Urls : LET k == inflight[u] IN
        k # None =>
           \/ Fetching(k)
           \/ tpc[k] \in {"notify", "unlink"}
           \/ \E c \in Callers : pc[c] \in {"abort", "unlink"} /\ wt[c] = k /\ url[c] = u

\* On the request side a URL is downloaded by one background task at a time,
\* however calls, time-outs and cancellations interleave.
SingleFlight ==
    bridge => \A k, l \in Callers :
        Fetching(k) /\ Fetching(l) /\ url[k] = url[l] => k = l

\* On the request side no more than max_inflight background downloads run.
DownloadsBounded ==
    bridge => Cardinality({k \in Callers : tpc[k] \in Downloading}) <= MaxInflight

\* "background fetch finished without result" is never returned: a waiter is
\* only woken once there is a result to read.
NoEmptyWake == \A c \in Callers : answer[c] # "noresult"

\* A call that waits and has not been woken waits for a task that will still
\* call notify_waiters: no task gets past it between the look at the result
\* and the wait, and only an abort, on the response side, can end one before.
NoLostWakeup ==
    \A c \in Callers : pc[c] = "wait" /\ ~fired[c] =>
        \/ Fetching(wt[c])
        \/ tpc[wt[c]] = "notify"
        \/ ~bridge /\ tpc[wt[c]] = "aborted"

\* Together: a call is woken when there is a result, and not otherwise.
WokenIffResult == NoEmptyWake /\ NoLostWakeup

\* The call waits for a task that was aborted under it.
Abandoned(c) == pc[c] = "wait" /\ tpc[wt[c]] = "aborted"

\* Every call gets an answer: no wake-up is lost between the look at the
\* result and the wait, unless the task it waits for was aborted.
AnsweredUnlessAborted ==
    \A c \in Callers : (pc[c] # "idle") ~> (answer[c] # "none" \/ Abandoned(c))

\* The tests: concurrent response-side fetches of one URL all come back.
EveryCallAnswered ==
    \A c \in Callers : (pc[c] # "idle") ~> (answer[c] # "none")
-----------------------------------------------------------------------------
(* The inductive invariant behind the safety properties.                   *)

Created(k) == pc[k] = "spawn" \/ tpc[k] # "none"
Holding    == Waiting \cup {"leave"}
Holders(k) == {c \in Callers : wt[c] = k /\ pc[c] \in Holding}

\* A call knows its URL, and the task it waits for is a task for that URL.
CallCoherent ==
    \A c \in Callers :
        /\ pc[c] # "idle" => url[c] \in Urls
        /\ pc[c] \in {"idle"} \cup LookingUp \cup Direct => wt[c] = None /\ tpc[c] = "none"
        /\ pc[c] \in {"spawn", "handle"} => wt[c] = c
        /\ pc[c] = "spawn" => tpc[c] = "none"
        /\ pc[c] \in {"join", "abort", "unlink"} \cup Holding => wt[c] # None
        /\ wt[c] # None => Created(wt[c]) /\ url[wt[c]] = url[c]
        /\ fired[c] => pc[c] \in Waiting
        /\ fired[c] \/ pc[c] = "woken" => wt[c] # None /\ result[wt[c]] # "none"
        /\ pc[c] \in {"abort", "unlink"} => ~bridge
        /\ answer[c] # "noresult"

\* A task sets its result before it wakes, unlinks and stores; waiter_count
\* is the number of calls that hold a waiter.
TaskCoherent ==
    \A k \in Callers :
        /\ tpc[k] \in {"notify", "unlink", "store", "done"} => result[k] # "none"
        /\ tpc[k] = "aborted" => aborting[k]
        /\ aborting[k] => ~bridge
        /\ handle[k] \/ aborting[k] => tpc[k] # "none"
        /\ waiters[k] = Cardinality(Holders(k))

\* The map: what an entry leads to, who removes it, and, on the request
\* side, that a task keeps its entry until it has woken its waiters.
MapCoherent ==
    /\ \A u \in Urls : inflight[u] # None =>
          /\ Created(inflight[u]) /\ url[inflight[u]] = u
          /\ tpc[inflight[u]] \notin {"store", "done"}
          /\ aborting[inflight[u]] =>
                \E c \in Callers : pc[c] = "unlink" /\ wt[c] = inflight[u]
    /\ bridge => \A k \in Callers :
          Fetching(k) \/ tpc[k] \in {"notify", "unlink"} => inflight[url[k]] = k
    /\ Cardinality({u \in Urls : inflight[u] # None}) <= MaxInflight

\* Everything above follows from this one, and every step preserves it.
IInv == TypeOK /\ CallCoherent /\ TaskCoherent /\ MapCoherent
=============================================================================
