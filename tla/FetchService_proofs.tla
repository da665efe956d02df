------------------------- MODULE FetchService_proofs -------------------------
(***************************************************************************)
(* Proofs about FetchService, for any finite sets of calls and URLs and    *)
(* any inflight limit, on the request side and on the response side.       *)
(*                                                                         *)
(* IInv is inductive.  Most steps change one call (CallOnly) or one task   *)
(* (TaskOnly) and leave the map alone; the steps that touch the map or the *)
(* waiter counts are proved one by one.                                    *)
(***************************************************************************)
EXTENDS FetchService, TLAPS, FunctionTheorems, FiniteSetTheorems

USE DEF cacheVars, callVars, taskVars

-----------------------------------------------------------------------------
(* The parts of IInv that speak of one call or one task.                   *)

CallInv(c) ==
    /\ pc[c] # "idle" => url[c] \in Urls
    /\ pc[c] \in {"idle"} \cup LookingUp \cup Direct => wt[c] = None /\ tpc[c] = "none"
    /\ pc[c] \in {"spawn", "handle"} => wt[c] = c
    /\ pc[c] = "spawn" => tpc[c] = "none"
    /\ pc[c] \in {"join", "abort", "unlink"} \cup Holding => wt[c] # None
    /\ wt[c] # None => Created(wt[c]) /\ url[wt[c]] = url[c]
    /\ fired[c] => pc[c] \in Waiting
    /\ fired[c] \/ pc[c] = "woken" => wt[c] # None /\ result[wt[c]] # "none"
    /\ pc[c] \in {"abort", "unlink"} => ~bridge
    /\ answer[c] # "noresult"

TaskInv(k) ==
    /\ tpc[k] \in {"notify", "unlink", "store", "done"} => result[k] # "none"
    /\ tpc[k] = "aborted" => aborting[k]
    /\ aborting[k] => ~bridge
    /\ handle[k] \/ aborting[k] => tpc[k] # "none"

Counted(k) == waiters[k] = Cardinality(Holders(k))

EntryInv(u) ==
    inflight[u] # None =>
          /\ Created(inflight[u]) /\ url[inflight[u]] = u
          /\ tpc[inflight[u]] \notin {"store", "done"}
          /\ aborting[inflight[u]] =>
                \E c \in Callers : pc[c] = "unlink" /\ wt[c] = inflight[u]

Linked(k) ==
    bridge /\ (Fetching(k) \/ tpc[k] \in {"notify", "unlink"}) => inflight[url[k]] = k

Entries == {u \in Urls : inflight[u] # None}

\* IInv, call by call, task by task and URL by URL.
LEMMA Parts ==
    IInv <=> /\ TypeOK
             /\ \A c \in Callers : CallInv(c) /\ TaskInv(c) /\ Counted(c) /\ Linked(c)
             /\ \A u \in Urls : EntryInv(u)
             /\ Cardinality(Entries) <= MaxInflight
BY DEF IInv, CallCoherent, TaskCoherent, MapCoherent, CallInv, TaskInv, Counted, EntryInv,
       Linked, Entries

\* The same for the next state.
LEMMA PartsNext ==
    ASSUME TypeOK',
           \A c \in Callers : CallInv(c)' /\ TaskInv(c)' /\ Counted(c)' /\ Linked(c)',
           \A u \in Urls : EntryInv(u)',
           Cardinality(Entries)' <= MaxInflight
    PROVE  IInv'
BY DEF IInv, CallCoherent, TaskCoherent, MapCoherent, CallInv, TaskInv, Counted, EntryInv,
       Linked, Entries

\* A step that moves no call into or out of a wait for k keeps the count.
LEMMA CountKept ==
    ASSUME NEW k \in Callers, Counted(k), waiters'[k] = waiters[k],
           \A c \in Callers :
              (wt'[c] = k /\ pc'[c] \in Holding) <=> (wt[c] = k /\ pc[c] \in Holding)
    PROVE  Counted(k)'
<1>1. Holders(k)' = Holders(k)
  BY DEF Holders, Holding, Waiting
<1>. QED BY <1>1 DEF Counted

\* A map that lost entries, or none, is no larger.
LEMMA FewerEntries ==
    ASSUME Cardinality(Entries) <= MaxInflight,
           \A u \in Urls : inflight'[u] # None => inflight[u] # None
    PROVE  Cardinality(Entries)' <= MaxInflight
<1>1. Entries' \in SUBSET Entries /\ Entries \in SUBSET Urls
  BY DEF Entries
<1>2. IsFiniteSet(Entries)
  BY <1>1, FS_Subset, FetchAssumption
<1>3. IsFiniteSet(Entries') /\ Cardinality(Entries') <= Cardinality(Entries)
  BY <1>1, <1>2, FS_Subset
<1>4. Cardinality(Entries') \in Nat /\ Cardinality(Entries) \in Nat
  BY <1>2, <1>3, FS_CardinalityType
<1>. QED BY <1>3, <1>4, FetchAssumption

-----------------------------------------------------------------------------
(* Steps of one call, or of one task, that leave the map alone.            *)

\* A step that changes only the state of one call, which neither creates a
\* task nor removes an entry nor joins or leaves a task.
LEMMA CallOnly ==
    ASSUME IInv, NEW c \in Callers, UNCHANGED <<bridge, inflight, taskVars>>, TypeOK',
           \A d \in Callers \ {c} :
              /\ pc'[d] = pc[d] /\ url'[d] = url[d] /\ wt'[d] = wt[d]
              /\ fired'[d] = fired[d] /\ answer'[d] = answer[d],
           pc[c] \notin {"spawn", "abort", "unlink"}, pc'[c] # "spawn",
           pc'[c] \in Holding <=> pc[c] \in Holding,
           pc[c] \in Holding => wt'[c] = wt[c],
           url'[c] = url[c] \/ pc[c] = "idle",
           CallInv(c)'
    PROVE  IInv'
<1>. USE Parts
<1>1. ASSUME NEW d \in Callers PROVE CallInv(d)'
  <2>1. CASE d # c
    BY <2>1 DEF CallInv, Created, TypeOK
  <2>. QED BY <2>1
<1>2. ASSUME NEW k \in Callers PROVE TaskInv(k)' /\ Linked(k)'
  BY DEF TaskInv, Linked, Fetching, CallInv, Downloading
<1>3. ASSUME NEW k \in Callers PROVE Counted(k)'
  BY CountKept
<1>4. ASSUME NEW u \in Urls PROVE EntryInv(u)'
  BY DEF EntryInv, Created, CallInv, TypeOK
<1>5. Cardinality(Entries)' <= MaxInflight
  BY FewerEntries
<1>. QED BY <1>1, <1>2, <1>3, <1>4, <1>5, PartsNext

\* A step that changes only the state of one spawned future and the wake-ups
\* of its waiters.
LEMMA TaskOnly ==
    ASSUME IInv, NEW k \in Callers, TypeOK',
           UNCHANGED <<bridge, inflight, pc, url, wt, answer, waiters, handle, aborting>>,
           \A l \in Callers \ {k} : tpc'[l] = tpc[l] /\ result'[l] = result[l],
           tpc[k] # "none", tpc'[k] # "none",
           result[k] # "none" => result'[k] # "none",
           \A c \in Callers : fired'[c] =>
              fired[c] \/ (wt[c] = k /\ pc[c] \in Waiting /\ result'[k] # "none"),
           tpc'[k] \in {"store", "done"} => tpc[k] \in {"store", "done"},
           tpc'[k] \in Downloading \cup {"publish", "notify", "unlink"} =>
              tpc[k] \in Downloading \cup {"publish", "notify", "unlink"},
           TaskInv(k)'
    PROVE  IInv'
<1>. USE Parts
<1>1. ASSUME NEW d \in Callers PROVE CallInv(d)'
  <2>1. wt[d] \in Callers \cup {None} /\ CallInv(d) /\ CallInv(k)
    BY DEF TypeOK
  <2>2. \A l \in Callers : tpc[l] = "none" <=> tpc'[l] = "none"
    OBVIOUS
  <2>3. \A l \in Callers : result[l] # "none" => result'[l] # "none"
    OBVIOUS
  <2>4. fired'[d] \/ pc'[d] = "woken" => wt'[d] # None /\ result'[wt'[d]] # "none"
    <3>1. CASE fired[d] \/ pc[d] = "woken"
      BY <3>1, <2>1, <2>3 DEF CallInv
    <3>2. CASE fired'[d] /\ ~fired[d]
      BY <3>2, FetchAssumption
    <3>. QED BY <3>1, <3>2
  <2>5. wt'[d] # None =>
            (pc'[wt'[d]] = "spawn" \/ tpc'[wt'[d]] # "none") /\ url'[wt'[d]] = url'[d]
    BY <2>1, <2>2 DEF CallInv, Created
  <2>6. fired'[d] => pc'[d] \in Waiting
    BY <2>1 DEF CallInv
  <2>. QED BY <2>1, <2>2, <2>4, <2>5, <2>6 DEF CallInv, Created
<1>2. ASSUME NEW l \in Callers PROVE TaskInv(l)'
  BY DEF TaskInv
<1>3. ASSUME NEW l \in Callers PROVE Linked(l)'
  BY DEF Linked, Fetching
<1>4. ASSUME NEW l \in Callers PROVE Counted(l)'
  BY CountKept
<1>5. ASSUME NEW u \in Urls PROVE EntryInv(u)'
  BY DEF EntryInv, Created, TypeOK
<1>6. Cardinality(Entries)' <= MaxInflight
  BY FewerEntries
<1>. QED BY <1>1, <1>2, <1>3, <1>4, <1>5, <1>6, PartsNext

\* The definitions that the conditions on program counters are made of.
USE DEF LookingUp, Direct, Waiting, CallPc, Holding, Answers, Downloading, TaskPc

\* The steps of a call that find an answer, or what to wait for, or give up.
LEMMA CallStepsKeep ==
    ASSUME IInv, NEW c \in Callers,
           \/ Call(c) \/ MemoryGet(c) \/ DiskGet(c) \/ Lookup(c) \/ DirectFetch(c)
           \/ CheckResult(c) \/ Wake(c) \/ TakeResult(c) \/ Cancel(c)
    PROVE  IInv'
<1>. TypeOK /\ CallInv(c)
  BY Parts
<1>1. CASE Call(c)
  <2>1. TypeOK'
    BY <1>1 DEF TypeOK, Call, Goto
  <2>2. CallInv(c)'
    BY <1>1 DEF TypeOK, Call, Goto, CallInv, Created
  <2>. QED BY <1>1, <2>1, <2>2, CallOnly DEF TypeOK, Call, Goto, CallInv
<1>2. CASE MemoryGet(c)
  <2>1. TypeOK'
    BY <1>2 DEF TypeOK, MemoryGet, Goto, Return
  <2>2. CallInv(c)'
    BY <1>2 DEF TypeOK, MemoryGet, Goto, Return, CallInv, Created
  <2>. QED BY <1>2, <2>1, <2>2, CallOnly DEF TypeOK, MemoryGet, Goto, Return, CallInv
<1>3. CASE DiskGet(c)
  <2>1. TypeOK'
    BY <1>3 DEF TypeOK, DiskGet, Goto, Return
  <2>2. CallInv(c)'
    BY <1>3 DEF TypeOK, DiskGet, Goto, Return, CallInv, Created
  <2>. QED BY <1>3, <2>1, <2>2, CallOnly DEF TypeOK, DiskGet, Goto, Return, CallInv
<1>4. CASE Lookup(c)
  <2>1. TypeOK'
    BY <1>4 DEF TypeOK, Lookup, Goto, JoinTask, CallInv
  <2>2. CallInv(c)'
    BY <1>4, Parts DEF TypeOK, Lookup, Goto, JoinTask, CallInv, Created, EntryInv
  <2>. QED BY <1>4, <2>1, <2>2, CallOnly DEF TypeOK, Lookup, Goto, JoinTask, CallInv
<1>5. CASE DirectFetch(c)
  <2>1. TypeOK'
    BY <1>5 DEF TypeOK, DirectFetch, Goto, Return, StoreInCaches, CallInv
  <2>2. CallInv(c)'
    BY <1>5 DEF TypeOK, DirectFetch, Goto, Return, StoreInCaches, CallInv, Created
  <2>. QED BY <1>5, <2>1, <2>2, CallOnly DEF TypeOK, DirectFetch, Goto, Return, StoreInCaches, CallInv
<1>6. CASE CheckResult(c)
  <2>1. TypeOK'
    <3>1. wt[c] \in Callers /\ result[wt[c]] \in Answers
      BY <1>6 DEF TypeOK, CheckResult, CallInv
    <3>2. answer' \in [Callers -> Answers]
      BY <1>6, <3>1 DEF TypeOK, CheckResult, Published, Goto, Return
    <3>3. pc' \in [Callers -> CallPc] /\ fired' \in [Callers -> BOOLEAN]
      BY <1>6 DEF TypeOK, CheckResult, Published, Goto, Return
    <3>. QED BY <1>6, <3>2, <3>3 DEF TypeOK, CheckResult, Published, Goto, Return
  <2>2. CallInv(c)'
    BY <1>6 DEF TypeOK, CheckResult, Published, Goto, Return, CallInv, Created
  <2>. QED BY <1>6, <2>1, <2>2, CallOnly DEF TypeOK, CheckResult, Published, Goto, Return, CallInv
<1>7. CASE Wake(c)
  <2>1. TypeOK'
    BY <1>7 DEF TypeOK, Wake, Goto
  <2>2. CallInv(c)'
    BY <1>7 DEF TypeOK, Wake, Goto, CallInv, Created
  <2>. QED BY <1>7, <2>1, <2>2, CallOnly DEF TypeOK, Wake, Goto, CallInv
<1>8. CASE TakeResult(c)
  <2>1. TypeOK'
    <3>1. wt[c] \in Callers /\ result[wt[c]] \in Answers
      BY <1>8 DEF TypeOK, TakeResult, CallInv
    <3>2. answer' \in [Callers -> Answers]
      BY <1>8, <3>1 DEF TypeOK, TakeResult, Published, Goto, Return
    <3>3. pc' \in [Callers -> CallPc] /\ fired' \in [Callers -> BOOLEAN]
      BY <1>8 DEF TypeOK, TakeResult, Published, Goto, Return
    <3>. QED BY <1>8, <3>2, <3>3 DEF TypeOK, TakeResult, Published, Goto, Return
  <2>2. CallInv(c)'
    BY <1>8 DEF TypeOK, TakeResult, Published, Goto, Return, CallInv, Created
  <2>. QED BY <1>8, <2>1, <2>2, CallOnly DEF TypeOK, TakeResult, Published, Goto, Return, CallInv
<1>9. CASE Cancel(c)
  <2>1. TypeOK'
    BY <1>9 DEF TypeOK, Cancel, Goto, Return, CallInv
  <2>2. CallInv(c)'
    BY <1>9 DEF TypeOK, Cancel, Goto, Return, CallInv, Created
  <2>. QED BY <1>9, <2>1, <2>2, CallOnly DEF TypeOK, Cancel, Goto, Return, CallInv
<1>. QED BY <1>1, <1>2, <1>3, <1>4, <1>5, <1>6, <1>7, <1>8, <1>9

\* The steps of a spawned future other than the removal of its entry.
LEMMA TaskStepsKeep ==
    ASSUME IInv, NEW k \in Callers,
           \/ Download(k) \/ Publish(k) \/ NotifyWaiters(k) \/ StoreResult(k) \/ Aborted(k)
    PROVE  IInv'
<1>. TypeOK /\ TaskInv(k) /\ CallInv(k)
  BY Parts
<1>1. CASE Download(k)
  <2>1. TypeOK'
    BY <1>1 DEF TypeOK, Download, TaskGoto
  <2>2. TaskInv(k)'
    BY <1>1 DEF TypeOK, Download, TaskGoto, TaskInv
  <2>. QED BY <1>1, <2>1, <2>2, TaskOnly DEF TypeOK, Download, TaskGoto, TaskInv
<1>2. CASE Publish(k)
  <2>1. TypeOK'
    BY <1>2 DEF TypeOK, Publish, TaskGoto
  <2>2. TaskInv(k)'
    BY <1>2 DEF TypeOK, Publish, TaskGoto, TaskInv
  <2>. QED BY <1>2, <2>1, <2>2, TaskOnly DEF TypeOK, Publish, TaskGoto, TaskInv
<1>3. CASE NotifyWaiters(k)
  <2>1. TypeOK'
    BY <1>3 DEF TypeOK, NotifyWaiters, TaskGoto
  <2>2. TaskInv(k)'
    BY <1>3 DEF TypeOK, NotifyWaiters, TaskGoto, TaskInv
  <2>. QED BY <1>3, <2>1, <2>2, TaskOnly DEF TypeOK, NotifyWaiters, TaskGoto, TaskInv
<1>4. CASE StoreResult(k)
  <2>1. TypeOK'
    BY <1>4 DEF TypeOK, StoreResult, StoreInCaches, TaskGoto, CallInv
  <2>2. TaskInv(k)'
    BY <1>4 DEF TypeOK, StoreResult, StoreInCaches, TaskGoto, TaskInv
  <2>. QED BY <1>4, <2>1, <2>2, TaskOnly DEF TypeOK, StoreResult, StoreInCaches, TaskGoto, TaskInv
<1>5. CASE Aborted(k)
  <2>1. TypeOK'
    BY <1>5 DEF TypeOK, Aborted, TaskGoto, CallInv
  <2>2. TaskInv(k)'
    BY <1>5 DEF TypeOK, Aborted, TaskGoto, TaskInv
  <2>. QED BY <1>5, <2>1, <2>2, TaskOnly DEF TypeOK, Aborted, TaskGoto, TaskInv
<1>. QED BY <1>1, <1>2, <1>3, <1>4, <1>5

-----------------------------------------------------------------------------
(* The steps that touch the map, create a task or change a waiter count.   *)

\* A task that exists belongs to a call that knows its URL.
LEMMA CreatedHasUrl ==
    ASSUME IInv, NEW k \in Callers, Created(k)
    PROVE  url[k] \in Urls /\ pc[k] \notin {"idle"} \cup LookingUp \cup Direct
BY Parts DEF CallInv, Created

\* A task found or no room for one; or a new entry, for a URL that had none.
LEMMA StartTaskKeeps ==
    ASSUME IInv, NEW c \in Callers, StartTask(c)
    PROVE  IInv'
<1>. TypeOK /\ CallInv(c)
  BY Parts
<1>1. TypeOK'
  BY DEF TypeOK, StartTask, Goto, JoinTask, CallInv
<1>2. CASE inflight' = inflight
  <2>1. CallInv(c)'
    BY <1>2, Parts DEF TypeOK, StartTask, Goto, JoinTask, CallInv, Created, EntryInv
  <2>2. pc'[c] # "spawn"
    BY <1>2, FetchAssumption DEF TypeOK, StartTask, Goto, JoinTask, CallInv
  <2>. QED BY <1>1, <1>2, <2>1, <2>2, CallOnly DEF TypeOK, StartTask, Goto, JoinTask, CallInv
<1>3. CASE inflight' # inflight
  <2>1. /\ pc[c] = "start" /\ inflight[url[c]] = None /\ ~Full
        /\ inflight' = [inflight EXCEPT ![url[c]] = c]
        /\ wt' = [wt EXCEPT ![c] = c]
        /\ pc' = [pc EXCEPT ![c] = "spawn"]
        /\ UNCHANGED <<bridge, url, fired, answer, taskVars>>
    BY <1>3 DEF StartTask, Goto
  <2>2. url[c] \in Urls /\ wt[c] = None /\ tpc[c] = "none" /\ ~Created(c) /\ ~fired[c]
    BY <2>1 DEF CallInv, Created
  <2>3. ASSUME NEW d \in Callers PROVE CallInv(d)'
    <3>1. CallInv(d)
      BY Parts
    <3>2. wt[d] # c
      BY <3>1, <2>2, FetchAssumption DEF CallInv
    <3>. QED BY <2>1, <2>2, <3>1, <3>2, FetchAssumption DEF CallInv, Created, TypeOK
  <2>4. ASSUME NEW k \in Callers PROVE TaskInv(k)' /\ Counted(k)'
    <3>1. TaskInv(k) /\ Counted(k)
      BY Parts
    <3>2. Counted(k)'
      BY <2>1, <3>1, CountKept DEF TypeOK
    <3>. QED BY <2>1, <3>1, <3>2 DEF TaskInv
  <2>5. ASSUME NEW k \in Callers PROVE Linked(k)'
    <3>1. CASE k = c
      BY <2>1, <2>2, <3>1 DEF Linked, TypeOK
    <3>2. CASE k # c
      <4>1. Linked(k) /\ (Created(k) => url[k] \in Urls)
        BY Parts, CreatedHasUrl
      <4>. QED BY <2>1, <2>2, <3>2, <4>1, FetchAssumption
               DEF Linked, Fetching, Created, TypeOK
    <3>. QED BY <3>1, <3>2
  <2>6. ASSUME NEW u \in Urls PROVE EntryInv(u)'
    <3>1. CASE u = url[c]
      BY <2>1, <2>2, <3>1, Parts DEF EntryInv, Created, TypeOK, TaskInv
    <3>2. CASE u # url[c]
      <4>1. EntryInv(u)
        BY Parts
      <4>. QED BY <2>1, <2>2, <3>2, <4>1, FetchAssumption DEF EntryInv, Created, TypeOK
    <3>. QED BY <3>1, <3>2
  <2>7. Cardinality(Entries)' <= MaxInflight
    <3>1. Entries' = Entries \cup {url[c]} /\ url[c] \notin Entries
      BY <2>1, <2>2, FetchAssumption DEF Entries, TypeOK
    <3>2. IsFiniteSet(Entries)
      BY FS_Subset, FetchAssumption DEF Entries
    <3>3. Cardinality(Entries') = Cardinality(Entries) + 1 /\ Cardinality(Entries) \in Nat
      BY <3>1, <3>2, FS_AddElement, FS_CardinalityType
    <3>. QED BY <2>1, <3>3, FetchAssumption DEF Full, Entries
  <2>. QED BY <1>1, <2>3, <2>4, <2>5, <2>6, <2>7, PartsNext
<1>. QED BY <1>2, <1>3

\* The creator spawns the future, then stores its handle.
LEMMA SpawnKeeps ==
    ASSUME IInv, NEW c \in Callers, Spawn(c) \/ StoreHandle(c)
    PROVE  IInv'
<1>. TypeOK /\ CallInv(c)
  BY Parts
<1>1. TypeOK'
  BY DEF TypeOK, Spawn, StoreHandle, Goto
<1>2. /\ wt[c] = c /\ tpc'[c] # "none" /\ pc[c] \in {"spawn", "handle"}
      /\ pc'[c] \in {"handle", "join"}
      /\ \A d \in Callers \ {c} :
            pc'[d] = pc[d] /\ tpc'[d] = tpc[d] /\ handle'[d] = handle[d]
      /\ UNCHANGED <<bridge, inflight, url, wt, fired, answer, result, waiters, aborting>>
  <2>1. CASE Spawn(c)
    BY <2>1 DEF TypeOK, Spawn, Goto, CallInv
  <2>2. CASE StoreHandle(c)
    BY <2>2, FetchAssumption DEF TypeOK, StoreHandle, Goto, CallInv, Created
  <2>. QED BY <2>1, <2>2
<1>3. \/ tpc'[c] = tpc[c] /\ pc[c] = "handle" /\ pc'[c] = "join"
      \/ tpc[c] = "none" /\ pc[c] = "spawn" /\ tpc'[c] = "fetch1" /\ pc'[c] = "handle"
  BY DEF TypeOK, Spawn, StoreHandle, Goto, CallInv
<1>4. ASSUME NEW d \in Callers PROVE CallInv(d)'
  <2>1. CallInv(d)
    BY Parts
  <2>2. \A l \in Callers : Created(l) => Created(l)'
    BY <1>2 DEF Created
  <2>3. wt'[d] # None => (Created(wt[d]) /\ url[wt[d]] = url[d])'
    <3>1. CASE wt[d] \in Callers
      BY <1>2, <2>1, <2>2, <3>1 DEF CallInv, Created
    <3>2. CASE wt[d] = None
      BY <1>2, <3>2
    <3>. QED BY <3>1, <3>2 DEF TypeOK
  <2>4. CASE d = c
    BY <1>2, <1>3, <2>1, <2>3, <2>4, FetchAssumption DEF CallInv
  <2>5. CASE d # c
    BY <1>2, <2>1, <2>3, <2>5 DEF CallInv
  <2>. QED BY <2>4, <2>5
<1>5. ASSUME NEW k \in Callers PROVE TaskInv(k)' /\ Linked(k)' /\ Counted(k)'
  <2>1. TaskInv(k) /\ Linked(k) /\ Counted(k)
    BY Parts
  <2>2. Counted(k)'
    BY <1>2, <2>1, CountKept
  <2>. QED BY <1>2, <1>3, <2>1, <2>2 DEF TaskInv, Linked, Fetching
<1>6. ASSUME NEW u \in Urls PROVE EntryInv(u)'
  <2>1. EntryInv(u)
    BY Parts
  <2>. QED BY <1>2, <1>3, <2>1 DEF EntryInv, Created, TypeOK
<1>7. Cardinality(Entries)' <= MaxInflight
  BY <1>2, FewerEntries, Parts
<1>. QED BY <1>1, <1>4, <1>5, <1>6, <1>7, PartsNext

\* The future removes the entry for its URL, which on the request side is its own.
LEMMA RemoveEntryKeeps ==
    ASSUME IInv, NEW k \in Callers, RemoveEntry(k)
    PROVE  IInv'
<1>. TypeOK /\ CallInv(k) /\ TaskInv(k) /\ Linked(k)
  BY Parts
<1>1. TypeOK'
  BY FetchAssumption DEF TypeOK, RemoveEntry, TaskGoto
<1>2. /\ tpc[k] = "unlink" /\ tpc'[k] \in {"store", "done"}
      /\ \A l \in Callers \ {k} : tpc'[l] = tpc[l]
      /\ url[k] \in Urls
      /\ inflight'[url[k]] = None
      /\ \A u \in Urls \ {url[k]} : inflight'[u] = inflight[u]
      /\ UNCHANGED <<bridge, callVars, result, waiters, handle, aborting>>
  BY CreatedHasUrl DEF TypeOK, RemoveEntry, TaskGoto, Created
<1>3. ASSUME NEW d \in Callers PROVE CallInv(d)'
  <2>1. CallInv(d)
    BY Parts
  <2>. QED BY <1>2, <2>1 DEF CallInv, Created, TypeOK
<1>4. ASSUME NEW l \in Callers PROVE TaskInv(l)' /\ Counted(l)'
  <2>1. TaskInv(l) /\ Counted(l)
    BY Parts
  <2>2. Counted(l)'
    BY <1>2, <2>1, CountKept
  <2>. QED BY <1>2, <2>1, <2>2 DEF TaskInv
<1>5. ASSUME NEW l \in Callers PROVE Linked(l)'
  <2>1. Linked(l) /\ (Created(l) => url[l] \in Urls)
    BY Parts, CreatedHasUrl
  <2>2. CASE l = k
    BY <1>2, <2>2 DEF Linked, Fetching, CallInv
  <2>3. CASE l # k
    BY <1>2, <2>1, <2>3 DEF Linked, Fetching, Created
  <2>. QED BY <2>2, <2>3
<1>6. ASSUME NEW u \in Urls PROVE EntryInv(u)'
  <2>1. EntryInv(u)
    BY Parts
  <2>. QED BY <1>2, <2>1 DEF EntryInv, Created, TypeOK
<1>7. Cardinality(Entries)' <= MaxInflight
  BY <1>2, FewerEntries, Parts
<1>. QED BY <1>1, <1>3, <1>4, <1>5, <1>6, <1>7, PartsNext

\* The last waiter of a response-side task aborts it, then removes its entry.
LEMMA AbortKeeps ==
    ASSUME IInv, NEW c \in Callers, Abort(c)
    PROVE  IInv'
<1>. TypeOK /\ CallInv(c)
  BY Parts
<1>1. wt[c] \in Callers /\ ~bridge /\ TaskInv(wt[c])
  BY Parts DEF TypeOK, Abort, CallInv
<1>2. TypeOK'
  BY <1>1 DEF TypeOK, Abort, Goto
<1>3. /\ pc[c] = "abort" /\ pc'[c] = "unlink"
      /\ \A d \in Callers \ {c} : pc'[d] = pc[d]
      /\ \A l \in Callers : aborting'[l] => aborting[l] \/ (l = wt[c] /\ handle[l])
      /\ \A l \in Callers : aborting[l] => aborting'[l]
      /\ \A l \in Callers : handle'[l] => handle[l]
      /\ UNCHANGED <<bridge, inflight, url, wt, fired, answer, tpc, result, waiters>>
  BY <1>1 DEF TypeOK, Abort, Goto
<1>4. ASSUME NEW d \in Callers PROVE CallInv(d)'
  <2>1. CallInv(d)
    BY Parts
  <2>. QED BY <1>1, <1>3, <2>1 DEF CallInv, Created, TypeOK
<1>5. ASSUME NEW k \in Callers PROVE TaskInv(k)' /\ Linked(k)' /\ Counted(k)'
  <2>1. TaskInv(k) /\ Linked(k) /\ Counted(k)
    BY Parts
  <2>2. Counted(k)'
    BY <1>3, <2>1, CountKept
  <2>. QED BY <1>1, <1>3, <2>1, <2>2 DEF TaskInv, Linked
<1>6. ASSUME NEW u \in Urls PROVE EntryInv(u)'
  <2>1. EntryInv(u)
    BY Parts
  <2>2. \A d \in Callers : pc[d] = "unlink" => pc'[d] = "unlink"
    BY <1>3
  <2>3. \A l \in Callers : aborting'[l] => aborting[l] \/ (pc'[c] = "unlink" /\ wt'[c] = l)
    BY <1>3
  <2>. QED BY <1>3, <2>1, <2>2, <2>3 DEF EntryInv, Created, TypeOK
<1>7. Cardinality(Entries)' <= MaxInflight
  BY <1>3, FewerEntries, Parts
<1>. QED BY <1>2, <1>4, <1>5, <1>6, <1>7, PartsNext

\* The last waiter of a response-side task removes the entry of this task only.
LEMMA UnlinkKeeps ==
    ASSUME IInv, NEW c \in Callers, Unlink(c)
    PROVE  IInv'
<1>. TypeOK /\ CallInv(c)
  BY Parts
<1>1. wt[c] \in Callers /\ ~bridge /\ url[c] \in Urls /\ url[wt[c]] = url[c]
  BY DEF TypeOK, Unlink, CallInv
<1>2. TypeOK'
  BY <1>1 DEF TypeOK, Unlink, Goto
<1>3. /\ pc[c] = "unlink" /\ pc'[c] = "done" /\ wt'[c] = None
      /\ \A d \in Callers \ {c} : pc'[d] = pc[d] /\ wt'[d] = wt[d]
      /\ UNCHANGED <<bridge, url, fired, answer, taskVars>>
  BY DEF TypeOK, Unlink, Goto
<1>4. \A u \in Urls :
         inflight'[u] = IF u = url[c] /\ inflight[u] = wt[c] THEN None ELSE inflight[u]
  BY DEF Unlink
<1>5. ASSUME NEW d \in Callers PROVE CallInv(d)'
  <2>1. CallInv(d)
    BY Parts
  <2>2. CASE d = c
    BY <1>1, <1>3, <2>1, <2>2 DEF CallInv, TypeOK
  <2>3. CASE d # c
    BY <1>1, <1>3, <2>1, <2>3 DEF CallInv, Created, TypeOK
  <2>. QED BY <2>2, <2>3
<1>6. ASSUME NEW k \in Callers PROVE TaskInv(k)' /\ Linked(k)' /\ Counted(k)'
  <2>1. TaskInv(k) /\ Counted(k)
    BY Parts
  <2>2. Counted(k)'
    BY <1>3, <2>1, CountKept
  <2>. QED BY <1>1, <1>3, <2>1, <2>2 DEF TaskInv, Linked
<1>7. ASSUME NEW u \in Urls PROVE EntryInv(u)'
  <2>1. CASE inflight'[u] = None
    BY <2>1 DEF EntryInv
  <2>2. CASE inflight'[u] # None
    <3>1. EntryInv(u) /\ inflight[u] \in Callers /\ inflight'[u] = inflight[u]
      BY <1>4, <2>2, Parts DEF TypeOK
    <3>2. wt[c] # inflight[u]
      BY <1>1, <1>4, <2>2, <3>1 DEF EntryInv
    <3>3. aborting[inflight[u]] =>
             \E d \in Callers : pc'[d] = "unlink" /\ wt'[d] = inflight[u]
      BY <1>3, <3>1, <3>2, FetchAssumption DEF EntryInv
    <3>. QED BY <1>3, <2>2, <3>1, <3>3 DEF EntryInv, Created
  <2>. QED BY <2>1, <2>2
<1>8. Cardinality(Entries)' <= MaxInflight
  BY <1>4, FewerEntries, Parts
<1>. QED BY <1>2, <1>5, <1>6, <1>7, <1>8, PartsNext

\* A call registers as a waiter: one more holder, one more counted.
LEMMA JoinKeeps ==
    ASSUME IInv, NEW c \in Callers, Join(c)
    PROVE  IInv'
<1>. TypeOK /\ CallInv(c)
  BY Parts
<1>1. wt[c] \in Callers
  BY DEF TypeOK, Join, CallInv
<1>2. TypeOK'
  BY <1>1 DEF TypeOK, Join, Goto
<1>3. /\ pc[c] = "join" /\ pc'[c] = "check"
      /\ \A d \in Callers \ {c} : pc'[d] = pc[d]
      /\ \A l \in Callers : waiters'[l] = IF l = wt[c] THEN waiters[l] + 1 ELSE waiters[l]
      /\ UNCHANGED <<bridge, inflight, url, wt, fired, answer, tpc, result, handle, aborting>>
  BY <1>1 DEF TypeOK, Join, Goto
<1>4. ASSUME NEW d \in Callers PROVE CallInv(d)'
  <2>1. CallInv(d)
    BY Parts
  <2>. QED BY <1>1, <1>3, <2>1 DEF CallInv, Created, TypeOK
<1>5. ASSUME NEW k \in Callers PROVE TaskInv(k)' /\ Linked(k)'
  <2>1. TaskInv(k) /\ Linked(k)
    BY Parts
  <2>. QED BY <1>3, <2>1 DEF TaskInv, Linked, Fetching
<1>6. ASSUME NEW k \in Callers PROVE Counted(k)'
  <2>1. Counted(k)
    BY Parts
  <2>2. CASE k # wt[c]
    BY <1>3, <2>1, <2>2, CountKept
  <2>3. CASE k = wt[c]
    <3>1. Holders(k)' = Holders(k) \cup {c} /\ c \notin Holders(k)
      BY <1>3, <2>3 DEF Holders
    <3>2. IsFiniteSet(Holders(k))
      BY FS_Subset, FetchAssumption DEF Holders
    <3>3. Cardinality(Holders(k)') = Cardinality(Holders(k)) + 1
      BY <3>1, <3>2, FS_AddElement
    <3>. QED BY <1>3, <2>1, <2>3, <3>3 DEF Counted
  <2>. QED BY <2>2, <2>3
<1>7. ASSUME NEW u \in Urls PROVE EntryInv(u)'
  <2>1. EntryInv(u)
    BY Parts
  <2>. QED BY <1>3, <2>1 DEF EntryInv, Created, TypeOK
<1>8. Cardinality(Entries)' <= MaxInflight
  BY <1>3, FewerEntries, Parts
<1>. QED BY <1>2, <1>4, <1>5, <1>6, <1>7, <1>8, PartsNext

\* A call drops its waiter: one holder fewer, one fewer counted.
LEMMA LeaveKeeps ==
    ASSUME IInv, NEW c \in Callers, Leave(c)
    PROVE  IInv'
<1>. TypeOK /\ CallInv(c)
  BY Parts
<1>1. wt[c] \in Callers /\ pc[c] = "leave" /\ ~fired[c] /\ Counted(wt[c])
  BY Parts DEF TypeOK, Leave, CallInv
<1>2. /\ IsFiniteSet(Holders(wt[c])) /\ c \in Holders(wt[c])
      /\ Cardinality(Holders(wt[c]) \ {c}) = Cardinality(Holders(wt[c])) - 1
      /\ Cardinality(Holders(wt[c]) \ {c}) \in Nat
  <2>1. IsFiniteSet(Holders(wt[c])) /\ c \in Holders(wt[c])
    BY <1>1, FS_Subset, FetchAssumption DEF Holders
  <2>2. IsFiniteSet(Holders(wt[c]) \ {c})
    BY <2>1, FS_RemoveElement
  <2>. QED BY <2>1, <2>2, FS_RemoveElement, FS_CardinalityType
<1>3. waiters[wt[c]] - 1 \in Nat
  BY <1>1, <1>2 DEF Counted
<1>4. TypeOK'
  BY <1>1, <1>3 DEF TypeOK, Leave, Goto
<1>5. /\ \A d \in Callers \ {c} : pc'[d] = pc[d] /\ wt'[d] = wt[d]
      /\ \/ pc'[c] = "done" /\ wt'[c] = None
         \/ pc'[c] = "abort" /\ wt'[c] = wt[c] /\ ~bridge
      /\ \A l \in Callers : waiters'[l] = IF l = wt[c] THEN waiters[l] - 1 ELSE waiters[l]
      /\ UNCHANGED <<bridge, inflight, url, fired, answer, tpc, result, handle, aborting>>
  BY <1>1 DEF TypeOK, Leave, Goto
<1>6. ASSUME NEW d \in Callers PROVE CallInv(d)'
  <2>1. CallInv(d)
    BY Parts
  <2>2. CASE d = c
    BY <1>1, <1>5, <2>1, <2>2, FetchAssumption DEF CallInv, Created, TypeOK
  <2>3. CASE d # c
    BY <1>1, <1>5, <2>1, <2>3 DEF CallInv, Created, TypeOK
  <2>. QED BY <2>2, <2>3
<1>7. ASSUME NEW k \in Callers PROVE TaskInv(k)' /\ Linked(k)'
  <2>1. TaskInv(k) /\ Linked(k)
    BY Parts
  <2>. QED BY <1>1, <1>5, <2>1 DEF TaskInv, Linked, Fetching
<1>8. ASSUME NEW k \in Callers PROVE Counted(k)'
  <2>1. Counted(k)
    BY Parts
  <2>2. CASE k # wt[c]
    BY <1>1, <1>5, <2>1, <2>2, CountKept, FetchAssumption
  <2>3. CASE k = wt[c]
    <3>1. Holders(k)' = Holders(k) \ {c}
      BY <1>1, <1>5, <2>3, FetchAssumption DEF Holders
    <3>. QED BY <1>2, <1>5, <2>1, <2>3, <3>1 DEF Counted
  <2>. QED BY <2>2, <2>3
<1>9. ASSUME NEW u \in Urls PROVE EntryInv(u)'
  <2>1. EntryInv(u)
    BY Parts
  <2>. QED BY <1>1, <1>5, <2>1 DEF EntryInv, Created, TypeOK
<1>10. Cardinality(Entries)' <= MaxInflight
  BY <1>5, FewerEntries, Parts
<1>. QED BY <1>4, <1>6, <1>7, <1>8, <1>9, <1>10, PartsNext

-----------------------------------------------------------------------------
(* The theorems.                                                           *)

\* The initial states satisfy the invariant: no call, no task, an empty map.
LEMMA InitInv == Init => IInv
<1>. SUFFICES ASSUME Init PROVE IInv
  OBVIOUS
<1>1. TypeOK
  BY DEF Init, TypeOK
<1>2. Entries = {} /\ \A k \in Callers : Holders(k) = {}
  BY DEF Init, Entries, Holders
<1>3. \A c \in Callers : CallInv(c) /\ TaskInv(c) /\ Linked(c)
  BY DEF Init, CallInv, TaskInv, Linked, Fetching
<1>4. \A k \in Callers : Counted(k)
  BY <1>2, FS_EmptySet DEF Init, Counted
<1>5. \A u \in Urls : EntryInv(u)
  BY DEF Init, EntryInv
<1>6. Cardinality(Entries) <= MaxInflight
  BY <1>2, FS_EmptySet, FetchAssumption
<1>. QED BY <1>1, <1>3, <1>4, <1>5, <1>6, Parts

\* Every step, and every stuttering step, preserves the invariant.
LEMMA StepInv == IInv /\ [Next]_vars => IInv'
<1>. SUFFICES ASSUME IInv, [Next]_vars PROVE IInv'
  OBVIOUS
<1>1. CASE UNCHANGED vars
  BY <1>1 DEF vars, IInv, TypeOK, CallCoherent, TaskCoherent, MapCoherent, Created, Holders,
              Fetching
<1>2. ASSUME NEW c \in Callers, Call(c) \/ CallStep(c) \/ Cancel(c)
      PROVE  IInv'
  BY <1>2, CallStepsKeep, StartTaskKeeps, SpawnKeeps, JoinKeeps, LeaveKeeps, AbortKeeps,
     UnlinkKeeps DEF CallStep
<1>3. ASSUME NEW k \in Callers, TaskStep(k) \/ Aborted(k)
      PROVE  IInv'
  BY <1>3, TaskStepsKeep, RemoveEntryKeeps DEF TaskStep
<1>. QED BY <1>1, <1>2, <1>3 DEF Next

\* The inductive invariant of fetch, its spawned futures and the inflight map
\* holds for any finite sets of calls and URLs and any limit.
THEOREM FetchInvariant == Spec => []IInv
BY InitInv, StepInv, PTL DEF Spec

\* A call that finds an entry in the inflight map (the lookup of fetch) never
\* finds one whose task has ended and that nobody is about to remove.
THEOREM EntriesLive == Spec => []EntryIsLive
<1>1. IInv => EntryIsLive
  <2>. SUFFICES ASSUME IInv, NEW u \in Urls, inflight[u] # None
                PROVE  \/ Fetching(inflight[u])
                       \/ tpc[inflight[u]] \in {"notify", "unlink"}
                       \/ \E c \in Callers :
                             pc[c] \in {"abort", "unlink"} /\ wt[c] = inflight[u] /\ url[c] = u
    BY DEF EntryIsLive
  <2>1. TypeOK /\ EntryInv(u) /\ inflight[u] \in Callers
    BY Parts DEF TypeOK
  <2>2. CASE tpc[inflight[u]] = "aborted"
    <3>1. aborting[inflight[u]]
      BY <2>1, <2>2, Parts DEF TaskInv
    <3>2. PICK c \in Callers : pc[c] = "unlink" /\ wt[c] = inflight[u]
      BY <2>1, <3>1 DEF EntryInv
    <3>3. url[c] = u
      BY <2>1, <3>2, Parts, FetchAssumption DEF EntryInv, CallInv
    <3>. QED BY <3>2, <3>3
  <2>3. CASE tpc[inflight[u]] # "aborted"
    BY <2>1, <2>3 DEF EntryInv, Fetching, Created, TypeOK
  <2>. QED BY <2>2, <2>3
<1>. QED BY <1>1, FetchInvariant, PTL

\* With the background bridge on, two futures never download the same URL:
\* the double-checked insertion into the inflight map is enough.
THEOREM OneDownload == Spec => []SingleFlight
<1>1. IInv => SingleFlight
  BY Parts DEF SingleFlight, Linked
<1>. QED BY <1>1, FetchInvariant, PTL

\* No waiter reports "background fetch finished without result": the result
\* is stored before notify_waiters is called.
THEOREM WokenWithResult == Spec => []NoEmptyWake
<1>1. IInv => NoEmptyWake
  BY Parts DEF NoEmptyWake, CallInv
<1>. QED BY <1>1, FetchInvariant, PTL

\* What a task may be at while a call waits for it and has not been woken.
Pending(k) ==
    \/ Fetching(k)
    \/ tpc[k] = "notify"
    \/ ~bridge /\ tpc[k] = "aborted"

\* A step of calls only: a created task stays as it is or is being spawned.
LEMMA PendingKept ==
    ASSUME NEW k \in Callers, Pending(k), UNCHANGED bridge,
           \/ tpc'[k] = tpc[k] /\ (pc[k] = "spawn" => pc'[k] = "spawn")
           \/ tpc'[k] \in Downloading
    PROVE  Pending(k)'
BY DEF Pending, Fetching

\* A call begins to wait only after it found no result, and then its task has
\* yet to publish one (CheckResult after the Notified future was made).
LEMMA CallsKeepWakeups ==
    ASSUME IInv, NoLostWakeup, NEW c \in Callers, Call(c) \/ CallStep(c) \/ Cancel(c)
    PROVE  NoLostWakeup'
<1>. TypeOK /\ CallInv(c)
  BY Parts
<1>1. /\ UNCHANGED <<bridge, result>>
      /\ \A d \in Callers \ {c} :
            pc'[d] = pc[d] /\ wt'[d] = wt[d] /\ fired'[d] = fired[d] /\ tpc'[d] = tpc[d]
  BY DEF Call, CallStep, Cancel, MemoryGet, DiskGet, Lookup, StartTask, Spawn, StoreHandle,
         DirectFetch, Join, CheckResult, Wake, TakeResult, Leave, Abort, Unlink, JoinTask,
         Return, Published, Goto, TypeOK
<1>2. \/ tpc'[c] = tpc[c] /\ (pc[c] = "spawn" => pc'[c] = "spawn")
      \/ tpc'[c] \in Downloading
  BY DEF Call, CallStep, Cancel, MemoryGet, DiskGet, Lookup, StartTask, Spawn, StoreHandle,
         DirectFetch, Join, CheckResult, Wake, TakeResult, Leave, Abort, Unlink, JoinTask,
         Return, Published, Goto, TypeOK, LookingUp, Direct, Waiting, Downloading
<1>3. pc'[c] = "wait" => pc[c] = "check" /\ wt'[c] = wt[c] /\ result[wt[c]] = "none"
  BY DEF Call, CallStep, Cancel, MemoryGet, DiskGet, Lookup, StartTask, Spawn, StoreHandle,
         DirectFetch, Join, CheckResult, Wake, TakeResult, Leave, Abort, Unlink, JoinTask,
         Return, Published, Goto, TypeOK
<1>4. ASSUME NEW k \in Callers, Pending(k)
      PROVE  Pending(k)'
  BY <1>1, <1>2, <1>4, PendingKept
<1>. SUFFICES ASSUME NEW d \in Callers, NEW l, l = wt'[d], pc'[d] = "wait", ~fired'[d]
              PROVE  Pending(l)'
  BY DEF NoLostWakeup, Pending, Fetching
<1>5. CASE d = c
  <2>1. pc[c] = "check" /\ wt'[c] = wt[c] /\ result[wt[c]] = "none"
    BY <1>3, <1>5
  <2>2. wt[c] \in Callers /\ Created(wt[c])
    BY <2>1 DEF TypeOK, CallInv, Holding, Waiting
  <2>3. Pending(wt[c])
    BY <2>1, <2>2, Parts DEF TaskInv, Created, Pending, Fetching, Downloading, TypeOK, TaskPc
  <2>. QED BY <1>4, <1>5, <2>1, <2>2, <2>3
<1>6. CASE d # c
  <2>1. pc[d] = "wait" /\ ~fired[d] /\ wt'[d] = wt[d]
    BY <1>1, <1>6
  <2>2. wt[d] \in Callers /\ Pending(wt[d])
    BY <2>1, Parts DEF TypeOK, CallInv, Holding, Waiting, NoLostWakeup, Pending
  <2>. QED BY <1>4, <2>1, <2>2
<1>. QED BY <1>5, <1>6

\* A task passes notify_waiters only by waking every call that waits for it.
LEMMA TasksKeepWakeups ==
    ASSUME IInv, NoLostWakeup, NEW k \in Callers, TaskStep(k) \/ Aborted(k)
    PROVE  NoLostWakeup'
<1>. TypeOK /\ TaskInv(k) /\ CallInv(k)
  BY Parts
<1>1. /\ UNCHANGED <<bridge, pc, wt>>
      /\ \A l \in Callers \ {k} : tpc'[l] = tpc[l]
      /\ \A c \in Callers : fired[c] => fired'[c]
  BY DEF TaskStep, Aborted, Download, Publish, NotifyWaiters, RemoveEntry, StoreResult, TaskGoto,
         TypeOK
<1>2. \/ tpc'[k] \in Downloading \cup {"publish", "notify"}
      \/ tpc'[k] = "aborted" /\ ~bridge
      \/ tpc[k] \in {"unlink", "store"}
      \/ tpc[k] = "notify" /\ \A c \in Callers : wt[c] = k /\ pc[c] = "wait" => fired'[c]
  <2>1. CASE Aborted(k)
    BY <2>1 DEF Aborted, TaskGoto, TypeOK, TaskInv
  <2>2. CASE NotifyWaiters(k)
    BY <2>2 DEF NotifyWaiters, TaskGoto, TypeOK
  <2>3. CASE Download(k) \/ Publish(k)
    BY <2>3 DEF Download, Publish, TaskGoto, TypeOK, Downloading
  <2>4. CASE RemoveEntry(k) \/ StoreResult(k)
    BY <2>4 DEF RemoveEntry, StoreResult
  <2>. QED BY <2>1, <2>2, <2>3, <2>4 DEF TaskStep
<1>. SUFFICES ASSUME NEW d \in Callers, NEW l, l = wt'[d], pc'[d] = "wait", ~fired'[d]
              PROVE  Pending(l)'
  BY DEF NoLostWakeup, Pending, Fetching
<1>3. pc[d] = "wait" /\ ~fired[d] /\ wt'[d] = wt[d]
  BY <1>1
<1>4. wt[d] \in Callers /\ Pending(wt[d])
  BY <1>3, Parts DEF TypeOK, CallInv, Holding, Waiting, NoLostWakeup, Pending
<1>5. CASE wt[d] # k
  <2>1. Pending(wt[d])'
    BY <1>1, <1>4, <1>5, PendingKept
  <2>. QED BY <1>3, <2>1
<1>6. CASE wt[d] = k
  <2>1. tpc[k] \notin {"unlink", "store"}
    BY <1>4, <1>6 DEF Pending, Fetching, CallInv, Downloading
  <2>. QED BY <1>1, <1>2, <1>3, <1>6, <2>1 DEF Pending, Fetching
<1>. QED BY <1>5, <1>6

\* wait_for_task: notify_waiters wakes no call before there is a result and
\* passes none that waits, for any number of calls and URLs; on the request
\* side no task can end without it, on the response side only by an abort.
THEOREM WakeupsMatchResults == Spec => []WokenIffResult
<1>1. Init => NoLostWakeup
  BY DEF Init, NoLostWakeup
<1>2. IInv /\ NoLostWakeup /\ [Next]_vars => NoLostWakeup'
  <2>. SUFFICES ASSUME IInv, NoLostWakeup, [Next]_vars PROVE NoLostWakeup'
    OBVIOUS
  <2>1. CASE UNCHANGED vars
    BY <2>1 DEF vars, NoLostWakeup, Fetching
  <2>2. CASE Next
    BY <2>2, CallsKeepWakeups, TasksKeepWakeups DEF Next
  <2>. QED BY <2>1, <2>2
<1>3. Spec => []NoLostWakeup
  BY <1>1, <1>2, FetchInvariant, PTL DEF Spec
<1>. QED BY <1>3, WokenWithResult, PTL DEF WokenIffResult

\* With the background bridge on, max_inflight bounds the downloads that run,
\* and not only the entries of the map: each one has an entry of its own.
THEOREM DownloadLimit == Spec => []DownloadsBounded
<1>1. IInv => DownloadsBounded
  <2>. SUFFICES ASSUME IInv, bridge
                PROVE  Cardinality({k \in Callers : tpc[k] \in Downloading}) <= MaxInflight
    BY DEF DownloadsBounded
  <2>. DEFINE D == {k \in Callers : tpc[k] \in Downloading}
              f == [k \in D |-> url[k]]
  <2>1. \A k \in D : inflight[url[k]] = k /\ url[k] \in Urls
    BY Parts, CreatedHasUrl DEF Linked, Fetching, Created
  <2>2. f \in [D -> Entries]
    BY <2>1, FetchAssumption DEF Entries
  <2>3. \A k, l \in D : f[k] = f[l] => k = l
    BY <2>1
  <2>4. f \in Injection(D, Entries)
    BY <2>2, <2>3, Fun_IsInj
  <2>5. IsFiniteSet(Entries)
    BY FS_Subset, FetchAssumption DEF Entries
  <2>6. IsFiniteSet(D) /\ Cardinality(D) <= Cardinality(Entries)
    BY <2>4, <2>5, FS_Injection
  <2>7. Cardinality(D) \in Nat /\ Cardinality(Entries) \in Nat
    BY <2>5, <2>6, FS_CardinalityType
  <2>. QED BY <2>6, <2>7, Parts, FetchAssumption
<1>. QED BY <1>1, FetchInvariant, PTL
=============================================================================
