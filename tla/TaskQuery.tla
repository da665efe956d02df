------------------------------ MODULE TaskQuery ------------------------------
(***************************************************************************)
(* The query API of async-gateway: GET of a task, of its content and       *)
(* batch-get, over the TaskCache.  A row is pending, has its result, or is *)
(* deleted; accepted, queued and running are one here, as they are to      *)
(* these handlers.  Ids are random: a deleted one is not given out again,  *)
(* and nobody knows one before its row is inserted.                        *)
(*                                                                         *)
(* A copy of a row carries its own id and owner_hash, as domain.Task does: *)
(* maps are filled by the id of the row that came back, and it is the      *)
(* copy's owner_hash, not the row's, that is compared with the caller's.   *)
(*                                                                         *)
(* Time passes in ticks; the cache stamps an entry with a time to live     *)
(* that a tick shortens.  A slot of Requests serves one request after      *)
(* another; loadTask is loadTasksByIDs for one id.  The limiter is only    *)
(* allowed to refuse; what a response looks like is left out.              *)
(***************************************************************************)
EXTENDS Naturals

CONSTANTS
    Tasks,        \* task ids, existing or not
    Owners,       \* owner hashes
    Owner,        \* task id -> owner_hash of its row, which nothing updates
    Requests,     \* handlers running at the same time
    Batchers,     \* bound: those of them that may serve a batch-get
    Missing,      \* no copy of a row: a nil or absent *domain.Task
    RunningTTL,   \* in ticks
    TerminalTTL

ASSUME QueryAssumption ==
    /\ Batchers \subseteq Requests
    /\ Owner \in [Tasks -> Owners]
    /\ RunningTTL \in Nat \ {0}
    /\ TerminalTTL \in Nat \ {0}

\* "failed" stands for failed and uncertain, which these handlers treat alike.
Results == {"succeeded", "failed"}

\* domain.Task, as far as the handlers look at it.
Row == [id : Tasks, status : {"pending"} \cup Results, owner : Owners]

ASSUME MissingAssumption == Missing \notin Row

VARIABLES
    st,           \* the tasks table: status of each row
    cached, ttl,  \* TaskCache.tasks: id -> the copy, and the time it has left
    pc, ids,      \* each request: its step, the ids it asks for
    todo,         \* ids still to look up in the cache, then missing ids
    missing,
    got,          \* tasksByID: id -> the copy
    told          \* history: who was told which copy when asking for which id

cacheVars == <<cached, ttl>>
reqVars   == <<pc, ids, todo, missing, got>>
vars == <<st, cacheVars, reqVars, told>>

-----------------------------------------------------------------------------
Status  == {"none", "pending"} \cup Results
Kinds   == {"status", "content"}
Steps   == {"idle", "lookup", "query", "fill", "answer"}

TypeOK ==
    /\ st \in [Tasks -> Status]
    /\ cached \in [Tasks -> Row \cup {Missing}]
    /\ ttl \in [Tasks -> Nat]
    /\ pc \in [Requests -> Steps]
    /\ ids \in [Requests -> SUBSET Tasks]
    /\ todo \in [Requests -> SUBSET Tasks]
    /\ missing \in [Requests -> SUBSET Tasks]
    /\ got \in [Requests -> [Tasks -> Row \cup {Missing}]]
    /\ told \in SUBSET (Owners \X Tasks \X Row)

Nothing == [t \in Tasks |-> Missing]

Init ==
    /\ st \in [Tasks -> {"none", "pending"}]
    /\ cached = Nothing
    /\ ttl = [t \in Tasks |-> 0]
    /\ pc = [r \in Requests |-> "idle"]
    /\ ids = [r \in Requests |-> {}]
    /\ todo = [r \in Requests |-> {}]
    /\ missing = [r \in Requests |-> {}]
    /\ got = [r \in Requests |-> Nothing]
    /\ told = {}

-----------------------------------------------------------------------------
(* The rest of the gateway, and time.                                      *)

\* Variant: no AND finished_at IS NULL, a late writer overwrites the result.
FinishTaskAgain(t) ==
    /\ st[t] # "none"
    /\ \E s \in Results : st' = [st EXCEPT ![t] = s]
    /\ UNCHANGED <<cacheVars, reqVars, told>>

\* finishSucceededSQL, finishFailedSQL, markUncertainSQL.  That they find the
\* row unfinished is TerminalIsFinal of AsyncGateway.
FinishTask(t) ==
    /\ st[t] = "pending"
    /\ \E s \in Results : st' = [st EXCEPT ![t] = s]
    /\ UNCHANGED <<cacheVars, reqVars, told>>

\* deleteExpiredTasksBatchSQL.
DeleteTask(t) ==
    /\ st[t] \in Results
    /\ st' = [st EXCEPT ![t] = "none"]
    /\ UNCHANGED <<cacheVars, reqVars, told>>

\* now() moves on; an entry without time left is expired.
Tick ==
    /\ \E t \in Tasks : ttl[t] > 0
    /\ ttl' = [t \in Tasks |-> IF ttl[t] > 0 THEN ttl[t] - 1 ELSE 0]
    /\ UNCHANGED <<st, cached, reqVars, told>>

-----------------------------------------------------------------------------
(* One request.                                                            *)

\* The handler returns; its maps are gone.
Done(r) ==
    /\ pc' = [pc EXCEPT ![r] = "idle"]
    /\ ids' = [ids EXCEPT ![r] = {}]
    /\ todo' = [todo EXCEPT ![r] = {}]
    /\ missing' = [missing EXCEPT ![r] = {}]
    /\ got' = [got EXCEPT ![r] = Nothing]

\* Authorized, and the limiter lets it through; otherwise nothing happens.
Receive(r) ==
    /\ pc[r] = "idle"
    /\ \E S \in SUBSET Tasks \ {{}} :
          /\ r \in Batchers \/ \E t \in Tasks : S = {t}
          /\ ids' = [ids EXCEPT ![r] = S]
          /\ todo' = [todo EXCEPT ![r] = S]
    /\ pc' = [pc EXCEPT ![r] = "lookup"]
    /\ UNCHANGED <<st, cacheVars, missing, got, told>>

Valid(t) == cached[t] # Missing /\ ttl[t] > 0

TaskTTL(s) == IF s \in Results THEN TerminalTTL ELSE RunningTTL

AfterLookup(r, t, miss) ==
    IF todo[r] # {t} THEN "lookup" ELSE IF miss # {} THEN "query" ELSE "answer"

\* Variant: a hit renews the entry.
GetTaskRenewing(r, t) ==
    /\ pc[r] = "lookup" /\ t \in todo[r]
    /\ LET miss == IF Valid(t) THEN missing[r] ELSE missing[r] \cup {t}
       IN  /\ missing' = [missing EXCEPT ![r] = miss]
           /\ pc' = [pc EXCEPT ![r] = AfterLookup(r, t, miss)]
    /\ got' = [got EXCEPT ![r][t] = IF Valid(t) THEN cached[t] ELSE Missing]
    /\ ttl' = [ttl EXCEPT ![t] = IF Valid(t) THEN TaskTTL(cached[t].status) ELSE 0]
    /\ todo' = [todo EXCEPT ![r] = @ \ {t}]
    /\ UNCHANGED <<st, cached, ids, told>>

\* TaskCache.GetTask: an expired entry is deleted.
GetTask(r, t) ==
    /\ pc[r] = "lookup" /\ t \in todo[r]
    /\ LET miss == IF Valid(t) THEN missing[r] ELSE missing[r] \cup {t}
       IN  /\ missing' = [missing EXCEPT ![r] = miss]
           /\ pc' = [pc EXCEPT ![r] = AfterLookup(r, t, miss)]
    /\ got' = [got EXCEPT ![r][t] = IF Valid(t) THEN cached[t] ELSE Missing]
    /\ cached' = [cached EXCEPT ![t] = IF Valid(t) THEN @ ELSE Missing]
    /\ todo' = [todo EXCEPT ![r] = @ \ {t}]
    /\ UNCHANGED <<st, ttl, ids, told>>

\* scanTask: the row of t as it is now.
RowOf(t) == [id |-> t, status |-> st[t], owner |-> Owner[t]]

\* The rows of the ids that exist, in no particular order.
Loaded(S) == {RowOf(t) : t \in {u \in S : st[u] # "none"}}

\* Variant: the n-th row that comes back is taken to be that of the n-th id.
GetTasksByIDsInOrder(r) ==
    /\ pc[r] = "query"
    /\ \/ Done(r)
       \/ /\ \E f \in [missing[r] -> Loaded(missing[r]) \cup {Missing}] :
                got' = [got EXCEPT ![r] = [t \in Tasks |-> IF t \in missing[r] THEN f[t] ELSE @[t]]]
          /\ missing' = [missing EXCEPT ![r] = {t \in @ : got'[r][t] # Missing}]
          /\ pc' = [pc EXCEPT ![r] = IF missing'[r] = {} THEN "answer" ELSE "fill"]
          /\ UNCHANGED <<ids, todo>>
    /\ UNCHANGED <<st, cacheVars, told>>

\* GetTaskByID or GetTasksByIDs: one statement for all missing ids, whose
\* rows are filed under the ids they bring with them.  The handler answers
\* 500 when it fails.
GetTasksByIDs(r) ==
    /\ pc[r] = "query"
    /\ \/ Done(r)
       \/ /\ got' = [got EXCEPT ![r] =
                       [t \in Tasks |-> IF \E c \in Loaded(missing[r]) : c.id = t
                                       THEN CHOOSE c \in Loaded(missing[r]) : c.id = t
                                       ELSE @[t]]]
          /\ missing' = [missing EXCEPT ![r] = {c.id : c \in Loaded(@)}]
          /\ pc' = [pc EXCEPT ![r] = IF missing'[r] = {} THEN "answer" ELSE "fill"]
          /\ UNCHANGED <<ids, todo>>
    /\ UNCHANGED <<st, cacheVars, told>>

\* TaskCache.SetTask, for each loaded row: whatever is cached under the id
\* of the copy by now is replaced.
SetTask(r, t) ==
    /\ pc[r] = "fill" /\ t \in missing[r]
    /\ LET c == got[r][t]
       IN  /\ cached' = [cached EXCEPT ![c.id] = c]
           /\ ttl' = [ttl EXCEPT ![c.id] = TaskTTL(c.status)]
    /\ missing' = [missing EXCEPT ![r] = @ \ {t}]
    /\ pc' = [pc EXCEPT ![r] = IF missing[r] = {t} THEN "answer" ELSE "fill"]
    /\ UNCHANGED <<st, ids, todo, got, told>>

\* The results among the copies that r has for the ids it was asked for.
Finished(r) == {t \in ids[r] : got[r][t] # Missing /\ got[r][t].status \in Results}

\* Variant: the owner is not compared.
ReportsUnchecked(r, o, k) == {<<o, t, got[r][t]>> : t \in Finished(r)}

\* The results an answer tells: none when the copy is of a foreign task (403,
\* or not_found in a batch); content redirects to the images of a success,
\* else it is 409.
Reports(r, o, k) ==
    {<<o, t, got[r][t]>> :
        t \in {u \in Finished(r) : /\ got[r][u].owner = o
                                   /\ k = "content" => got[r][u].status = "succeeded"}}

\* Who asks, and at which endpoint, makes no difference before this step, so
\* it is chosen here.  Content is of one task.  The answer may not arrive, or
\* be 409 because a success has no image.
Answer(r) ==
    /\ pc[r] = "answer"
    /\ \E o \in Owners, k \in Kinds :
          /\ k = "content" => \E t \in Tasks : ids[r] = {t}
          /\ told' \in {told, told \cup Reports(r, o, k)}
    /\ Done(r)
    /\ UNCHANGED <<st, cacheVars>>

\* The process restarts: cache and requests are gone.
Restart ==
    /\ cached' = Nothing
    /\ ttl' = [t \in Tasks |-> 0]
    /\ pc' = [r \in Requests |-> "idle"]
    /\ ids' = [r \in Requests |-> {}]
    /\ todo' = [r \in Requests |-> {}]
    /\ missing' = [r \in Requests |-> {}]
    /\ got' = [r \in Requests |-> Nothing]
    /\ UNCHANGED <<st, told>>

-----------------------------------------------------------------------------
Step(r) ==
    \/ \E t \in Tasks : GetTask(r, t) \/ SetTask(r, t)
    \/ GetTasksByIDs(r) \/ Answer(r)

Next ==
    \/ \E r \in Requests : Receive(r) \/ Step(r)
    \/ \E t \in Tasks : FinishTask(t) \/ DeleteTask(t)
    \/ Tick \/ Restart

Spec == Init /\ [][Next]_vars

\* Handlers run, and time passes.
Fairness == WF_vars(Tick) /\ \A r \in Requests : WF_vars(Step(r))

FairSpec == Spec /\ Fairness

-----------------------------------------------------------------------------
(* Properties.                                                             *)

\* Every copy under the id t: in the cache, with the requests under way, and
\* in what anybody who asked for t was ever told.
Copies(t) ==
    ({cached[t]} \cup {got[r][t] : r \in Requests}
        \cup {e[3] : e \in {x \in told : x[2] = t}}) \ {Missing}

\* The results the row and the copies show.
ResultsOf(t) == ({st[t]} \cup {c.status : c \in Copies(t)}) \cap Results

\* A task has one result: the row, the cache entry, the copies that handlers
\* hold and all answers ever given agree on it, however fills from slow
\* handlers, expiry, deletion and restarts interleave (loadTask stores what
\* it read without looking at what is cached by then).
OneResult == \A t \in Tasks : \A a, b \in ResultsOf(t) : a = b

\* What is kept or told under an id is a copy of the row with that id, and
\* shows no result that the row does not have, or had until the cleaner
\* deleted it: the rows of a batch come back in any order, some not at all,
\* and fill the cache that reads of single tasks share.
NotAhead ==
    \A t \in Tasks : \A c \in Copies(t) :
        /\ c.id = t
        /\ c.status \in Results => st[t] \in Results \cup {"none"}

\* All owners share one cache, filled by whoever asked first, also by a
\* stranger, and only the owner_hash of a copy is ever compared; still
\* nobody is told a result of a row that belongs to another owner.
OwnerOnly == \A e \in told : Owner[e[3].id] = e[1]

\* The cache forgets what is no longer true: once a task is finished, or
\* deleted, only handlers that read the row before can bring the old status
\* back, and polling does not keep it alive (GetTask does not extend
\* expiresAt).
CacheConverges ==
    <>[](\A t \in Tasks : Valid(t) /\ st[t] # "pending" => cached[t].status = st[t])

\* Every copy has the owner_hash of its row.
OwnersKept == \A t \in Tasks : \A c \in Copies(t) : c.owner = Owner[t]

\* Inductive: what the proofs keep.
IInv == TypeOK /\ OneResult /\ NotAhead /\ OwnersKept /\ OwnerOnly
=============================================================================
