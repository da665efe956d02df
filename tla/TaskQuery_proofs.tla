-------------------------- MODULE TaskQuery_proofs --------------------------
(***************************************************************************)
(* The safety properties of TaskQuery, for any set of tasks, owners and    *)
(* concurrent requests and any times to live.                              *)
(*                                                                         *)
(* A copy comes into being when a row is read, with the id, the status and *)
(* the owner the row has then; every other step moves copies, handler to   *)
(* cache, cache to handler, handler to answer, under the id they bear      *)
(* (CopiedOnly).  Only FinishTask makes a result, and it meets no copy     *)
(* that shows one, since NotAhead holds and the row was pending.  So       *)
(* OneResult, NotAhead and OwnersKept are inductive together, and what is  *)
(* told of a copy is told to the owner of its row.                         *)
(***************************************************************************)
EXTENDS TaskQuery, TLAPS

-----------------------------------------------------------------------------
\* What a read of the table brings for an id: the row with that id.
LEMMA LoadedRow ==
    ASSUME NEW S \in SUBSET Tasks, NEW t \in Tasks, \E c \in Loaded(S) : c.id = t
    PROVE  /\ st[t] # "none"
           /\ (CHOOSE c \in Loaded(S) : c.id = t) = RowOf(t)
<1>1. \A c \in Loaded(S) : c.id = t => c = RowOf(t) /\ st[t] # "none"
  BY DEF Loaded, RowOf
<1>. QED BY <1>1

LEMMA RowOfType ==
    ASSUME TypeOK, NEW t \in Tasks, st[t] # "none"
    PROVE  RowOf(t) \in Row
<1>1. st[t] \in {"pending"} \cup Results
  BY DEF TypeOK, Status
<1>2. Owner[t] \in Owners
  BY QueryAssumption
<1>. QED BY <1>1, <1>2 DEF RowOf, Row

\* Every step of a handler, of the rest of the gateway and of time keeps the
\* types.
LEMMA TypePreserved == TypeOK /\ NotAhead /\ [Next]_vars => TypeOK'
<1> SUFFICES ASSUME TypeOK, NotAhead, [Next]_vars PROVE TypeOK'
  OBVIOUS
<1> USE DEF TypeOK, cacheVars, reqVars
<1>1. ASSUME NEW r \in Requests, Receive(r) PROVE TypeOK'
  BY <1>1 DEF Receive, Steps
<1>2. ASSUME NEW r \in Requests, NEW t \in Tasks, GetTask(r, t) PROVE TypeOK'
  BY <1>2 DEF GetTask, AfterLookup, Steps
<1>3. ASSUME NEW r \in Requests, NEW t \in Tasks, SetTask(r, t) PROVE TypeOK'
  <2>1. got[r][t] \in Row \cup {Missing}
    OBVIOUS
  <2>2. cached' \in [Tasks -> Row \cup {Missing}]
    BY <1>3, <2>1 DEF SetTask
  <2>3. ttl' \in [Tasks -> Nat]
    BY <1>3, QueryAssumption DEF SetTask, TaskTTL
  <2>. QED BY <1>3, <2>2, <2>3 DEF SetTask, Steps
<1>4. ASSUME NEW r \in Requests, Done(r), UNCHANGED <<st, cacheVars>>,
             told' \in SUBSET (Owners \X Tasks \X Row)
      PROVE  TypeOK'
  BY <1>4 DEF Done, Nothing, Steps
<1>5. ASSUME NEW r \in Requests, GetTasksByIDs(r) PROVE TypeOK'
  <2>1. CASE Done(r)
    BY <1>5, <2>1, <1>4 DEF GetTasksByIDs
  <2>2. CASE ~Done(r)
    <3> DEFINE new == [t \in Tasks |-> IF \E c \in Loaded(missing[r]) : c.id = t
                                       THEN CHOOSE c \in Loaded(missing[r]) : c.id = t
                                       ELSE got[r][t]]
    <3>1. got' = [got EXCEPT ![r] = new]
      BY <1>5, <2>2 DEF GetTasksByIDs
    <3>2. \A t \in Tasks : new[t] \in Row \cup {Missing}
      <4> SUFFICES ASSUME NEW t \in Tasks PROVE new[t] \in Row \cup {Missing}
        OBVIOUS
      <4>1. CASE \E c \in Loaded(missing[r]) : c.id = t
        <5>1. st[t] # "none" /\ (CHOOSE c \in Loaded(missing[r]) : c.id = t) = RowOf(t)
          BY <4>1, LoadedRow
        <5>2. RowOf(t) \in Row
          BY <5>1, RowOfType
        <5>. QED BY <4>1, <5>1, <5>2
      <4>2. CASE ~\E c \in Loaded(missing[r]) : c.id = t
        BY <4>2
      <4>. QED BY <4>1, <4>2
    <3>3. new \in [Tasks -> Row \cup {Missing}]
      BY <3>2
    <3> HIDE DEF new
    <3>4. got' \in [Requests -> [Tasks -> Row \cup {Missing}]]
      BY <3>1, <3>3
    <3>5. {c.id : c \in Loaded(missing[r])} \in SUBSET Tasks
      BY DEF Loaded, RowOf
    <3>6. missing' \in [Requests -> SUBSET Tasks]
      BY <1>5, <2>2, <3>5 DEF GetTasksByIDs
    <3>7. pc' \in [Requests -> Steps]
      BY <1>5, <2>2 DEF GetTasksByIDs, Steps
    <3>. QED BY <1>5, <2>2, <3>4, <3>6, <3>7 DEF GetTasksByIDs
  <2>. QED BY <2>1, <2>2
<1>6. ASSUME NEW r \in Requests, Answer(r) PROVE TypeOK'
  <2>1. ASSUME NEW o \in Owners, NEW k \in Kinds
        PROVE  Reports(r, o, k) \subseteq Owners \X Tasks \X Row
    BY DEF Reports, Finished
  <2>. QED BY <1>6, <2>1, <1>4 DEF Answer
<1>7. ASSUME NEW t \in Tasks, FinishTask(t) \/ DeleteTask(t) PROVE TypeOK'
  BY <1>7 DEF FinishTask, DeleteTask, Status
<1>8. CASE Tick
  BY <1>8 DEF Tick
<1>9. CASE Restart
  BY <1>9 DEF Restart, Nothing, Steps
<1>10. CASE UNCHANGED vars
  BY <1>10 DEF vars
<1>. QED BY <1>1, <1>2, <1>3, <1>5, <1>6, <1>7, <1>8, <1>9, <1>10 DEF Next, Step

-----------------------------------------------------------------------------
\* Whatever is kept or told under u after the step was so before, or is the
\* row itself.
CopiedOnly(u) ==
    /\ st'[u] \in {st[u], "none"}
    /\ Copies(u)' \subseteq Copies(u) \cup Loaded({u})

\* It is enough to look at the three places.
LEMMA CopiedByPlace ==
    ASSUME NEW u \in Tasks,
           cached'[u] \in Copies(u) \cup {Missing} \cup Loaded({u}),
           \A q \in Requests : got'[q][u] \in Copies(u) \cup {Missing} \cup Loaded({u}),
           \A e \in told' : e[2] = u => e[3] \in Copies(u) \cup {Missing},
           st'[u] \in {st[u], "none"}
    PROVE  CopiedOnly(u)
BY DEF CopiedOnly, Copies

\* What is in these places now are copies, or nothing.
LEMMA Places ==
    ASSUME NEW u \in Tasks
    PROVE  /\ cached[u] \in Copies(u) \cup {Missing}
           /\ \A q \in Requests : got[q][u] \in Copies(u) \cup {Missing}
           /\ \A e \in told : e[2] = u => e[3] \in Copies(u) \cup {Missing}
BY DEF Copies

\* A handler that returns drops its copies.
LEMMA DoneCopies ==
    ASSUME TypeOK, NEW u \in Tasks, NEW r \in Requests, Done(r), UNCHANGED <<st, cacheVars>>,
           \A e \in told' : e[2] = u => e[3] \in Copies(u) \cup {Missing}
    PROVE  CopiedOnly(u)
<1>1. \A q \in Requests : got'[q][u] \in {got[q][u], Missing}
  BY DEF Done, TypeOK, Nothing
<1>. QED BY <1>1, Places, CopiedByPlace DEF cacheVars

\* No step but the one that finishes a task makes a result of it: cache fills,
\* look-ups, batch reads and answers only copy, and never under another id.
LEMMA NoNewResult ==
    ASSUME TypeOK, NotAhead, [Next]_vars, NEW u \in Tasks, ~FinishTask(u)
    PROVE  CopiedOnly(u)
<1>1. ASSUME UNCHANGED <<st, cached, got, told>> PROVE CopiedOnly(u)
  BY <1>1, Places, CopiedByPlace
<1>2. ASSUME NEW r \in Requests, NEW t \in Tasks, GetTask(r, t) PROVE CopiedOnly(u)
  <2>1. cached'[u] \in {cached[u], Missing}
    BY <1>2 DEF GetTask, TypeOK
  <2>2. \A q \in Requests : got'[q][u] \in {got[q][u], cached[u], Missing}
    BY <1>2 DEF GetTask, TypeOK
  <2>. QED BY <1>2, <2>1, <2>2, Places, CopiedByPlace DEF GetTask
<1>3. ASSUME NEW r \in Requests, NEW t \in Tasks, SetTask(r, t) PROVE CopiedOnly(u)
  <2> DEFINE c == got[r][t]
  <2>1. cached' = [cached EXCEPT ![c.id] = c]
    BY <1>3 DEF SetTask
  <2>2. cached'[u] \in {cached[u], got[r][u], Missing}
    <3>1. CASE c = Missing
      <4>1. cached'[u] = IF u = c.id THEN Missing ELSE cached[u]
        BY <2>1, <3>1 DEF TypeOK
      <4>. QED BY <4>1
    <3>2. CASE c # Missing
      <4>1. c \in Copies(t)
        BY <3>2 DEF Copies
      <4>2. c.id = t
        BY <4>1 DEF NotAhead
      <4>. QED BY <2>1, <4>2 DEF TypeOK
    <3>. QED BY <3>1, <3>2
  <2>. QED BY <1>3, <2>2, Places, CopiedByPlace DEF SetTask
<1>4. ASSUME NEW r \in Requests, GetTasksByIDs(r) PROVE CopiedOnly(u)
  <2>1. CASE Done(r)
    BY <1>4, <2>1, Places, DoneCopies DEF GetTasksByIDs
  <2>2. CASE ~Done(r)
    <3> DEFINE new == [t \in Tasks |-> IF \E c \in Loaded(missing[r]) : c.id = t
                                       THEN CHOOSE c \in Loaded(missing[r]) : c.id = t
                                       ELSE got[r][t]]
    <3>1. got' = [got EXCEPT ![r] = new]
      BY <1>4, <2>2 DEF GetTasksByIDs
    <3>2. new[u] \in {got[r][u]} \cup Loaded({u})
      <4>1. CASE \E c \in Loaded(missing[r]) : c.id = u
        <5>1. missing[r] \in SUBSET Tasks
          BY DEF TypeOK
        <5>2. st[u] # "none" /\ (CHOOSE c \in Loaded(missing[r]) : c.id = u) = RowOf(u)
          BY <4>1, <5>1, LoadedRow
        <5>3. RowOf(u) \in Loaded({u})
          BY <5>2 DEF Loaded
        <5>. QED BY <4>1, <5>2, <5>3
      <4>2. CASE ~\E c \in Loaded(missing[r]) : c.id = u
        BY <4>2
      <4>. QED BY <4>1, <4>2
    <3> HIDE DEF new
    <3>3. \A q \in Requests : got'[q][u] \in {got[q][u]} \cup Loaded({u})
      BY <3>1, <3>2 DEF TypeOK
    <3>. QED BY <1>4, <2>2, <3>3, Places, CopiedByPlace DEF GetTasksByIDs, cacheVars
  <2>. QED BY <2>1, <2>2
<1>5. ASSUME NEW r \in Requests, Answer(r) PROVE CopiedOnly(u)
  <2>1. ASSUME NEW e \in told', e[2] = u
        PROVE  e[3] \in Copies(u) \cup {Missing}
    <3>1. PICK p \in Owners, k \in Kinds : told' \subseteq told \cup Reports(r, p, k)
      BY <1>5 DEF Answer
    <3>2. CASE e \in told
      BY <3>2, <2>1, Places
    <3>3. CASE e \in Reports(r, p, k)
      <4>1. PICK t \in Tasks : e = <<p, t, got[r][t]>>
        BY <3>3 DEF Reports, Finished, TypeOK
      <4>2. t = u
        BY <4>1, <2>1
      <4>. QED BY <4>1, <4>2, Places
    <3>. QED BY <2>1, <3>1, <3>2, <3>3
  <2>. QED BY <1>5, <2>1, DoneCopies DEF Answer
<1>6. ASSUME NEW t \in Tasks, FinishTask(t) PROVE CopiedOnly(u)
  <2>1. t # u
    BY <1>6
  <2>2. st'[u] = st[u]
    BY <1>6, <2>1 DEF FinishTask, TypeOK
  <2>. QED BY <1>6, <2>2, Places, CopiedByPlace DEF FinishTask, cacheVars, reqVars
<1>7. ASSUME NEW t \in Tasks, DeleteTask(t) PROVE CopiedOnly(u)
  <2>1. st'[u] \in {st[u], "none"}
    BY <1>7 DEF DeleteTask, TypeOK
  <2>. QED BY <1>7, <2>1, Places, CopiedByPlace DEF DeleteTask, cacheVars, reqVars
<1>8. CASE Restart
  BY <1>8, Places, CopiedByPlace DEF Restart, Nothing
<1>9. CASE Tick
  BY <1>9, <1>1 DEF Tick, reqVars
<1>10. ASSUME NEW r \in Requests, Receive(r) PROVE CopiedOnly(u)
  BY <1>10, <1>1 DEF Receive, cacheVars
<1>11. CASE UNCHANGED vars
  BY <1>11, <1>1 DEF vars, cacheVars, reqVars
<1>. QED BY <1>2, <1>3, <1>4, <1>5, <1>6, <1>7, <1>8, <1>9, <1>10, <1>11 DEF Next, Step

-----------------------------------------------------------------------------
\* What CopiedOnly says of the results of a task: none is new.
LEMMA ResultsShrink ==
    ASSUME NEW u \in Tasks, CopiedOnly(u)
    PROVE  ResultsOf(u)' \subseteq ResultsOf(u)
<1>1. \A c \in Loaded({u}) : c.status = st[u]
  BY DEF Loaded, RowOf
<1>. QED BY <1>1 DEF CopiedOnly, ResultsOf, Results

\* What the invariant says of the copies under one id.
RightCopies(u) ==
    \A c \in Copies(u) : /\ c.id = u
                         /\ c.status \in Results => st[u] \in Results \cup {"none"}
                         /\ c.owner = Owner[u]

\* The invariant is inductive.
LEMMA InvariantStep == IInv /\ [Next]_vars => IInv'
<1> SUFFICES ASSUME IInv, [Next]_vars PROVE IInv'
  OBVIOUS
<1>1. TypeOK /\ OneResult /\ NotAhead /\ OwnersKept /\ OwnerOnly
  BY DEF IInv
<1>2. TypeOK'
  BY <1>1, TypePreserved
<1>3. ASSUME NEW u \in Tasks
      PROVE  (\A a, b \in ResultsOf(u)' : a = b) /\ RightCopies(u)'
  <2>0. RightCopies(u)
    BY <1>1 DEF RightCopies, NotAhead, OwnersKept
  <2>1. CASE FinishTask(u)
    <3>1. \A c \in Copies(u) : c.status \notin Results
      BY <2>0, <2>1 DEF RightCopies, FinishTask, Results
    <3>2. PICK s \in Results : st' = [st EXCEPT ![u] = s]
      BY <2>1 DEF FinishTask
    <3>3. st'[u] = s
      BY <1>1, <3>2 DEF TypeOK
    <3>4. Copies(u)' = Copies(u)
      BY <2>1 DEF FinishTask, Copies, cacheVars, reqVars
    <3>5. ResultsOf(u)' \subseteq {s}
      BY <3>1, <3>3, <3>4 DEF ResultsOf
    <3>6. RightCopies(u)'
      BY <2>0, <3>3, <3>4 DEF RightCopies
    <3>. QED BY <3>5, <3>6
  <2>2. CASE ~FinishTask(u)
    <3>1. CopiedOnly(u)
      BY <1>1, <2>2, NoNewResult
    <3>2. ResultsOf(u)' \subseteq ResultsOf(u)
      BY <3>1, ResultsShrink
    <3>3. \A c \in Loaded({u}) : c.id = u /\ c.status = st[u] /\ c.owner = Owner[u]
      BY DEF Loaded, RowOf
    <3>4. RightCopies(u)'
      BY <2>0, <3>1, <3>3 DEF RightCopies, CopiedOnly
    <3>. QED BY <1>1, <3>2, <3>4 DEF OneResult
  <2>. QED BY <2>1, <2>2
<1>4. OneResult' /\ NotAhead' /\ OwnersKept'
  BY <1>3 DEF OneResult, NotAhead, OwnersKept, RightCopies
<1>5. OwnerOnly'
  <2>2. CASE UNCHANGED told
    BY <1>1, <2>2 DEF OwnerOnly
  <2>3. ASSUME NEW r \in Requests, Answer(r) PROVE OwnerOnly'
    <3>1. PICK o \in Owners, k \in Kinds : told' \subseteq told \cup Reports(r, o, k)
      BY <2>3 DEF Answer
    <3>2. ASSUME NEW e \in Reports(r, o, k) PROVE Owner[e[3].id] = e[1]
      <4>1. PICK t \in Finished(r) : e = <<o, t, got[r][t]>> /\ got[r][t].owner = o
        BY <3>2 DEF Reports
      <4>2. t \in Tasks /\ got[r][t] \in Copies(t)
        BY <1>1, <4>1 DEF Finished, TypeOK, Copies
      <4>3. got[r][t].id = t /\ got[r][t].owner = Owner[t]
        BY <1>1, <4>2 DEF NotAhead, OwnersKept
      <4>. QED BY <4>1, <4>3
    <3>. QED BY <1>1, <3>1, <3>2 DEF OwnerOnly
  <2>4. UNCHANGED told \/ \E r \in Requests : Answer(r)
    BY DEF Next, Step, vars, Receive, GetTask, SetTask, GetTasksByIDs,
           FinishTask, DeleteTask, Tick, Restart
  <2>. QED BY <2>2, <2>3, <2>4
<1>. QED BY <1>2, <1>4, <1>5 DEF IInv

\* Initially there is no copy at all.
LEMMA InvariantInit == Init => IInv
<1> SUFFICES ASSUME Init PROVE IInv
  OBVIOUS
<1>1. TypeOK
  BY DEF Init, TypeOK, Nothing, Steps, Status
<1>2. \A t \in Tasks : Copies(t) = {}
  BY DEF Init, Copies, Nothing
<1>3. \A t \in Tasks : ResultsOf(t) = {}
  BY <1>2 DEF Init, ResultsOf, Results
<1>4. OwnerOnly
  BY DEF Init, OwnerOnly
<1>. QED BY <1>1, <1>2, <1>3, <1>4 DEF IInv, OneResult, NotAhead, OwnersKept

\* The invariant holds of the query API in every reachable state.
THEOREM QueryInvariant == Spec => []IInv
BY InvariantInit, InvariantStep, PTL DEF Spec

\* All copies and all answers agree on a task's result, whatever the cache,
\* concurrent handlers, the cleaner and restarts do.
THEOREM ResultsAgree == Spec => []OneResult
<1>1. IInv => OneResult
  BY DEF IInv
<1>. QED BY <1>1, QueryInvariant, PTL

\* What is kept or told under an id is a copy of that row, and shows a result
\* only when the row has it, or had it.
THEOREM NoResultAhead == Spec => []NotAhead
<1>1. IInv => NotAhead
  BY DEF IInv
<1>. QED BY <1>1, QueryInvariant, PTL

\* Comparing the owner_hash of a copy is enough: the shared cache tells nobody
\* a result of a row of another owner.
THEOREM OwnersApart == Spec => []OwnerOnly
<1>1. IInv => OwnerOnly
  BY DEF IInv
<1>. QED BY <1>1, QueryInvariant, PTL
=============================================================================
