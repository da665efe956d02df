------------------------------ MODULE TaskStates ------------------------------
(***************************************************************************)
(* What the gateway promises about one task: the state machine of the A3   *)
(* design (section 5.7), with the request-dispatched mark that decides     *)
(* whether the task may still be run again.  No process, queue or worker   *)
(* appears: a reader of the tasks table sees nothing else.                 *)
(***************************************************************************)
CONSTANT Tasks

VARIABLES
    st,     \* the status a reader of the tasks table sees; "none": no row
    disp    \* the tasks whose request is marked as dispatched

vars == <<st, disp>>

Open == {"accepted", "queued", "running"}
Done == {"succeeded", "failed", "uncertain"}

TypeOK ==
    /\ st \in [Tasks -> {"none"} \cup Open \cup Done]
    /\ disp \in SUBSET Tasks

Init ==
    /\ st = [t \in Tasks |-> "none"]
    /\ disp = {}

Accept(t) ==
    /\ st[t] = "none"
    /\ st' = [st EXCEPT ![t] = "accepted"]
    /\ UNCHANGED disp

\* First submission, or requeued after a restart: never once dispatched.
Enqueue(t) ==
    /\ st[t] \in Open
    /\ t \notin disp
    /\ st' = [st EXCEPT ![t] = "queued"]
    /\ UNCHANGED disp

Run(t) ==
    /\ st[t] = "queued"
    /\ t \notin disp
    /\ st' = [st EXCEPT ![t] = "running"]
    /\ UNCHANGED disp

\* The mark is written while the task runs, or late, once it is finished.
Dispatch(t) ==
    /\ st[t] \in {"running"} \cup Done
    /\ disp' = disp \cup {t}
    /\ UNCHANGED st

\* Several tasks at once when the shutdown gives up on all that run.
Finish(S, d) ==
    /\ \A t \in S : st[t] \in IF d = "failed" THEN Open ELSE {"running"}
    /\ st' = [t \in Tasks |-> IF t \in S THEN d ELSE st[t]]
    /\ UNCHANGED disp

Purge(t) ==
    /\ st[t] \in Done
    /\ st' = [st EXCEPT ![t] = "none"]
    /\ disp' = disp \ {t}

Next ==
    \/ \E t \in Tasks : Accept(t) \/ Enqueue(t) \/ Run(t) \/ Dispatch(t) \/ Purge(t)
    \/ \E S \in SUBSET Tasks, d \in Done : Finish(S, d)

Spec == Init /\ [][Next]_vars
=============================================================================
