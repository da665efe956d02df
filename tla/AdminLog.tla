------------------------------ MODULE AdminLog ------------------------------
(***************************************************************************)
(* The admin statistics and the log of the last requests (admin.rs).  An   *)
(* entry is abstracted to its id and the request it is about; the texts    *)
(* and the durations are left out.                                         *)
(***************************************************************************)
EXTENDS Integers, Sequences

CONSTANT LogCapacity      \* ADMIN_LOG_CAPACITY

ASSUME LogCapacityAssumption == LogCapacity \in Nat \ {0}

VARIABLES
  totalRequests,   \* total_requests
  errorRequests,   \* error_requests
  nextId,          \* next_id of the log buffer
  entries          \* the log, newest first

adminVars == <<totalRequests, errorRequests, nextId, entries>>

(* AdminState::new *)
AdminInit ==
  /\ totalRequests = 0
  /\ errorRequests = 0
  /\ nextId = 0
  /\ entries = <<>>

(* Mutant: a bad request is not counted as an error.                       *)
CountAbove400(statusCode) ==
  /\ totalRequests' = totalRequests + 1
  /\ errorRequests' = errorRequests + IF statusCode > 400 THEN 1 ELSE 0
  /\ UNCHANGED <<nextId, entries>>

(* apply_admin_stats for an answer with this status code.                  *)
Count(statusCode) ==
  /\ totalRequests' = totalRequests + 1
  /\ errorRequests' = errorRequests + IF statusCode >= 400 THEN 1 ELSE 0
  /\ UNCHANGED <<nextId, entries>>

(* record before it waits for the lock of the log: fetch_add on next_id.   *)
TakeId ==
  /\ nextId' = nextId + 1
  /\ UNCHANGED <<totalRequests, errorRequests, entries>>

(* record under the lock: push_front, then pop_back down to the capacity.  *)
PushEntry(id, r) ==
  /\ entries' = LET all == <<[id |-> id, req |-> r]>> \o entries
                IN  SubSeq(all, 1, IF Len(all) < LogCapacity THEN Len(all) ELSE LogCapacity)
  /\ UNCHANGED <<totalRequests, errorRequests, nextId>>
=============================================================================
