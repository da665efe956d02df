---------------------------- MODULE BlobRuntime ----------------------------
(***************************************************************************)
(* The blob runtime of the Rust proxy (blob_runtime.rs): request images    *)
(* and encoded request bodies are kept in memory while a global budget of  *)
(* hot bytes lasts and in spill files otherwise.                           *)
(*                                                                         *)
(* A blob is named by its use, which stands for the id of next_id.  Sizes  *)
(* are abstracted to what the code tells apart: a blob larger than         *)
(* inline_max_bytes or request_hot_budget_bytes is never held in memory,   *)
(* any other one takes one unit of the HotBudget.                          *)
(***************************************************************************)
EXTENDS Integers, FiniteSets

CONSTANTS
  Blobs,       \* every blob the handlers may create
  HotBudget    \* global_hot_budget_bytes, in units

ASSUME BlobsAssumption == IsFiniteSet(Blobs)
ASSUME HotBudgetAssumption == HotBudget \in Nat

VARIABLES
  storage,     \* blob -> where its bytes are
  seen,        \* blob -> the counter value its reservation has loaded
  removed,     \* blobs whose removed flag is set
  spillFiles,  \* blobs with a file in spill_dir
  globalHot,   \* global_hot_bytes
  spillCount   \* spill_count

blobVars == <<storage, seen, removed, spillFiles, globalHot, spillCount>>

(* "none": not stored yet; "reserving": inside the compare-and-swap loop;  *)
(* "writing": its spill file is being written; "failed": no handle was     *)
(* built, because the write failed or the task that wrote was dropped.     *)
Storages ==
  {"none", "reserving", "writing", "inline", "shared", "spilled", "failed"}

BlobTypeOK ==
  /\ storage \in [Blobs -> Storages]
  /\ seen \in [Blobs -> Nat]
  /\ removed \subseteq Blobs
  /\ spillFiles \subseteq Blobs
  /\ globalHot \in Nat
  /\ spillCount \in Nat

(* BlobRuntime::new *)
BlobInit ==
  /\ storage = [b \in Blobs |-> "none"]
  /\ seen = [b \in Blobs |-> 0]
  /\ removed = {}
  /\ spillFiles = {}
  /\ globalHot = 0
  /\ spillCount = 0

Stored(b) == storage[b] \in {"inline", "shared", "spilled"}

(* What open_reader and read_bytes need: bytes in memory, or the file.     *)
Readable(b) ==
  \/ storage[b] \in {"inline", "shared"}
  \/ storage[b] = "spilled" /\ b \in spillFiles

-----------------------------------------------------------------------------
(* store_external_shared_bytes: bytes the image cache owns, no budget.     *)
StoreExternal(b) ==
  /\ storage[b] = "none"
  /\ storage' = [storage EXCEPT ![b] = "shared"]
  /\ UNCHANGED <<seen, removed, spillFiles, globalHot, spillCount>>

(* A blob too large for memory goes to its spill file.                     *)
BeginSpill(b) ==
  /\ storage[b] = "none"
  /\ storage' = [storage EXCEPT ![b] = "writing"]
  /\ UNCHANGED <<seen, removed, spillFiles, globalHot, spillCount>>

(* Mutant: after a lost exchange the budget is not looked at again.        *)
LoadHotAgain(b) ==
  /\ \/ /\ storage[b] = "none"
        /\ globalHot + 1 > HotBudget
        /\ storage' = [storage EXCEPT ![b] = "writing"]
        /\ UNCHANGED seen
     \/ /\ \/ storage[b] = "none" /\ globalHot + 1 <= HotBudget
           \/ storage[b] = "reserving" /\ seen[b] # globalHot
        /\ storage' = [storage EXCEPT ![b] = "reserving"]
        /\ seen' = [seen EXCEPT ![b] = globalHot]
  /\ UNCHANGED <<removed, spillFiles, globalHot, spillCount>>

(* try_inline_reserve, the load: at the start of the loop and again after  *)
(* a lost exchange.  Without room the blob is spilled instead.             *)
LoadHot(b) ==
  /\ \/ storage[b] = "none"
     \/ storage[b] = "reserving" /\ seen[b] # globalHot
  /\ \/ /\ globalHot + 1 <= HotBudget
        /\ storage' = [storage EXCEPT ![b] = "reserving"]
        /\ seen' = [seen EXCEPT ![b] = globalHot]
     \/ /\ globalHot + 1 > HotBudget
        /\ storage' = [storage EXCEPT ![b] = "writing"]
        /\ seen' = [seen EXCEPT ![b] = 0]
  /\ UNCHANGED <<removed, spillFiles, globalHot, spillCount>>

(* Mutant: the counter is stored without comparing it.                     *)
ExchangeHotBlind(b) ==
  /\ storage[b] = "reserving"
  /\ globalHot' = seen[b] + 1
  /\ storage' = [storage EXCEPT ![b] = "inline"]
  /\ seen' = [seen EXCEPT ![b] = 0]
  /\ UNCHANGED <<removed, spillFiles, spillCount>>

(* try_inline_reserve, the compare_exchange that succeeds, and             *)
(* build_handle.                                                           *)
ExchangeHot(b) ==
  /\ storage[b] = "reserving"
  /\ globalHot = seen[b]
  /\ globalHot' = seen[b] + 1
  /\ storage' = [storage EXCEPT ![b] = "inline"]
  /\ seen' = [seen EXCEPT ![b] = 0]
  /\ UNCHANGED <<removed, spillFiles, spillCount>>

(* write_spilled_bytes (or the last write of store_stream) succeeded:      *)
(* record_spill and build_handle.                                          *)
FinishSpill(b) ==
  /\ storage[b] = "writing"
  /\ storage' = [storage EXCEPT ![b] = "spilled"]
  /\ spillFiles' = spillFiles \cup {b}
  /\ spillCount' = spillCount + 1
  /\ UNCHANGED <<seen, removed, globalHot>>

(* Mutant: a failed write is recorded as a spill.                          *)
FailSpillCounted(b) ==
  /\ storage[b] = "writing"
  /\ storage' = [storage EXCEPT ![b] = "failed"]
  /\ spillFiles' \in {spillFiles, spillFiles \cup {b}}
  /\ spillCount' = spillCount + 1
  /\ UNCHANGED <<seen, removed, globalHot>>

(* The write failed, or its task was aborted: no handle is built, and what *)
(* is on disk stays there.                                                 *)
FailSpill(b) ==
  /\ storage[b] = "writing"
  /\ storage' = [storage EXCEPT ![b] = "failed"]
  /\ spillFiles' \in {spillFiles, spillFiles \cup {b}}
  /\ UNCHANGED <<seen, removed, globalHot, spillCount>>

(* remove: only the call that sets the removed flag releases anything; a   *)
(* file that is already gone is no error.                                  *)
Remove(b) ==
  /\ Stored(b)
  /\ removed' = removed \cup {b}
  /\ globalHot' = IF storage[b] = "inline" /\ b \notin removed
                    THEN globalHot - 1 ELSE globalHot
  /\ spillFiles' = IF b \notin removed THEN spillFiles \ {b} ELSE spillFiles
  /\ UNCHANGED <<storage, seen, spillCount>>

(* remove when the file cannot be deleted: the flag is set all the same.   *)
RemoveFails(b) ==
  /\ storage[b] = "spilled"
  /\ b \notin removed
  /\ removed' = removed \cup {b}
  /\ UNCHANGED <<storage, seen, spillFiles, globalHot, spillCount>>

BlobNext ==
  \E b \in Blobs :
    \/ StoreExternal(b) \/ BeginSpill(b)
    \/ LoadHot(b) \/ ExchangeHot(b)
    \/ FinishSpill(b) \/ FailSpill(b)
    \/ Remove(b) \/ RemoveFails(b)

BlobSpec == BlobInit /\ [][BlobNext]_blobVars

-----------------------------------------------------------------------------
HotBlobs == {b \in Blobs : storage[b] = "inline" /\ b \notin removed}

(* The hot counter is exact and within its budget: it counts the blobs     *)
(* held in memory and not removed yet.  Concurrent reservations race on    *)
(* the counter in try_inline_reserve, and one blob is removed once per     *)
(* reference to its URL; either going wrong loses or frees memory twice,   *)
(* for every request that follows.                                         *)
HotAccounting ==
  /\ globalHot = Cardinality(HotBlobs)
  /\ globalHot <= HotBudget

(* The spill files are those of live spilled blobs and the ones a failure  *)
(* left behind, and every file of a live spilled blob is there;            *)
(* spill_count counts the handles that were built on a file and no failed  *)
(* write (blob_runtime_does_not_record_spill_when_spill_write_fails).      *)
SpillAccounting ==
  /\ \A b \in Blobs : storage[b] = "spilled" /\ b \notin removed => b \in spillFiles
  /\ \A b \in spillFiles : storage[b] \in {"spilled", "failed"}
  /\ spillCount = Cardinality({b \in Blobs : storage[b] = "spilled"})

-----------------------------------------------------------------------------
(* Where a blob is for those who use it: a reservation or a write that is  *)
(* not through does not show, nor does a second removal.                   *)
PlaceOf(b) ==
  IF b \in removed THEN "gone"
  ELSE CASE storage[b] = "inline" -> "memory"
         [] storage[b] = "shared" -> "cache"
         [] storage[b] = "spilled" -> "disk"
         [] storage[b] = "failed" -> "lost"
         [] OTHER -> "absent"

Store == INSTANCE BlobStore WITH
           place <- [b \in Blobs |-> PlaceOf(b)], files <- spillFiles, spills <- spillCount

(* Load, compare-and-swap, write and removed flag together do what a store *)
(* with one atomic step per call would do: memory is given out only while  *)
(* the blobs in it, not the counter, are within the budget, a blob has one *)
(* place in its life and is given back once, and every other step of the   *)
(* runtime cannot be seen from outside.                                    *)
AtomicStore == Store!Spec
=============================================================================
