-------------------------- MODULE BlobRuntime_proofs --------------------------
(***************************************************************************)
(* Proofs about BlobRuntime, for any finite set of blobs and any budget.   *)
(*                                                                         *)
(* HotAccounting is not inductive by itself: a successful exchange keeps   *)
(* to the budget because the value it compares with was below it when it   *)
(* was loaded, and it adds a blob that counts because no blob is removed   *)
(* before its handle is built.                                             *)
(***************************************************************************)
EXTENDS BlobRuntime, FiniteSetTheorems, TLAPS

(* A reservation in progress has seen room.                                *)
SeenRoom ==
  \A b \in Blobs : storage[b] = "reserving" => seen[b] + 1 <= HotBudget

(* Only blobs with a handle are removed.                                   *)
RemovedStored == \A b \in removed : Stored(b)

BlobInv ==
  /\ BlobTypeOK
  /\ SeenRoom
  /\ RemovedStored
  /\ HotAccounting
  /\ SpillAccounting

SpilledBlobs == {b \in Blobs : storage[b] = "spilled"}

(* Adding a member to a subset of Blobs adds one to its cardinality.       *)
LEMMA AddOne ==
  ASSUME NEW S \in SUBSET Blobs, NEW b \in Blobs, b \notin S
  PROVE  /\ Cardinality(S) \in Nat
         /\ Cardinality(S \cup {b}) = Cardinality(S) + 1
<1>1. IsFiniteSet(S)
  BY FS_Subset, BlobsAssumption
<1>2. QED
  BY <1>1, FS_AddElement, FS_CardinalityType

(* Taking a member away takes one from the cardinality.                    *)
LEMMA TakeOne ==
  ASSUME NEW S \in SUBSET Blobs, NEW b \in S
  PROVE  /\ Cardinality(S) \in Nat
         /\ Cardinality(S) >= 1
         /\ Cardinality(S \ {b}) = Cardinality(S) - 1
<1>1. IsFiniteSet(S)
  BY FS_Subset, BlobsAssumption
<1>2. /\ Cardinality(S) \in Nat
      /\ Cardinality(S \ {b}) = Cardinality(S) - 1
  BY <1>1, FS_RemoveElement, FS_CardinalityType
<1>3. IsFiniteSet(S \ {b}) /\ Cardinality(S \ {b}) \in Nat
  BY <1>1, FS_Subset, FS_CardinalityType
<1>4. QED
  BY <1>2, <1>3

LEMMA BlobInitInv == BlobInit => BlobInv
<1> SUFFICES ASSUME BlobInit PROVE BlobInv
  OBVIOUS
<1>1. HotBlobs = {} /\ SpilledBlobs = {}
  BY DEF BlobInit, HotBlobs, SpilledBlobs
<1>2. Cardinality({}) = 0
  BY FS_EmptySet
<1>3. BlobTypeOK
  BY DEF BlobInit, BlobTypeOK, Storages
<1>4. HotAccounting
  BY <1>1, <1>2, HotBudgetAssumption DEF BlobInit, HotAccounting
<1>5. SpillAccounting
  BY <1>1, <1>2 DEF BlobInit, SpillAccounting, SpilledBlobs
<1>6. SeenRoom /\ RemovedStored
  BY DEF BlobInit, SeenRoom, RemovedStored
<1>7. QED
  BY <1>3, <1>4, <1>5, <1>6 DEF BlobInv

-----------------------------------------------------------------------------
(* One lemma per action; b is the blob it is about.                        *)

LEMMA StoreExternalInv ==
  ASSUME BlobInv, NEW b \in Blobs, StoreExternal(b)
  PROVE  BlobInv'
<1> USE DEF BlobInv, StoreExternal
<1>1. BlobTypeOK'
  BY DEF BlobTypeOK, Storages
<1>2. b \notin removed
  BY DEF RemovedStored, Stored
<1>3. HotBlobs' = HotBlobs /\ SpilledBlobs' = SpilledBlobs
  BY <1>2 DEF HotBlobs, SpilledBlobs, BlobTypeOK
<1>4. HotAccounting'
  BY <1>3 DEF HotAccounting
<1>5. SpillAccounting'
  BY <1>3 DEF SpillAccounting, SpilledBlobs, BlobTypeOK
<1>6. SeenRoom' /\ RemovedStored'
  BY DEF SeenRoom, RemovedStored, Stored, BlobTypeOK
<1>7. QED
  BY <1>1, <1>4, <1>5, <1>6

LEMMA BeginSpillInv ==
  ASSUME BlobInv, NEW b \in Blobs, BeginSpill(b)
  PROVE  BlobInv'
<1> USE DEF BlobInv, BeginSpill
<1>1. BlobTypeOK'
  BY DEF BlobTypeOK, Storages
<1>3. HotBlobs' = HotBlobs /\ SpilledBlobs' = SpilledBlobs
  BY DEF HotBlobs, SpilledBlobs, BlobTypeOK
<1>4. HotAccounting'
  BY <1>3 DEF HotAccounting
<1>5. SpillAccounting'
  BY <1>3 DEF SpillAccounting, SpilledBlobs, BlobTypeOK
<1>6. SeenRoom' /\ RemovedStored'
  BY DEF SeenRoom, RemovedStored, Stored, BlobTypeOK
<1>7. QED
  BY <1>1, <1>4, <1>5, <1>6

(* What is loaded is kept only when it leaves room.                        *)
LEMMA LoadHotInv ==
  ASSUME BlobInv, NEW b \in Blobs, LoadHot(b)
  PROVE  BlobInv'
<1> USE DEF BlobInv, LoadHot
<1>1. BlobTypeOK'
  BY DEF BlobTypeOK, Storages
<1>2. storage[b] \in {"none", "reserving"} /\ storage'[b] \in {"reserving", "writing"}
  BY DEF BlobTypeOK
<1>3. HotBlobs' = HotBlobs /\ SpilledBlobs' = SpilledBlobs
  BY <1>2 DEF HotBlobs, SpilledBlobs, BlobTypeOK
<1>4. HotAccounting'
  BY <1>3 DEF HotAccounting
<1>5. SpillAccounting'
  BY <1>2, <1>3 DEF SpillAccounting, SpilledBlobs, BlobTypeOK
<1>6. SeenRoom'
  BY HotBudgetAssumption DEF SeenRoom, BlobTypeOK
<1>7. RemovedStored'
  BY <1>2 DEF RemovedStored, Stored, BlobTypeOK
<1>8. QED
  BY <1>1, <1>4, <1>5, <1>6, <1>7

(* The exchange succeeds only on the value that was loaded.                *)
LEMMA ExchangeHotInv ==
  ASSUME BlobInv, NEW b \in Blobs, ExchangeHot(b)
  PROVE  BlobInv'
<1> USE DEF BlobInv, ExchangeHot
<1>1. BlobTypeOK'
  BY DEF BlobTypeOK, Storages
<1>2. b \notin removed
  BY DEF RemovedStored, Stored
<1>3. HotBlobs' = HotBlobs \cup {b} /\ b \notin HotBlobs /\ HotBlobs \in SUBSET Blobs
  BY <1>2 DEF HotBlobs, BlobTypeOK
<1>4. SpilledBlobs' = SpilledBlobs
  BY DEF SpilledBlobs, BlobTypeOK
<1>5. Cardinality(HotBlobs') = globalHot + 1
  BY <1>3, AddOne DEF HotAccounting
<1>6. globalHot' = globalHot + 1 /\ globalHot' <= HotBudget
  BY DEF SeenRoom
<1>7. HotAccounting'
  BY <1>5, <1>6 DEF HotAccounting
<1>8. SpillAccounting'
  BY <1>4 DEF SpillAccounting, SpilledBlobs, BlobTypeOK
<1>9. SeenRoom' /\ RemovedStored'
  BY DEF SeenRoom, RemovedStored, Stored, BlobTypeOK
<1>10. QED
  BY <1>1, <1>7, <1>8, <1>9

LEMMA FinishSpillInv ==
  ASSUME BlobInv, NEW b \in Blobs, FinishSpill(b)
  PROVE  BlobInv'
<1> USE DEF BlobInv, FinishSpill
<1>1. BlobTypeOK'
  BY DEF BlobTypeOK, Storages
<1>2. HotBlobs' = HotBlobs
  BY DEF HotBlobs, BlobTypeOK
<1>3. SpilledBlobs' = SpilledBlobs \cup {b} /\ b \notin SpilledBlobs
      /\ SpilledBlobs \in SUBSET Blobs
  BY DEF SpilledBlobs, BlobTypeOK
<1>4. Cardinality(SpilledBlobs') = spillCount + 1
  BY <1>3, AddOne DEF SpillAccounting, SpilledBlobs
<1>5. HotAccounting'
  BY <1>2 DEF HotAccounting
<1>6. SpillAccounting'
  BY <1>4 DEF SpillAccounting, SpilledBlobs, BlobTypeOK
<1>7. SeenRoom' /\ RemovedStored'
  BY DEF SeenRoom, RemovedStored, Stored, BlobTypeOK
<1>8. QED
  BY <1>1, <1>5, <1>6, <1>7

LEMMA FailSpillInv ==
  ASSUME BlobInv, NEW b \in Blobs, FailSpill(b)
  PROVE  BlobInv'
<1> USE DEF BlobInv, FailSpill
<1>1. BlobTypeOK'
  BY DEF BlobTypeOK, Storages
<1>2. HotBlobs' = HotBlobs /\ SpilledBlobs' = SpilledBlobs
  BY DEF HotBlobs, SpilledBlobs, BlobTypeOK
<1>3. HotAccounting'
  BY <1>2 DEF HotAccounting
<1>4. SpillAccounting'
  BY <1>2 DEF SpillAccounting, SpilledBlobs, BlobTypeOK
<1>5. SeenRoom' /\ RemovedStored'
  BY DEF SeenRoom, RemovedStored, Stored, BlobTypeOK
<1>6. QED
  BY <1>1, <1>3, <1>4, <1>5

(* A second removal of the same blob changes nothing.                      *)
LEMMA RemoveInv ==
  ASSUME BlobInv, NEW b \in Blobs, Remove(b)
  PROVE  BlobInv'
<1> USE DEF BlobInv, Remove
<1>1. SpilledBlobs' = SpilledBlobs
  BY DEF SpilledBlobs
<1>2. SpillAccounting'
  BY <1>1 DEF SpillAccounting, SpilledBlobs, BlobTypeOK
<1>3. SeenRoom' /\ RemovedStored'
  BY DEF SeenRoom, RemovedStored, Stored, BlobTypeOK
<1>4. CASE b \in HotBlobs
  <2>1. HotBlobs' = HotBlobs \ {b} /\ HotBlobs \in SUBSET Blobs
    BY <1>4 DEF HotBlobs
  <2>2. globalHot' = globalHot - 1
    BY <1>4 DEF HotBlobs
  <2>3. /\ Cardinality(HotBlobs') = globalHot - 1
        /\ globalHot >= 1
    BY <1>4, <2>1, TakeOne DEF HotAccounting
  <2>4. BlobTypeOK'
    BY <2>2, <2>3 DEF BlobTypeOK
  <2>5. HotAccounting'
    BY <2>2, <2>3, HotBudgetAssumption DEF HotAccounting, BlobTypeOK
  <2>6. QED
    BY <2>4, <2>5, <1>2, <1>3
<1>5. CASE b \notin HotBlobs
  <2>1. HotBlobs' = HotBlobs
    BY <1>5 DEF HotBlobs
  <2>2. globalHot' = globalHot
    BY <1>5 DEF HotBlobs
  <2>3. BlobTypeOK' /\ HotAccounting'
    BY <2>1, <2>2 DEF BlobTypeOK, HotAccounting
  <2>4. QED
    BY <2>3, <1>2, <1>3
<1>6. QED
  BY <1>4, <1>5

LEMMA RemoveFailsInv ==
  ASSUME BlobInv, NEW b \in Blobs, RemoveFails(b)
  PROVE  BlobInv'
<1> USE DEF BlobInv, RemoveFails
<1>1. BlobTypeOK'
  BY DEF BlobTypeOK
<1>2. HotBlobs' = HotBlobs /\ SpilledBlobs' = SpilledBlobs
  BY DEF HotBlobs, SpilledBlobs
<1>3. HotAccounting'
  BY <1>2 DEF HotAccounting
<1>4. SpillAccounting'
  BY <1>2 DEF SpillAccounting, SpilledBlobs, BlobTypeOK
<1>5. SeenRoom' /\ RemovedStored'
  BY DEF SeenRoom, RemovedStored, Stored, BlobTypeOK
<1>6. QED
  BY <1>1, <1>3, <1>4, <1>5

(* Every step of the runtime keeps the invariant.                          *)
LEMMA BlobNextInv == BlobInv /\ [BlobNext]_blobVars => BlobInv'
<1> SUFFICES ASSUME BlobInv, [BlobNext]_blobVars PROVE BlobInv'
  OBVIOUS
<1>1. CASE BlobNext
  BY <1>1, StoreExternalInv, BeginSpillInv, LoadHotInv, ExchangeHotInv, FinishSpillInv,
     FailSpillInv, RemoveInv, RemoveFailsInv DEF BlobNext
<1>2. CASE UNCHANGED blobVars
  BY <1>2 DEF blobVars, BlobInv, BlobTypeOK, SeenRoom, RemovedStored, Stored, HotAccounting,
              HotBlobs, SpillAccounting
<1>3. QED
  BY <1>1, <1>2

(* The inductive invariant of the blob runtime, whatever calls of it race. *)
THEOREM BlobInvariant == BlobSpec => []BlobInv
<1>1. QED
  BY BlobInitInv, BlobNextInv, PTL DEF BlobSpec

(* HotAccounting for every set of blobs and every budget: racing           *)
(* reservations of try_inline_reserve and repeated calls of remove keep    *)
(* the counter exact and within the budget.                                *)
THEOREM HotExact == BlobSpec => []HotAccounting
<1>1. BlobInv => HotAccounting
  BY DEF BlobInv
<1>2. QED
  BY <1>1, BlobInvariant, PTL

(* SpillAccounting for every set of blobs: record_spill counts handles,    *)
(* and no file of a live blob is ever missing.                             *)
THEOREM SpillExact == BlobSpec => []SpillAccounting
<1>1. BlobInv => SpillAccounting
  BY DEF BlobInv
<1>2. QED
  BY <1>1, BlobInvariant, PTL

-----------------------------------------------------------------------------
(* The runtime implements BlobStore.  One lemma per call that shows.       *)

(* The blobs in memory are those the counter counts.                       *)
LEMMA MemoryIsHot == Store!InMemory = HotBlobs
  BY DEF Store!InMemory, HotBlobs, PlaceOf

(* A step about b, seen as a move of b.                                    *)
LEMMA Moved ==
  ASSUME NEW b \in Blobs, NEW from, NEW to,
         PlaceOf(b) \in from, PlaceOf(b)' = to,
         \A c \in Blobs \ {b} : PlaceOf(c)' = PlaceOf(c)
  PROVE  Store!Move(b, from, to)
  BY DEF Store!Move

(* Nothing that shows has happened.                                        *)
LEMMA Unmoved ==
  ASSUME \A c \in Blobs : PlaceOf(c)' = PlaceOf(c), UNCHANGED <<spillFiles, spillCount>>
  PROVE  UNCHANGED Store!storeVars
  BY DEF Store!storeVars

(* Where b is before and after each call.                                  *)
LEMMA Elsewhere ==
  ASSUME NEW b \in Blobs, BlobTypeOK, BlobTypeOK',
         \A c \in Blobs \ {b} : storage'[c] = storage[c] /\ (c \in removed' <=> c \in removed)
  PROVE  \A c \in Blobs \ {b} : PlaceOf(c)' = PlaceOf(c)
  BY DEF PlaceOf

LEMMA StoreExternalAtomic ==
  ASSUME BlobInv, BlobInv', NEW b \in Blobs, StoreExternal(b)
  PROVE  Store!PutShared(b)
<1>1. PlaceOf(b) = "absent" /\ PlaceOf(b)' = "cache"
  BY DEF StoreExternal, PlaceOf, BlobInv, BlobTypeOK, RemovedStored, Stored
<1>2. \A c \in Blobs \ {b} : PlaceOf(c)' = PlaceOf(c)
  BY Elsewhere DEF StoreExternal, BlobInv, BlobTypeOK
<1>3. Store!Move(b, {"absent"}, "cache")
  BY <1>1, <1>2, Moved
<1>4. QED
  BY <1>3 DEF Store!PutShared, StoreExternal

(* Inside a reservation or a write nothing shows.                          *)
LEMMA PreparingAtomic ==
  ASSUME BlobInv, BlobInv', NEW b \in Blobs, BeginSpill(b) \/ LoadHot(b)
  PROVE  UNCHANGED Store!storeVars
<1>1. PlaceOf(b) = "absent" /\ PlaceOf(b)' = "absent"
  BY DEF BeginSpill, LoadHot, PlaceOf, BlobInv, BlobTypeOK, RemovedStored, Stored
<1>2. \A c \in Blobs \ {b} : PlaceOf(c)' = PlaceOf(c)
  BY Elsewhere DEF BeginSpill, LoadHot, BlobInv, BlobTypeOK
<1>3. QED
  BY <1>1, <1>2, Unmoved DEF BeginSpill, LoadHot

(* The exchange finds the counter as it was loaded, and the counter counts *)
(* the blobs in memory: there is room among them.                          *)
LEMMA ExchangeHotAtomic ==
  ASSUME BlobInv, BlobInv', NEW b \in Blobs, ExchangeHot(b)
  PROVE  Store!PutInMemory(b)
<1>1. PlaceOf(b) = "absent" /\ PlaceOf(b)' = "memory"
  BY DEF ExchangeHot, PlaceOf, BlobInv, BlobTypeOK, RemovedStored, Stored
<1>2. \A c \in Blobs \ {b} : PlaceOf(c)' = PlaceOf(c)
  BY Elsewhere DEF ExchangeHot, BlobInv, BlobTypeOK
<1>3. Store!Move(b, {"absent"}, "memory")
  BY <1>1, <1>2, Moved
<1>4. globalHot + 1 <= HotBudget
  BY DEF ExchangeHot, BlobInv, SeenRoom
<1>5. Cardinality(HotBlobs) < HotBudget
  BY <1>4, HotBudgetAssumption DEF BlobInv, HotAccounting, BlobTypeOK
<1>6. Store!Cardinality(Store!InMemory) = Cardinality(HotBlobs)
  BY MemoryIsHot DEF Store!Cardinality, Cardinality
<1>7. QED
  BY <1>3, <1>5, <1>6 DEF Store!PutInMemory, ExchangeHot

LEMMA SpillAtomic ==
  ASSUME BlobInv, BlobInv', NEW b \in Blobs, FinishSpill(b) \/ FailSpill(b)
  PROVE  Store!PutOnDisk(b) \/ Store!Lose(b)
<1>1. PlaceOf(b) = "absent"
  BY DEF FinishSpill, FailSpill, PlaceOf, BlobInv, BlobTypeOK, RemovedStored, Stored
<1>2. \A c \in Blobs \ {b} : PlaceOf(c)' = PlaceOf(c)
  BY Elsewhere DEF FinishSpill, FailSpill, BlobInv, BlobTypeOK
<1>3. CASE FinishSpill(b)
  <2>1. PlaceOf(b)' = "disk"
    BY <1>3 DEF FinishSpill, PlaceOf, BlobInv, BlobTypeOK, RemovedStored, Stored
  <2>2. Store!Move(b, {"absent"}, "disk")
    BY <1>1, <1>2, <2>1, Moved
  <2>3. QED
    BY <1>3, <2>2 DEF Store!PutOnDisk, FinishSpill
<1>4. CASE FailSpill(b)
  <2>1. PlaceOf(b)' = "lost"
    BY <1>4 DEF FailSpill, PlaceOf, BlobInv, BlobTypeOK, RemovedStored, Stored
  <2>2. Store!Move(b, {"absent"}, "lost")
    BY <1>1, <1>2, <2>1, Moved
  <2>3. QED
    BY <1>4, <2>2 DEF Store!Lose, FailSpill
<1>5. QED
  BY <1>3, <1>4

(* A removal gives a blob up; the ones after it do not show.               *)
LEMMA RemoveAtomic ==
  ASSUME BlobInv, BlobInv', NEW b \in Blobs, Remove(b) \/ RemoveFails(b)
  PROVE  Store!GiveUp(b) \/ UNCHANGED Store!storeVars
<1>1. \A c \in Blobs \ {b} : PlaceOf(c)' = PlaceOf(c)
  BY Elsewhere DEF Remove, RemoveFails, BlobInv, BlobTypeOK
<1>2. PlaceOf(b)' = "gone"
  BY DEF Remove, RemoveFails, PlaceOf
<1>3. CASE b \in removed
  <2>1. PlaceOf(b) = "gone" /\ UNCHANGED <<spillFiles, spillCount>>
    BY <1>3 DEF Remove, RemoveFails, PlaceOf
  <2>2. QED
    BY <1>1, <1>2, <2>1, Unmoved
<1>4. CASE b \notin removed
  <2>1. PlaceOf(b) \in {"memory", "cache", "disk"}
    BY <1>4 DEF Remove, RemoveFails, PlaceOf, Stored
  <2>2. Store!Move(b, {"memory", "cache", "disk"}, "gone")
    BY <1>1, <1>2, <2>1, Moved
  <2>3. CASE Remove(b)
    BY <1>4, <2>2, <2>3 DEF Remove, Store!GiveUp
  <2>4. CASE RemoveFails(b)
    <3>1. PlaceOf(b) = "disk"
      BY <1>4, <2>4 DEF RemoveFails, PlaceOf
    <3>2. QED
      BY <2>2, <2>4, <3>1 DEF RemoveFails, Store!GiveUp
  <2>5. QED
    BY <2>3, <2>4
<1>5. QED
  BY <1>3, <1>4

LEMMA StoreInit == BlobInit => Store!Init
  BY DEF BlobInit, Store!Init, PlaceOf

(* Every step of the runtime is one of the store, or cannot be seen.       *)
LEMMA StoreNext ==
  ASSUME BlobInv, BlobInv', [BlobNext]_blobVars
  PROVE  [Store!Next]_(Store!storeVars)
<1>1. CASE BlobNext
  <2>1. PICK b \in Blobs :
          \/ StoreExternal(b) \/ BeginSpill(b) \/ LoadHot(b) \/ ExchangeHot(b)
          \/ FinishSpill(b) \/ FailSpill(b) \/ Remove(b) \/ RemoveFails(b)
    BY <1>1 DEF BlobNext
  <2>2. \/ Store!PutShared(b) \/ Store!PutInMemory(b) \/ Store!PutOnDisk(b)
        \/ Store!Lose(b) \/ Store!GiveUp(b) \/ UNCHANGED Store!storeVars
    BY <2>1, StoreExternalAtomic, PreparingAtomic, ExchangeHotAtomic, SpillAtomic, RemoveAtomic
  <2>3. QED
    BY <2>2 DEF Store!Next
<1>2. CASE UNCHANGED blobVars
  BY <1>2, Unmoved DEF blobVars, PlaceOf
<1>3. QED
  BY <1>1, <1>2

(* AtomicStore for every set of blobs and every budget: try_inline_reserve *)
(* with its load and its compare-and-swap, write_spilled_bytes and remove  *)
(* with its flag implement a store that counts what it holds.              *)
THEOREM RuntimeIsAtomic == BlobSpec => AtomicStore
<1>1. BlobInv /\ BlobInv' /\ [BlobNext]_blobVars => [Store!Next]_(Store!storeVars)
  BY StoreNext
<1>2. QED
  BY <1>1, StoreInit, BlobInvariant, PTL DEF BlobSpec, AtomicStore, Store!Spec
=============================================================================
