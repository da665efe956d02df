----------------------------- MODULE BlobStore -----------------------------
(***************************************************************************)
(* What the blob runtime promises its callers, without the counter and its *)
(* compare-and-swap, without removed flags and without half-written files: *)
(* a blob is put in one place in one step, in memory only while fewer      *)
(* blobs than the budget are there, and is given up in one step, for good. *)
(***************************************************************************)
EXTENDS Naturals, FiniteSets

CONSTANTS
  Blobs,       \* every blob
  HotBudget    \* how many of them memory has room for

VARIABLES
  place,       \* blob -> where it is
  files,       \* blobs with a file, those that were left behind included
  spills       \* how many blobs were put on disk

storeVars == <<place, files, spills>>

Places == {"absent", "memory", "cache", "disk", "lost", "gone"}

Init ==
  /\ place = [b \in Blobs |-> "absent"]
  /\ files = {}
  /\ spills = 0

InMemory == {b \in Blobs : place[b] = "memory"}

(* b is moved, and b alone.                                                *)
Move(b, from, to) ==
  /\ place[b] \in from
  /\ place'[b] = to
  /\ \A c \in Blobs \ {b} : place'[c] = place[c]

(* There is room, counted in blobs and not by a counter kept beside them.  *)
PutInMemory(b) ==
  /\ Move(b, {"absent"}, "memory")
  /\ Cardinality(InMemory) < HotBudget
  /\ UNCHANGED <<files, spills>>

(* The bytes stay with the image cache.                                    *)
PutShared(b) ==
  /\ Move(b, {"absent"}, "cache")
  /\ UNCHANGED <<files, spills>>

PutOnDisk(b) ==
  /\ Move(b, {"absent"}, "disk")
  /\ files' = files \cup {b}
  /\ spills' = spills + 1

(* It could not be put on disk; a part of it may stay there.               *)
Lose(b) ==
  /\ Move(b, {"absent"}, "lost")
  /\ files' \in {files, files \cup {b}}
  /\ UNCHANGED spills

(* Its memory or its file is given back; a file may resist.                *)
GiveUp(b) ==
  /\ Move(b, {"memory", "cache", "disk"}, "gone")
  /\ files' \in {files \ {b}} \cup (IF place[b] = "disk" THEN {files} ELSE {})
  /\ UNCHANGED spills

Next ==
  \E b \in Blobs :
    PutInMemory(b) \/ PutShared(b) \/ PutOnDisk(b) \/ Lose(b) \/ GiveUp(b)

Spec == Init /\ [][Next]_storeVars
=============================================================================
