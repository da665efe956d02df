----------------------------- MODULE ImageCache -----------------------------
(***************************************************************************)
(* The two image caches of the fetch services (cache.rs): MemoryCache, an  *)
(* LRU list with a byte budget, and DiskCache, a directory with a body     *)
(* file and a meta file for every URL.                                     *)
(*                                                                         *)
(* The request side and the response side each have a service with its own *)
(* memory cache, and build_router gives both the same directory.  io_lock  *)
(* belongs to one DiskCache, so it orders the disk operations of one       *)
(* service only: those of two services interleave file by file.            *)
(* std::fs::write truncates a file and then writes it; an error, or the    *)
(* end of the process, may come between the two.  Every access to a file   *)
(* may fail; most such errors are ignored by the code.                     *)
(***************************************************************************)
EXTENDS Integers, Sequences, FiniteSets, Functions

CONSTANTS
  Services,    \* the fetch services that share the directory
  Urls,
  Images,      \* what a download may bring: bytes with their MIME type
  Size,        \* image -> length in bytes
  MemoryMax,   \* service -> max_bytes of its memory cache, 0 for none
  DiskMax,     \* max_bytes of the disk cache
  Absent,      \* there is no such file
  Torn,        \* the file is there without all of its bytes
  MaxFaults    \* bound: crashes and failed file accesses in a behaviour

Contents == Images \cup {Absent, Torn}

ASSUME ImagesAssumption ==
  /\ IsFiniteSet(Urls) /\ IsFiniteSet(Services)
  /\ Absent # Torn /\ {Absent, Torn} \cap Images = {}
  /\ Size \in [Images -> Nat]
ASSUME BudgetsAssumption ==
  /\ MemoryMax \in [Services -> Nat]
  /\ DiskMax \in Nat
  /\ MaxFaults \in Nat

VARIABLES
  items,     \* service -> url -> its memory entry, Absent for none
  recent,    \* service -> the urls of its entries, least recently used first
  curBytes,  \* service -> cur_bytes
  meta,      \* url -> the image its meta file describes
  body,      \* url -> the image in its body file
  expired,   \* urls whose meta file has an expires_at in the past
  byAge,     \* urls in the order their meta files were last written
  op,        \* service -> the disk operation that holds its io_lock
  damaged,   \* history: urls whose last set was cut short or overlapped
  unpruned,  \* history: a crash or a failed file access came since the
             \* directory was last scanned
  faults

memoryVars == <<items, recent, curBytes>>
fileVars == <<meta, body, expired, byAge>>
historyVars == <<damaged, unpruned, faults>>
vars == <<memoryVars, fileVars, op, historyVars>>

SizeOf(c) == IF c \in Images THEN Size[c] ELSE 0

(* The bytes that the files (or the memory entries) of the urls in S hold, *)
(* as a set, so that a sum of sizes is a cardinality.                      *)
BytesOf(files, S) == UNION {{u} \X (1 .. SizeOf(files[u])) : u \in S}

Weight(files, S) == Cardinality(BytesOf(files, S))

(* A list of different urls after u was taken out of it.                   *)
Without(list, u) ==
  IF u \in Range(list)
    THEN LET i == CHOOSE k \in DOMAIN list : list[k] = u
         IN  SubSeq(list, 1, i - 1) \o SubSeq(list, i + 1, Len(list))
    ELSE list

Getting == {"getMeta", "getBody"}
Removing == {"dropMeta", "dropBody", "pruneMeta", "pruneBody"}
Setting == {"writeBody", "truncateMeta", "writeMeta"}
Steps == {"idle", "scan"} \cup Getting \cup Removing \cup Setting

(* What a disk operation remembers between two file accesses.  clean:      *)
(* no other service touched the files of url since it began.               *)
Idle == [step |-> "idle", url |-> Absent, img |-> Absent, clean |-> TRUE,
         victims |-> <<>>, total |-> 0]

Init ==
  /\ items = [s \in Services |-> [u \in Urls |-> Absent]]
  /\ recent = [s \in Services |-> <<>>]
  /\ curBytes = [s \in Services |-> 0]
  /\ meta = [u \in Urls |-> Absent]
  /\ body = [u \in Urls |-> Absent]
  /\ expired = {}
  /\ byAge = <<>>
  /\ op = [s \in Services |-> Idle]
  /\ damaged = {}
  /\ unpruned = FALSE
  /\ faults = 0

-----------------------------------------------------------------------------
(* MemoryCache                                                             *)

Monus(x, y) == IF x > y THEN x - y ELSE 0

(* MemoryCache::get moves the entry to the recent end.                     *)
MemoryGet(s, u) ==
  /\ items[s][u] # Absent
  /\ recent' = [recent EXCEPT ![s] = Append(Without(@, u), u)]
  /\ UNCHANGED <<items, curBytes, fileVars, op, historyVars>>

(* Mutant: the bytes of a replaced entry are not given back.               *)
MemorySetKeeping(s, u, c) ==
  IF SizeOf(c) > MemoryMax[s] \/ MemoryMax[s] = 0
    THEN UNCHANGED memoryVars
    ELSE LET kept == Without(recent[s], u)
             cur == curBytes[s]
             Evicted(n) == Range(SubSeq(kept, 1, n))
             Cur(n) == Monus(cur, Weight(items[s], Evicted(n)))
         IN  \E n \in 0 .. Len(kept) :
               /\ n < Len(kept) => Cur(n) + SizeOf(c) <= MemoryMax[s]
               /\ \A j \in 0 .. n - 1 : Cur(j) + SizeOf(c) > MemoryMax[s]
               /\ items' = [items EXCEPT ![s] =
                              [v \in Urls |-> IF v = u THEN c
                                              ELSE IF v \in Evicted(n) THEN Absent
                                              ELSE items[s][v]]]
               /\ recent' = [recent EXCEPT ![s] =
                               Append(SubSeq(kept, n + 1, Len(kept)), u)]
               /\ curBytes' = [curBytes EXCEPT ![s] = Cur(n) + SizeOf(c)]

(* MemoryCache::set: too large is ignored; the old entry goes, then the n  *)
(* least recently used ones, as few as make room, one after another.       *)
MemorySet(s, u, c) ==
  IF SizeOf(c) > MemoryMax[s] \/ MemoryMax[s] = 0
    THEN UNCHANGED memoryVars
    ELSE LET kept == Without(recent[s], u)
             cur == Monus(curBytes[s], SizeOf(items[s][u]))
             Evicted(n) == Range(SubSeq(kept, 1, n))
             Cur(n) == Monus(cur, Weight(items[s], Evicted(n)))
         IN  \E n \in 0 .. Len(kept) :
               /\ n < Len(kept) => Cur(n) + SizeOf(c) <= MemoryMax[s]
               /\ \A j \in 0 .. n - 1 : Cur(j) + SizeOf(c) > MemoryMax[s]
               /\ items' = [items EXCEPT ![s] =
                              [v \in Urls |-> IF v = u THEN c
                                              ELSE IF v \in Evicted(n) THEN Absent
                                              ELSE items[s][v]]]
               /\ recent' = [recent EXCEPT ![s] =
                               Append(SubSeq(kept, n + 1, Len(kept)), u)]
               /\ curBytes' = [curBytes EXCEPT ![s] = Cur(n) + SizeOf(c)]

(* store_in_caches, its first half: the disk may be written much later.    *)
StoreInMemory(s, u, c) ==
  /\ MemoryMax[s] > 0
  /\ MemorySet(s, u, c)
  /\ UNCHANGED <<fileVars, op, historyVars>>

-----------------------------------------------------------------------------
(* DiskCache.  One action per file access.                                 *)

Busy(s, u) == op[s].url = u /\ op[s].step \in Removing \cup Setting

(* One more crash, or failed access that leaves a trace.                   *)
Fault == faults < MaxFaults /\ faults' = faults + 1

(* Service s goes on with o; what it did to the files of u, if anything,   *)
(* is noted in the operations of the others.                               *)
Continue(s, o) == op' = [op EXCEPT ![s] = o]

Touch(s, u, o) ==
  op' = [t \in Services |->
           IF t = s THEN o
           ELSE IF op[t].url = u THEN [op[t] EXCEPT !.clean = FALSE]
           ELSE op[t]]

Start(s, u, step, c) ==
  [Idle EXCEPT !.step = step, !.url = u, !.img = c,
               !.clean = \A t \in Services \ {s} : ~Busy(t, u)]

(* Mutant: only the body file is looked for.                               *)
GetExistsBody(s, u) ==
  /\ op[s] = Idle
  /\ body[u] # Absent
  /\ Continue(s, Start(s, u, "getMeta", Absent))
  /\ UNCHANGED <<memoryVars, fileVars, historyVars>>

(* DiskCache::get: both files exist, or it is a miss.                      *)
GetExists(s, u) ==
  /\ op[s] = Idle
  /\ meta[u] # Absent /\ body[u] # Absent
  /\ Continue(s, Start(s, u, "getMeta", Absent))
  /\ UNCHANGED <<memoryVars, fileVars, historyVars>>

(* The meta file is read.  Gone, torn or not readable is an error for the  *)
(* caller; too old means that both files are removed.                      *)
GetMeta(s) ==
  /\ op[s].step = "getMeta"
  /\ LET u == op[s].url
     IN  \/ Continue(s, Idle)
         \/ /\ meta[u] \in Images /\ u \in expired
            /\ Continue(s, [op[s] EXCEPT !.step = "dropMeta"])
         \/ /\ meta[u] \in Images /\ u \notin expired
            /\ Continue(s, [op[s] EXCEPT !.step = "getBody", !.img = meta[u]])
  /\ UNCHANGED <<memoryVars, fileVars, historyVars>>

(* Mutant: a body file that is gone is served like an empty one.           *)
GetBodyUnchecked(s) ==
  /\ op[s].step = "getBody"
  /\ MemorySet(s, op[s].url, body[op[s].url])
  /\ Continue(s, Idle)
  /\ UNCHANGED <<fileVars, historyVars>>

(* The body file is read: gone or not readable is an error; whatever is    *)
(* there is served and copied to the memory cache.  (The copy is made when *)
(* io_lock was given back; it touches nothing that io_lock is for.)        *)
GetBody(s) ==
  /\ op[s].step = "getBody"
  /\ \/ UNCHANGED memoryVars
     \/ /\ body[op[s].url] # Absent
        /\ MemorySet(s, op[s].url, body[op[s].url])
  /\ Continue(s, Idle)
  /\ UNCHANGED <<fileVars, historyVars>>

RemoveMeta(u) ==
  /\ meta' = [meta EXCEPT ![u] = Absent]
  /\ byAge' = Without(byAge, u)
  /\ expired' = expired \ {u}

RemoveBody(u) == body' = [body EXCEPT ![u] = Absent]

(* remove_file of a meta file fails and the error is ignored: the file     *)
(* stays, while its body file is removed next.                             *)
RemovalFails(s, next) ==
  /\ Fault
  /\ meta[op[s].url] # Absent
  /\ Touch(s, op[s].url, [op[s] EXCEPT !.step = next])
  /\ damaged' = damaged \cup {op[s].url}
  /\ unpruned' = TRUE
  /\ UNCHANGED <<memoryVars, fileVars>>

DropMeta(s) ==
  /\ op[s].step = "dropMeta"
  /\ \/ /\ RemoveMeta(op[s].url)
        /\ Touch(s, op[s].url, [op[s] EXCEPT !.step = "dropBody"])
        /\ UNCHANGED <<memoryVars, body, historyVars>>
     \/ RemovalFails(s, "dropBody")

(* A body file that cannot be removed stays without its meta file.         *)
DropBody(s) ==
  /\ op[s].step = "dropBody"
  /\ \/ RemoveBody(op[s].url) /\ UNCHANGED faults
     \/ Fault /\ UNCHANGED body
  /\ Touch(s, op[s].url, Idle)
  /\ UNCHANGED <<memoryVars, meta, expired, byAge, damaged, unpruned>>

(* DiskCache::set begins: the body file is truncated.                      *)
SetBegin(s, u, c) ==
  /\ op[s] = Idle
  /\ body' = [body EXCEPT ![u] = Torn]
  /\ Touch(s, u, Start(s, u, "writeBody", c))
  /\ UNCHANGED <<memoryVars, meta, expired, byAge, historyVars>>

(* What a write leaves in a file: its own bytes; nothing, when another     *)
(* service removed the file meanwhile; or, when the other wrote it,        *)
(* possibly a mixture, or the other's bytes.                               *)
Written(s, now) ==
  IF op[s].clean THEN {op[s].img}
  ELSE IF now = Absent THEN {Absent}
  ELSE {op[s].img, Torn, now}

(* Mutant: a body file that was there before is taken to be good.          *)
WriteBodyIfNew(s) ==
  /\ op[s].step = "writeBody"
  /\ LET u == op[s].url
     IN  /\ \/ meta[u] \in Images /\ body' = [body EXCEPT ![u] = meta[u]]
            \/ meta[u] \notin Images /\ body' = [body EXCEPT ![u] = op[s].img]
         /\ Touch(s, u, [op[s] EXCEPT !.step = "truncateMeta"])
  /\ UNCHANGED <<memoryVars, meta, expired, byAge, historyVars>>

WriteBody(s) ==
  /\ op[s].step = "writeBody"
  /\ LET u == op[s].url
     IN  /\ \E c \in Written(s, body[u]) : body' = [body EXCEPT ![u] = c]
         /\ Touch(s, u, [op[s] EXCEPT !.step = "truncateMeta"])
  /\ UNCHANGED <<memoryVars, meta, expired, byAge, historyVars>>

(* The meta file is truncated.                                             *)
TruncateMeta(s) ==
  /\ op[s].step = "truncateMeta"
  /\ LET u == op[s].url
     IN  /\ meta' = [meta EXCEPT ![u] = Torn]
         /\ byAge' = Append(Without(byAge, u), u)
         /\ expired' = expired \ {u}
         /\ Touch(s, u, [op[s] EXCEPT !.step = "writeMeta"])
  /\ UNCHANGED <<memoryVars, body, historyVars>>

(* The meta file is written: the set is complete except for the pruning.   *)
WriteMeta(s) ==
  /\ op[s].step = "writeMeta"
  /\ LET u == op[s].url
     IN  /\ \E c \in Written(s, meta[u]) : meta' = [meta EXCEPT ![u] = c]
         /\ damaged' = IF op[s].clean THEN damaged \ {u} ELSE damaged \cup {u}
         /\ Touch(s, u, [Idle EXCEPT !.step = "scan"])
  /\ UNCHANGED <<memoryVars, body, expired, byAge, unpruned, faults>>

(* A write fails half way (a full disk), or the meta file cannot be        *)
(* opened: set returns, store_in_caches ignores the error.                 *)
SetFails(s) ==
  /\ Fault
  /\ op[s].step \in Setting
  /\ damaged' = damaged \cup {op[s].url}
  /\ Continue(s, Idle)
  /\ UNCHANGED <<memoryVars, fileVars, unpruned>>

-----------------------------------------------------------------------------
(* prune_if_needed                                                         *)

TotalBytes == Weight(meta, Urls)

Parsed == {u \in Urls : meta[u] \in Images}

Older(u, v) == \E i, j \in DOMAIN byAge : i < j /\ byAge[i] = u /\ byAge[j] = v

(* The entries that were read, by the time their meta files were modified, *)
(* oldest first; those whose time cannot be read come before the others.   *)
Listings(readable) ==
  {list \in [1 .. Cardinality(readable) -> readable] :
     /\ Range(list) = readable /\ IsInjective(list)
     /\ \E undated \in SUBSET readable :
          \A i, j \in DOMAIN list :
            i < j => list[i] \in undated \/ (list[j] \notin undated /\ Older(list[i], list[j]))}

Victims(list) == [i \in DOMAIN list |-> [url |-> list[i], size |-> SizeOf(meta[list[i]])]]

(* The next victim, if the total is still too high.                        *)
NextVictim(victims, total) ==
  IF total <= DiskMax \/ victims = <<>>
    THEN Idle
    ELSE [Idle EXCEPT !.step = "pruneMeta", !.url = Head(victims).url,
                      !.victims = victims, !.total = total]

(* Mutant: a directory that is over its budget by one is let pass.         *)
ScanLoosely(s) ==
  /\ op[s].step = "scan"
  /\ \E list \in Listings(Parsed) : Continue(s, NextVictim(Victims(list), TotalBytes - 1))
  /\ unpruned' = FALSE
  /\ UNCHANGED <<memoryVars, fileVars, damaged, faults>>

(* The directory is read; meta files that do not parse are passed over,    *)
(* and so are files that cannot be read.                                   *)
Scan(s) ==
  /\ op[s].step = "scan"
  /\ \E readable \in SUBSET Parsed :
       /\ \E list \in Listings(readable) :
            Continue(s, NextVictim(Victims(list), Weight(meta, readable)))
       /\ IF readable = Parsed
            THEN unpruned' = FALSE /\ UNCHANGED faults
            ELSE unpruned' = TRUE /\ Fault
  /\ UNCHANGED <<memoryVars, fileVars, damaged>>

(* read_dir, or one of its entries, is an error: nothing is pruned.        *)
ScanFails(s) ==
  /\ Fault
  /\ op[s].step = "scan"
  /\ Continue(s, Idle)
  /\ unpruned' = TRUE
  /\ UNCHANGED <<memoryVars, fileVars, damaged>>

PruneMeta(s) ==
  /\ op[s].step = "pruneMeta"
  /\ \/ /\ RemoveMeta(op[s].url)
        /\ Touch(s, op[s].url, [op[s] EXCEPT !.step = "pruneBody"])
        /\ UNCHANGED <<memoryVars, body, historyVars>>
     \/ RemovalFails(s, "pruneBody")

(* The size is subtracted whether the files could be removed or not.       *)
PruneBody(s) ==
  /\ op[s].step = "pruneBody"
  /\ \/ RemoveBody(op[s].url) /\ UNCHANGED faults
     \/ Fault /\ UNCHANGED body
  /\ Touch(s, op[s].url,
           NextVictim(Tail(op[s].victims), Monus(op[s].total, Head(op[s].victims).size)))
  /\ UNCHANGED <<memoryVars, meta, expired, byAge, damaged, unpruned>>

-----------------------------------------------------------------------------
(* The time to live of a meta file is over.  It is the same for all, so    *)
(* they expire in the order they were written.                             *)
Expire(u) ==
  /\ \E i \in DOMAIN byAge :
       /\ byAge[i] = u
       /\ \A j \in 1 .. i - 1 : byAge[j] \in expired \/ meta[byAge[j]] = Torn
  /\ meta[u] \in Images
  /\ u \notin expired
  /\ expired' = expired \cup {u}
  /\ UNCHANGED <<memoryVars, meta, body, byAge, op, historyVars>>

(* The process ends and starts again: the directory is all that is left.   *)
Crash ==
  /\ Fault
  /\ items' = [s \in Services |-> [u \in Urls |-> Absent]]
  /\ recent' = [s \in Services |-> <<>>]
  /\ curBytes' = [s \in Services |-> 0]
  /\ op' = [s \in Services |-> Idle]
  /\ damaged' = damaged \cup {op[s].url : s \in {t \in Services : op[t].step \in Setting}}
  /\ unpruned' = TRUE
  /\ UNCHANGED fileVars

DiskStep(s) ==
  \/ GetMeta(s) \/ GetBody(s) \/ DropMeta(s) \/ DropBody(s)
  \/ WriteBody(s) \/ TruncateMeta(s) \/ WriteMeta(s) \/ SetFails(s)
  \/ Scan(s) \/ ScanFails(s) \/ PruneMeta(s) \/ PruneBody(s)

Next ==
  \/ \E s \in Services :
       \/ DiskStep(s)
       \/ \E u \in Urls : MemoryGet(s, u) \/ GetExists(s, u)
       \/ \E u \in Urls, c \in Images : StoreInMemory(s, u, c) \/ SetBegin(s, u, c)
  \/ \E u \in Urls : Expire(u)
  \/ Crash

Spec == Init /\ [][Next]_vars

-----------------------------------------------------------------------------
Lists(list, files) ==
  /\ IsInjective(list)
  /\ \A u \in Urls : u \in Range(list) <=> files[u] # Absent

(* Besides the types: both lists of urls, the one of the LRU cache and the *)
(* one of the directory, name each entry that is there once.               *)
TypeOK ==
  /\ items \in [Services -> [Urls -> Contents]]
  /\ recent \in [Services -> Seq(Urls)]
  /\ curBytes \in [Services -> Nat]
  /\ meta \in [Urls -> Contents]
  /\ body \in [Urls -> Contents]
  /\ expired \subseteq Urls
  /\ byAge \in Seq(Urls)
  /\ \A s \in Services : Lists(recent[s], items[s])
  /\ Lists(byAge, meta)
  /\ op \in [Services -> [step : Steps, url : Urls \cup {Absent}, img : Images \cup {Absent},
                          clean : BOOLEAN, victims : Seq([url : Urls, size : Nat]), total : Nat]]
  /\ damaged \subseteq Urls
  /\ unpruned \in BOOLEAN
  /\ faults \in 0 .. MaxFaults

(* cur_bytes is the size of what the memory cache holds and stays within  *)
(* max_bytes: replacing, evicting and copying hits from disk (torn ones    *)
(* included) neither leak nor free twice, so the saturating subtractions   *)
(* never saturate.                                                         *)
MemoryBudget ==
  \A s \in Services :
    /\ curBytes[s] = Weight(items[s], Urls)
    /\ curBytes[s] <= MemoryMax[s]

(* Nobody works on the disk: its meta files add up to max_bytes at most,   *)
(* although two services scan and delete on their own, from listings that  *)
(* are stale by then.  Only a crash, or a meta file that could not be read *)
(* or removed, may leave more, and only until a later set has read and     *)
(* pruned the whole directory.                                             *)
DiskBudget ==
  (\A s \in Services : op[s] = Idle) /\ ~unpruned => TotalBytes <= DiskMax

BeingSet(u) == \E s \in Services : op[s].url = u /\ op[s].step \in Setting

(* A crash, a failed write, a meta file that cannot be removed or two      *)
(* services at the same URL are the only ways to spoil an entry: any other *)
(* one has no meta file, or one that parses and describes the bytes beside *)
(* it.  A later undisturbed set makes a spoilt entry good again.           *)
WholeUnlessDamaged ==
  \A u \in Urls :
    u \notin damaged /\ ~BeingSet(u) =>
      meta[u] = Absent \/ (meta[u] \in Images /\ body[u] = meta[u])

(* A get that no other service disturbs, of an entry that is not damaged,  *)
(* finds the files it has seen, and the bytes it serves are those of the   *)
(* image whose MIME type it has read.                                      *)
UndisturbedGet ==
  \A s \in Services :
    op[s].clean /\ op[s].url \notin damaged =>
      /\ op[s].step = "getMeta" => meta[op[s].url] \in Images
      /\ op[s].step = "getBody" => body[op[s].url] = op[s].img
=============================================================================
