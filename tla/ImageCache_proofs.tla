-------------------------- MODULE ImageCache_proofs --------------------------
(***************************************************************************)
(* Proofs about ImageCache: the budgets of the memory caches and of the    *)
(* directory, and what two services that share the directory can find in   *)
(* it, for any services, URLs, images, sizes and budgets.                  *)
(***************************************************************************)
EXTENDS ImageCache, FiniteSetTheorems, SequenceTheorems, TLAPS

-----------------------------------------------------------------------------
(* The inductive invariant                                                 *)

Pruning == {"pruneMeta", "pruneBody"}
Finishing == {"dropBody", "pruneBody"}

(* An operation under way has what its next step needs.                    *)
OpGood(o) ==
  /\ o.step \notin {"idle", "scan"} => o.url \in Urls
  /\ o.step \in Setting => o.img \in Images
  /\ o.step \in Pruning =>
       /\ o.victims # <<>>
       /\ o.url = Head(o.victims).url
       /\ \A i, j \in DOMAIN o.victims : o.victims[i].url = o.victims[j].url => i = j

(* A set that nobody disturbed has no rival: no other set of the URL, and  *)
(* nobody about to remove the body file it writes.                         *)
SetAlone(s, t) ==
  s # t /\ op[s].url = op[t].url /\ op[s].step \in Setting /\ op[s].clean =>
    op[t].step \notin Setting \cup Finishing

(* What it wrote so far is still there.                                    *)
SetKeeps(s) ==
  op[s].clean =>
    /\ op[s].step \in {"truncateMeta", "writeMeta"} => body[op[s].url] = op[s].img
    /\ op[s].step = "writeMeta" => meta[op[s].url] = Torn

(* A body file about to be removed has lost its meta file, unless someone  *)
(* set the entry since.                                                    *)
Orphaned(s) ==
  op[s].step \in Finishing =>
    op[s].url \in damaged \/ BeingSet(op[s].url) \/ meta[op[s].url] = Absent

(* An undisturbed get of an undamaged entry sees its two files agree.      *)
GetAgrees(s) ==
  op[s].clean /\ op[s].url \notin damaged =>
    /\ op[s].step = "getMeta" =>
         meta[op[s].url] \in Images /\ body[op[s].url] = meta[op[s].url]
    /\ op[s].step = "getBody" => body[op[s].url] = op[s].img

(* An entry that is neither damaged nor being set is whole.                *)
Whole(u) ==
  u \notin damaged /\ ~BeingSet(u) =>
    meta[u] = Absent \/ (meta[u] \in Images /\ body[u] = meta[u])

FilesAgree ==
  /\ \A s, t \in Services : SetAlone(s, t)
  /\ \A s \in Services : SetKeeps(s) /\ Orphaned(s) /\ GetAgrees(s)
  /\ \A u \in Urls : Whole(u)

(* The bytes that a listing of the directory counts.                       *)
VictimBytes(v) == UNION {{v[i].url} \X (1 .. v[i].size) : i \in DOMAIN v}

(* Service s will bring the directory within its budget: it is yet to list *)
(* it, or all that is there now is on its list.                            *)
Claim(s) ==
  \/ op[s].step = "scan"
  \/ /\ op[s].step = "pruneMeta"
     /\ BytesOf(meta, Urls) \subseteq VictimBytes(op[s].victims)
     /\ Cardinality(VictimBytes(op[s].victims)) <= op[s].total
  \/ /\ op[s].step = "pruneBody"
     /\ BytesOf(meta, Urls) \subseteq VictimBytes(Tail(op[s].victims))
     /\ Cardinality(VictimBytes(Tail(op[s].victims))) + Head(op[s].victims).size
          <= op[s].total

BudgetOrClaim == unpruned \/ TotalBytes <= DiskMax \/ \E s \in Services : Claim(s)

OpRecords ==
  [step : Steps, url : Urls \cup {Absent}, img : Images \cup {Absent},
   clean : BOOLEAN, victims : Seq([url : Urls, size : Nat]), total : Nat]

MemoryTyped ==
  /\ items \in [Services -> [Urls -> Contents]]
  /\ recent \in [Services -> Seq(Urls)]
  /\ curBytes \in [Services -> Nat]
  /\ \A s \in Services : Lists(recent[s], items[s])

FilesTyped ==
  /\ meta \in [Urls -> Contents]
  /\ body \in [Urls -> Contents]
  /\ expired \subseteq Urls
  /\ byAge \in Seq(Urls)
  /\ Lists(byAge, meta)
  /\ damaged \subseteq Urls
  /\ unpruned \in BOOLEAN
  /\ faults \in 0 .. MaxFaults

OpTyped ==
  /\ op \in [Services -> OpRecords]
  /\ \A s \in Services : OpGood(op[s])

MemoryOK == MemoryTyped /\ MemoryBudget

DiskOK == FilesTyped /\ OpTyped /\ BudgetOrClaim /\ FilesAgree

IInv == MemoryOK /\ DiskOK

-----------------------------------------------------------------------------
(* Bytes and their number                                                  *)

(* A size is a natural number.                                             *)
LEMMA SizeIsNat ==
  ASSUME NEW c
  PROVE  SizeOf(c) \in Nat
BY ImagesAssumption DEF SizeOf

(* What it means for a pair to be one of the bytes.                        *)
LEMMA BytesElement ==
  ASSUME NEW files, NEW S, NEW b
  PROVE  b \in BytesOf(files, S) <=>
           \E u \in S : \E k \in 1 .. SizeOf(files[u]) : b = <<u, k>>
<1>1. b \in BytesOf(files, S) <=> \E u \in S : b \in {u} \X (1 .. SizeOf(files[u]))
  BY Zenon DEF BytesOf
<1>2. ASSUME NEW u, NEW K
      PROVE  b \in {u} \X K <=> \E k \in K : b = <<u, k>>
  OBVIOUS
<1> QED BY <1>1, <1>2, Zenon

(* Finitely many files have finitely many bytes.                           *)
LEMMA BytesFinite ==
  ASSUME NEW files, NEW S, IsFiniteSet(S)
  PROVE  /\ IsFiniteSet(BytesOf(files, S))
         /\ Weight(files, S) \in Nat
<1> DEFINE f == [u \in S |-> {u} \X (1 .. SizeOf(files[u]))]
           T == {{u} \X (1 .. SizeOf(files[u])) : u \in S}
<1>1. f \in Surjection(S, T)
  BY Zenon DEF Surjection
<1>2. IsFiniteSet(T)
  BY <1>1, FS_Surjection, Zenon
<1>3. ASSUME NEW u \in S
      PROVE  IsFiniteSet({u} \X (1 .. SizeOf(files[u])))
  <2>1. SizeOf(files[u]) \in Int /\ 1 \in Int
    BY SizeIsNat
  <2>2. IsFiniteSet(1 .. SizeOf(files[u]))
    BY <2>1, FS_Interval, Zenon
  <2>3. IsFiniteSet({u})
    BY FS_Singleton, Zenon
  <2> QED BY <2>2, <2>3, FS_Product, Zenon
<1>4. IsFiniteSet(UNION T)
  <2>1. \A X \in T : IsFiniteSet(X)
    BY <1>3, Zenon
  <2> QED BY <1>2, <2>1, FS_UNION, Zenon
<1>5. IsFiniteSet(BytesOf(files, S))
  BY <1>4 DEF BytesOf
<1> QED BY <1>5, FS_CardinalityType, Zenon DEF Weight

(* One file weighs its size.                                               *)
LEMMA WeightOne ==
  ASSUME NEW files, NEW u
  PROVE  Weight(files, {u}) = SizeOf(files[u])
<1> DEFINE n == SizeOf(files[u])
<1>1. n \in Nat
  BY SizeIsNat
<1>2. BytesOf(files, {u}) = {u} \X (1 .. n)
  BY Zenon DEF BytesOf
<1> HIDE DEF n
<1>3. IsFiniteSet(1 .. n) /\ Cardinality(1 .. n) = n
  <2>1. 1 \in Int /\ n \in Int
    BY <1>1
  <2>2. IsFiniteSet(1 .. n) /\ Cardinality(1 .. n) = (IF 1 > n THEN 0 ELSE n - 1 + 1)
    BY <2>1, FS_Interval, Zenon
  <2> QED BY <2>2, <1>1
<1>4. IsFiniteSet({u}) /\ Cardinality({u}) = 1
  BY FS_Singleton, Zenon
<1>5. Cardinality({u} \X (1 .. n)) = Cardinality({u}) * Cardinality(1 .. n)
  BY <1>3, <1>4, FS_Product, Zenon
<1>6. Cardinality({u} \X (1 .. n)) = n
  BY <1>1, <1>3, <1>4, <1>5
<1> QED BY <1>2, <1>6, Zenon DEF Weight, n

(* Files that do not overlap add up.                                       *)
LEMMA WeightAdds ==
  ASSUME NEW files, NEW S, NEW T, IsFiniteSet(S), IsFiniteSet(T), S \cap T = {}
  PROVE  Weight(files, S \cup T) = Weight(files, S) + Weight(files, T)
<1> DEFINE A == BytesOf(files, S)
           B == BytesOf(files, T)
<1>1. IsFiniteSet(A) /\ IsFiniteSet(B) /\ Weight(files, S) \in Nat /\ Weight(files, T) \in Nat
  BY BytesFinite, Zenon
<1>2. BytesOf(files, S \cup T) = A \cup B
  <2>1. \A b : b \in BytesOf(files, S \cup T) <=> b \in A \/ b \in B
    BY BytesElement
  <2> QED BY <2>1, Zenon
<1>3. A \cap B = {}
  <2>1. ASSUME NEW b, b \in A, b \in B PROVE FALSE
    <3>1. PICK u \in S : \E k \in 1 .. SizeOf(files[u]) : b = <<u, k>>
      BY <2>1, BytesElement
    <3>2. PICK v \in T : \E k \in 1 .. SizeOf(files[v]) : b = <<v, k>>
      BY <2>1, BytesElement
    <3> QED BY <3>1, <3>2
  <2> QED BY <2>1, Zenon
<1>4. Cardinality(A \cup B) = Cardinality(A) + Cardinality(B) - Cardinality(A \cap B)
  BY <1>1, FS_Union, Zenon
<1>5. Cardinality(A \cap B) = 0
  BY <1>3, FS_EmptySet, Zenon
<1>6. Cardinality(A) \in Nat /\ Cardinality(B) \in Nat
  BY <1>1, FS_CardinalityType, Zenon
<1> HIDE DEF A, B
<1>7. Cardinality(A \cup B) = Cardinality(A) + Cardinality(B)
  BY <1>4, <1>5, <1>6
<1> QED BY <1>2, <1>7, Zenon DEF Weight, A, B

(* The weight depends on the files that are named only.                    *)
LEMMA WeightSame ==
  ASSUME NEW f, NEW g, NEW S, \A u \in S : f[u] = g[u]
  PROVE  BytesOf(f, S) = BytesOf(g, S) /\ Weight(f, S) = Weight(g, S)
<1>1. \A b : b \in BytesOf(f, S) <=> b \in BytesOf(g, S)
  BY BytesElement
<1> QED BY <1>1, Zenon DEF Weight

(* Files without an image weigh nothing.                                   *)
LEMMA WeightNone ==
  ASSUME NEW files, NEW S, \A u \in S : files[u] \notin Images
  PROVE  BytesOf(files, S) = {} /\ Weight(files, S) = 0
<1>1. \A b : b \notin BytesOf(files, S)
  <2>1. ASSUME NEW u \in S PROVE SizeOf(files[u]) = 0
    BY DEF SizeOf
  <2>2. 1 .. 0 = {}
    OBVIOUS
  <2> QED BY <2>1, <2>2, BytesElement
<1> QED BY <1>1, FS_EmptySet, Zenon DEF Weight
-----------------------------------------------------------------------------
(* Lists of different URLs                                                 *)

(* The elements of a list, by their positions.                             *)
LEMMA RangeOf ==
  ASSUME NEW S, NEW list \in Seq(S), NEW u
  PROVE  u \in Range(list) <=> \E i \in 1 .. Len(list) : list[i] = u
BY DEF Range

(* The rest of a list after its first n elements.                          *)
LEMMA SuffixOf ==
  ASSUME NEW list \in Seq(Urls), NEW n \in 0 .. Len(list)
  PROVE  /\ SubSeq(list, n + 1, Len(list)) \in Seq(Urls)
         /\ Len(SubSeq(list, n + 1, Len(list))) = Len(list) - n
         /\ \A k \in 1 .. Len(list) - n : SubSeq(list, n + 1, Len(list))[k] = list[n + k]
OBVIOUS

(* A list of different URLs cut in two.                                    *)
LEMMA CutList ==
  ASSUME NEW list \in Seq(Urls), IsInjective(list), NEW n \in 0 .. Len(list)
  PROVE  /\ Range(SubSeq(list, 1, n)) \subseteq Urls
         /\ SubSeq(list, n + 1, Len(list)) \in Seq(Urls)
         /\ IsInjective(SubSeq(list, n + 1, Len(list)))
         /\ Range(SubSeq(list, n + 1, Len(list))) =
              Range(list) \ Range(SubSeq(list, 1, n))
         /\ n = Len(list) => Range(SubSeq(list, 1, n)) = Range(list)
<1> DEFINE a == SubSeq(list, 1, n)
           b == SubSeq(list, n + 1, Len(list))
<1>1. /\ Len(list) \in Nat /\ n \in Nat
      /\ DOMAIN list = 1 .. Len(list)
      /\ \A i \in 1 .. Len(list) : list[i] \in Urls
  OBVIOUS
<1>2. /\ a \in Seq(Urls) /\ Len(a) = n
      /\ \A i \in 1 .. n : a[i] = list[i]
  OBVIOUS
<1>3. /\ b \in Seq(Urls) /\ Len(b) = Len(list) - n
      /\ \A i \in 1 .. Len(list) - n : b[i] = list[n + i]
  BY SuffixOf
<1>4. \A i, j \in 1 .. Len(list) : list[i] = list[j] => i = j
  BY <1>1 DEF IsInjective
<1> HIDE DEF a, b
<1>5. IsInjective(b)
  BY <1>1, <1>3, <1>4 DEF IsInjective
<1>6. Range(a) \subseteq Urls
  BY <1>1, <1>2 DEF Range
<1>7. ASSUME NEW u PROVE u \in Range(b) <=> u \in Range(list) /\ u \notin Range(a)
  <2>1. ASSUME u \in Range(b) PROVE u \in Range(list) /\ u \notin Range(a)
    <3>1. PICK i \in 1 .. Len(list) - n : b[i] = u
      BY <2>1, <1>3, RangeOf
    <3>2. list[n + i] = u /\ n + i \in 1 .. Len(list)
      BY <3>1, <1>3, <1>1
    <3>3. u \in Range(list)
      BY <3>2, RangeOf
    <3>4. ASSUME NEW j \in 1 .. n, a[j] = u PROVE FALSE
      BY <3>4, <3>2, <1>1, <1>2, <1>4
    <3>5. u \notin Range(a)
      BY <3>4, <1>2, RangeOf
    <3> QED BY <3>3, <3>5
  <2>2. ASSUME u \in Range(list), u \notin Range(a) PROVE u \in Range(b)
    <3>1. PICK i \in 1 .. Len(list) : list[i] = u
      BY <2>2, RangeOf
    <3>2. ~(i <= n)
      BY <3>1, <2>2, <1>1, <1>2, RangeOf
    <3>3. i - n \in 1 .. Len(list) - n /\ n + (i - n) = i
      BY <3>2, <1>1
    <3>4. b[i - n] = u
      BY <3>1, <3>3, <1>3
    <3> QED BY <3>3, <3>4, <1>3, RangeOf
  <2> QED BY <2>1, <2>2
<1>8. ASSUME n = Len(list) PROVE Range(a) = Range(list)
  BY <1>8, <1>1, <1>2 DEF Range
<1>9. Range(b) = Range(list) \ Range(a)
  BY <1>7, Zenon
<1> QED BY <1>3, <1>5, <1>6, <1>8, <1>9 DEF a, b

(* One URL put at the end of a list without it.                            *)
LEMMA AppendToList ==
  ASSUME NEW list \in Seq(Urls), IsInjective(list), NEW u \in Urls, u \notin Range(list)
  PROVE  /\ Append(list, u) \in Seq(Urls)
         /\ IsInjective(Append(list, u))
         /\ Range(Append(list, u)) = Range(list) \cup {u}
<1> DEFINE a == Append(list, u)
<1>1. /\ Len(list) \in Nat /\ DOMAIN list = 1 .. Len(list)
      /\ a \in Seq(Urls) /\ Len(a) = Len(list) + 1
      /\ \A i \in 1 .. Len(list) : a[i] = list[i]
      /\ a[Len(list) + 1] = u
  OBVIOUS
<1>2. \A i, j \in 1 .. Len(list) : list[i] = list[j] => i = j
  BY <1>1 DEF IsInjective
<1>3. \A i \in 1 .. Len(list) : list[i] # u
  BY RangeOf
<1> HIDE DEF a
<1>4. IsInjective(a)
  <2> SUFFICES ASSUME NEW i \in 1 .. Len(list) + 1, NEW j \in 1 .. Len(list) + 1, a[i] = a[j]
               PROVE  i = j
    BY <1>1 DEF IsInjective
  <2>1. CASE i \in 1 .. Len(list) /\ j \in 1 .. Len(list)
    BY <2>1, <1>1, <1>2
  <2>2. CASE i \in 1 .. Len(list) /\ j = Len(list) + 1
    BY <2>2, <1>1, <1>3
  <2>3. CASE j \in 1 .. Len(list) /\ i = Len(list) + 1
    BY <2>3, <1>1, <1>3
  <2>4. CASE i = Len(list) + 1 /\ j = Len(list) + 1
    BY <2>4
  <2> QED BY <2>1, <2>2, <2>3, <2>4, <1>1
<1>5. ASSUME NEW v PROVE v \in Range(a) <=> v \in Range(list) \/ v = u
  <2>1. ASSUME v \in Range(a) PROVE v \in Range(list) \/ v = u
    <3>1. PICK i \in 1 .. Len(list) + 1 : a[i] = v
      BY <2>1, <1>1, RangeOf
    <3> QED BY <3>1, <1>1, RangeOf
  <2>2. ASSUME v \in Range(list) PROVE v \in Range(a)
    <3>1. PICK i \in 1 .. Len(list) : list[i] = v
      BY <2>2, RangeOf
    <3>2. i \in 1 .. Len(a) /\ a[i] = v
      BY <3>1, <1>1
    <3> QED BY <3>2, <1>1, RangeOf
  <2>3. u \in Range(a)
    <3>1. Len(list) + 1 \in 1 .. Len(a)
      BY <1>1
    <3> QED BY <3>1, <1>1, RangeOf
  <2> QED BY <2>1, <2>2, <2>3
<1>6. Range(a) = Range(list) \cup {u}
  BY <1>5, Zenon
<1> QED BY <1>1, <1>4, <1>6 DEF a

(* Taking a URL out of a list.                                             *)
LEMMA WithoutList ==
  ASSUME NEW list \in Seq(Urls), IsInjective(list), NEW u \in Urls
  PROVE  /\ Without(list, u) \in Seq(Urls)
         /\ IsInjective(Without(list, u))
         /\ Range(Without(list, u)) = Range(list) \ {u}
<1>1. CASE u \notin Range(list)
  BY <1>1, Zenon DEF Without
<1>2. CASE u \in Range(list)
  <2> DEFINE i == CHOOSE k \in DOMAIN list : list[k] = u
             a == SubSeq(list, 1, i - 1)
             b == SubSeq(list, i + 1, Len(list))
             w == a \o b
  <2>1. /\ Len(list) \in Nat /\ DOMAIN list = 1 .. Len(list)
        /\ \A k \in 1 .. Len(list) : list[k] \in Urls
    OBVIOUS
  <2>2. \E k \in DOMAIN list : list[k] = u
    BY <1>2, <2>1, RangeOf
  <2>3. i \in 1 .. Len(list) /\ list[i] = u
    <3>1. i \in DOMAIN list /\ list[i] = u
      BY <2>2, Zenon
    <3> QED BY <3>1, <2>1
  <2>4. Without(list, u) = w
    BY <1>2, Zenon DEF Without
  <2> HIDE DEF i
  <2>5. /\ a \in Seq(Urls) /\ Len(a) = i - 1
        /\ \A k \in 1 .. i - 1 : a[k] = list[k]
    BY <2>1, <2>3
  <2>6. /\ b \in Seq(Urls) /\ Len(b) = Len(list) - i
        /\ \A k \in 1 .. Len(list) - i : b[k] = list[i + k]
    <3>1. i \in 0 .. Len(list)
      BY <2>1, <2>3
    <3> QED BY <3>1, SuffixOf, Zenon
  <2> HIDE DEF a, b
  <2>7. /\ w \in Seq(Urls) /\ Len(w) = Len(list) - 1
        /\ \A k \in 1 .. Len(list) - 1 : w[k] = IF k < i THEN list[k] ELSE list[k + 1]
    <3>1. w \in Seq(Urls) /\ Len(w) = Len(a) + Len(b)
      BY <2>5, <2>6
    <3>2. ASSUME NEW k \in 1 .. Len(list) - 1
          PROVE  w[k] = IF k < i THEN list[k] ELSE list[k + 1]
      <4>1. \A m \in 1 .. Len(a) + Len(b) : w[m] = IF m <= Len(a) THEN a[m] ELSE b[m - Len(a)]
        BY <2>5, <2>6, ConcatProperties, Zenon
      <4>2. w[k] = IF k <= Len(a) THEN a[k] ELSE b[k - Len(a)]
        BY <4>1, <2>1, <2>3, <2>5, <2>6
      <4>3. CASE k < i
        BY <4>2, <4>3, <2>1, <2>3, <2>5
      <4>4. CASE ~(k < i)
        <5>1. k - Len(a) \in 1 .. Len(list) - i /\ i + (k - Len(a)) = k + 1
          BY <4>4, <2>1, <2>3, <2>5
        <5>2. ~(k <= Len(a))
          BY <4>4, <2>1, <2>3, <2>5
        <5> QED BY <4>2, <4>4, <5>1, <5>2, <2>6
      <4> QED BY <4>3, <4>4
    <3> QED BY <3>1, <3>2, <2>1, <2>3, <2>5, <2>6
  <2>8. \A j, k \in 1 .. Len(list) : list[j] = list[k] => j = k
    BY <2>1 DEF IsInjective
  <2> HIDE DEF w
  <2>9. IsInjective(w)
    <3> SUFFICES ASSUME NEW j \in 1 .. Len(list) - 1, NEW k \in 1 .. Len(list) - 1, w[j] = w[k]
                 PROVE  j = k
      BY <2>1, <2>7 DEF IsInjective
    <3> QED BY <2>1, <2>3, <2>7, <2>8
  <2>10. ASSUME NEW v PROVE v \in Range(w) <=> v \in Range(list) /\ v # u
    <3>1. ASSUME v \in Range(w) PROVE v \in Range(list) /\ v # u
      <4>1. PICK k \in 1 .. Len(list) - 1 : w[k] = v
        BY <3>1, <2>7, RangeOf
      <4>2. PICK m \in 1 .. Len(list) : list[m] = v /\ m # i
        BY <4>1, <2>1, <2>3, <2>7
      <4> QED BY <4>2, <2>3, <2>8, RangeOf
    <3>2. ASSUME v \in Range(list), v # u PROVE v \in Range(w)
      <4>1. PICK m \in 1 .. Len(list) : list[m] = v
        BY <3>2, RangeOf
      <4>2. m # i
        BY <4>1, <3>2, <2>3
      <4>3. PICK k \in 1 .. Len(list) - 1 : w[k] = v
        <5>1. CASE m < i
          BY <5>1, <4>1, <2>1, <2>3, <2>7
        <5>2. CASE m > i
          <6>1. m - 1 \in 1 .. Len(list) - 1 /\ ~(m - 1 < i) /\ (m - 1) + 1 = m
            BY <5>2, <2>1, <2>3
          <6> QED BY <6>1, <4>1, <2>7
        <5> QED BY <5>1, <5>2, <4>2, <2>3
      <4> QED BY <4>3, <2>7, RangeOf
    <3> QED BY <3>1, <3>2
  <2>11. Range(w) = Range(list) \ {u}
    BY <2>10, Zenon
  <2> QED BY <2>4, <2>7, <2>9, <2>11, Zenon
<1> QED BY <1>1, <1>2

(* Moving a URL to the recent end, or putting it there.                    *)
LEMMA RefreshList ==
  ASSUME NEW list \in Seq(Urls), IsInjective(list), NEW u \in Urls
  PROVE  /\ Append(Without(list, u), u) \in Seq(Urls)
         /\ IsInjective(Append(Without(list, u), u))
         /\ Range(Append(Without(list, u), u)) = Range(list) \cup {u}
<1>1. /\ Without(list, u) \in Seq(Urls) /\ IsInjective(Without(list, u))
      /\ Range(Without(list, u)) = Range(list) \ {u}
  BY WithoutList, Zenon
<1>2. u \notin Range(Without(list, u))
  BY <1>1, Zenon
<1> HIDE DEF Without
<1>3. /\ Append(Without(list, u), u) \in Seq(Urls)
      /\ IsInjective(Append(Without(list, u), u))
      /\ Range(Append(Without(list, u), u)) = Range(Without(list, u)) \cup {u}
  BY <1>1, <1>2, AppendToList, Zenon
<1>4. Range(Without(list, u)) \cup {u} = Range(list) \cup {u}
  BY <1>1, Zenon
<1> QED BY <1>3, <1>4, Zenon
-----------------------------------------------------------------------------
(* The memory caches                                                       *)

(* What replacing one entry and evicting others does to the bytes: the new *)
(* bytes are those of the new entry and of the entries that stay.          *)
Replaced(f, g, u, E) ==
  /\ E \subseteq Urls /\ u \notin E
  /\ \A v \in Urls : v \in E => g[v] \notin Images
  /\ \A v \in Urls : v # u /\ v \notin E => g[v] = f[v]

RestWeighs(f, g, u, E, rest) ==
  /\ rest \in Nat
  /\ Weight(g, Urls) = SizeOf(g[u]) + rest
  /\ Weight(f, Urls) = SizeOf(f[u]) + Weight(f, E) + rest

LEMMA ReplacedWeight ==
  ASSUME NEW f, NEW g, NEW u \in Urls, NEW E, Replaced(f, g, u, E)
  PROVE  RestWeighs(f, g, u, E, Weight(f, Urls \ ({u} \cup E)))
<1> USE DEF Replaced
<1> DEFINE R == Urls \ ({u} \cup E)
<1>1. IsFiniteSet({u}) /\ IsFiniteSet(E) /\ IsFiniteSet(R) /\ IsFiniteSet({u} \cup E)
  <2>1. IsFiniteSet(Urls)
    BY ImagesAssumption, Zenon
  <2>2. /\ {u} \in SUBSET Urls /\ E \in SUBSET Urls /\ R \in SUBSET Urls
        /\ {u} \cup E \in SUBSET Urls
    OBVIOUS
  <2> HIDE DEF R
  <2> QED BY <2>1, <2>2, FS_Subset, Zenon
<1>2. /\ {u} \cap E = {} /\ ({u} \cup E) \cap R = {}
      /\ ({u} \cup E) \cup R = Urls
  OBVIOUS
<1>3. ASSUME NEW h
      PROVE  Weight(h, Urls) = Weight(h, {u}) + Weight(h, E) + Weight(h, R)
  <2> HIDE DEF R
  <2>1. Weight(h, {u} \cup E) = Weight(h, {u}) + Weight(h, E)
    BY <1>1, <1>2, WeightAdds, Zenon
  <2>2. Weight(h, ({u} \cup E) \cup R) = Weight(h, {u} \cup E) + Weight(h, R)
    BY <1>1, <1>2, WeightAdds, Zenon
  <2> QED BY <2>1, <2>2, <1>2, Zenon
<1>4. Weight(g, E) = 0
  BY WeightNone, Zenon
<1>5. Weight(g, R) = Weight(f, R)
  <2>1. \A v \in R : g[v] = f[v]
    BY Zenon
  <2> HIDE DEF R
  <2> QED BY <2>1, WeightSame, Zenon
<1>6. Weight(g, {u}) = SizeOf(g[u]) /\ Weight(f, {u}) = SizeOf(f[u])
  BY WeightOne, Zenon
<1>7. Weight(f, R) \in Nat /\ Weight(f, E) \in Nat
  BY <1>1, BytesFinite, Zenon
<1>8. SizeOf(g[u]) \in Nat /\ SizeOf(f[u]) \in Nat
  BY SizeIsNat, Zenon
<1>9. /\ Weight(g, Urls) = SizeOf(g[u]) + Weight(g, E) + Weight(g, R)
      /\ Weight(f, Urls) = SizeOf(f[u]) + Weight(f, E) + Weight(f, R)
  BY <1>3, <1>6, Zenon
<1>10. Weight(g, Urls) = SizeOf(g[u]) + Weight(f, R)
  BY <1>4, <1>5, <1>7, <1>8, <1>9
<1> QED BY <1>7, <1>9, <1>10, Zenon DEF RestWeighs

(* Only what is there has a size.                                          *)
LEMMA AbsentWeighsNothing == SizeOf(Absent) = 0 /\ Absent \notin Images
BY ImagesAssumption DEF SizeOf

(* MemoryCache::set keeps the lists, the byte count and the budget.        *)
LEMMA MemorySetOK ==
  ASSUME MemoryOK, NEW s \in Services, NEW u \in Urls, NEW c \in Contents, c # Absent,
         MemorySet(s, u, c)
  PROVE  MemoryOK'
<1> DEFINE kept == Without(recent[s], u)
           cur == Monus(curBytes[s], SizeOf(items[s][u]))
           Evicted(n) == Range(SubSeq(kept, 1, n))
           Cur(n) == Monus(cur, Weight(items[s], Evicted(n)))
<1>1. CASE UNCHANGED memoryVars
  BY <1>1, Zenon DEF memoryVars, MemoryOK, MemoryTyped, MemoryBudget
<1>2. CASE /\ ~(SizeOf(c) > MemoryMax[s] \/ MemoryMax[s] = 0)
           /\ \E n \in 0 .. Len(kept) :
               /\ n < Len(kept) => Cur(n) + SizeOf(c) <= MemoryMax[s]
               /\ items' = [items EXCEPT ![s] =
                              [v \in Urls |-> IF v = u THEN c
                                              ELSE IF v \in Evicted(n) THEN Absent
                                              ELSE items[s][v]]]
               /\ recent' = [recent EXCEPT ![s] =
                               Append(SubSeq(kept, n + 1, Len(kept)), u)]
               /\ curBytes' = [curBytes EXCEPT ![s] = Cur(n) + SizeOf(c)]
  <2>1. PICK n \in 0 .. Len(kept) :
               /\ n < Len(kept) => Cur(n) + SizeOf(c) <= MemoryMax[s]
               /\ items' = [items EXCEPT ![s] =
                              [v \in Urls |-> IF v = u THEN c
                                              ELSE IF v \in Evicted(n) THEN Absent
                                              ELSE items[s][v]]]
               /\ recent' = [recent EXCEPT ![s] =
                               Append(SubSeq(kept, n + 1, Len(kept)), u)]
               /\ curBytes' = [curBytes EXCEPT ![s] = Cur(n) + SizeOf(c)]
    BY <1>2, Zenon
  <2> DEFINE E == Evicted(n)
             rec == SubSeq(kept, n + 1, Len(kept))
             f == items[s]
             g == [v \in Urls |-> IF v = u THEN c
                                  ELSE IF v \in E THEN Absent ELSE f[v]]
             size == SizeOf(c)
             max == MemoryMax[s]
  <2>2. /\ f \in [Urls -> Contents] /\ recent[s] \in Seq(Urls) /\ curBytes[s] \in Nat
        /\ Lists(recent[s], f) /\ curBytes[s] = Weight(f, Urls) /\ curBytes[s] <= max
        /\ max \in Nat
    BY BudgetsAssumption DEF MemoryOK, MemoryTyped, MemoryBudget
  <2>3. size \in Nat /\ SizeOf(f[u]) \in Nat /\ size <= max
    BY <1>2, <2>2, SizeIsNat
  <2>4. /\ kept \in Seq(Urls) /\ IsInjective(kept) /\ Range(kept) = Range(recent[s]) \ {u}
    BY <2>2, WithoutList, Zenon DEF Lists
  <2> HIDE DEF kept
  <2>5. /\ E \subseteq Urls /\ rec \in Seq(Urls) /\ IsInjective(rec)
        /\ Range(rec) = Range(kept) \ E
        /\ n = Len(kept) => E = Range(kept)
    BY <2>4, CutList, Zenon
  <2>6. /\ Append(rec, u) \in Seq(Urls) /\ IsInjective(Append(rec, u))
        /\ Range(Append(rec, u)) = Range(rec) \cup {u}
    <3>1. u \notin Range(rec)
      BY <2>4, <2>5, Zenon
    <3> HIDE DEF rec
    <3> QED BY <3>1, <2>5, AppendToList, Zenon
  <2>7. u \notin E
    <3>1. E \subseteq Range(kept)
      BY <2>4 DEF Range
    <3> QED BY <3>1, <2>4, Zenon
  <2> HIDE DEF Evicted
  <2>8. g \in [Urls -> Contents]
    BY <2>2 DEF Contents
  <2>9. Lists(Append(rec, u), g)
    <3>1. ASSUME NEW v \in Urls PROVE v \in Range(Append(rec, u)) <=> g[v] # Absent
      <4>1. v \in Range(recent[s]) <=> f[v] # Absent
        BY <2>2, Zenon DEF Lists
      <4>2. v \in Range(Append(rec, u)) <=> v = u \/ (v \in Range(recent[s]) /\ v \notin E)
        BY <2>4, <2>5, <2>6, Zenon
      <4>3. g[v] = IF v = u THEN c ELSE IF v \in E THEN Absent ELSE f[v]
        BY Zenon
      <4> QED BY <4>1, <4>2, <4>3, Zenon
    <3> QED BY <3>1, <2>6, Zenon DEF Lists
  <2> DEFINE rest == Weight(f, Urls \ ({u} \cup E))
  <2>10. RestWeighs(f, g, u, E, rest)
    <3>1. Replaced(f, g, u, E)
      BY <2>5, <2>7, AbsentWeighsNothing, Zenon DEF Replaced
    <3> HIDE DEF g, f, E
    <3> QED BY <3>1, ReplacedWeight, Zenon
  <2>11. Weight(f, E) \in Nat
    <3>1. IsFiniteSet(E)
      BY <2>5, FS_Subset, ImagesAssumption, Zenon
    <3> QED BY <3>1, BytesFinite, Zenon
  <2>12. g[u] = c
    BY Zenon
  <2>13. Cur(n) = rest /\ Cur(n) + size = Weight(g, Urls)
    <3> HIDE DEF f, g, E, size, rest
    <3>1. Cur(n) = Monus(Monus(curBytes[s], SizeOf(f[u])), Weight(f, E))
      BY Zenon DEF f, E
    <3>2. Cur(n) = rest
      <4> HIDE DEF Cur
      <4> QED BY <3>1, <2>2, <2>3, <2>10, <2>11 DEF Monus, RestWeighs
    <3>3. Weight(g, Urls) = size + rest
      BY <2>10, <2>12, Zenon DEF size, RestWeighs
    <3> HIDE DEF Cur
    <3>4. rest \in Nat
      BY <2>10 DEF RestWeighs
    <3> QED BY <3>2, <3>3, <3>4, <2>3
  <2>14. Cur(n) + size <= max
    <3>1. CASE n < Len(kept)
      BY <3>1, <2>1, Zenon
    <3>2. CASE n = Len(kept)
      <4>1. \A v \in Urls \ ({u} \cup E) : f[v] \notin Images
        BY <3>2, <2>2, <2>4, <2>5, AbsentWeighsNothing, Zenon DEF Lists
      <4>2. rest = 0
        BY <4>1, WeightNone, Zenon
      <4> HIDE DEF size, max, Cur, rest
      <4> QED BY <4>2, <2>13, <2>3, <2>2
    <3> QED BY <3>1, <3>2, <2>4
  <2>15. Cur(n) + size \in Nat
    <3> HIDE DEF size, Cur, rest
    <3> QED BY <2>10, <2>13, <2>3 DEF RestWeighs
  <2>16. /\ items' = [items EXCEPT ![s] = g]
         /\ recent' = [recent EXCEPT ![s] = Append(rec, u)]
         /\ curBytes' = [curBytes EXCEPT ![s] = Cur(n) + size]
    BY <2>1, Zenon
  <2> HIDE DEF g, f, rec, Cur, size, max, E
  <2>17. MemoryTyped'
    <3>1. /\ items' \in [Services -> [Urls -> Contents]]
          /\ recent' \in [Services -> Seq(Urls)]
          /\ curBytes' \in [Services -> Nat]
      BY <2>16, <2>8, <2>6, <2>15 DEF MemoryOK, MemoryTyped
    <3>2. ASSUME NEW t \in Services PROVE Lists(recent'[t], items'[t])
      BY <2>16, <2>9, Zenon DEF MemoryOK, MemoryTyped
    <3> QED BY <3>1, <3>2 DEF MemoryTyped, Lists
  <2>18. MemoryBudget'
    <3>1. ASSUME NEW t \in Services
          PROVE  curBytes'[t] = Weight(items'[t], Urls) /\ curBytes'[t] <= MemoryMax[t]
      BY <2>16, <2>13, <2>14, Zenon DEF MemoryOK, MemoryTyped, MemoryBudget, max
    <3> QED BY <3>1 DEF MemoryBudget, Weight, BytesOf, SizeOf
  <2> QED BY <2>17, <2>18 DEF MemoryOK
<1> QED BY <1>1, <1>2, Zenon DEF MemorySet
(* MemoryCache::get changes the order only.                                *)
LEMMA MemoryGetOK ==
  ASSUME MemoryOK, NEW s \in Services, NEW u \in Urls, MemoryGet(s, u)
  PROVE  MemoryOK'
<1> DEFINE rec == Append(Without(recent[s], u), u)
<1>1. /\ items[s][u] # Absent /\ items' = items /\ curBytes' = curBytes
      /\ recent' = [recent EXCEPT ![s] = rec]
  BY Zenon DEF MemoryGet
<1>2. /\ recent[s] \in Seq(Urls) /\ Lists(recent[s], items[s])
  BY DEF MemoryOK, MemoryTyped
<1>3. rec \in Seq(Urls) /\ IsInjective(rec) /\ Range(rec) = Range(recent[s]) \cup {u}
  BY <1>2, RefreshList, Zenon DEF Lists
<1> HIDE DEF rec
<1>4. Lists(rec, items[s])
  BY <1>1, <1>2, <1>3, Zenon DEF Lists
<1>5. MemoryTyped'
  <2>1. recent' \in [Services -> Seq(Urls)]
    BY <1>1, <1>3 DEF MemoryOK, MemoryTyped
  <2>2. ASSUME NEW t \in Services PROVE Lists(recent'[t], items'[t])
    BY <1>1, <1>4, Zenon DEF MemoryOK, MemoryTyped
  <2> QED BY <1>1, <2>1, <2>2 DEF MemoryOK, MemoryTyped, Lists
<1>6. MemoryBudget'
  BY <1>1 DEF MemoryOK, MemoryBudget
<1> QED BY <1>5, <1>6 DEF MemoryOK

-----------------------------------------------------------------------------
(* The operations on the disk, what a step of one service leaves alone     *)

(* Service s is the only one that went on, and nobody became undisturbed.  *)
OthersKeep(s) ==
  \A t \in Services \ {s} :
    /\ op'[t].step = op[t].step /\ op'[t].url = op[t].url /\ op'[t].img = op[t].img
    /\ op'[t].victims = op[t].victims /\ op'[t].total = op[t].total
    /\ op'[t].clean => op[t].clean

(* Whoever works on u was told.                                            *)
OthersTold(s, u) == \A t \in Services \ {s} : op[t].url = u => ~op'[t].clean

(* A record of an operation stays good when it is told.                    *)
LEMMA ToldGood ==
  ASSUME NEW o \in OpRecords, OpGood(o)
  PROVE  /\ [o EXCEPT !.clean = FALSE] \in OpRecords
         /\ OpGood([o EXCEPT !.clean = FALSE])
BY DEF OpRecords, OpGood

(* Touch and Continue keep the operations typed and do what they promise.  *)
LEMMA TouchOK ==
  ASSUME OpTyped, NEW s \in Services, NEW u, NEW o \in OpRecords, OpGood(o), Touch(s, u, o)
  PROVE  OpTyped' /\ op'[s] = o /\ OthersKeep(s) /\ OthersTold(s, u)
<1> USE DEF OpTyped
<1>1. op'[s] = o
  BY DEF Touch
<1>2. ASSUME NEW t \in Services \ {s}
      PROVE  \/ op[t].url = u /\ op'[t] = [op[t] EXCEPT !.clean = FALSE]
             \/ op[t].url # u /\ op'[t] = op[t]
  BY DEF Touch
<1>3. ASSUME NEW t \in Services PROVE op'[t] \in OpRecords /\ OpGood(op'[t])
  <2>1. op[t] \in OpRecords /\ OpGood(op[t])
    BY Zenon
  <2> QED BY <2>1, <1>1, <1>2, ToldGood, Zenon
<1>4. OpTyped'
  <2>1. op' = [t \in Services |-> op'[t]]
    BY DEF Touch
  <2>2. op' \in [Services -> OpRecords]
    BY <1>3, <2>1
  <2> QED BY <1>3, <2>2 DEF OpGood, OpRecords
<1>5. ASSUME NEW t \in Services \ {s}
      PROVE  /\ op'[t].step = op[t].step /\ op'[t].url = op[t].url /\ op'[t].img = op[t].img
             /\ op'[t].victims = op[t].victims /\ op'[t].total = op[t].total
             /\ op'[t].clean => op[t].clean
             /\ op[t].url = u => ~op'[t].clean
  <2>1. op[t] \in OpRecords
    BY Zenon
  <2>2. CASE op'[t] = op[t] /\ op[t].url # u
    BY <2>2, Zenon
  <2>3. CASE op'[t] = [op[t] EXCEPT !.clean = FALSE]
    BY <2>1, <2>3 DEF OpRecords
  <2> QED BY <1>2, <2>2, <2>3
<1> QED BY <1>1, <1>4, <1>5 DEF OthersKeep, OthersTold

(* The same of Continue, which tells nobody.                               *)
LEMMA ContinueOK ==
  ASSUME OpTyped, NEW s \in Services, NEW o \in OpRecords, OpGood(o), Continue(s, o)
  PROVE  OpTyped' /\ op'[s] = o /\ OthersKeep(s)
<1> USE DEF OpTyped
<1>1. op'[s] = o
  BY DEF Continue
<1>2. ASSUME NEW t \in Services \ {s} PROVE op'[t] = op[t]
  BY DEF Continue
<1>3. ASSUME NEW t \in Services PROVE op'[t] \in OpRecords /\ OpGood(op'[t])
  BY <1>1, <1>2, Zenon
<1>4. OpTyped'
  <2>1. op' \in [Services -> OpRecords]
    BY DEF Continue
  <2> QED BY <1>3, <2>1 DEF OpGood, OpRecords
<1>5. OthersKeep(s)
  BY <1>2, Zenon DEF OthersKeep
<1> QED BY <1>1, <1>4, <1>5

(* Outside u nothing happens to the files, and whoever works on u was      *)
(* told, or nothing happens to the files of u either.                      *)
Frame(s, u) ==
  /\ OthersKeep(s)
  /\ \A v \in Urls \ {u} :
       meta'[v] = meta[v] /\ body'[v] = body[v] /\ (v \in damaged' <=> v \in damaged)
  /\ \/ OthersTold(s, u)
     \/ meta'[u] = meta[u] /\ body'[u] = body[u] /\ (u \in damaged => u \in damaged')
  /\ op[s].step \in Setting => op[s].url = u

(* Being set is what a service in the middle of a set does to a URL.       *)
LEMMA BeingSetElsewhere ==
  ASSUME NEW s \in Services, NEW u, Frame(s, u), NEW v, v # u
  PROVE  BeingSet(v) => BeingSet(v)'
<1> SUFFICES ASSUME NEW t \in Services, op[t].url = v, op[t].step \in Setting
             PROVE  \E r \in Services : op'[r].url = v /\ op'[r].step \in Setting
  BY DEF BeingSet
<1>1. t # s
  BY Zenon DEF Frame
<1>2. op'[t].url = op[t].url /\ op'[t].step = op[t].step
  BY <1>1, Zenon DEF Frame, OthersKeep
<1> QED BY <1>2, Zenon

(* What such a step cannot disturb.                                        *)
LEMMA FrameKeeps ==
  ASSUME OpTyped, FilesAgree, NEW s \in Services, NEW u, Frame(s, u)
  PROVE  /\ \A t \in Services \ {s} : SetKeeps(t)' /\ GetAgrees(t)'
         /\ \A t, r \in Services \ {s} : SetAlone(t, r)'
         /\ \A t \in Services \ {s} : op[t].url # u => Orphaned(t)'
         /\ \A v \in Urls \ {u} : Whole(v)'
<1>1. ASSUME NEW t \in Services \ {s}
      PROVE  /\ op'[t].step = op[t].step /\ op'[t].url = op[t].url /\ op'[t].img = op[t].img
             /\ op'[t].clean => op[t].clean
  BY Zenon DEF Frame, OthersKeep
<1>2. ASSUME NEW t \in Services \ {s}, op'[t].clean, op[t].url \in Urls
      PROVE  /\ meta'[op[t].url] = meta[op[t].url] /\ body'[op[t].url] = body[op[t].url]
             /\ op[t].url \in damaged => op[t].url \in damaged'
  BY <1>2, Zenon DEF Frame, OthersTold
<1>3. ASSUME NEW t \in Services, op[t].step \notin {"idle", "scan"}
      PROVE  op[t].url \in Urls
  BY <1>3 DEF OpTyped, OpGood
<1>4. ASSUME NEW t \in Services \ {s} PROVE SetKeeps(t)'
  <2> SUFFICES ASSUME op'[t].clean
               PROVE  /\ op'[t].step \in {"truncateMeta", "writeMeta"} =>
                           body'[op'[t].url] = op'[t].img
                      /\ op'[t].step = "writeMeta" => meta'[op'[t].url] = Torn
    BY DEF SetKeeps
  <2>1. SetKeeps(t)
    BY DEF FilesAgree
  <2>2. op[t].step \in {"truncateMeta", "writeMeta"} => op[t].url \in Urls
    BY <1>3
  <2> QED BY <1>1, <1>2, <2>1, <2>2 DEF SetKeeps
<1>5. ASSUME NEW t \in Services \ {s} PROVE GetAgrees(t)'
  <2> SUFFICES ASSUME op'[t].clean, op'[t].url \notin damaged'
               PROVE  /\ op'[t].step = "getMeta" =>
                           meta'[op'[t].url] \in Images /\ body'[op'[t].url] = meta'[op'[t].url]
                      /\ op'[t].step = "getBody" => body'[op'[t].url] = op'[t].img
    BY DEF GetAgrees
  <2>1. GetAgrees(t)
    BY DEF FilesAgree
  <2>2. op[t].step \in {"getMeta", "getBody"} => op[t].url \in Urls
    BY <1>3
  <2> QED BY <1>1, <1>2, <2>1, <2>2 DEF GetAgrees
<1>6. ASSUME NEW t \in Services \ {s}, NEW r \in Services \ {s} PROVE SetAlone(t, r)'
  <2>1. SetAlone(t, r)
    BY DEF FilesAgree
  <2> SUFFICES ASSUME t # r, op'[t].url = op'[r].url, op'[t].step \in Setting, op'[t].clean
               PROVE  op'[r].step \notin Setting \cup Finishing
    BY DEF SetAlone
  <2> QED BY <1>1, <2>1, Zenon DEF SetAlone
<1>7. ASSUME NEW t \in Services \ {s}, op[t].url # u PROVE Orphaned(t)'
  <2>1. Orphaned(t)
    BY DEF FilesAgree
  <2>2. PICK v : v = op[t].url
    OBVIOUS
  <2> SUFFICES ASSUME op'[t].step \in Finishing
               PROVE  v \in damaged' \/ BeingSet(v)' \/ meta'[v] = Absent
    BY <1>1, <2>2 DEF Orphaned, BeingSet
  <2>3. op[t].step \in Finishing /\ v \in Urls
    BY <1>1, <1>3, <2>2 DEF Finishing
  <2>4. v \in damaged \/ BeingSet(v) \/ meta[v] = Absent
    BY <2>1, <2>2, <2>3, Zenon DEF Orphaned
  <2>5. BeingSet(v) => BeingSet(v)'
    BY <1>7, <2>2, BeingSetElsewhere, Zenon
  <2> QED BY <1>7, <2>2, <2>3, <2>4, <2>5, Zenon DEF Frame
<1>8. ASSUME NEW v \in Urls \ {u} PROVE Whole(v)'
  <2>1. Whole(v)
    BY DEF FilesAgree
  <2>2. meta'[v] = meta[v] /\ body'[v] = body[v] /\ (v \in damaged' <=> v \in damaged)
    BY Zenon DEF Frame
  <2>3. BeingSet(v) => BeingSet(v)'
    BY BeingSetElsewhere, Zenon
  <2> HIDE DEF BeingSet
  <2> QED BY <2>1, <2>2, <2>3 DEF Whole
<1> QED BY <1>4, <1>5, <1>6, <1>7, <1>8
(* What is left to show of a step of s at u.                               *)
LEMMA OwnPart ==
  ASSUME OpTyped, FilesAgree, NEW s \in Services, NEW u, Frame(s, u),
         SetKeeps(s)', GetAgrees(s)', Orphaned(s)',
         \A t \in Services \ {s} : SetAlone(s, t)' /\ SetAlone(t, s)',
         \A t \in Services \ {s} : op[t].url = u => Orphaned(t)',
         u \in Urls => Whole(u)'
  PROVE  FilesAgree'
<1>1. /\ \A t \in Services \ {s} : SetKeeps(t)' /\ GetAgrees(t)'
      /\ \A t, r \in Services \ {s} : SetAlone(t, r)'
      /\ \A t \in Services \ {s} : op[t].url # u => Orphaned(t)'
      /\ \A v \in Urls \ {u} : Whole(v)'
  BY FrameKeeps, Zenon
<1>2. SetAlone(s, s)'
  BY DEF SetAlone
<1>3. ASSUME NEW t \in Services, NEW r \in Services PROVE SetAlone(t, r)'
  BY <1>1, <1>2, Zenon
<1>4. ASSUME NEW t \in Services PROVE SetKeeps(t)' /\ Orphaned(t)' /\ GetAgrees(t)'
  BY <1>1, Zenon
<1>5. ASSUME NEW v \in Urls PROVE Whole(v)'
  BY <1>1, Zenon
<1> QED BY <1>3, <1>4, <1>5, Zenon DEF FilesAgree

(* A step to where s neither sets nor is about to remove a body file.      *)
LEMMA HarmlessStep ==
  ASSUME NEW s \in Services, op'[s].step \notin Setting \cup Finishing
  PROVE  /\ SetKeeps(s)' /\ Orphaned(s)'
         /\ \A t \in Services : SetAlone(s, t)' /\ SetAlone(t, s)'
<1>1. op'[s].step \notin Setting /\ op'[s].step \notin Finishing
  BY Zenon
<1>2. op'[s].step \notin {"truncateMeta", "writeMeta"} /\ op'[s].step # "writeMeta"
  BY <1>1 DEF Setting
<1>3. SetKeeps(s)'
  BY <1>2 DEF SetKeeps
<1>4. Orphaned(s)'
  BY <1>1 DEF Orphaned
<1>5. ASSUME NEW t \in Services PROVE SetAlone(s, t)' /\ SetAlone(t, s)'
  BY <1>1 DEF SetAlone
<1> QED BY <1>3, <1>4, <1>5

(* A step that leaves the files alone and sets nothing.                    *)
LEMMA QuietStep ==
  ASSUME OpTyped, FilesAgree, NEW s \in Services, OthersKeep(s),
         UNCHANGED <<meta, body, damaged>>,
         op[s].step \notin Setting, op'[s].step \notin Setting \cup Finishing,
         GetAgrees(s)'
  PROVE  FilesAgree'
<1>1. ASSUME NEW u PROVE Frame(s, u)
  BY DEF Frame
<1>2. Absent # Torn
  BY ImagesAssumption
<1>3. ASSUME NEW u
      PROVE  /\ \A t \in Services \ {s} : op[t].url # u => Orphaned(t)'
             /\ \A v \in Urls \ {u} : Whole(v)'
  BY <1>1, FrameKeeps, Zenon
<1>4. ASSUME NEW t \in Services \ {s} PROVE Orphaned(t)'
  <2>1. op[t].url # Absent => Orphaned(t)'
    BY <1>3, Zenon
  <2>2. op[t].url # Torn => Orphaned(t)'
    BY <1>3, Zenon
  <2> QED BY <1>2, <2>1, <2>2, Zenon
<1>5. ASSUME NEW v \in Urls PROVE Whole(v)'
  <2>1. v # Absent => Whole(v)'
    BY <1>3, Zenon
  <2>2. v # Torn => Whole(v)'
    BY <1>3, Zenon
  <2> QED BY <1>2, <2>1, <2>2, Zenon
<1>6. /\ SetKeeps(s)' /\ Orphaned(s)'
      /\ \A t \in Services : SetAlone(s, t)' /\ SetAlone(t, s)'
  BY HarmlessStep, Zenon
<1> QED BY <1>1, <1>4, <1>5, <1>6, OwnPart, Zenon

(* A meta file is removed, or cannot be, and its body file is next.        *)
LEMMA RemoveMetaStep ==
  ASSUME OpTyped, FilesTyped, FilesAgree, NEW s \in Services, NEW u \in Urls,
         OthersKeep(s), OthersTold(s, u),
         \A v \in Urls \ {u} : meta'[v] = meta[v] /\ (v \in damaged' <=> v \in damaged),
         meta'[u] = Absent \/ u \in damaged', UNCHANGED body,
         op[s].step \notin Setting,
         op'[s].step \in Finishing, op'[s].url = u
  PROVE  FilesAgree'
<1>2. Frame(s, u)
  BY DEF Frame
<1>3. op'[s].step \notin Setting \cup Getting
  BY DEF Setting, Finishing, Getting
<1>4. SetKeeps(s)' /\ GetAgrees(s)'
  BY <1>3 DEF SetKeeps, GetAgrees, Setting, Getting
<1>5. Orphaned(s)'
  BY DEF Orphaned
<1>6. ASSUME NEW t \in Services \ {s} PROVE SetAlone(s, t)' /\ SetAlone(t, s)'
  <2>1. SetAlone(s, t)'
    BY <1>3 DEF SetAlone
  <2>2. op'[t].url = u => ~op'[t].clean
    BY Zenon DEF OthersKeep, OthersTold
  <2>3. SetAlone(t, s)'
    BY <2>2 DEF SetAlone
  <2> QED BY <2>1, <2>3
<1>7. ASSUME NEW t \in Services \ {s}, op[t].url = u PROVE Orphaned(t)'
  <2>1. op'[t].url = u
    BY <1>7, Zenon DEF OthersKeep
  <2> QED BY <2>1 DEF Orphaned
<1>8. Whole(u)'
  BY DEF Whole
<1> QED BY <1>2, <1>4, <1>5, <1>6, <1>7, <1>8, OwnPart, Zenon

(* The body file that was left is removed.                                 *)
LEMMA RemoveBodyStep ==
  ASSUME OpTyped, FilesTyped, FilesAgree, NEW s \in Services, NEW u \in Urls,
         OthersKeep(s), OthersTold(s, u),
         \A v \in Urls \ {u} : body'[v] = body[v], UNCHANGED <<meta, damaged>>,
         op[s].step \in Finishing, op[s].url = u,
         op'[s].step \in {"idle", "pruneMeta"}
  PROVE  FilesAgree'
<1>2. op[s].step \notin Setting
  BY DEF Setting, Finishing
<1>3. Frame(s, u)
  BY <1>2 DEF Frame
<1>4. op'[s].step \notin Setting \cup Finishing /\ op'[s].step \notin Getting
  BY DEF Setting, Finishing, Getting
<1>5. /\ SetKeeps(s)' /\ Orphaned(s)'
      /\ \A t \in Services : SetAlone(s, t)' /\ SetAlone(t, s)'
  BY <1>4, HarmlessStep, Zenon
<1>6. GetAgrees(s)'
  BY <1>4 DEF GetAgrees, Getting
<1>7. BeingSet(u) => BeingSet(u)'
  <2> SUFFICES ASSUME NEW t \in Services, op[t].url = u, op[t].step \in Setting
               PROVE  \E r \in Services : op'[r].url = u /\ op'[r].step \in Setting
    BY DEF BeingSet
  <2>1. t # s
    BY <1>2
  <2> QED BY <2>1, Zenon DEF OthersKeep
<1>8. u \in damaged \/ BeingSet(u) \/ meta[u] = Absent
  <2>1. Orphaned(s)
    BY DEF FilesAgree
  <2> QED BY <2>1, Zenon DEF Orphaned
<1>9. u \in damaged' \/ BeingSet(u)' \/ meta'[u] = Absent
  BY <1>7, <1>8, Zenon
<1>10. ASSUME NEW t \in Services \ {s}, op[t].url = u PROVE Orphaned(t)'
  <2>1. op'[t].url = u
    BY <1>10, Zenon DEF OthersKeep
  <2> QED BY <2>1, <1>9 DEF Orphaned, BeingSet
<1>11. Whole(u)'
  BY <1>9 DEF Whole
<1> QED BY <1>3, <1>5, <1>6, <1>10, <1>11, OwnPart, Zenon

(* A step within a set.                                                    *)
LEMMA SetStep ==
  ASSUME OpTyped, FilesTyped, FilesAgree, NEW s \in Services, NEW u \in Urls,
         OthersKeep(s), OthersTold(s, u),
         \A v \in Urls \ {u} : meta'[v] = meta[v] /\ body'[v] = body[v],
         UNCHANGED damaged,
         op[s].step \in Setting => op[s].url = u,
         op'[s].step \in Setting, op'[s].url = u,
         SetKeeps(s)', \A t \in Services \ {s} : SetAlone(s, t)'
  PROVE  FilesAgree'
<1>1. Frame(s, u)
  BY DEF Frame
<1>2. op'[s].step \notin Getting \cup Finishing
  BY DEF Setting, Finishing, Getting
<1>3. GetAgrees(s)' /\ Orphaned(s)'
  BY <1>2 DEF GetAgrees, Getting, Orphaned
<1>4. BeingSet(u)'
  BY DEF BeingSet
<1>5. ASSUME NEW t \in Services \ {s} PROVE SetAlone(t, s)'
  <2>1. op'[t].url = u => ~op'[t].clean
    BY Zenon DEF OthersKeep, OthersTold
  <2> QED BY <2>1 DEF SetAlone
<1>6. ASSUME NEW t \in Services \ {s}, op[t].url = u PROVE Orphaned(t)'
  <2>1. op'[t].url = u
    BY <1>6, Zenon DEF OthersKeep
  <2> QED BY <2>1, <1>4 DEF Orphaned, BeingSet
<1>7. Whole(u)'
  BY <1>4 DEF Whole
<1> QED BY <1>1, <1>3, <1>5, <1>6, <1>7, OwnPart, Zenon

(* The last step of a set, whether it succeeds or not.                     *)
LEMMA SetEnds ==
  ASSUME OpTyped, FilesTyped, FilesAgree, NEW s \in Services, NEW u \in Urls,
         Frame(s, u), op[s].step \in Setting, op[s].url = u,
         op'[s].step \in {"idle", "scan"},
         \/ u \in damaged'
         \/ op[s].clean /\ meta'[u] \in Images /\ body'[u] = meta'[u]
  PROVE  FilesAgree'
<1>1. op'[s].step \notin Setting \cup Finishing /\ op'[s].step \notin Getting
  BY DEF Setting, Finishing, Getting
<1>2. /\ SetKeeps(s)' /\ Orphaned(s)'
      /\ \A t \in Services : SetAlone(s, t)' /\ SetAlone(t, s)'
  BY <1>1, HarmlessStep, Zenon
<1>3. GetAgrees(s)'
  BY <1>1 DEF GetAgrees, Getting
<1>4. ASSUME NEW t \in Services \ {s}, op[t].url = u PROVE Orphaned(t)'
  <2>1. op'[t].url = u /\ op'[t].step = op[t].step
    BY <1>4, Zenon DEF Frame, OthersKeep
  <2>2. CASE u \in damaged'
    BY <2>1, <2>2 DEF Orphaned
  <2>3. CASE op[s].clean
    <3>1. SetAlone(s, t)
      BY DEF FilesAgree
    <3>2. op[t].step \notin Finishing
      BY <3>1, <2>3, <1>4 DEF SetAlone
    <3> QED BY <3>2, <2>1 DEF Orphaned
  <2> QED BY <2>2, <2>3
<1>5. Whole(u)'
  BY DEF Whole
<1> QED BY <1>2, <1>3, <1>4, <1>5, OwnPart, Zenon
-----------------------------------------------------------------------------
(* The budget of the directory                                             *)

VictimRecords == [url : Urls, size : Nat]

Distinct(v) == \A i, j \in DOMAIN v : v[i].url = v[j].url => i = j

(* What it means for a byte to be counted for a victim.                    *)
LEMMA VictimElement ==
  ASSUME NEW v, NEW b
  PROVE  b \in VictimBytes(v) <=>
           \E i \in DOMAIN v : \E k \in 1 .. v[i].size : b = <<v[i].url, k>>
<1>1. b \in VictimBytes(v) <=> \E i \in DOMAIN v : b \in {v[i].url} \X (1 .. v[i].size)
  BY Zenon DEF VictimBytes
<1>2. ASSUME NEW u, NEW K
      PROVE  b \in {u} \X K <=> \E k \in K : b = <<u, k>>
  OBVIOUS
<1> QED BY <1>1, <1>2

(* The bytes of one victim: finitely many, as many as its size.            *)
LEMMA OneVictim ==
  ASSUME NEW u, NEW n \in Nat
  PROVE  IsFiniteSet({u} \X (1 .. n)) /\ Cardinality({u} \X (1 .. n)) = n
<1>1. IsFiniteSet(1 .. n) /\ Cardinality(1 .. n) = n
  <2>1. IsFiniteSet(1 .. n) /\ Cardinality(1 .. n) = (IF 1 > n THEN 0 ELSE n - 1 + 1)
    BY FS_Interval
  <2> QED BY <2>1
<1>2. IsFiniteSet({u}) /\ Cardinality({u}) = 1
  BY FS_Singleton, Zenon
<1>3. IsFiniteSet({u} \X (1 .. n)) /\ Cardinality({u} \X (1 .. n)) = Cardinality({u}) * Cardinality(1 .. n)
  BY <1>1, <1>2, FS_Product, Zenon
<1>4. Cardinality({u}) * Cardinality(1 .. n) = n
  BY <1>1, <1>2
<1> QED BY <1>3, <1>4, Zenon

(* A list of victims has finitely many bytes.                              *)
LEMMA VictimsFinite ==
  ASSUME NEW v \in Seq(VictimRecords)
  PROVE  IsFiniteSet(VictimBytes(v)) /\ Cardinality(VictimBytes(v)) \in Nat
<1> DEFINE D == 1 .. Len(v)
           f == [i \in D |-> {v[i].url} \X (1 .. v[i].size)]
           T == {{v[i].url} \X (1 .. v[i].size) : i \in D}
<1>1. DOMAIN v = D /\ Len(v) \in Nat /\ \A i \in D : v[i].size \in Nat
  <2>1. DOMAIN v = D /\ Len(v) \in Nat /\ \A i \in D : v[i] \in VictimRecords
    OBVIOUS
  <2> QED BY <2>1 DEF VictimRecords
<1>2. IsFiniteSet(D)
  <2>1. 1 \in Int /\ Len(v) \in Int
    BY <1>1
  <2> QED BY <2>1, FS_Interval, Zenon
<1>3. f \in Surjection(D, T)
  BY Zenon DEF Surjection
<1>4. IsFiniteSet(T)
  <2> HIDE DEF D, T, f
  <2> QED BY <1>2, <1>3, FS_Surjection, Zenon
<1>5. \A X \in T : IsFiniteSet(X)
  <2>1. ASSUME NEW i \in D PROVE IsFiniteSet({v[i].url} \X (1 .. v[i].size))
    BY <1>1, OneVictim
  <2> QED BY <2>1, Zenon
<1>6. IsFiniteSet(UNION T)
  BY <1>4, <1>5, FS_UNION, Zenon
<1>7. IsFiniteSet(VictimBytes(v))
  BY <1>1, <1>6, Zenon DEF VictimBytes
<1> QED BY <1>7, FS_CardinalityType, Zenon

(* The first victim and the rest.                                          *)
LEMMA VictimsSplit ==
  ASSUME NEW v \in Seq(VictimRecords), v # <<>>, Distinct(v)
  PROVE  /\ Tail(v) \in Seq(VictimRecords) /\ Distinct(Tail(v))
         /\ Head(v) \in VictimRecords
         /\ \A i \in DOMAIN Tail(v) : Tail(v)[i].url # Head(v).url
         /\ VictimBytes(v) = ({Head(v).url} \X (1 .. Head(v).size)) \cup VictimBytes(Tail(v))
         /\ Cardinality(VictimBytes(v)) = Head(v).size + Cardinality(VictimBytes(Tail(v)))
<1> DEFINE h == Head(v)
           r == Tail(v)
           A == {h.url} \X (1 .. h.size)
<1>1. /\ Len(v) \in Nat \ {0} /\ DOMAIN v = 1 .. Len(v)
      /\ r \in Seq(VictimRecords) /\ Len(r) = Len(v) - 1 /\ DOMAIN r = 1 .. Len(v) - 1
      /\ \A i \in 1 .. Len(v) - 1 : r[i] = v[i + 1]
      /\ h = v[1] /\ h \in VictimRecords
  OBVIOUS
<1>2. \A i, j \in 1 .. Len(v) : v[i].url = v[j].url => i = j
  BY <1>1 DEF Distinct
<1> HIDE DEF h, r
<1>3. Distinct(r)
  BY <1>1, <1>2 DEF Distinct
<1>4. \A i \in DOMAIN r : r[i].url # h.url
  BY <1>1, <1>2
<1>5. ASSUME NEW b PROVE b \in VictimBytes(v) <=> b \in A \/ b \in VictimBytes(r)
  <2>0. b \in A <=> \E k \in 1 .. h.size : b = <<h.url, k>>
    OBVIOUS
  <2> HIDE DEF A
  <2>1. ASSUME b \in VictimBytes(v) PROVE b \in A \/ b \in VictimBytes(r)
    <3>1. PICK i \in DOMAIN v : \E k \in 1 .. v[i].size : b = <<v[i].url, k>>
      BY <2>1, VictimElement
    <3>2. CASE i = 1
      BY <3>1, <3>2, <2>0, <1>1, Zenon
    <3>3. CASE i # 1
      <4>1. i - 1 \in DOMAIN r /\ r[i - 1] = v[i]
        BY <3>3, <1>1
      <4> QED BY <3>1, <4>1, VictimElement, Zenon
    <3> QED BY <3>2, <3>3
  <2>2. ASSUME b \in A PROVE b \in VictimBytes(v)
    <3>1. 1 \in DOMAIN v
      BY <1>1
    <3>2. \E k \in 1 .. v[1].size : b = <<v[1].url, k>>
      BY <2>2, <2>0, <1>1, Zenon
    <3> QED BY <3>1, <3>2, VictimElement, Zenon
  <2>3. ASSUME b \in VictimBytes(r) PROVE b \in VictimBytes(v)
    <3>1. PICK i \in DOMAIN r : \E k \in 1 .. r[i].size : b = <<r[i].url, k>>
      BY <2>3, VictimElement
    <3>2. i + 1 \in DOMAIN v /\ v[i + 1] = r[i]
      BY <1>1
    <3> QED BY <3>1, <3>2, VictimElement, Zenon
  <2> QED BY <2>1, <2>2, <2>3
<1>6. VictimBytes(v) = A \cup VictimBytes(r)
  BY <1>5, Zenon
<1>7. A \cap VictimBytes(r) = {}
  <2> SUFFICES ASSUME NEW b, b \in A, b \in VictimBytes(r) PROVE FALSE
    BY Zenon
  <2>1. PICK i \in DOMAIN r : \E k \in 1 .. r[i].size : b = <<r[i].url, k>>
    BY VictimElement
  <2>2. \E k \in 1 .. h.size : b = <<h.url, k>>
    OBVIOUS
  <2> QED BY <2>1, <2>2, <1>4
<1>8. h.size \in Nat
  BY <1>1 DEF VictimRecords
<1>9. IsFiniteSet(A) /\ Cardinality(A) = h.size
  BY <1>8, OneVictim, Zenon
<1>10. IsFiniteSet(VictimBytes(r)) /\ Cardinality(VictimBytes(r)) \in Nat
  BY <1>1, VictimsFinite, Zenon
<1>11. Cardinality(A \cup VictimBytes(r)) =
         Cardinality(A) + Cardinality(VictimBytes(r)) - Cardinality(A \cap VictimBytes(r))
  BY <1>9, <1>10, FS_Union, Zenon
<1>12. Cardinality(A \cap VictimBytes(r)) = 0
  BY <1>7, FS_EmptySet, Zenon
<1> HIDE DEF A
<1>13. Cardinality(VictimBytes(v)) = h.size + Cardinality(VictimBytes(r))
  BY <1>6, <1>8, <1>9, <1>10, <1>11, <1>12
<1> QED BY <1>1, <1>3, <1>4, <1>6, <1>13 DEF A, h, r

(* A list of the directory: each meta file that was read once, with its    *)
(* bytes.                                                                  *)
LEMMA ListingOK ==
  ASSUME FilesTyped, NEW readable \in SUBSET Parsed, NEW list \in Listings(readable)
  PROVE  /\ Victims(list) \in Seq(VictimRecords)
         /\ Distinct(Victims(list))
         /\ readable = Parsed => VictimBytes(Victims(list)) = BytesOf(meta, Urls)
<1> DEFINE n == Cardinality(readable)
           w == Victims(list)
<1>1. list \in [1 .. n -> readable] /\ Range(list) = readable /\ IsInjective(list)
  BY Zenon DEF Listings
<1>2. n \in Nat
  <2>1. IsFiniteSet(Urls) /\ readable \in SUBSET Urls
    BY ImagesAssumption DEF Parsed
  <2> QED BY <2>1, FS_Subset, FS_CardinalityType, Zenon
<1> HIDE DEF n
<1>3. ASSUME NEW i \in 1 .. n
      PROVE  /\ w[i] \in VictimRecords /\ w[i].url = list[i]
             /\ w[i].size = SizeOf(meta[list[i]]) /\ list[i] \in Urls
  <2>1. DOMAIN list = 1 .. n
    BY <1>1
  <2>2. w[i] = [url |-> list[i], size |-> SizeOf(meta[list[i]])]
    BY <2>1, Zenon DEF Victims
  <2>3. list[i] \in Urls
    BY <1>1 DEF Parsed
  <2>4. SizeOf(meta[list[i]]) \in Nat
    BY SizeIsNat, Zenon
  <2> HIDE DEF w
  <2> QED BY <2>2, <2>3, <2>4 DEF VictimRecords
<1>4. DOMAIN w = 1 .. n /\ w \in Seq(VictimRecords)
  <2>1. w = [i \in 1 .. n |-> w[i]]
    BY <1>1 DEF Victims
  <2>2. \A i \in 1 .. n : w[i] \in VictimRecords
    BY <1>3, Zenon
  <2> HIDE DEF w
  <2> QED BY <1>2, <2>1, <2>2
<1>6. Distinct(w)
  <2> SUFFICES ASSUME NEW i \in 1 .. n, NEW j \in 1 .. n, list[i] = list[j]
               PROVE  i = j
    BY <1>3, <1>4 DEF Distinct
  <2> QED BY <1>1, Zenon DEF IsInjective
<1>7. ASSUME NEW b, readable = Parsed PROVE b \in VictimBytes(w) <=> b \in BytesOf(meta, Urls)
  <2>1. ASSUME b \in VictimBytes(w) PROVE b \in BytesOf(meta, Urls)
    <3>0. PICK i \in DOMAIN w : \E k \in 1 .. w[i].size : b = <<w[i].url, k>>
      <4> HIDE DEF w
      <4> QED BY <2>1, VictimElement
    <3>1. i \in 1 .. n /\ \E k \in 1 .. w[i].size : b = <<w[i].url, k>>
      BY <3>0, <1>4, Zenon
    <3>2. w[i].size = SizeOf(meta[list[i]]) /\ w[i].url = list[i] /\ list[i] \in Urls
      BY <3>1, <1>3, Zenon
    <3> QED BY <3>1, <3>2, BytesElement, Zenon
  <2>2. ASSUME b \in BytesOf(meta, Urls) PROVE b \in VictimBytes(w)
    <3>1. PICK u \in Urls : \E k \in 1 .. SizeOf(meta[u]) : b = <<u, k>>
      BY <2>2, BytesElement
    <3>2. u \in Parsed
      <4>1. CASE meta[u] \notin Images
        <5>1. SizeOf(meta[u]) = 0
          BY <4>1 DEF SizeOf
        <5> QED BY <3>1, <5>1
      <4> QED BY <4>1 DEF Parsed
    <3>3. PICK i \in 1 .. n : list[i] = u
      BY <3>2, <1>1, <1>7 DEF Range
    <3>4. w[i].size = SizeOf(meta[u]) /\ w[i].url = u
      BY <3>3, <1>3, Zenon
    <3> QED BY <3>1, <3>4, <1>4, VictimElement, Zenon
  <2> QED BY <2>1, <2>2
<1>8. readable = Parsed => VictimBytes(w) = BytesOf(meta, Urls)
  BY <1>7, Zenon
<1> QED BY <1>4, <1>6, <1>8

(* Only meta files that parse count.                                       *)
LEMMA ParsedWeighs == BytesOf(meta, Parsed) = BytesOf(meta, Urls)
<1>1. ASSUME NEW b \in BytesOf(meta, Urls) PROVE b \in BytesOf(meta, Parsed)
  <2>1. PICK u \in Urls : \E k \in 1 .. SizeOf(meta[u]) : b = <<u, k>>
    BY BytesElement
  <2>2. u \in Parsed
    <3>1. CASE meta[u] \notin Images
      <4>1. SizeOf(meta[u]) = 0
        BY <3>1 DEF SizeOf
      <4> QED BY <2>1, <4>1
    <3> QED BY <3>1 DEF Parsed
  <2> QED BY <2>1, <2>2 DEF BytesOf
<1>2. ASSUME NEW b \in BytesOf(meta, Parsed) PROVE b \in BytesOf(meta, Urls)
  BY DEF BytesOf, Parsed
<1> QED BY <1>1, <1>2, Zenon

(* The bytes of the next state are those of the next meta files.           *)
LEMMA BytesPrimed ==
  /\ BytesOf(meta, Urls)' = BytesOf(meta', Urls)
  /\ TotalBytes' = Weight(meta', Urls)
BY DEF TotalBytes, Weight, BytesOf, SizeOf

(* Fewer bytes weigh less.                                                 *)
LEMMA LessWeight ==
  ASSUME NEW B, IsFiniteSet(B), NEW f, BytesOf(f, Urls) \subseteq B
  PROVE  /\ Weight(f, Urls) \in Nat /\ Cardinality(B) \in Nat
         /\ Weight(f, Urls) <= Cardinality(B)
<1>1. BytesOf(f, Urls) \in SUBSET B
  BY Zenon
<1>2. IsFiniteSet(BytesOf(f, Urls)) /\ Cardinality(BytesOf(f, Urls)) <= Cardinality(B)
  BY <1>1, FS_Subset, Zenon
<1> QED BY <1>2, FS_CardinalityType, Zenon DEF Weight

(* A file that loses its image loses its bytes, and no other byte appears. *)
LEMMA LostBytes ==
  ASSUME NEW f, NEW g, NEW u, g[u] \notin Images, \A v \in Urls \ {u} : g[v] = f[v]
  PROVE  /\ BytesOf(g, Urls) \subseteq BytesOf(f, Urls)
         /\ \A b \in BytesOf(g, Urls) : \A k : b # <<u, k>>
<1>1. SizeOf(g[u]) = 0
  BY DEF SizeOf
<1> SUFFICES ASSUME NEW b \in BytesOf(g, Urls)
             PROVE  b \in BytesOf(f, Urls) /\ \A k : b # <<u, k>>
  OBVIOUS
<1>2. PICK v \in Urls : \E k \in 1 .. SizeOf(g[v]) : b = <<v, k>>
  BY BytesElement
<1>3. v # u
  BY <1>1, <1>2
<1>4. \E k \in 1 .. SizeOf(f[v]) : b = <<v, k>>
  BY <1>2, <1>3, Zenon
<1>5. b \in BytesOf(f, Urls)
  BY <1>4, BytesElement, Zenon
<1>6. \A k : b # <<u, k>>
  BY <1>2, <1>3
<1> QED BY <1>5, <1>6

(* No step but a scan or the writing of a meta file puts the budget of the *)
(* directory at risk, if s keeps its own claim or makes it good.           *)
LEMMA BudgetKept ==
  ASSUME BudgetOrClaim, NEW s \in Services, OthersKeep(s),
         BytesOf(meta', Urls) \subseteq BytesOf(meta, Urls), unpruned' = unpruned,
         Claim(s) => Claim(s)' \/ TotalBytes' <= DiskMax
  PROVE  BudgetOrClaim'
<1>1. CASE unpruned
  BY <1>1 DEF BudgetOrClaim
<1>2. CASE TotalBytes <= DiskMax
  <2>1. IsFiniteSet(BytesOf(meta, Urls))
    BY BytesFinite, ImagesAssumption, Zenon
  <2>2. /\ Weight(meta', Urls) \in Nat /\ Weight(meta, Urls) \in Nat
        /\ Weight(meta', Urls) <= Weight(meta, Urls)
    BY <2>1, LessWeight, Zenon DEF Weight
  <2>3. TotalBytes' = Weight(meta', Urls) /\ TotalBytes = Weight(meta, Urls)
    BY BytesPrimed, Zenon DEF TotalBytes
  <2> HIDE DEF TotalBytes, Weight
  <2>4. TotalBytes' <= DiskMax
    BY <1>2, <2>2, <2>3, BudgetsAssumption
  <2> QED BY <2>4 DEF BudgetOrClaim
<1>3. ASSUME NEW t \in Services, Claim(t) PROVE BudgetOrClaim'
  <2>1. CASE t = s
    BY <1>3, <2>1 DEF BudgetOrClaim
  <2>2. CASE t # s
    <3>1. /\ op'[t].step = op[t].step /\ op'[t].victims = op[t].victims
          /\ op'[t].total = op[t].total
      BY <2>2, Zenon DEF OthersKeep
    <3>2. \A B : BytesOf(meta, Urls) \subseteq B => BytesOf(meta, Urls)' \subseteq B
      BY BytesPrimed, Zenon
    <3>3. Claim(t)'
      <4>1. CASE op[t].step = "scan"
        BY <4>1, <3>1 DEF Claim
      <4>2. CASE /\ op[t].step = "pruneMeta"
                 /\ BytesOf(meta, Urls) \subseteq VictimBytes(op[t].victims)
                 /\ Cardinality(VictimBytes(op[t].victims)) <= op[t].total
        BY <4>2, <3>1, <3>2 DEF Claim, VictimBytes
      <4>3. CASE /\ op[t].step = "pruneBody"
                 /\ BytesOf(meta, Urls) \subseteq VictimBytes(Tail(op[t].victims))
                 /\ Cardinality(VictimBytes(Tail(op[t].victims)))
                      + Head(op[t].victims).size <= op[t].total
        BY <4>3, <3>1, <3>2 DEF Claim, VictimBytes
      <4> QED BY <1>3, <4>1, <4>2, <4>3, Zenon DEF Claim
    <3> QED BY <3>3 DEF BudgetOrClaim
  <2> QED BY <2>1, <2>2
<1> QED BY <1>1, <1>2, <1>3, Zenon DEF BudgetOrClaim
-----------------------------------------------------------------------------
(* The records that the steps leave                                        *)

(* Idle and a scan to come.                                                *)
LEMMA IdleGood ==
  /\ Idle \in OpRecords /\ OpGood(Idle) /\ Idle.step = "idle"
  /\ LET o == [Idle EXCEPT !.step = "scan"]
     IN  o \in OpRecords /\ OpGood(o) /\ o.step = "scan"
<1>1. <<>> \in Seq([url : Urls, size : Nat])
  OBVIOUS
<1>2. /\ Idle.step = "idle" /\ [Idle EXCEPT !.step = "scan"].step = "scan"
  BY DEF Idle
<1>3. Idle \in OpRecords /\ [Idle EXCEPT !.step = "scan"] \in OpRecords
  BY <1>1 DEF Idle, OpRecords, Steps
<1>4. OpGood(Idle) /\ OpGood([Idle EXCEPT !.step = "scan"])
  BY <1>2 DEF OpGood, Setting, Pruning
<1> QED BY <1>2, <1>3, <1>4

(* The start of a get or a set.                                            *)
Started(s, u, step, c, o) ==
  /\ o \in OpRecords /\ OpGood(o)
  /\ o.step = step /\ o.url = u /\ o.img = c
  /\ o.clean <=> \A t \in Services \ {s} : ~Busy(t, u)

(* The record a get or a set starts with.                                  *)
LEMMA StartGood ==
  ASSUME NEW s \in Services, NEW u \in Urls, NEW c \in Images \cup {Absent},
         NEW step \in {"getMeta", "writeBody"}, step = "writeBody" => c \in Images
  PROVE  Started(s, u, step, c, Start(s, u, step, c))
<1> DEFINE free == \A t \in Services \ {s} : ~Busy(t, u)
<1>1. free \in BOOLEAN
  BY Zenon
<1>2. Start(s, u, step, c) = [step |-> step, url |-> u, img |-> c, clean |-> free,
                              victims |-> <<>>, total |-> 0]
  <2> HIDE DEF free
  <2>1. Start(s, u, step, c) = [Idle EXCEPT !.step = step, !.url = u, !.img = c, !.clean = free]
    BY Zenon DEF Start, free
  <2> QED BY <2>1 DEF Idle
<1> HIDE DEF free
<1>3. /\ Start(s, u, step, c) \in OpRecords
      /\ OpGood(Start(s, u, step, c))
  BY <1>1, <1>2 DEF OpRecords, OpGood, Steps, Getting, Removing, Setting, Pruning
<1>4. Start(s, u, step, c).clean = free
  BY <1>2
<1>5. /\ Start(s, u, step, c).step = step /\ Start(s, u, step, c).url = u
      /\ Start(s, u, step, c).img = c
  BY <1>2
<1> QED BY <1>3, <1>4, <1>5, Zenon DEF free, Started

(* The next step of an operation that keeps its URL and its image.         *)
LEMMA StepGood ==
  ASSUME NEW o \in OpRecords, OpGood(o), NEW step \in Steps \ {"idle", "scan"},
         o.step \notin {"idle", "scan"},
         step \in Setting => o.step \in Setting,
         step \in Pruning => o.step \in Pruning
  PROVE  LET p == [o EXCEPT !.step = step]
         IN  /\ p \in OpRecords /\ OpGood(p)
             /\ p.step = step /\ p.url = o.url /\ p.img = o.img /\ p.clean = o.clean
             /\ p.victims = o.victims /\ p.total = o.total
BY DEF OpRecords, OpGood

(* The next victim, or the end of the pruning.                             *)
LEMMA NextVictimGood ==
  ASSUME NEW w \in Seq(VictimRecords), Distinct(w), NEW total \in Nat
  PROVE  LET o == NextVictim(w, total)
         IN  /\ o \in OpRecords /\ OpGood(o)
             /\ \/ o = Idle /\ (total <= DiskMax \/ w = <<>>)
                \/ o.step = "pruneMeta" /\ o.victims = w /\ o.total = total
<1>1. CASE total <= DiskMax \/ w = <<>>
  BY <1>1, IdleGood, Zenon DEF NextVictim
<1>2. CASE ~(total <= DiskMax \/ w = <<>>)
  <2>1. Head(w) \in VictimRecords /\ w # <<>>
    BY <1>2
  <2>2. NextVictim(w, total) =
          [step |-> "pruneMeta", url |-> Head(w).url, img |-> Absent, clean |-> TRUE,
           victims |-> w, total |-> total]
    BY <1>2 DEF NextVictim, Idle
  <2>3. Head(w).url \in Urls
    BY <2>1 DEF VictimRecords
  <2>4. NextVictim(w, total) \in OpRecords
    BY <2>2, <2>3 DEF OpRecords, Steps, Removing, VictimRecords
  <2>5. OpGood(NextVictim(w, total))
    BY <2>1, <2>2, <2>3 DEF OpGood, Setting, Pruning, Distinct
  <2> QED BY <2>2, <2>4, <2>5
<1> QED BY <1>1, <1>2

(* It keeps the claim, or makes it good.                                   *)
LEMMA NextVictimClaims ==
  ASSUME NEW s \in Services, NEW w \in Seq(VictimRecords), Distinct(w), NEW total \in Nat,
         op'[s] = NextVictim(w, total),
         BytesOf(meta', Urls) \subseteq VictimBytes(w),
         Cardinality(VictimBytes(w)) <= total
  PROVE  Claim(s)' \/ TotalBytes' <= DiskMax
<1>1. IsFiniteSet(VictimBytes(w)) /\ Cardinality(VictimBytes(w)) \in Nat
  BY VictimsFinite, Zenon
<1>2. /\ Weight(meta', Urls) \in Nat
      /\ Weight(meta', Urls) <= Cardinality(VictimBytes(w))
  BY <1>1, LessWeight, Zenon
<1>3. TotalBytes' = Weight(meta', Urls) /\ BytesOf(meta, Urls)' = BytesOf(meta', Urls)
  BY BytesPrimed, Zenon
<1> HIDE DEF TotalBytes, Weight
<1>4. CASE total <= DiskMax
  BY <1>1, <1>2, <1>3, <1>4, BudgetsAssumption
<1>5. CASE w = <<>>
  <2>1. \A b : b \notin VictimBytes(w)
    BY <1>5, VictimElement
  <2>2. Cardinality(VictimBytes(w)) = 0
    BY <2>1, FS_EmptySet, Zenon
  <2> QED BY <1>2, <1>3, <2>2, BudgetsAssumption
<1>6. CASE op'[s].step = "pruneMeta" /\ op'[s].victims = w /\ op'[s].total = total
  <2>1. BytesOf(meta, Urls)' \subseteq VictimBytes(op'[s].victims)
    BY <1>3, <1>6, Zenon
  <2>2. Cardinality(VictimBytes(op'[s].victims)) <= op'[s].total
    BY <1>6, Zenon
  <2> QED BY <1>6, <2>1, <2>2 DEF Claim, VictimBytes
<1>7. \/ NextVictim(w, total) = Idle /\ (total <= DiskMax \/ w = <<>>)
      \/ /\ NextVictim(w, total).step = "pruneMeta"
         /\ NextVictim(w, total).victims = w /\ NextVictim(w, total).total = total
  BY NextVictimGood
<1> QED BY <1>4, <1>5, <1>6, <1>7, Zenon
-----------------------------------------------------------------------------
(* Each operation on the disk keeps the invariant                          *)

(* Who holds no list of victims has no claim to keep.                      *)
LEMMA NoClaim ==
  ASSUME NEW s, op[s].step \notin {"scan", "pruneMeta", "pruneBody"}
  PROVE  ~Claim(s)
BY DEF Claim

(* The faults are counted up to their bound.                               *)
LEMMA FaultOK ==
  ASSUME faults \in 0 .. MaxFaults, Fault \/ faults' = faults
  PROVE  faults' \in 0 .. MaxFaults
BY BudgetsAssumption DEF Fault

(* What the files are when nothing happens to them.                        *)
LEMMA FilesSame ==
  ASSUME FilesTyped, UNCHANGED fileVars, damaged' \subseteq Urls,
         unpruned' \in BOOLEAN, faults' \in 0 .. MaxFaults
  PROVE  /\ FilesTyped'
         /\ meta' = meta /\ body' = body
         /\ BytesOf(meta', Urls) \subseteq BytesOf(meta, Urls)
<1>1. meta' = meta /\ body' = body /\ expired' = expired /\ byAge' = byAge
  BY DEF fileVars
<1>2. FilesTyped'
  BY <1>1 DEF FilesTyped, Lists
<1> QED BY <1>1, <1>2

(* A get begins: the files of an entry that nobody sets and that is not    *)
(* damaged agree.                                                          *)
LEMMA GetExistsOK ==
  ASSUME DiskOK, NEW s \in Services, NEW u \in Urls, GetExists(s, u)
  PROVE  DiskOK'
<1> DEFINE o == Start(s, u, "getMeta", Absent)
<1> USE DEF DiskOK
<1>1. /\ op[s] = Idle /\ meta[u] # Absent /\ body[u] # Absent /\ Continue(s, o)
      /\ UNCHANGED <<fileVars, historyVars>>
  BY DEF GetExists
<1>2. /\ o \in OpRecords /\ OpGood(o) /\ o.step = "getMeta" /\ o.url = u
      /\ o.clean <=> \A t \in Services \ {s} : ~Busy(t, u)
  <2>1. /\ "getMeta" \in {"getMeta", "writeBody"} /\ "getMeta" # "writeBody"
        /\ Absent \in Images \cup {Absent}
    OBVIOUS
  <2>2. Started(s, u, "getMeta", Absent, o)
    BY <2>1, StartGood, Zenon
  <2> HIDE DEF o
  <2> QED BY <2>2, Zenon DEF Started
<1>3. OpTyped' /\ op'[s] = o /\ OthersKeep(s)
  <2> HIDE DEF o
  <2> QED BY <1>1, <1>2, ContinueOK, Zenon
<1>4. damaged' = damaged /\ unpruned' = unpruned /\ faults' = faults
  BY <1>1 DEF historyVars
<1>5. /\ FilesTyped' /\ meta' = meta /\ body' = body
      /\ BytesOf(meta', Urls) \subseteq BytesOf(meta, Urls)
  BY <1>1, <1>4, FilesSame DEF FilesTyped
<1>6. op[s].step = "idle"
  BY <1>1, IdleGood, Zenon
<1>7. BudgetOrClaim'
  <2>1. ~Claim(s)
    BY <1>6, NoClaim
  <2> QED BY <1>3, <1>4, <1>5, <2>1, BudgetKept, Zenon
<1>8. GetAgrees(s)'
  <2> SUFFICES ASSUME op'[s].clean, u \notin damaged
               PROVE  meta[u] \in Images /\ body[u] = meta[u]
    BY <1>2, <1>3, <1>4, <1>5 DEF GetAgrees
  <2>1. \A t \in Services \ {s} : ~Busy(t, u)
    BY <1>2, <1>3, Zenon
  <2>2. ~BeingSet(u)
    <3> SUFFICES ASSUME NEW t \in Services, op[t].url = u, op[t].step \in Setting
                 PROVE  FALSE
      BY DEF BeingSet
    <3>1. t # s
      BY <1>6 DEF Setting
    <3> QED BY <3>1, <2>1, Zenon DEF Busy
  <2>3. Whole(u)
    BY DEF FilesAgree
  <2> HIDE DEF BeingSet
  <2> QED BY <1>1, <2>2, <2>3 DEF Whole
<1>9. op[s].step \notin Setting /\ op'[s].step \notin Setting \cup Finishing
  BY <1>2, <1>3, <1>6 DEF Setting, Finishing
<1>10. FilesAgree'
  BY <1>3, <1>4, <1>5, <1>8, <1>9, QuietStep
<1> QED BY <1>3, <1>5, <1>7, <1>10

(* The meta file is read.                                                  *)
LEMMA GetMetaOK ==
  ASSUME DiskOK, NEW s \in Services, GetMeta(s)
  PROVE  DiskOK'
<1> DEFINE u == op[s].url
<1> USE DEF DiskOK
<1>1. /\ op[s].step = "getMeta" /\ UNCHANGED <<fileVars, historyVars>>
      /\ op[s] \in OpRecords /\ OpGood(op[s])
  BY DEF GetMeta, OpTyped
<1>2. u \in Urls
  BY <1>1 DEF OpGood
<1>3. damaged' = damaged /\ unpruned' = unpruned /\ faults' = faults
  BY <1>1 DEF historyVars
<1>4. /\ FilesTyped' /\ meta' = meta /\ body' = body
      /\ BytesOf(meta', Urls) \subseteq BytesOf(meta, Urls)
  BY <1>1, <1>3, FilesSame DEF FilesTyped
<1>5. GetAgrees(s)
  BY DEF FilesAgree
<1>6. PICK o \in OpRecords :
        /\ OpGood(o) /\ Continue(s, o)
        /\ \/ o.step \in {"idle", "dropMeta"}
           \/ /\ o.step = "getBody" /\ o.url = u /\ o.img = meta[u]
              /\ o.clean = op[s].clean
  <2>1. CASE Continue(s, Idle)
    BY <2>1, IdleGood
  <2>2. CASE Continue(s, [op[s] EXCEPT !.step = "dropMeta"])
    <3> DEFINE p == [op[s] EXCEPT !.step = "dropMeta"]
    <3>1. p \in OpRecords /\ OpGood(p) /\ p.step = "dropMeta"
      BY <1>1 DEF OpRecords, OpGood, Steps, Removing, Setting, Pruning
    <3> QED BY <2>2, <3>1
  <2>3. CASE /\ meta[u] \in Images
             /\ Continue(s, [op[s] EXCEPT !.step = "getBody", !.img = meta[u]])
    <3> DEFINE p == [op[s] EXCEPT !.step = "getBody", !.img = meta[u]]
    <3>1. /\ p \in OpRecords /\ OpGood(p) /\ p.step = "getBody" /\ p.url = u
          /\ p.img = meta[u] /\ p.clean = op[s].clean
      BY <1>1, <1>2, <2>3 DEF OpRecords, OpGood, Steps, Getting, Setting, Pruning
    <3> QED BY <2>3, <3>1
  <2> QED BY <2>1, <2>2, <2>3, Zenon DEF GetMeta
<1>7. OpTyped' /\ op'[s] = o /\ OthersKeep(s)
  BY <1>6, ContinueOK, Zenon
<1>8. BudgetOrClaim'
  <2>1. ~Claim(s)
    BY <1>1, NoClaim
  <2> QED BY <1>3, <1>4, <1>7, <2>1, BudgetKept, Zenon
<1>9. GetAgrees(s)'
  <2>1. CASE o.step \in {"idle", "dropMeta"}
    BY <1>7, <2>1 DEF GetAgrees
  <2>2. CASE /\ o.step = "getBody" /\ o.url = u /\ o.img = meta[u]
             /\ o.clean = op[s].clean
    <3> SUFFICES ASSUME op[s].clean, u \notin damaged
                 PROVE  body[u] = meta[u]
      BY <1>3, <1>4, <1>7, <2>2 DEF GetAgrees
    <3> QED BY <1>1, <1>5 DEF GetAgrees
  <2> QED BY <1>6, <2>1, <2>2
<1>10. op[s].step \notin Setting /\ op'[s].step \notin Setting \cup Finishing
  BY <1>1, <1>6, <1>7 DEF Setting, Finishing
<1>11. FilesAgree'
  BY <1>3, <1>4, <1>7, <1>9, <1>10, QuietStep
<1> QED BY <1>4, <1>7, <1>8, <1>11

(* The body file is read; this is about the disk only.                     *)
LEMMA GetBodyDiskOK ==
  ASSUME DiskOK, NEW s \in Services, GetBody(s)
  PROVE  DiskOK'
<1> USE DEF DiskOK
<1>1. op[s].step = "getBody" /\ Continue(s, Idle) /\ UNCHANGED <<fileVars, historyVars>>
  BY DEF GetBody
<1>2. damaged' = damaged /\ unpruned' = unpruned /\ faults' = faults
  BY <1>1 DEF historyVars
<1>3. /\ FilesTyped' /\ meta' = meta /\ body' = body
      /\ BytesOf(meta', Urls) \subseteq BytesOf(meta, Urls)
  BY <1>1, <1>2, FilesSame DEF FilesTyped
<1>4. OpTyped' /\ op'[s] = Idle /\ OthersKeep(s)
  BY <1>1, IdleGood, ContinueOK, Zenon
<1>5. op'[s].step = "idle"
  BY <1>4, IdleGood
<1>6. BudgetOrClaim'
  <2>1. ~Claim(s)
    BY <1>1, NoClaim
  <2> QED BY <1>2, <1>3, <1>4, <2>1, BudgetKept, Zenon
<1>7. GetAgrees(s)'
  BY <1>5 DEF GetAgrees
<1>8. op[s].step \notin Setting /\ op'[s].step \notin Setting \cup Finishing
  BY <1>1, <1>5 DEF Setting, Finishing
<1>9. FilesAgree'
  BY <1>2, <1>3, <1>4, <1>7, <1>8, QuietStep
<1> QED BY <1>3, <1>4, <1>6, <1>9
(* Removing a meta file: the directory lists it no more, and no byte of it *)
(* is counted.                                                             *)
LEMMA RemoveMetaFiles ==
  ASSUME FilesTyped, NEW u \in Urls, RemoveMeta(u), UNCHANGED <<body, historyVars>>
  PROVE  /\ FilesTyped'
         /\ meta'[u] = Absent /\ \A v \in Urls \ {u} : meta'[v] = meta[v]
         /\ body' = body /\ damaged' = damaged /\ unpruned' = unpruned
         /\ BytesOf(meta', Urls) \subseteq BytesOf(meta, Urls)
         /\ \A b \in BytesOf(meta', Urls) : \A k : b # <<u, k>>
<1>1. /\ meta' = [meta EXCEPT ![u] = Absent] /\ byAge' = Without(byAge, u)
      /\ expired' = expired \ {u} /\ body' = body
      /\ damaged' = damaged /\ unpruned' = unpruned /\ faults' = faults
  BY DEF RemoveMeta, historyVars
<1>2. meta \in [Urls -> Contents] /\ byAge \in Seq(Urls) /\ Lists(byAge, meta)
  BY DEF FilesTyped
<1>3. /\ byAge' \in Seq(Urls) /\ IsInjective(byAge')
      /\ Range(byAge') = Range(byAge) \ {u}
  BY <1>1, <1>2, WithoutList, Zenon DEF Lists
<1>4. /\ meta' \in [Urls -> Contents] /\ meta'[u] = Absent
      /\ \A v \in Urls \ {u} : meta'[v] = meta[v]
  BY <1>1, <1>2 DEF Contents
<1>5. Lists(byAge', meta')
  BY <1>2, <1>3, <1>4, Zenon DEF Lists
<1>6. FilesTyped'
  <2>1. expired' \subseteq Urls /\ body' \in [Urls -> Contents] /\ damaged' \subseteq Urls
    BY <1>1 DEF FilesTyped
  <2>2. unpruned' \in BOOLEAN /\ faults' \in 0 .. MaxFaults
    BY <1>1, Zenon DEF FilesTyped
  <2> QED BY <1>3, <1>4, <1>5, <2>1, <2>2 DEF FilesTyped, Lists, Range, IsInjective
<1>7. /\ BytesOf(meta', Urls) \subseteq BytesOf(meta, Urls)
      /\ \A b \in BytesOf(meta', Urls) : \A k : b # <<u, k>>
  BY <1>4, AbsentWeighsNothing, LostBytes, Zenon
<1> QED BY <1>1, <1>4, <1>6, <1>7, Zenon

(* A meta file that cannot be removed: its entry counts as damaged, and    *)
(* the directory as not pruned.                                            *)
LEMMA RemovalFailsOK ==
  ASSUME DiskOK, NEW s \in Services, NEW next \in Finishing, RemovalFails(s, next),
         op[s].step \in {"dropMeta", "pruneMeta"},
         next \in Pruning => op[s].step \in Pruning
  PROVE  DiskOK'
<1> DEFINE p == [op[s] EXCEPT !.step = next]
<1> USE DEF DiskOK
<1>0. PICK u : u = op[s].url
  OBVIOUS
<1>1. /\ Touch(s, u, p) /\ damaged' = damaged \cup {u} /\ unpruned' = TRUE
      /\ UNCHANGED fileVars /\ Fault
      /\ op[s] \in OpRecords /\ OpGood(op[s])
  BY <1>0 DEF RemovalFails, OpTyped
<1>2. u \in Urls
  BY <1>0, <1>1 DEF OpGood
<1>3. p \in OpRecords /\ OpGood(p) /\ p.step = next /\ p.url = u
  BY <1>0, <1>1 DEF OpRecords, OpGood, Steps, Removing, Setting, Pruning, Finishing
<1>4. OpTyped' /\ op'[s] = p /\ OthersKeep(s) /\ OthersTold(s, u)
  <2> HIDE DEF p
  <2> QED BY <1>1, <1>3, TouchOK, Zenon
<1>5. FilesTyped' /\ meta' = meta /\ body' = body
  <2>1. damaged' \subseteq Urls
    BY <1>1, <1>2 DEF FilesTyped
  <2>2. faults' \in 0 .. MaxFaults
    BY <1>1, FaultOK DEF FilesTyped
  <2> QED BY <1>1, <2>1, <2>2, FilesSame
<1>6. BudgetOrClaim'
  BY <1>1 DEF BudgetOrClaim
<1>7. FilesAgree'
  <2>1. op[s].step \notin Setting /\ op'[s].step \in Finishing /\ op'[s].url = u
    BY <1>1, <1>3, <1>4 DEF Setting
  <2>2. u \in damaged' /\ \A v \in Urls \ {u} : v \in damaged' <=> v \in damaged
    BY <1>1
  <2> HIDE DEF p
  <2> QED BY <1>2, <1>4, <1>5, <2>1, <2>2, RemoveMetaStep
<1> QED BY <1>4, <1>5, <1>6, <1>7

(* The meta file of an entry that is too old goes first.                   *)
LEMMA DropMetaRemoves ==
  ASSUME DiskOK, NEW s \in Services, DropMeta(s), ~RemovalFails(s, "dropBody")
  PROVE  DiskOK'
<1> DEFINE p == [op[s] EXCEPT !.step = "dropBody"]
<1> USE DEF DiskOK
<1>0. PICK u : u = op[s].url
  OBVIOUS
<1>1. /\ op[s].step = "dropMeta" /\ RemoveMeta(u) /\ Touch(s, u, p)
      /\ UNCHANGED <<body, historyVars>>
      /\ op[s] \in OpRecords /\ OpGood(op[s])
  BY <1>0 DEF DropMeta, OpTyped
<1>2. u \in Urls
  BY <1>0, <1>1 DEF OpGood
<1>3. p \in OpRecords /\ OpGood(p) /\ p.step = "dropBody" /\ p.url = u
  BY <1>0, <1>1 DEF OpRecords, OpGood, Steps, Removing, Setting, Pruning
<1>4. OpTyped' /\ op'[s] = p /\ OthersKeep(s) /\ OthersTold(s, u)
  <2> HIDE DEF p
  <2> QED BY <1>1, <1>3, TouchOK, Zenon
<1>5. /\ FilesTyped' /\ meta'[u] = Absent /\ (\A v \in Urls \ {u} : meta'[v] = meta[v])
      /\ body' = body /\ damaged' = damaged /\ unpruned' = unpruned
      /\ BytesOf(meta', Urls) \subseteq BytesOf(meta, Urls)
  BY <1>1, <1>2, RemoveMetaFiles, Zenon
<1>6. BudgetOrClaim'
  <2>1. ~Claim(s)
    BY <1>1, NoClaim
  <2> QED BY <1>4, <1>5, <2>1, BudgetKept, Zenon
<1>7. FilesAgree'
  <2>1. op[s].step \notin Setting /\ op'[s].step \in Finishing /\ op'[s].url = u
    BY <1>1, <1>3, <1>4 DEF Setting, Finishing
  <2> HIDE DEF p
  <2> QED BY <1>2, <1>4, <1>5, <2>1, RemoveMetaStep
<1> QED BY <1>4, <1>5, <1>6, <1>7

(* The meta file of a victim goes first: the claim is about the rest.      *)
LEMMA PruneMetaRemoves ==
  ASSUME DiskOK, NEW s \in Services, PruneMeta(s), ~RemovalFails(s, "pruneBody")
  PROVE  DiskOK'
<1> DEFINE p == [op[s] EXCEPT !.step = "pruneBody"]
           w == op[s].victims
<1> USE DEF DiskOK
<1>0. PICK u : u = op[s].url
  OBVIOUS
<1>1. /\ op[s].step = "pruneMeta" /\ RemoveMeta(u) /\ Touch(s, u, p)
      /\ UNCHANGED <<body, historyVars>>
      /\ op[s] \in OpRecords /\ OpGood(op[s])
  BY <1>0 DEF PruneMeta, OpTyped
<1>2. u \in Urls
  BY <1>0, <1>1 DEF OpGood
<1>3. /\ p \in OpRecords /\ OpGood(p) /\ p.step = "pruneBody" /\ p.url = u
      /\ p.victims = w /\ p.total = op[s].total
  BY <1>0, <1>1 DEF OpRecords, OpGood, Steps, Removing, Setting, Pruning
<1>4. OpTyped' /\ op'[s] = p /\ OthersKeep(s) /\ OthersTold(s, u)
  <2> HIDE DEF p
  <2> QED BY <1>1, <1>3, TouchOK, Zenon
<1>5. /\ FilesTyped' /\ meta'[u] = Absent /\ (\A v \in Urls \ {u} : meta'[v] = meta[v])
      /\ body' = body /\ damaged' = damaged /\ unpruned' = unpruned
      /\ BytesOf(meta', Urls) \subseteq BytesOf(meta, Urls)
      /\ \A b \in BytesOf(meta', Urls) : \A k : b # <<u, k>>
  BY <1>1, <1>2, RemoveMetaFiles, Zenon
<1>6. ASSUME Claim(s) PROVE Claim(s)'
  <2>1. /\ BytesOf(meta, Urls) \subseteq VictimBytes(w)
        /\ Cardinality(VictimBytes(w)) <= op[s].total
    BY <1>1, <1>6 DEF Claim
  <2>2. w \in Seq(VictimRecords) /\ w # <<>> /\ u = Head(w).url /\ Distinct(w)
    BY <1>0, <1>1 DEF OpRecords, OpGood, Pruning, Distinct, VictimRecords
  <2> HIDE DEF w
  <2>3. /\ VictimBytes(w) = ({Head(w).url} \X (1 .. Head(w).size)) \cup VictimBytes(Tail(w))
        /\ Cardinality(VictimBytes(w)) = Head(w).size + Cardinality(VictimBytes(Tail(w)))
        /\ Tail(w) \in Seq(VictimRecords) /\ Head(w) \in VictimRecords
    BY <2>2, VictimsSplit, Zenon
  <2>4. BytesOf(meta', Urls) \subseteq VictimBytes(Tail(w))
    <3> SUFFICES ASSUME NEW b \in BytesOf(meta', Urls), b \notin VictimBytes(Tail(w))
                 PROVE  FALSE
      BY Zenon
    <3>1. b \in {u} \X (1 .. Head(w).size)
      BY <1>5, <2>1, <2>2, <2>3, Zenon
    <3>2. PICK k : b = <<u, k>>
      BY <3>1
    <3> QED BY <3>2, <1>5, Zenon
  <2>5. Cardinality(VictimBytes(Tail(w))) + Head(w).size <= op[s].total
    <3>1. Cardinality(VictimBytes(Tail(w))) \in Nat /\ Head(w).size \in Nat
      BY <2>3, VictimsFinite DEF VictimRecords
    <3> QED BY <2>1, <2>3, <3>1
  <2>6. BytesOf(meta, Urls)' = BytesOf(meta', Urls)
    BY BytesPrimed, Zenon
  <2>7. op'[s].step = "pruneBody" /\ op'[s].victims = w /\ op'[s].total = op[s].total
    BY <1>3, <1>4, Zenon DEF w
  <2>8. /\ BytesOf(meta, Urls)' \subseteq VictimBytes(Tail(op'[s].victims))
        /\ Cardinality(VictimBytes(Tail(op'[s].victims))) + Head(op'[s].victims).size
             <= op'[s].total
    BY <2>4, <2>5, <2>6, <2>7, Zenon
  <2> QED BY <2>7, <2>8 DEF Claim, VictimBytes
<1>7. BudgetOrClaim'
  BY <1>4, <1>5, <1>6, BudgetKept, Zenon
<1>8. FilesAgree'
  <2>1. op[s].step \notin Setting /\ op'[s].step \in Finishing /\ op'[s].url = u
    BY <1>1, <1>3, <1>4 DEF Setting, Finishing
  <2> HIDE DEF p
  <2> QED BY <1>2, <1>4, <1>5, <2>1, RemoveMetaStep
<1> QED BY <1>4, <1>5, <1>7, <1>8

(* The meta file goes, or stays.                                           *)
LEMMA DropMetaOK ==
  ASSUME DiskOK, NEW s \in Services, DropMeta(s)
  PROVE  DiskOK'
<1>1. CASE RemovalFails(s, "dropBody")
  BY <1>1, RemovalFailsOK DEF DropMeta, Finishing, Pruning
<1> QED BY <1>1, DropMetaRemoves

(* The same of a victim.                                                   *)
LEMMA PruneMetaOK ==
  ASSUME DiskOK, NEW s \in Services, PruneMeta(s)
  PROVE  DiskOK'
<1>1. CASE RemovalFails(s, "pruneBody")
  BY <1>1, RemovalFailsOK DEF PruneMeta, Finishing, Pruning
<1> QED BY <1>1, PruneMetaRemoves

(* Removing a body file, or failing to.                                    *)
LEMMA RemoveBodyFiles ==
  ASSUME FilesTyped, NEW u \in Urls,
         \/ RemoveBody(u) /\ UNCHANGED faults
         \/ Fault /\ UNCHANGED body,
         UNCHANGED <<meta, expired, byAge, damaged, unpruned>>
  PROVE  /\ FilesTyped'
         /\ \A v \in Urls \ {u} : body'[v] = body[v]
         /\ meta' = meta /\ damaged' = damaged /\ unpruned' = unpruned
         /\ BytesOf(meta', Urls) \subseteq BytesOf(meta, Urls)
<1>1. /\ meta' = meta /\ byAge' = byAge
      /\ expired' = expired /\ damaged' = damaged /\ unpruned' = unpruned
  OBVIOUS
<1>2. body' \in [Urls -> Contents] /\ \A v \in Urls \ {u} : body'[v] = body[v]
  BY DEF FilesTyped, Contents, RemoveBody
<1>3. faults' \in 0 .. MaxFaults
  <2>1. faults \in 0 .. MaxFaults
    BY DEF FilesTyped
  <2> QED BY <2>1, FaultOK
<1>4. FilesTyped'
  BY <1>1, <1>2, <1>3 DEF FilesTyped, Lists
<1> QED BY <1>1, <1>2, <1>4

(* The body file of an entry that was too old.                             *)
LEMMA DropBodyOK ==
  ASSUME DiskOK, NEW s \in Services, DropBody(s)
  PROVE  DiskOK'
<1> USE DEF DiskOK
<1>0. PICK u : u = op[s].url
  OBVIOUS
<1>1. /\ op[s].step = "dropBody" /\ Touch(s, u, Idle)
      /\ UNCHANGED <<meta, expired, byAge, damaged, unpruned>>
      /\ \/ RemoveBody(u) /\ UNCHANGED faults
         \/ Fault /\ UNCHANGED body
      /\ op[s] \in OpRecords /\ OpGood(op[s])
  BY <1>0 DEF DropBody, OpTyped
<1>2. u \in Urls
  BY <1>0, <1>1 DEF OpGood
<1>3. OpTyped' /\ op'[s] = Idle /\ OthersKeep(s) /\ OthersTold(s, u)
  BY <1>1, IdleGood, TouchOK, Zenon
<1>4. /\ FilesTyped' /\ (\A v \in Urls \ {u} : body'[v] = body[v])
      /\ meta' = meta /\ damaged' = damaged /\ unpruned' = unpruned
      /\ BytesOf(meta', Urls) \subseteq BytesOf(meta, Urls)
  BY <1>1, <1>2, RemoveBodyFiles, Zenon
<1>5. BudgetOrClaim'
  <2>1. ~Claim(s)
    BY <1>1, NoClaim
  <2> QED BY <1>3, <1>4, <2>1, BudgetKept, Zenon
<1>6. FilesAgree'
  <2>1. op[s].step \in Finishing /\ op[s].url = u /\ op'[s].step \in {"idle", "pruneMeta"}
    BY <1>0, <1>1, <1>3, IdleGood DEF Finishing
  <2> QED BY <1>2, <1>3, <1>4, <2>1, RemoveBodyStep
<1> QED BY <1>3, <1>4, <1>5, <1>6

(* The body file of a victim; the pruning goes on while the total, which   *)
(* may be stale, is too high.                                              *)
LEMMA PruneBodyOK ==
  ASSUME DiskOK, NEW s \in Services, PruneBody(s)
  PROVE  DiskOK'
<1> DEFINE w == op[s].victims
           total == Monus(op[s].total, Head(w).size)
           p == NextVictim(Tail(w), total)
<1> USE DEF DiskOK
<1>0. PICK u : u = op[s].url
  OBVIOUS
<1>1. /\ op[s].step = "pruneBody" /\ Touch(s, u, p)
      /\ UNCHANGED <<meta, expired, byAge, damaged, unpruned>>
      /\ \/ RemoveBody(u) /\ UNCHANGED faults
         \/ Fault /\ UNCHANGED body
      /\ op[s] \in OpRecords /\ OpGood(op[s])
  BY <1>0 DEF PruneBody, OpTyped
<1>2. u \in Urls
  BY <1>0, <1>1 DEF OpGood
<1>3. w \in Seq(VictimRecords) /\ w # <<>> /\ Distinct(w) /\ op[s].total \in Nat
  BY <1>0, <1>1 DEF OpRecords, OpGood, Pruning, Distinct, VictimRecords
<1> HIDE DEF w
<1>4. /\ Tail(w) \in Seq(VictimRecords) /\ Distinct(Tail(w)) /\ Head(w) \in VictimRecords
  BY <1>3, VictimsSplit, Zenon
<1>5. Head(w).size \in Nat /\ total \in Nat
  BY <1>3, <1>4 DEF VictimRecords, Monus
<1> HIDE DEF total
<1>6. p \in OpRecords /\ OpGood(p) /\ (p = Idle \/ p.step = "pruneMeta")
  BY <1>4, <1>5, NextVictimGood
<1>7. OpTyped' /\ op'[s] = p /\ OthersKeep(s) /\ OthersTold(s, u)
  <2> HIDE DEF p
  <2> QED BY <1>1, <1>6, TouchOK, Zenon
<1>8. /\ FilesTyped' /\ (\A v \in Urls \ {u} : body'[v] = body[v])
      /\ meta' = meta /\ damaged' = damaged /\ unpruned' = unpruned
      /\ BytesOf(meta', Urls) \subseteq BytesOf(meta, Urls)
  BY <1>1, <1>2, RemoveBodyFiles, Zenon
<1>9. ASSUME Claim(s) PROVE Claim(s)' \/ TotalBytes' <= DiskMax
  <2>1. /\ BytesOf(meta, Urls) \subseteq VictimBytes(Tail(w))
        /\ Cardinality(VictimBytes(Tail(w))) + Head(w).size <= op[s].total
    BY <1>1, <1>9 DEF Claim, w
  <2>2. Cardinality(VictimBytes(Tail(w))) \in Nat
    BY <1>4, VictimsFinite, Zenon
  <2>3. Cardinality(VictimBytes(Tail(w))) <= total
    BY <1>3, <1>5, <2>1, <2>2 DEF total, Monus
  <2>4. BytesOf(meta', Urls) \subseteq VictimBytes(Tail(w))
    BY <1>8, <2>1, Zenon
  <2> QED BY <1>4, <1>5, <1>7, <2>3, <2>4, NextVictimClaims, Zenon
<1>10. BudgetOrClaim'
  BY <1>7, <1>8, <1>9, BudgetKept, Zenon
<1>11. FilesAgree'
  <2>1. op'[s].step \in {"idle", "pruneMeta"}
    BY <1>6, <1>7, IdleGood
  <2>2. op[s].step \in Finishing /\ op[s].url = u
    BY <1>0, <1>1 DEF Finishing
  <2> HIDE DEF p
  <2> QED BY <1>2, <1>7, <1>8, <2>1, <2>2, RemoveBodyStep
<1> QED BY <1>7, <1>8, <1>10, <1>11
(* A write of a body file, whatever it leaves there.                       *)
LEMMA WriteBodyFiles ==
  ASSUME FilesTyped, NEW u \in Urls, NEW c \in Contents, body' = [body EXCEPT ![u] = c],
         UNCHANGED <<meta, expired, byAge, historyVars>>
  PROVE  /\ FilesTyped'
         /\ body'[u] = c
         /\ \A v \in Urls \ {u} : meta'[v] = meta[v] /\ body'[v] = body[v]
         /\ meta' = meta /\ damaged' = damaged /\ unpruned' = unpruned
         /\ BytesOf(meta', Urls) \subseteq BytesOf(meta, Urls)
<1>1. /\ meta' = meta /\ byAge' = byAge /\ expired' = expired
      /\ damaged' = damaged /\ unpruned' = unpruned /\ faults' = faults
  BY DEF historyVars
<1>2. /\ body' \in [Urls -> Contents] /\ body'[u] = c
      /\ \A v \in Urls \ {u} : body'[v] = body[v]
  BY DEF FilesTyped
<1>3. FilesTyped'
  BY <1>1, <1>2 DEF FilesTyped, Lists
<1> QED BY <1>1, <1>2, <1>3

(* A set begins: it is undisturbed when nobody writes or removes files of  *)
(* its URL.                                                                *)
LEMMA SetBeginOK ==
  ASSUME DiskOK, NEW s \in Services, NEW u \in Urls, NEW c \in Images, SetBegin(s, u, c)
  PROVE  DiskOK'
<1> DEFINE o == Start(s, u, "writeBody", c)
<1> USE DEF DiskOK
<1>1. /\ op[s] = Idle /\ body' = [body EXCEPT ![u] = Torn] /\ Touch(s, u, o)
      /\ UNCHANGED <<meta, expired, byAge, historyVars>>
  BY DEF SetBegin
<1>2. /\ o \in OpRecords /\ OpGood(o) /\ o.step = "writeBody" /\ o.url = u
      /\ o.clean <=> \A t \in Services \ {s} : ~Busy(t, u)
  <2>1. /\ "writeBody" \in {"getMeta", "writeBody"} /\ c \in Images \cup {Absent}
    OBVIOUS
  <2>2. Started(s, u, "writeBody", c, o)
    BY <2>1, StartGood, Zenon
  <2> HIDE DEF o
  <2> QED BY <2>2, Zenon DEF Started
<1> HIDE DEF o
<1>3. OpTyped' /\ op'[s] = o /\ OthersKeep(s) /\ OthersTold(s, u)
  BY <1>1, <1>2, TouchOK, Zenon
<1>4. /\ FilesTyped'
      /\ \A v \in Urls \ {u} : meta'[v] = meta[v] /\ body'[v] = body[v]
      /\ damaged' = damaged /\ unpruned' = unpruned
      /\ BytesOf(meta', Urls) \subseteq BytesOf(meta, Urls)
  <2>1. Torn \in Contents
    BY DEF Contents
  <2> QED BY <1>1, <2>1, WriteBodyFiles, Zenon
<1>5. op[s].step = "idle"
  BY <1>1, IdleGood, Zenon
<1>6. BudgetOrClaim'
  <2>1. ~Claim(s)
    BY <1>5, NoClaim
  <2> QED BY <1>3, <1>4, <2>1, BudgetKept, Zenon
<1>7. ASSUME NEW t \in Services \ {s} PROVE SetAlone(s, t)'
  <2> SUFFICES ASSUME op'[t].url = u, op'[s].clean
               PROVE  op'[t].step \notin Setting \cup Finishing
    BY <1>2, <1>3 DEF SetAlone
  <2>1. ~Busy(t, u)
    BY <1>2, <1>3, Zenon
  <2>2. op'[t].url = op[t].url /\ op'[t].step = op[t].step
    BY <1>3, Zenon DEF OthersKeep
  <2>3. op[t].step \notin Removing \cup Setting
    BY <2>1, <2>2, Zenon DEF Busy
  <2> QED BY <2>2, <2>3 DEF Removing, Finishing
<1>8. /\ SetKeeps(s)' /\ op'[s].step \in Setting /\ op'[s].url = u
      /\ op[s].step \notin Setting
  BY <1>2, <1>3, <1>5 DEF SetKeeps, Setting
<1>9. FilesAgree'
  BY <1>3, <1>4, <1>7, <1>8, SetStep
<1> QED BY <1>3, <1>4, <1>6, <1>9

(* A set in its later steps has no rival either, if nobody disturbed it.   *)
LEMMA SetGoesOn ==
  ASSUME OpTyped, FilesAgree, NEW s \in Services, OthersKeep(s),
         op[s].step \in Setting, op'[s].step \in Setting,
         op'[s].url = op[s].url, op'[s].clean = op[s].clean
  PROVE  \A t \in Services \ {s} : SetAlone(s, t)'
<1> SUFFICES ASSUME NEW t \in Services \ {s}, op'[s].clean, op'[t].url = op'[s].url
             PROVE  op'[t].step \notin Setting \cup Finishing
  BY DEF SetAlone
<1>1. op'[t].url = op[t].url /\ op'[t].step = op[t].step
  BY Zenon DEF OthersKeep
<1>2. SetAlone(s, t)
  BY DEF FilesAgree
<1> QED BY <1>1, <1>2 DEF SetAlone

(* The body file is written.                                               *)
LEMMA WriteBodyOK ==
  ASSUME DiskOK, NEW s \in Services, WriteBody(s)
  PROVE  DiskOK'
<1> DEFINE p == [op[s] EXCEPT !.step = "truncateMeta"]
<1> USE DEF DiskOK
<1>0. PICK u : u = op[s].url
  OBVIOUS
<1>1. /\ op[s].step = "writeBody" /\ Touch(s, u, p)
      /\ UNCHANGED <<meta, expired, byAge, historyVars>>
      /\ op[s] \in OpRecords /\ OpGood(op[s])
  BY <1>0 DEF WriteBody, OpTyped
<1>2. PICK c \in Written(s, body[u]) : body' = [body EXCEPT ![u] = c]
  BY <1>0 DEF WriteBody
<1>3. u \in Urls /\ op[s].img \in Images
  BY <1>0, <1>1 DEF OpGood, Setting
<1>4. c \in Contents /\ (op[s].clean => c = op[s].img)
  <2>1. body[u] \in Contents
    BY <1>3 DEF FilesTyped
  <2> QED BY <1>2, <1>3, <2>1 DEF Written, Contents
<1>5. /\ p \in OpRecords /\ OpGood(p) /\ p.step = "truncateMeta" /\ p.url = u
      /\ p.img = op[s].img /\ p.clean = op[s].clean
  BY <1>0, <1>1 DEF OpRecords, OpGood, Steps, Setting, Pruning
<1> HIDE DEF p
<1>6. OpTyped' /\ op'[s] = p /\ OthersKeep(s) /\ OthersTold(s, u)
  BY <1>1, <1>5, TouchOK, Zenon
<1>7. /\ FilesTyped' /\ body'[u] = c
      /\ \A v \in Urls \ {u} : meta'[v] = meta[v] /\ body'[v] = body[v]
      /\ damaged' = damaged /\ unpruned' = unpruned
      /\ BytesOf(meta', Urls) \subseteq BytesOf(meta, Urls)
  BY <1>1, <1>2, <1>3, <1>4, WriteBodyFiles, Zenon
<1>8. BudgetOrClaim'
  <2>1. ~Claim(s)
    BY <1>1, NoClaim
  <2> QED BY <1>6, <1>7, <2>1, BudgetKept, Zenon
<1>9. SetKeeps(s)'
  BY <1>4, <1>5, <1>6, <1>7 DEF SetKeeps
<1>10. /\ op[s].step \in Setting /\ op[s].url = u
       /\ op'[s].step \in Setting /\ op'[s].url = u /\ op'[s].clean = op[s].clean
  BY <1>0, <1>1, <1>5, <1>6 DEF Setting
<1>11. \A t \in Services \ {s} : SetAlone(s, t)'
  BY <1>6, <1>10, SetGoesOn, Zenon
<1>12. FilesAgree'
  BY <1>3, <1>6, <1>7, <1>9, <1>10, <1>11, SetStep
<1> QED BY <1>6, <1>7, <1>8, <1>12

(* The meta file is truncated.                                             *)
LEMMA TruncateMetaOK ==
  ASSUME DiskOK, NEW s \in Services, TruncateMeta(s)
  PROVE  DiskOK'
<1> DEFINE p == [op[s] EXCEPT !.step = "writeMeta"]
<1> USE DEF DiskOK
<1>0. PICK u : u = op[s].url
  OBVIOUS
<1>1. /\ op[s].step = "truncateMeta" /\ Touch(s, u, p)
      /\ meta' = [meta EXCEPT ![u] = Torn]
      /\ byAge' = Append(Without(byAge, u), u)
      /\ expired' = expired \ {u}
      /\ UNCHANGED <<body, historyVars>>
      /\ op[s] \in OpRecords /\ OpGood(op[s])
  BY <1>0 DEF TruncateMeta, OpTyped
<1>2. u \in Urls
  BY <1>0, <1>1 DEF OpGood
<1>3. /\ p \in OpRecords /\ OpGood(p) /\ p.step = "writeMeta" /\ p.url = u
      /\ p.img = op[s].img /\ p.clean = op[s].clean
  BY <1>0, <1>1 DEF OpRecords, OpGood, Steps, Setting, Pruning
<1> HIDE DEF p
<1>4. OpTyped' /\ op'[s] = p /\ OthersKeep(s) /\ OthersTold(s, u)
  BY <1>1, <1>3, TouchOK, Zenon
<1>5. body' = body /\ damaged' = damaged /\ unpruned' = unpruned /\ faults' = faults
  BY <1>1 DEF historyVars
<1>6. /\ meta' \in [Urls -> Contents] /\ meta'[u] = Torn
      /\ \A v \in Urls \ {u} : meta'[v] = meta[v]
  BY <1>1, <1>2 DEF FilesTyped, Contents
<1>7. FilesTyped'
  <2>1. byAge \in Seq(Urls) /\ Lists(byAge, meta)
    BY DEF FilesTyped
  <2>2. /\ byAge' \in Seq(Urls) /\ IsInjective(byAge')
        /\ Range(byAge') = Range(byAge) \cup {u}
    BY <1>1, <1>2, <2>1, RefreshList, Zenon DEF Lists
  <2>3. Torn # Absent
    BY ImagesAssumption
  <2>4. Lists(byAge', meta')
    BY <1>6, <2>1, <2>2, <2>3, Zenon DEF Lists
  <2>5. expired' \subseteq Urls /\ body' \in [Urls -> Contents] /\ damaged' \subseteq Urls
    BY <1>1, <1>5 DEF FilesTyped
  <2>6. unpruned' \in BOOLEAN /\ faults' \in 0 .. MaxFaults
    BY <1>5, Zenon DEF FilesTyped
  <2> QED BY <1>6, <2>2, <2>4, <2>5, <2>6 DEF FilesTyped, Lists, Range, IsInjective
<1>8. BytesOf(meta', Urls) \subseteq BytesOf(meta, Urls)
  <2>1. Torn \notin Images
    BY ImagesAssumption
  <2> QED BY <1>6, <2>1, LostBytes, Zenon
<1>9. BudgetOrClaim'
  <2>1. ~Claim(s)
    BY <1>1, NoClaim
  <2> QED BY <1>4, <1>5, <1>8, <2>1, BudgetKept, Zenon
<1>10. SetKeeps(s)'
  <2>1. SetKeeps(s)
    BY DEF FilesAgree
  <2> QED BY <1>0, <1>1, <1>3, <1>4, <1>5, <1>6, <2>1 DEF SetKeeps
<1>11. /\ op[s].step \in Setting /\ op[s].url = u
       /\ op'[s].step \in Setting /\ op'[s].url = u /\ op'[s].clean = op[s].clean
  BY <1>0, <1>1, <1>3, <1>4 DEF Setting
<1>12. \A t \in Services \ {s} : SetAlone(s, t)'
  BY <1>4, <1>11, SetGoesOn, Zenon
<1>13. FilesAgree'
  BY <1>2, <1>4, <1>5, <1>6, <1>10, <1>11, <1>12, SetStep
<1> QED BY <1>4, <1>7, <1>9, <1>13
(* The meta file is written: s will scan the directory, so the budget may  *)
(* be exceeded meanwhile.                                                  *)
LEMMA WriteMetaOK ==
  ASSUME DiskOK, NEW s \in Services, WriteMeta(s)
  PROVE  DiskOK'
<1> DEFINE p == [Idle EXCEPT !.step = "scan"]
<1> USE DEF DiskOK
<1>0. PICK u : u = op[s].url
  OBVIOUS
<1>1. /\ op[s].step = "writeMeta" /\ Touch(s, u, p)
      /\ damaged' = IF op[s].clean THEN damaged \ {u} ELSE damaged \cup {u}
      /\ UNCHANGED <<body, expired, byAge, unpruned, faults>>
      /\ op[s] \in OpRecords /\ OpGood(op[s])
  BY <1>0 DEF WriteMeta, OpTyped
<1>2. PICK c \in Written(s, meta[u]) : meta' = [meta EXCEPT ![u] = c]
  BY <1>0 DEF WriteMeta
<1>3. u \in Urls /\ op[s].img \in Images
  BY <1>0, <1>1 DEF OpGood, Setting
<1>4. p \in OpRecords /\ OpGood(p) /\ p.step = "scan"
  BY IdleGood
<1> HIDE DEF p
<1>5. OpTyped' /\ op'[s] = p /\ OthersKeep(s) /\ OthersTold(s, u)
  BY <1>1, <1>4, TouchOK, Zenon
<1>6. SetKeeps(s)
  BY DEF FilesAgree
<1>7. op[s].clean => body[u] = op[s].img /\ meta[u] = Torn
  BY <1>0, <1>1, <1>6 DEF SetKeeps
<1>8. /\ c \in Contents /\ (op[s].clean => c = op[s].img)
      /\ c # Absent <=> meta[u] # Absent
  <2>1. meta[u] \in Contents
    BY <1>3 DEF FilesTyped
  <2>2. Torn # Absent /\ Absent \notin Images
    BY ImagesAssumption
  <2>3. CASE op[s].clean
    BY <1>2, <1>3, <1>7, <2>2, <2>3 DEF Written, Contents
  <2>4. CASE ~op[s].clean
    BY <1>2, <1>3, <2>1, <2>2, <2>4 DEF Written, Contents
  <2> QED BY <2>3, <2>4
<1>9. /\ meta' \in [Urls -> Contents] /\ meta'[u] = c
      /\ \A v \in Urls \ {u} : meta'[v] = meta[v]
  BY <1>2, <1>3, <1>8 DEF FilesTyped
<1>10. FilesTyped'
  <2>1. Lists(byAge', meta')
    <3>1. Lists(byAge, meta) /\ byAge' = byAge
      BY <1>1 DEF FilesTyped
    <3> QED BY <1>8, <1>9, <3>1, Zenon DEF Lists
  <2>2. damaged' \subseteq Urls
    BY <1>1, <1>3 DEF FilesTyped
  <2> QED BY <1>1, <1>9, <2>1, <2>2 DEF FilesTyped, Lists
<1>11. BudgetOrClaim'
  <2>1. op'[s].step = "scan"
    BY <1>4, <1>5
  <2> QED BY <2>1 DEF BudgetOrClaim, Claim
<1>12. FilesAgree'
  <2>1. Frame(s, u)
    <3>1. \A v \in Urls \ {u} : v \in damaged' <=> v \in damaged
      BY <1>1
    <3> QED BY <1>0, <1>1, <1>5, <1>9, <3>1 DEF Frame
  <2>2. op[s].step \in Setting /\ op[s].url = u /\ op'[s].step \in {"idle", "scan"}
    BY <1>0, <1>1, <1>4, <1>5 DEF Setting
  <2>3. \/ u \in damaged'
        \/ op[s].clean /\ meta'[u] \in Images /\ body'[u] = meta'[u]
    BY <1>1, <1>3, <1>7, <1>8, <1>9
  <2> QED BY <1>3, <2>1, <2>2, <2>3, SetEnds
<1> QED BY <1>5, <1>10, <1>11, <1>12

(* A write fails half way.                                                 *)
LEMMA SetFailsOK ==
  ASSUME DiskOK, NEW s \in Services, SetFails(s)
  PROVE  DiskOK'
<1> USE DEF DiskOK
<1>0. PICK u : u = op[s].url
  OBVIOUS
<1>1. /\ op[s].step \in Setting /\ Continue(s, Idle)
      /\ damaged' = damaged \cup {u}
      /\ UNCHANGED fileVars /\ unpruned' = unpruned /\ Fault
      /\ op[s] \in OpRecords /\ OpGood(op[s])
  BY <1>0 DEF SetFails, OpTyped
<1>2. u \in Urls
  BY <1>0, <1>1 DEF OpGood, Setting
<1>3. /\ FilesTyped' /\ meta' = meta /\ body' = body
      /\ BytesOf(meta', Urls) \subseteq BytesOf(meta, Urls)
  BY <1>1, <1>2, FaultOK, FilesSame DEF FilesTyped
<1>4. OpTyped' /\ op'[s] = Idle /\ OthersKeep(s)
  BY <1>1, IdleGood, ContinueOK, Zenon
<1>5. BudgetOrClaim'
  <2>1. ~Claim(s)
    BY <1>1, NoClaim DEF Setting
  <2> QED BY <1>1, <1>3, <1>4, <2>1, BudgetKept, Zenon
<1>6. FilesAgree'
  <2>1. Frame(s, u)
    BY <1>0, <1>1, <1>3, <1>4 DEF Frame
  <2>2. op[s].step \in Setting /\ op[s].url = u /\ op'[s].step \in {"idle", "scan"}
    BY <1>0, <1>1, <1>4, IdleGood
  <2>3. u \in damaged'
    BY <1>1
  <2> QED BY <1>2, <2>1, <2>2, <2>3, SetEnds
<1> QED BY <1>3, <1>4, <1>5, <1>6

(* The directory is listed: all that is there is on the list, unless some  *)
(* of it could not be read.                                                *)
LEMMA ScanOK ==
  ASSUME DiskOK, NEW s \in Services, Scan(s)
  PROVE  DiskOK'
<1> USE DEF DiskOK
<1>1. op[s].step = "scan" /\ UNCHANGED fileVars /\ damaged' = damaged
  BY DEF Scan
<1>2. PICK readable \in SUBSET Parsed :
        /\ \E list \in Listings(readable) :
             Continue(s, NextVictim(Victims(list), Weight(meta, readable)))
        /\ IF readable = Parsed
             THEN unpruned' = FALSE /\ UNCHANGED faults
             ELSE unpruned' = TRUE /\ Fault
  BY Zenon DEF Scan
<1>3. PICK list \in Listings(readable) :
        Continue(s, NextVictim(Victims(list), Weight(meta, readable)))
  BY <1>2, Zenon
<1> DEFINE w == Victims(list)
           total == Weight(meta, readable)
           p == NextVictim(w, total)
<1>4. /\ w \in Seq(VictimRecords) /\ Distinct(w)
      /\ readable = Parsed => VictimBytes(w) = BytesOf(meta, Urls)
  BY ListingOK, Zenon
<1>5. total \in Nat
  <2>1. readable \in SUBSET Urls /\ IsFiniteSet(readable)
    BY ImagesAssumption, FS_Subset DEF Parsed
  <2> QED BY <2>1, BytesFinite, Zenon
<1>6. readable = Parsed => Cardinality(VictimBytes(w)) <= total
  <2> SUFFICES ASSUME readable = Parsed PROVE Cardinality(VictimBytes(w)) = total
    BY <1>5
  <2>1. BytesOf(meta, Parsed) = BytesOf(meta, Urls)
    BY ParsedWeighs
  <2> QED BY <1>4, <2>1, Zenon DEF Weight
<1> HIDE DEF w, total
<1>7. p \in OpRecords /\ OpGood(p) /\ (p = Idle \/ p.step = "pruneMeta")
  BY <1>4, <1>5, NextVictimGood
<1>8. OpTyped' /\ op'[s] = p /\ OthersKeep(s)
  <2>1. Continue(s, p)
    BY <1>3, Zenon DEF w, total
  <2> HIDE DEF p
  <2> QED BY <1>7, <2>1, ContinueOK, Zenon
<1>9. FilesTyped' /\ meta' = meta /\ body' = body
  <2>1. unpruned' \in BOOLEAN /\ (Fault \/ faults' = faults)
    BY <1>2, Zenon
  <2>2. faults' \in 0 .. MaxFaults /\ damaged' \subseteq Urls
    BY <1>1, <2>1, FaultOK DEF FilesTyped
  <2> QED BY <1>1, <2>1, <2>2, FilesSame
<1>10. BudgetOrClaim'
  <2>1. CASE readable # Parsed
    BY <1>2, <2>1 DEF BudgetOrClaim
  <2>2. CASE readable = Parsed
    <3>1. BytesOf(meta', Urls) \subseteq VictimBytes(w)
      BY <1>4, <1>9, <2>2, Zenon
    <3>2. Claim(s)' \/ TotalBytes' <= DiskMax
      BY <1>4, <1>5, <1>6, <1>8, <2>2, <3>1, NextVictimClaims, Zenon
    <3> QED BY <3>2 DEF BudgetOrClaim
  <2> QED BY <2>1, <2>2
<1>11. op'[s].step \in {"idle", "pruneMeta"}
  BY <1>7, <1>8, IdleGood
<1>12. GetAgrees(s)'
  BY <1>11 DEF GetAgrees
<1>13. op[s].step \notin Setting /\ op'[s].step \notin Setting \cup Finishing
  BY <1>1, <1>11 DEF Setting, Finishing
<1>14. FilesAgree'
  BY <1>1, <1>8, <1>9, <1>12, <1>13, QuietStep
<1> QED BY <1>8, <1>9, <1>10, <1>14

(* The directory cannot be listed.                                         *)
LEMMA ScanFailsOK ==
  ASSUME DiskOK, NEW s \in Services, ScanFails(s)
  PROVE  DiskOK'
<1> USE DEF DiskOK
<1>1. /\ op[s].step = "scan" /\ Continue(s, Idle) /\ unpruned' = TRUE /\ Fault
      /\ UNCHANGED fileVars /\ damaged' = damaged
  BY DEF ScanFails
<1>2. FilesTyped' /\ meta' = meta /\ body' = body
  <2>1. faults' \in 0 .. MaxFaults /\ damaged' \subseteq Urls
    BY <1>1, FaultOK DEF FilesTyped
  <2> QED BY <1>1, <2>1, FilesSame
<1>3. OpTyped' /\ op'[s] = Idle /\ OthersKeep(s)
  BY <1>1, IdleGood, ContinueOK, Zenon
<1>4. op'[s].step = "idle"
  BY <1>3, IdleGood
<1>5. BudgetOrClaim'
  BY <1>1 DEF BudgetOrClaim
<1>6. GetAgrees(s)'
  BY <1>4 DEF GetAgrees
<1>7. op[s].step \notin Setting /\ op'[s].step \notin Setting \cup Finishing
  BY <1>1, <1>4 DEF Setting, Finishing
<1>8. FilesAgree'
  BY <1>1, <1>2, <1>3, <1>6, <1>7, QuietStep
<1> QED BY <1>2, <1>3, <1>5, <1>8

(* Steps that leave the directory and the operations on it alone.          *)
LEMMA DiskSame ==
  ASSUME DiskOK, UNCHANGED <<meta, body, byAge, op, historyVars>>, expired' \subseteq Urls
  PROVE  DiskOK'
<1> USE DEF DiskOK
<1>1. /\ meta' = meta /\ body' = body /\ byAge' = byAge /\ op' = op
      /\ damaged' = damaged /\ unpruned' = unpruned /\ faults' = faults
  BY DEF historyVars
<1>2. FilesTyped'
  BY <1>1 DEF FilesTyped, Lists
<1>3. OpTyped'
  BY <1>1 DEF OpTyped, OpRecords, OpGood
<1>4. BudgetOrClaim'
  BY <1>1 DEF BudgetOrClaim, Claim, TotalBytes
<1>5. FilesAgree'
  BY <1>1 DEF FilesAgree, SetAlone, SetKeeps, Orphaned, GetAgrees, Whole, BeingSet
<1> QED BY <1>2, <1>3, <1>4, <1>5

(* The process ends: who was setting an entry leaves it damaged, and the   *)
(* directory may be over its budget.                                       *)
LEMMA CrashOK ==
  ASSUME DiskOK, Crash
  PROVE  DiskOK'
<1> DEFINE hit == {op[s].url : s \in {t \in Services : op[t].step \in Setting}}
<1> USE DEF DiskOK
<1>1. /\ op' = [s \in Services |-> Idle] /\ damaged' = damaged \cup hit
      /\ unpruned' = TRUE /\ Fault
      /\ UNCHANGED fileVars
  BY DEF Crash
<1>2. hit \subseteq Urls
  BY DEF OpTyped, OpGood, Setting
<1>3. FilesTyped' /\ meta' = meta /\ body' = body
  <2>1. damaged' \subseteq Urls
    BY <1>1, <1>2 DEF FilesTyped
  <2>2. faults' \in 0 .. MaxFaults
    BY <1>1, FaultOK DEF FilesTyped
  <2> QED BY <1>1, <2>1, <2>2, FilesSame
<1>4. ASSUME NEW s \in Services PROVE op'[s] = Idle /\ op'[s].step = "idle"
  BY <1>1, IdleGood
<1>5. OpTyped'
  <2>1. op' \in [Services -> OpRecords]
    BY <1>1, IdleGood
  <2>2. \A s \in Services : OpGood(op'[s])
    BY <1>4, IdleGood, Zenon
  <2> QED BY <2>1, <2>2 DEF OpTyped, OpGood, OpRecords
<1>6. BudgetOrClaim'
  BY <1>1 DEF BudgetOrClaim
<1>7. FilesAgree'
  <2>1. ASSUME NEW s \in Services
        PROVE  SetKeeps(s)' /\ Orphaned(s)' /\ \A t \in Services : SetAlone(s, t)'
    <3>1. op'[s].step \notin Setting \cup Finishing
      BY <1>4 DEF Setting, Finishing
    <3> QED BY <3>1, HarmlessStep, Zenon
  <2>2. ASSUME NEW s \in Services PROVE GetAgrees(s)'
    BY <1>4 DEF GetAgrees
  <2>3. ASSUME NEW u \in Urls PROVE Whole(u)'
    <3>1. Whole(u)
      BY DEF FilesAgree
    <3>2. BeingSet(u) => u \in damaged'
      BY <1>1 DEF BeingSet
    <3> HIDE DEF BeingSet, hit
    <3> QED BY <1>1, <1>3, <3>1, <3>2 DEF Whole
  <2> QED BY <2>1, <2>2, <2>3, Zenon DEF FilesAgree
<1> QED BY <1>3, <1>5, <1>6, <1>7
-----------------------------------------------------------------------------
(* The invariant holds at the start and after every step                   *)

(* Steps that leave the memory caches alone.                               *)
LEMMA MemorySame ==
  ASSUME MemoryOK, UNCHANGED memoryVars
  PROVE  MemoryOK'
BY DEF MemoryOK, MemoryTyped, MemoryBudget, memoryVars

(* Empty memory caches are in order.                                       *)
LEMMA EmptyMemory ==
  LET none == [u \in Urls |-> Absent]
  IN  /\ none \in [Urls -> Contents] /\ <<>> \in Seq(Urls)
      /\ Lists(<<>>, none) /\ Weight(none, Urls) = 0
<1> DEFINE none == [u \in Urls |-> Absent]
<1>1. none \in [Urls -> Contents] /\ <<>> \in Seq(Urls)
  BY DEF Contents
<1>2. Lists(<<>>, none)
  BY DEF Lists, IsInjective, Range
<1>3. \A u \in Urls : none[u] \notin Images
  BY AbsentWeighsNothing, Zenon
<1> HIDE DEF none
<1>4. Weight(none, Urls) = 0
  BY <1>3, WeightNone, Zenon
<1> QED BY <1>1, <1>2, <1>4 DEF none

(* The process starts with empty memory caches, also after a crash.        *)
LEMMA CrashMemoryOK ==
  ASSUME Crash
  PROVE  MemoryOK'
<1> DEFINE none == [u \in Urls |-> Absent]
<1>1. /\ items' = [s \in Services |-> none] /\ recent' = [s \in Services |-> <<>>]
      /\ curBytes' = [s \in Services |-> 0]
  BY DEF Crash
<1>2. /\ none \in [Urls -> Contents] /\ <<>> \in Seq(Urls)
      /\ Lists(<<>>, none) /\ Weight(none, Urls) = 0
  BY EmptyMemory
<1> HIDE DEF none
<1>3. MemoryTyped'
  <2>1. ASSUME NEW s \in Services PROVE Lists(recent'[s], items'[s])
    BY <1>1, <1>2, Zenon
  <2> QED BY <1>1, <1>2, <2>1 DEF MemoryTyped, Lists
<1>4. MemoryBudget'
  <2>1. ASSUME NEW s \in Services
        PROVE  curBytes'[s] = Weight(items'[s], Urls) /\ curBytes'[s] <= MemoryMax[s]
    BY <1>1, <1>2, BudgetsAssumption
  <2> QED BY <2>1 DEF MemoryBudget, Weight, BytesOf, SizeOf
<1> QED BY <1>3, <1>4 DEF MemoryOK

(* A hit on the disk is copied to the memory cache, whatever its length.   *)
LEMMA GetBodyMemoryOK ==
  ASSUME MemoryOK, DiskOK, NEW s \in Services, GetBody(s)
  PROVE  MemoryOK'
<1> DEFINE u == op[s].url
<1>1. op[s].step = "getBody" /\ OpGood(op[s])
  BY DEF GetBody, DiskOK, OpTyped
<1>2. u \in Urls
  BY <1>1 DEF OpGood
<1>3. body[u] \in Contents
  BY <1>2 DEF DiskOK, FilesTyped
<1>4. UNCHANGED memoryVars \/ (body[u] # Absent /\ MemorySet(s, u, body[u]))
  BY DEF GetBody
<1>5. CASE UNCHANGED memoryVars
  BY <1>5, MemorySame
<1>6. CASE body[u] # Absent /\ MemorySet(s, u, body[u])
  <2>1. PICK v \in Urls : v = u
    BY <1>2
  <2>2. PICK c \in Contents : c = body[u]
    BY <1>3
  <2>3. MemorySet(s, v, c) /\ c # Absent
    BY <1>6, <2>1, <2>2, Zenon
  <2> QED BY <2>3, MemorySetOK, Zenon
<1> QED BY <1>4, <1>5, <1>6

(* The initial state.                                                      *)
LEMMA InitOK ==
  ASSUME Init
  PROVE  IInv
<1> DEFINE none == [u \in Urls |-> Absent]
<1>1. /\ items = [s \in Services |-> none] /\ recent = [s \in Services |-> <<>>]
      /\ curBytes = [s \in Services |-> 0] /\ meta = none /\ body = none
      /\ expired = {} /\ byAge = <<>> /\ op = [s \in Services |-> Idle]
      /\ damaged = {} /\ unpruned = FALSE /\ faults = 0
  BY DEF Init
<1>2. /\ none \in [Urls -> Contents] /\ <<>> \in Seq(Urls)
      /\ Lists(<<>>, none) /\ Weight(none, Urls) = 0
  BY EmptyMemory
<1>3. \A u \in Urls : none[u] = Absent
  OBVIOUS
<1> HIDE DEF none
<1>4. MemoryOK
  <2>1. MemoryTyped
    <3>1. ASSUME NEW s \in Services PROVE Lists(recent[s], items[s])
      BY <1>1, <1>2, Zenon
    <3> QED BY <1>1, <1>2, <3>1 DEF MemoryTyped
  <2>2. MemoryBudget
    BY <1>1, <1>2, BudgetsAssumption DEF MemoryBudget
  <2> QED BY <2>1, <2>2 DEF MemoryOK
<1>5. FilesTyped
  <2>1. /\ meta \in [Urls -> Contents] /\ body \in [Urls -> Contents] /\ byAge \in Seq(Urls)
        /\ Lists(byAge, meta) /\ unpruned \in BOOLEAN
    BY <1>1, <1>2, Zenon
  <2>2. expired \subseteq Urls /\ damaged \subseteq Urls /\ faults \in 0 .. MaxFaults
    BY <1>1, BudgetsAssumption
  <2> QED BY <2>1, <2>2, Zenon DEF FilesTyped
<1>6. ASSUME NEW s \in Services PROVE op[s] = Idle /\ op[s].step = "idle"
  BY <1>1, IdleGood
<1>7. OpTyped
  BY <1>1, IdleGood DEF OpTyped
<1>8. BudgetOrClaim
  BY <1>1, <1>2, BudgetsAssumption DEF BudgetOrClaim, TotalBytes
<1>9. FilesAgree
  <2>1. ASSUME NEW s \in Services
        PROVE  /\ SetKeeps(s) /\ Orphaned(s) /\ GetAgrees(s)
               /\ \A t \in Services : SetAlone(s, t)
    BY <1>6 DEF SetKeeps, Orphaned, GetAgrees, SetAlone, Setting, Finishing
  <2>2. ASSUME NEW u \in Urls PROVE Whole(u)
    BY <1>1, <1>3 DEF Whole
  <2> QED BY <2>1, <2>2, Zenon DEF FilesAgree
<1> QED BY <1>4, <1>5, <1>7, <1>8, <1>9 DEF IInv, DiskOK

(* Every step.                                                             *)
LEMMA NextOK ==
  ASSUME IInv, [Next]_vars
  PROVE  IInv'
<1> USE DEF IInv
<1>1. CASE UNCHANGED vars
  <2>1. UNCHANGED memoryVars /\ UNCHANGED <<meta, body, byAge, op, historyVars>> /\ expired' = expired
    BY <1>1 DEF vars, fileVars
  <2>2. expired' \subseteq Urls
    BY <2>1 DEF DiskOK, FilesTyped
  <2> QED BY <2>1, <2>2, MemorySame, DiskSame
<1>2. ASSUME NEW s \in Services, DiskStep(s), ~GetBody(s) PROVE IInv'
  <2>1. UNCHANGED memoryVars
    BY <1>2 DEF DiskStep, GetMeta, DropMeta, DropBody, WriteBody, TruncateMeta, WriteMeta,
                SetFails, Scan, ScanFails, PruneMeta, PruneBody, RemovalFails
  <2>2. DiskOK'
    BY <1>2, GetMetaOK, DropMetaOK, DropBodyOK, WriteBodyOK, TruncateMetaOK, WriteMetaOK,
       SetFailsOK, ScanOK, ScanFailsOK, PruneMetaOK, PruneBodyOK, Zenon DEF DiskStep
  <2> QED BY <2>1, <2>2, MemorySame
<1>3. ASSUME NEW s \in Services, GetBody(s) PROVE IInv'
  BY <1>3, GetBodyMemoryOK, GetBodyDiskOK, Zenon
<1>4. ASSUME NEW s \in Services, NEW u \in Urls, MemoryGet(s, u) PROVE IInv'
  <2>1. UNCHANGED <<meta, body, byAge, op, historyVars>> /\ expired' \subseteq Urls
    BY <1>4 DEF MemoryGet, fileVars, DiskOK, FilesTyped
  <2> QED BY <1>4, <2>1, MemoryGetOK, DiskSame
<1>5. ASSUME NEW s \in Services, NEW u \in Urls, GetExists(s, u) PROVE IInv'
  <2>1. UNCHANGED memoryVars
    BY <1>5 DEF GetExists
  <2> QED BY <1>5, <2>1, MemorySame, GetExistsOK
<1>6. ASSUME NEW s \in Services, NEW u \in Urls, NEW c \in Images, StoreInMemory(s, u, c)
      PROVE  IInv'
  <2>1. /\ UNCHANGED <<meta, body, byAge, op, historyVars>> /\ expired' \subseteq Urls
    BY <1>6 DEF StoreInMemory, fileVars, DiskOK, FilesTyped
  <2>2. MemorySet(s, u, c) /\ c \in Contents /\ c # Absent
    BY <1>6, ImagesAssumption DEF StoreInMemory, Contents
  <2>3. MemoryOK'
    BY <2>2, MemorySetOK, Zenon
  <2> QED BY <2>1, <2>3, DiskSame
<1>7. ASSUME NEW s \in Services, NEW u \in Urls, NEW c \in Images, SetBegin(s, u, c)
      PROVE  IInv'
  <2>1. UNCHANGED memoryVars
    BY <1>7 DEF SetBegin
  <2> QED BY <1>7, <2>1, MemorySame, SetBeginOK
<1>8. ASSUME NEW u \in Urls, Expire(u) PROVE IInv'
  <2>1. /\ UNCHANGED memoryVars /\ UNCHANGED <<meta, body, byAge, op, historyVars>>
        /\ expired' \subseteq Urls
    BY <1>8 DEF Expire, DiskOK, FilesTyped
  <2> QED BY <2>1, MemorySame, DiskSame
<1>9. CASE Crash
  BY <1>9, CrashMemoryOK, CrashOK
<1> QED BY <1>1, <1>2, <1>3, <1>4, <1>5, <1>6, <1>7, <1>8, <1>9, Zenon DEF Next

(* The caches always satisfy the inductive invariant.                      *)
THEOREM CacheInvariant == Spec => []IInv
<1>1. Init => IInv
  BY InitOK
<1>2. IInv /\ [Next]_vars => IInv'
  BY NextOK
<1> QED BY <1>1, <1>2, PTL DEF Spec

(* Types, and both lists of URLs, that of a memory cache and that of the   *)
(* directory, name each entry once, for any number of services and URLs.   *)
THEOREM CacheTypes == Spec => []TypeOK
<1>1. IInv => TypeOK
  BY DEF IInv, MemoryOK, DiskOK, MemoryTyped, FilesTyped, OpTyped, OpRecords, TypeOK
<1> QED BY <1>1, CacheInvariant, PTL

(* MemoryCache counts its bytes exactly and stays within max_bytes, so the *)
(* saturating subtractions of set never saturate.                          *)
THEOREM CacheMemoryBudget == Spec => []MemoryBudget
<1>1. IInv => MemoryBudget
  BY DEF IInv, MemoryOK
<1> QED BY <1>1, CacheInvariant, PTL

(* prune_if_needed brings the directory within its budget although each    *)
(* service works from a listing that the other makes stale: when nobody    *)
(* works on the disk, only a crash or a meta file that could not be read   *)
(* or removed can have left more, until the next whole scan.               *)
THEOREM CacheDiskBudget == Spec => []DiskBudget
<1>1. ASSUME IInv PROVE DiskBudget
  <2> SUFFICES ASSUME \A s \in Services : op[s] = Idle, ~unpruned
               PROVE  TotalBytes <= DiskMax
    BY DEF DiskBudget
  <2>1. BudgetOrClaim
    BY <1>1 DEF IInv, DiskOK
  <2>2. ASSUME NEW s \in Services PROVE ~Claim(s)
    <3>1. op[s].step = "idle"
      BY IdleGood, Zenon
    <3> QED BY <3>1, NoClaim
  <2> QED BY <2>1, <2>2, Zenon DEF BudgetOrClaim
<1>2. IInv => DiskBudget
  BY <1>1
<1> QED BY <1>2, CacheInvariant, PTL

(* Whatever the interleaving of the file accesses of get, set and prune in *)
(* several services: an entry that no crash, failed write or removal, or   *)
(* overlapping set damaged is whole.                                       *)
THEOREM CacheWhole == Spec => []WholeUnlessDamaged
<1>1. IInv => WholeUnlessDamaged
  BY DEF IInv, DiskOK, FilesAgree, Whole, WholeUnlessDamaged
<1> QED BY <1>1, CacheInvariant, PTL

(* DiskCache::get: undisturbed and of an undamaged entry, it loses no file *)
(* between its three file accesses and does not mix two images.            *)
THEOREM CacheUndisturbedGet == Spec => []UndisturbedGet
<1>1. IInv => UndisturbedGet
  BY DEF IInv, DiskOK, FilesAgree, GetAgrees, UndisturbedGet
<1> QED BY <1>1, CacheInvariant, PTL
=============================================================================
