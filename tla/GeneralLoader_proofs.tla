----------------------- MODULE GeneralLoader_proofs -----------------------
(***************************************************************************)
(* For all items, capacities and limits a loader keeps its caches within   *)
(* bounds and its index in step with the bundles, its item cache is stale  *)
(* only where an item was saved again, and it implements DurableStore.     *)
(***************************************************************************)
EXTENDS GeneralLoader, SequenceTheorems, FiniteSetTheorems, TLAPS

(* What the operations of an LRU cache do to its entries.                  *)

\* No two entries have the same id.
OneEntryPerId(cache) == \A i, j \in DOMAIN cache : cache[i][1] = cache[j][1] => i = j

\* An element of a sequence is removed.
LEMMA RemoveAtProperties ==
  ASSUME NEW S, NEW s \in Seq(S), NEW p \in DOMAIN s
  PROVE  /\ RemoveAt(s, p) \in Seq(S)
         /\ Len(RemoveAt(s, p)) = Len(s) - 1
         /\ \A k \in 1..(Len(s) - 1) : RemoveAt(s, p)[k] = IF k < p THEN s[k] ELSE s[k + 1]
<1> DEFINE n == Len(s)
<1>1. n \in Nat /\ p \in 1..n /\ \A i \in 1..n : s[i] \in S
  BY LenProperties, ElementOfSeq
<1> HIDE DEF n
<1>2. /\ p - 1 \in Int /\ p + 1 \in Int /\ n \in Int
      /\ \A i \in 1..(p - 1) : s[i] \in S
      /\ \A i \in (p + 1)..n : s[i] \in S
  BY <1>1
<1> DEFINE front == SubSeq(s, 1, p - 1)
           rest == SubSeq(s, p + 1, n)
<1>3. /\ front \in Seq(S) /\ Len(front) = p - 1
      /\ \A i \in 1..(p - 1) : front[i] = s[i]
  <2>1. /\ front \in Seq(S)
        /\ Len(front) = IF 1 <= p - 1 THEN (p - 1) - 1 + 1 ELSE 0
        /\ \A i \in 1..((p - 1) - 1 + 1) : front[i] = s[1 + i - 1]
    BY <1>2, SubSeqProperties, 1 \in Int
  <2>2. (p - 1) - 1 + 1 = p - 1 /\ \A i \in 1..(p - 1) : 1 + i - 1 = i
    BY <1>1
  <2>3. Len(front) = p - 1
    BY <1>1, <2>1
  <2> HIDE DEF front
  <2> QED BY <2>1, <2>2, <2>3
<1>4. /\ rest \in Seq(S) /\ Len(rest) = n - p
      /\ \A i \in 1..(n - p) : rest[i] = s[p + i]
  <2>1. /\ rest \in Seq(S)
        /\ Len(rest) = IF p + 1 <= n THEN n - (p + 1) + 1 ELSE 0
        /\ \A i \in 1..(n - (p + 1) + 1) : rest[i] = s[p + 1 + i - 1]
    BY <1>2, SubSeqProperties
  <2>2. n - (p + 1) + 1 = n - p /\ \A i \in 1..(n - p) : p + 1 + i - 1 = p + i
    BY <1>1
  <2>3. Len(rest) = n - p
    BY <1>1, <2>1
  <2> HIDE DEF rest
  <2> QED BY <2>1, <2>2, <2>3
<1>5. RemoveAt(s, p) = front \o rest
  BY DEF RemoveAt, n
<1> HIDE DEF front, rest
<1> QED BY <1>1, <1>3, <1>4, <1>5 DEF n

\* LRUCache.remove takes out the entry of the id and no other one.
LEMMA DiscardProperties ==
  ASSUME NEW S, NEW cache \in Seq(S), OneEntryPerId(cache), NEW id,
         NEW rest, rest = Discard(cache, id)
  PROVE  /\ rest \in Seq(S) /\ OneEntryPerId(rest)
         /\ Len(rest) \in Nat /\ Len(cache) \in Nat /\ Len(rest) <= Len(cache)
         /\ Contain(cache, id) => Len(rest) < Len(cache)
         /\ \A k \in DOMAIN rest : rest[k][1] # id /\ \E j \in DOMAIN cache : rest[k] = cache[j]
<1>1. Len(cache) \in Nat /\ DOMAIN cache = 1..Len(cache)
  BY LenProperties
<1>2. CASE ~Contain(cache, id)
  BY <1>1, <1>2 DEF Contain, Discard
<1>3. CASE Contain(cache, id)
  <2> DEFINE p == PlaceOf(cache, id)
  <2>1. p \in DOMAIN cache /\ cache[p][1] = id
    BY <1>3 DEF Contain, PlaceOf
  <2>6. rest = RemoveAt(cache, p)
    BY <1>3 DEF Discard
  <2> HIDE DEF p
  <2>2. /\ rest \in Seq(S) /\ Len(rest) = Len(cache) - 1
        /\ \A k \in 1..(Len(cache) - 1) : rest[k] = IF k < p THEN cache[k] ELSE cache[k + 1]
    BY <2>1, <2>6, RemoveAtProperties
  <2>3. DOMAIN rest = 1..(Len(cache) - 1)
    BY <2>2, LenProperties
  <2> DEFINE at(k) == IF k < p THEN k ELSE k + 1
  <2>4. \A k \in DOMAIN rest : at(k) \in DOMAIN cache /\ at(k) # p /\ rest[k] = cache[at(k)]
    BY <1>1, <2>1, <2>2, <2>3
  <2>5. \A k \in DOMAIN rest : rest[k][1] # id /\ \E j \in DOMAIN cache : rest[k] = cache[j]
    <3> SUFFICES ASSUME NEW k \in DOMAIN rest
                 PROVE  rest[k][1] # id /\ \E j \in DOMAIN cache : rest[k] = cache[j]
      OBVIOUS
    <3> HIDE DEF at
    <3>1. cache[at(k)][1] # cache[p][1]
      BY <2>1, <2>4 DEF OneEntryPerId
    <3> QED BY <2>1, <2>4, <3>1
  <2>7. OneEntryPerId(rest)
    <3> SUFFICES ASSUME NEW i \in DOMAIN rest, NEW j \in DOMAIN rest, rest[i][1] = rest[j][1]
                 PROVE  i = j
      BY DEF OneEntryPerId
    <3>1. at(i) = at(j)
      BY <2>4 DEF OneEntryPerId
    <3> QED BY <1>1, <2>1, <2>3, <3>1
  <2> QED BY <1>1, <2>2, <2>5, <2>7
<1> QED BY <1>2, <1>3

\* LRUCache.put brings in one entry and keeps to the capacity.
LEMMA PutProperties ==
  ASSUME NEW S, NEW cache \in Seq(S), NEW capacity \in Nat \ {0}, CacheOK(cache, capacity),
         NEW id, NEW data, <<id, data>> \in S
  PROVE  LET next == Put(cache, id, data, capacity)
         IN  /\ next \in Seq(S) /\ CacheOK(next, capacity)
             /\ \A k \in DOMAIN next :
                  next[k] = <<id, data>> \/ (next[k][1] # id /\ \E j \in DOMAIN cache : next[k] = cache[j])
<1>0. PICK rest : rest = Discard(cache, id)
  OBVIOUS
<1> DEFINE longer == Append(rest, <<id, data>>)
           n == Len(rest)
<1>1. /\ rest \in Seq(S) /\ OneEntryPerId(rest)
      /\ n \in Nat /\ n <= capacity
      /\ \A k \in DOMAIN rest : rest[k][1] # id /\ \E j \in DOMAIN cache : rest[k] = cache[j]
  <2>1. OneEntryPerId(cache) /\ Len(cache) <= capacity
    BY DEF CacheOK, OneEntryPerId
  <2>2. /\ rest \in Seq(S) /\ OneEntryPerId(rest)
        /\ n \in Nat /\ Len(cache) \in Nat /\ n <= Len(cache)
        /\ \A k \in DOMAIN rest : rest[k][1] # id /\ \E j \in DOMAIN cache : rest[k] = cache[j]
    BY <1>0, <2>1, DiscardProperties
  <2> HIDE DEF n
  <2> QED BY <2>1, <2>2
<1>2. /\ longer \in Seq(S) /\ longer # <<>> /\ Len(longer) = n + 1
      /\ \A k \in 1..n : longer[k] = rest[k]
      /\ longer[n + 1] = <<id, data>>
  BY <1>1, AppendProperties
<1>3. DOMAIN rest = 1..n /\ DOMAIN longer = 1..(n + 1)
  BY <1>1, <1>2, LenProperties
<1> HIDE DEF longer, n
<1>4. OneEntryPerId(longer)
  <2> SUFFICES ASSUME NEW i \in DOMAIN longer, NEW j \in DOMAIN longer, longer[i][1] = longer[j][1]
               PROVE  i = j
    BY DEF OneEntryPerId
  <2>1. <<id, data>>[1] = id
    OBVIOUS
  <2>2. (i \in 1..n \/ i = n + 1) /\ (j \in 1..n \/ j = n + 1)
    BY <1>1, <1>3
  <2> QED BY <1>1, <1>2, <1>3, <2>1, <2>2 DEF OneEntryPerId
<1>5. \A k \in DOMAIN longer :
        longer[k] = <<id, data>> \/ (longer[k][1] # id /\ \E j \in DOMAIN cache : longer[k] = cache[j])
  <2> SUFFICES ASSUME NEW k \in DOMAIN longer
               PROVE  longer[k] = <<id, data>> \/ (longer[k][1] # id /\ \E j \in DOMAIN cache : longer[k] = cache[j])
    OBVIOUS
  <2>1. k \in 1..n \/ k = n + 1
    BY <1>1, <1>3
  <2> QED BY <1>1, <1>2, <1>3, <2>1
<1>6. CASE n + 1 > capacity
  <2> DEFINE next == Tail(longer)
  <2>1. /\ next \in Seq(S) /\ Len(next) = n
        /\ \A k \in 1..n : next[k] = longer[k + 1]
    BY <1>1, <1>2, HeadTailProperties
  <2>2. DOMAIN next = 1..n
    BY <2>1, LenProperties
  <2>3. next = Put(cache, id, data, capacity)
    BY <1>0, <1>2, <1>6 DEF Put, longer
  <2> HIDE DEF next
  <2>4. \A k \in DOMAIN next : k + 1 \in DOMAIN longer /\ next[k] = longer[k + 1]
    BY <1>1, <1>3, <2>1, <2>2
  <2>5. \A i, j \in DOMAIN next : next[i][1] = next[j][1] => i = j
    BY <1>1, <1>4, <2>2, <2>4 DEF OneEntryPerId
  <2> QED BY <1>1, <1>5, <2>1, <2>3, <2>4, <2>5 DEF CacheOK
<1>7. CASE ~(n + 1 > capacity)
  <2>1. longer = Put(cache, id, data, capacity)
    BY <1>0, <1>2, <1>7 DEF Put, longer
  <2> QED BY <1>1, <1>2, <1>4, <1>5, <1>7, <2>1 DEF CacheOK, OneEntryPerId
<1> QED BY <1>6, <1>7

\* The data that a cache has for an id.
LEMMA LookupProperties ==
  ASSUME NEW cache, OneEntryPerId(cache)
  PROVE  /\ \A k \in DOMAIN cache : Lookup(cache, cache[k][1]) = cache[k][2]
         /\ \A id : Contain(cache, id) =>
              \E k \in DOMAIN cache : cache[k][1] = id /\ cache[k][2] = Lookup(cache, id)
BY DEF OneEntryPerId, Lookup, PlaceOf, Contain

\* A use of an entry moves it to the end.
LEMMA TouchProperties ==
  ASSUME NEW S, NEW cache \in Seq(S), NEW capacity \in Nat, CacheOK(cache, capacity),
         NEW id, Contain(cache, id),
         \A e \in S : e = <<e[1], e[2]>>
  PROVE  LET next == Touch(cache, id)
         IN  /\ next \in Seq(S) /\ CacheOK(next, capacity)
             /\ \A k \in DOMAIN next : \E j \in DOMAIN cache : next[k] = cache[j]
<1>0. PICK rest : rest = Discard(cache, id)
  OBVIOUS
<1> DEFINE entry == <<id, Lookup(cache, id)>>
           next == Append(rest, entry)
           n == Len(rest)
<1>1. /\ rest \in Seq(S) /\ OneEntryPerId(rest)
      /\ n \in Nat /\ n + 1 <= capacity
      /\ \A k \in DOMAIN rest : rest[k][1] # id /\ \E j \in DOMAIN cache : rest[k] = cache[j]
  <2>1. OneEntryPerId(cache)
    BY DEF CacheOK, OneEntryPerId
  <2>2. /\ rest \in Seq(S) /\ OneEntryPerId(rest)
        /\ n \in Nat /\ Len(cache) \in Nat /\ n < Len(cache)
        /\ \A k \in DOMAIN rest : rest[k][1] # id /\ \E j \in DOMAIN cache : rest[k] = cache[j]
    BY <1>0, <2>1, DiscardProperties
  <2>3. Len(cache) <= capacity
    BY DEF CacheOK
  <2> HIDE DEF n
  <2> QED BY <2>2, <2>3
<1>2. PICK p \in DOMAIN cache : cache[p][1] = id /\ cache[p][2] = Lookup(cache, id)
  BY LookupProperties DEF CacheOK, OneEntryPerId
<1>3. cache[p] \in S
  BY ElementOfSeq, LenProperties
<1>4. entry = cache[p]
  BY <1>2, <1>3
<1> HIDE DEF entry
<1>5. /\ next \in Seq(S) /\ Len(next) = n + 1
      /\ \A k \in 1..n : next[k] = rest[k]
      /\ next[n + 1] = entry
  BY <1>1, <1>3, <1>4, AppendProperties
<1>6. DOMAIN rest = 1..n /\ DOMAIN next = 1..(n + 1)
  BY <1>1, <1>5, LenProperties
<1>7. next = Touch(cache, id)
  BY <1>0 DEF Touch, entry
<1> HIDE DEF next, n
<1>8. \A k \in DOMAIN next : \E j \in DOMAIN cache : next[k] = cache[j]
  <2> SUFFICES ASSUME NEW k \in DOMAIN next PROVE \E j \in DOMAIN cache : next[k] = cache[j]
    OBVIOUS
  <2>1. k \in 1..n \/ k = n + 1
    BY <1>1, <1>6
  <2> QED BY <1>1, <1>2, <1>4, <1>5, <1>6, <2>1
<1>9. \A i, j \in DOMAIN next : next[i][1] = next[j][1] => i = j
  <2> SUFFICES ASSUME NEW i \in DOMAIN next, NEW j \in DOMAIN next, next[i][1] = next[j][1]
               PROVE  i = j
    OBVIOUS
  <2>1. (i \in 1..n \/ i = n + 1) /\ (j \in 1..n \/ j = n + 1)
    BY <1>1, <1>6
  <2> QED BY <1>1, <1>2, <1>4, <1>5, <1>6, <2>1 DEF OneEntryPerId
<1>10. CacheOK(next, capacity)
  BY <1>1, <1>5, <1>9 DEF CacheOK
<1> QED BY <1>5, <1>7, <1>8, <1>10

-----------------------------------------------------------------------------
(* The inductive invariant.                                                *)

\* What is stored of an item, found without the bundle cache.
KeptIn(index, items, files, i) ==
  IF i \notin DOMAIN index THEN {}
  ELSE IF index[i] = Active THEN ItemIn(items, i) ELSE ItemIn(files[index[i]], i)
Kept(i) == KeptIn(item_id_to_bundle_id, active_bundle, disk, i)

\* The content of all items that a bundle holds.
HoldsContents(items) == \A i \in DOMAIN items : items[i] \in Contents

\* The index leads to bundles that exist, and the active bundle has the items
\* that are said to be there and no other ones.
IndexOK(index, items, files) ==
  /\ DOMAIN index \subseteq Ids
  /\ \A i \in DOMAIN index : index[i] \in DOMAIN files \union {Active}
  /\ DOMAIN items = {i \in DOMAIN index : index[i] = Active}
  /\ HoldsContents(items)

\* The bundles are numbered from 0, and in a run none is missing.
FilesOK ==
  /\ DOMAIN disk \subseteq Nat
  /\ \A b \in DOMAIN disk : HoldsContents(disk[b])
  /\ \A i \in DOMAIN indexing : indexing[i] \in DOMAIN disk \union {Active}
  /\ DOMAIN indexing \subseteq Ids

RoleOK ==
  /\ role \in {"run", "exporting", "backup"}
  /\ role # "backup" =>
       /\ bundle_count \in Nat /\ DOMAIN disk = 0..(bundle_count - 1)
       /\ IndexOK(item_id_to_bundle_id, active_bundle, disk)
  /\ role = "backup" =>
       active_bundle = <<>> /\ active_bundle_length = 0 /\ item_id_to_bundle_id = indexing

\* The entries of the item cache.
Entries == Ids \X Contents

\* The bundle cache holds bundles as they are on disk.
Files == {<<b, disk[b]>> : b \in DOMAIN disk}
CachesOK ==
  /\ item_cache \in Seq(Entries) /\ CacheOK(item_cache, item_cache_capacity)
  /\ bundle_cache \in Seq(Files) /\ CacheOK(bundle_cache, bundle_cache_capacity)

\* What is not counted is empty, and between export() and export_indexing() no
\* rows are active.
NothingUncounted ==
  /\ active_bundle_length \in 0..MaxRows
  /\ active_bundle_length = 0 => \A i \in DOMAIN active_bundle : active_bundle[i] = {}
  /\ role = "exporting" => active_bundle_length = 0

ItemsFresh ==
  \A k \in DOMAIN item_cache : item_cache[k][1] \in resaved \/ item_cache[k][2] = Kept(item_cache[k][1])

IInv == FilesOK /\ RoleOK /\ CachesOK /\ NothingUncounted /\ ItemsFresh

-----------------------------------------------------------------------------
\* Contents have finitely many rows, and only the empty one has none.
LEMMA ContentsCounted ==
  \A content \in Contents : Cardinality(content) \in Nat /\ (Cardinality(content) = 0 => content = {})
BY BoundsAssumption, FS_Subset, FS_CardinalityType, FS_EmptySet DEF Contents

\* A sequence has the type of its elements.
LEMMA Retype ==
  ASSUME NEW S, NEW T, NEW s \in Seq(S), \A k \in DOMAIN s : s[k] \in T
  PROVE  s \in Seq(T)
<1>1. Len(s) \in Nat /\ s \in [1..Len(s) -> S] /\ DOMAIN s = 1..Len(s)
  BY LenProperties
<1>2. s \in [1..Len(s) -> T]
  BY <1>1
<1> QED BY <1>1, <1>2, SeqDef

\* A bundle is the same in the cache and on disk.
LEMMA BundleIsFile == CachesOK => \A b : BundleData(b) = disk[b]
<1> SUFFICES ASSUME CachesOK, NEW b, Contain(bundle_cache, b) PROVE Lookup(bundle_cache, b) = disk[b]
  BY DEF BundleData
<1>1. PICK k \in DOMAIN bundle_cache : bundle_cache[k][1] = b /\ bundle_cache[k][2] = Lookup(bundle_cache, b)
  BY LookupProperties DEF CachesOK, CacheOK, OneEntryPerId
<1>2. bundle_cache[k] \in Files
  BY LenProperties, ElementOfSeq DEF CachesOK
<1> QED BY <1>1, <1>2 DEF Files

\* The bundle cache does not show in what is stored.
LEMMA StoredIsKept == CachesOK => \A i : Stored(i) = Kept(i)
BY BundleIsFile DEF Stored, Kept, KeptIn

\* The same of the state after a step.
LEMMA StoredIsKeptNext == CachesOK' => \A i : Stored(i)' = Kept(i)'
<1>1. CachesOK' => (\A i : Stored(i) = Kept(i))'
  BY StoredIsKept, PTL
<1> QED BY <1>1

LEMMA KeptIsContent ==
  ASSUME FilesOK, RoleOK, NEW i PROVE Kept(i) \in Contents
<1>1. {} \in Contents
  BY DEF Contents
<1> QED BY <1>1 DEF FilesOK, RoleOK, IndexOK, HoldsContents, Kept, KeptIn, ItemIn

\* The initial state.
LEMMA InitEstablishes == Init => IInv
BY BoundsAssumption DEF Init, IInv, FilesOK, RoleOK, IndexOK, HoldsContents, CachesOK, CacheOK, Files,
   NothingUncounted, ItemsFresh

-----------------------------------------------------------------------------
(* The steps.  Each one keeps the invariant and does to what is stored     *)
(* (Kept) and to what a later run would find (Restorable) what             *)
(* DurableStore says of it.                                                *)

\* A read brings into the caches what is stored, and changes nothing else.
LEMMA GetStep ==
  ASSUME IInv, NEW i \in Ids, Get(i)
  PROVE  IInv' /\ \A j : Kept(j)' = Kept(j) /\ Restorable(j)' = Restorable(j)
<1> USE BoundsAssumption
<1> DEFINE b == item_id_to_bundle_id[i]
<1>1. /\ UNCHANGED <<active_bundle, active_bundle_length, item_id_to_bundle_id, bundle_count, disk, indexing, role>>
      /\ resaved' = {j \in resaved : Contain(item_cache', j)}
  BY DEF Get
<1>2. \A j : Kept(j)' = Kept(j) /\ Restorable(j)' = Restorable(j)
  BY <1>1 DEF Kept, Restorable
<1>3. FilesOK' /\ RoleOK' /\ NothingUncounted'
  BY <1>1 DEF IInv, FilesOK, RoleOK, NothingUncounted
<1>4. /\ bundle_cache' \in Seq(Files) /\ CacheOK(bundle_cache', bundle_cache_capacity)
  <2>1. CASE bundle_cache' = bundle_cache
    BY <2>1 DEF IInv, CachesOK
  <2>2. CASE bundle_cache' = Touch(bundle_cache, b) /\ Contain(bundle_cache, b)
    <3>1. \A e \in Files : e = <<e[1], e[2]>>
      BY DEF Files
    <3> QED BY <2>2, <3>1, TouchProperties DEF IInv, CachesOK
  <2>3. CASE bundle_cache' = Put(bundle_cache, b, disk[b], bundle_cache_capacity) /\ b \in DOMAIN disk
    <3>1. <<b, disk[b]>> \in Files
      BY <2>3 DEF Files
    <3> QED BY <2>3, <3>1, PutProperties DEF IInv, CachesOK
  <2>4. i \in DOMAIN item_id_to_bundle_id => b \in DOMAIN disk \union {Active}
    BY DEF IInv, RoleOK, FilesOK, IndexOK
  <2> QED BY <2>1, <2>2, <2>3, <2>4 DEF Get
<1>5. /\ item_cache' \in Seq(Entries) /\ CacheOK(item_cache', item_cache_capacity)
      /\ \A k \in DOMAIN item_cache' :
           item_cache'[k] = <<i, Kept(i)>> \/ \E j \in DOMAIN item_cache : item_cache'[k] = item_cache[j]
  <2>1. Stored(i) = Kept(i) /\ <<i, Kept(i)>> \in Entries
    BY StoredIsKept, KeptIsContent DEF IInv, Entries
  <2>2. CASE item_cache' = item_cache
    BY <2>2 DEF IInv, CachesOK
  <2>3. CASE item_cache' = Touch(item_cache, i) /\ Contain(item_cache, i)
    <3>1. \A e \in Entries : e = <<e[1], e[2]>>
      BY DEF Entries
    <3> QED BY <2>3, <3>1, TouchProperties DEF IInv, CachesOK
  <2>4. CASE item_cache' = Put(item_cache, i, Kept(i), item_cache_capacity)
    BY <2>1, <2>4, PutProperties DEF IInv, CachesOK
  <2> QED BY <2>1, <2>2, <2>3, <2>4 DEF Get
<1>6. CachesOK'
  BY <1>1, <1>4, <1>5 DEF CachesOK, Files
<1>7. ItemsFresh'
  <2> SUFFICES ASSUME NEW k \in DOMAIN item_cache', item_cache'[k][1] \notin resaved'
               PROVE  item_cache'[k][2] = Kept(item_cache'[k][1])
    BY <1>2 DEF ItemsFresh
  <2>1. Contain(item_cache', item_cache'[k][1])
    BY DEF Contain
  <2>2. item_cache'[k][1] \notin resaved
    BY <1>1, <2>1
  <2> QED BY <1>5, <2>2 DEF IInv, ItemsFresh
<1> QED BY <1>2, <1>3, <1>6, <1>7 DEF IInv

\* What is active goes into a new bundle, which leads no item astray.
LEMMA ExportedStep ==
  ASSUME IInv, role = "run", NEW items, NEW index, NEW length \in Nat \ {0},
         IndexOK(index, items, disk), Exported(items, index, length), indexing' = indexing
  PROVE  /\ FilesOK' /\ bundle_count' \in Nat /\ DOMAIN disk' = 0..(bundle_count' - 1)
         /\ IndexOK(item_id_to_bundle_id', active_bundle', disk')
         /\ bundle_cache' \in Seq(Files') /\ CacheOK(bundle_cache', bundle_cache_capacity)
         /\ active_bundle' = <<>> /\ active_bundle_length' = 0
         /\ \A j : Kept(j)' = KeptIn(index, items, disk, j) /\ Restorable(j)' = Restorable(j)
<1> USE BoundsAssumption
<1>1. /\ DOMAIN disk' = DOMAIN disk \union {bundle_count}
      /\ disk'[bundle_count] = items
      /\ \A b \in DOMAIN disk \ {bundle_count} : disk'[b] = disk[b]
      /\ item_id_to_bundle_id' = IndexOfExport(index)
      /\ bundle_count' = bundle_count + 1
      /\ active_bundle' = <<>> /\ active_bundle_length' = 0
  BY DEF Exported
<1>2. bundle_count \in Nat /\ DOMAIN disk = 0..(bundle_count - 1) /\ bundle_count \notin DOMAIN disk
      /\ Active \notin DOMAIN disk /\ bundle_count # Active
  BY DEF IInv, RoleOK, Active
<1>3. DOMAIN disk' = 0..(bundle_count' - 1) /\ bundle_count' \in Nat
  BY <1>1, <1>2
<1>4. HoldsContents(items) /\ \A b \in DOMAIN disk' : HoldsContents(disk'[b])
  BY <1>1, <1>2 DEF IInv, FilesOK, IndexOK
<1>5. FilesOK'
  BY <1>1, <1>2, <1>3, <1>4 DEF IInv, FilesOK
<1>6. IndexOK(item_id_to_bundle_id', active_bundle', disk')
  <2>1. DOMAIN <<>> = {}
    OBVIOUS
  <2>2. HoldsContents(active_bundle')
    BY <1>1, <2>1 DEF HoldsContents
  <2> QED BY <1>1, <1>2, <2>1, <2>2 DEF IndexOK, IndexOfExport
<1>7. bundle_cache' \in Seq(Files') /\ CacheOK(bundle_cache', bundle_cache_capacity)
  <2>1. Files \subseteq Files' /\ <<bundle_count, items>> \in Files'
    BY <1>1, <1>2 DEF Files
  <2>2. bundle_cache \in Seq(Files')
    <3>1. bundle_cache \in Seq(Files)
      BY DEF IInv, CachesOK
    <3> QED BY <2>1, <3>1, SeqMonotonic
  <2>3. CASE bundle_cache' = bundle_cache
    BY <2>2, <2>3 DEF IInv, CachesOK
  <2>4. CASE bundle_cache' = Put(bundle_cache, bundle_count, items, bundle_cache_capacity)
    BY <2>1, <2>2, <2>4, PutProperties DEF IInv, CachesOK
  <2> QED BY <2>3, <2>4 DEF Exported
<1>8. ASSUME NEW j PROVE Kept(j)' = KeptIn(index, items, disk, j)
  BY <1>1, <1>2 DEF Kept, KeptIn, IndexOfExport, IndexOK
<1>9. ASSUME NEW j PROVE Restorable(j)' = Restorable(j)
  BY <1>1, <1>2 DEF Restorable, IInv, FilesOK
<1> QED BY <1>1, <1>3, <1>5, <1>6, <1>7, <1>8, <1>9

\* An item that is saved is what is stored of it from then on.
LEMMA SaveStep ==
  ASSUME IInv, NEW i \in Ids, NEW content \in Contents, Save(i, content)
  PROVE  /\ IInv'
         /\ \A j : Kept(j)' = (IF j = i THEN content ELSE Kept(j)) /\ Restorable(j)' = Restorable(j)
<1> USE BoundsAssumption
<1> DEFINE With(f, value) == [j \in DOMAIN f \union {i} |-> IF j = i THEN value ELSE f[j]]
           items == With(active_bundle, content)
           index == With(item_id_to_bundle_id, Active)
           length == active_bundle_length + Cardinality(content)
<1>1. /\ role = "run" /\ UNCHANGED <<item_cache, indexing, role>>
      /\ resaved' = IF Contain(item_cache, i) THEN resaved \union {i} ELSE resaved
      /\ IF length > MaxRows THEN Exported(items, index, length)
         ELSE /\ active_bundle' = items /\ item_id_to_bundle_id' = index
              /\ active_bundle_length' = length
              /\ UNCHANGED <<disk, bundle_cache, bundle_count>>
  BY Zenon DEF Save
<1>2. length \in Nat /\ (length = 0 => content = {} /\ active_bundle_length = 0)
  BY ContentsCounted DEF IInv, NothingUncounted
<1>3. IndexOK(index, items, disk)
  <2>1. IndexOK(item_id_to_bundle_id, active_bundle, disk)
    BY <1>1 DEF IInv, RoleOK
  <2> QED BY <2>1 DEF IndexOK, HoldsContents
<1>4. \A j : KeptIn(index, items, disk, j) = IF j = i THEN content ELSE Kept(j)
  <2>1. IndexOK(item_id_to_bundle_id, active_bundle, disk)
    BY <1>1 DEF IInv, RoleOK
  <2> QED BY <2>1 DEF IndexOK, Kept, KeptIn, ItemIn
<1>5. (length = 0) => \A j \in DOMAIN items : items[j] = {}
  BY <1>2 DEF IInv, NothingUncounted
<1> HIDE DEF items, index, length
<1>6. /\ FilesOK' /\ bundle_cache' \in Seq(Files') /\ CacheOK(bundle_cache', bundle_cache_capacity)
      /\ bundle_count' \in Nat /\ DOMAIN disk' = 0..(bundle_count' - 1)
      /\ IndexOK(item_id_to_bundle_id', active_bundle', disk')
      /\ active_bundle_length' \in 0..MaxRows
      /\ active_bundle_length' = 0 => \A j \in DOMAIN active_bundle' : active_bundle'[j] = {}
      /\ \A j : Kept(j)' = KeptIn(index, items, disk, j) /\ Restorable(j)' = Restorable(j)
  <2>1. CASE length > MaxRows
    <3>1. length \in Nat \ {0} /\ Exported(items, index, length)
      BY <1>1, <1>2, <2>1
    <3>2. active_bundle' = <<>> /\ active_bundle_length' = 0
      BY <1>1, <1>3, <3>1, ExportedStep
    <3> QED BY <1>1, <1>3, <3>1, <3>2, ExportedStep
  <2>2. CASE ~(length > MaxRows)
    <3>1. /\ active_bundle' = items /\ item_id_to_bundle_id' = index /\ active_bundle_length' = length
          /\ UNCHANGED <<disk, bundle_cache, bundle_count, indexing>>
      BY <1>1, <2>2
    <3>2. FilesOK' /\ bundle_count' \in Nat /\ DOMAIN disk' = 0..(bundle_count' - 1)
      BY <1>1, <3>1 DEF IInv, FilesOK, RoleOK
    <3>3. bundle_cache' \in Seq(Files') /\ CacheOK(bundle_cache', bundle_cache_capacity)
      BY <3>1 DEF IInv, CachesOK, Files
    <3>4. \A j : Kept(j)' = KeptIn(index, items, disk, j) /\ Restorable(j)' = Restorable(j)
      BY <3>1 DEF Kept, Restorable
    <3> QED BY <1>2, <1>3, <1>5, <2>2, <3>1, <3>2, <3>3, <3>4
  <2> QED BY <2>1, <2>2
<1>7. RoleOK' /\ NothingUncounted' /\ CachesOK'
  BY <1>1, <1>6 DEF RoleOK, NothingUncounted, CachesOK, IInv
<1>8. \A j : Kept(j)' = (IF j = i THEN content ELSE Kept(j)) /\ Restorable(j)' = Restorable(j)
  BY <1>4, <1>6
<1>9. ItemsFresh'
  <2> SUFFICES ASSUME NEW k \in DOMAIN item_cache', item_cache'[k][1] \notin resaved'
               PROVE  item_cache'[k][1] # i /\ item_cache'[k][2] = Kept(item_cache'[k][1])
    BY <1>8 DEF ItemsFresh
  <2>1. item_cache[k][1] # i /\ item_cache[k][1] \notin resaved
    BY <1>1 DEF Contain
  <2> QED BY <1>1, <2>1 DEF IInv, ItemsFresh
<1> QED BY <1>6, <1>7, <1>8, <1>9 DEF IInv

\* An item that is removed is stored no more, in its bundle nor in the caches.
LEMMA RemoveStep ==
  ASSUME IInv, NEW i \in Ids, RemoveItem(i)
  PROVE  /\ IInv'
         /\ \A j : Kept(j)' = (IF j = i THEN {} ELSE Kept(j))
         /\ \A j : j # i => Restorable(j)' = Restorable(j)
         /\ Restorable(i)' \in {Restorable(i), {}}
<1> USE BoundsAssumption
<1> DEFINE b == item_id_to_bundle_id[i]
<1>1. /\ role = "run" /\ i \in DOMAIN item_id_to_bundle_id
      /\ UNCHANGED <<active_bundle_length, bundle_count, indexing, role>>
      /\ item_cache' = Discard(item_cache, i) /\ resaved' = resaved \ {i}
      /\ item_id_to_bundle_id' = Without(item_id_to_bundle_id, i)
      /\ b = Active => active_bundle' = Without(active_bundle, i) /\ bundle_cache' = bundle_cache /\ disk' = disk
      /\ b # Active => /\ active_bundle' = active_bundle /\ bundle_cache' = Discard(bundle_cache, b)
                       /\ disk' = [disk EXCEPT ![b] = Without(@, i)]
  BY DEF RemoveItem
<1>2. IndexOK(item_id_to_bundle_id, active_bundle, disk)
  BY <1>1 DEF IInv, RoleOK
<1>3. DOMAIN disk' = DOMAIN disk /\ \A c \in DOMAIN disk :
         disk'[c] = IF c = b /\ b # Active THEN Without(disk[c], i) ELSE disk[c]
  BY <1>1
<1>4. FilesOK'
  BY <1>1, <1>3 DEF IInv, FilesOK, HoldsContents, Without, Restrict
<1>5. IndexOK(item_id_to_bundle_id', active_bundle', disk')
  <2>1. /\ DOMAIN item_id_to_bundle_id' = DOMAIN item_id_to_bundle_id \ {i}
        /\ \A j \in DOMAIN item_id_to_bundle_id' : item_id_to_bundle_id'[j] = item_id_to_bundle_id[j]
    BY <1>1 DEF Without, Restrict
  <2>2. CASE b = Active
    <3>1. /\ DOMAIN active_bundle' = DOMAIN active_bundle \ {i}
          /\ \A j \in DOMAIN active_bundle' : active_bundle'[j] = active_bundle[j]
      BY <1>1, <2>2 DEF Without, Restrict
    <3> QED BY <1>1, <1>2, <1>3, <2>1, <3>1 DEF IndexOK, HoldsContents
  <2>3. CASE b # Active
    <3>1. active_bundle' = active_bundle
      BY <1>1, <2>3
    <3> QED BY <1>1, <1>2, <1>3, <2>1, <2>3, <3>1 DEF IndexOK, HoldsContents
  <2> QED BY <2>2, <2>3
<1>6. RoleOK' /\ NothingUncounted'
  BY <1>1, <1>3, <1>5 DEF IInv, RoleOK, NothingUncounted, Without, Restrict
<1>7. \A j : Kept(j)' = (IF j = i THEN {} ELSE Kept(j))
  BY <1>1, <1>2, <1>3 DEF IndexOK, Kept, KeptIn, ItemIn, Without, Restrict
<1>8. /\ \A j : j # i => Restorable(j)' = Restorable(j)
      /\ Restorable(i)' \in {Restorable(i), {}}
  BY <1>1, <1>3 DEF IInv, FilesOK, Restorable, ItemIn, Without, Restrict
<1>9. /\ bundle_cache' \in Seq(Files') /\ CacheOK(bundle_cache', bundle_cache_capacity)
  <2>1. CASE b = Active
    BY <1>1, <2>1 DEF IInv, CachesOK, Files
  <2>2. CASE b # Active
    <3>1. OneEntryPerId(bundle_cache) /\ bundle_cache \in Seq(Files) /\ Len(bundle_cache) <= bundle_cache_capacity
      BY DEF IInv, CachesOK, CacheOK, OneEntryPerId
    <3>2. /\ bundle_cache' \in Seq(Files) /\ OneEntryPerId(bundle_cache')
          /\ Len(bundle_cache') \in Nat /\ Len(bundle_cache) \in Nat /\ Len(bundle_cache') <= Len(bundle_cache)
          /\ \A k \in DOMAIN bundle_cache' : bundle_cache'[k][1] # b
      BY <1>1, <2>2, <3>1, DiscardProperties
    <3>3. \A k \in DOMAIN bundle_cache' : bundle_cache'[k] \in Files'
      <4> SUFFICES ASSUME NEW k \in DOMAIN bundle_cache' PROVE bundle_cache'[k] \in Files'
        OBVIOUS
      <4>1. bundle_cache'[k] \in Files
        BY <3>2, LenProperties, ElementOfSeq
      <4> QED BY <1>3, <3>2, <4>1 DEF Files
    <3> QED BY <3>1, <3>2, <3>3, Retype DEF CacheOK, OneEntryPerId
  <2> QED BY <2>1, <2>2
<1>10. /\ item_cache' \in Seq(Entries) /\ CacheOK(item_cache', item_cache_capacity)
       /\ \A k \in DOMAIN item_cache' :
            item_cache'[k][1] # i /\ \E j \in DOMAIN item_cache : item_cache'[k] = item_cache[j]
  <2>1. OneEntryPerId(item_cache) /\ item_cache \in Seq(Entries) /\ Len(item_cache) <= item_cache_capacity
    BY DEF IInv, CachesOK, CacheOK, OneEntryPerId
  <2>2. /\ item_cache' \in Seq(Entries) /\ OneEntryPerId(item_cache')
        /\ Len(item_cache') \in Nat /\ Len(item_cache) \in Nat /\ Len(item_cache') <= Len(item_cache)
        /\ \A k \in DOMAIN item_cache' :
             item_cache'[k][1] # i /\ \E j \in DOMAIN item_cache : item_cache'[k] = item_cache[j]
    BY <1>1, <2>1, DiscardProperties
  <2> QED BY <2>1, <2>2 DEF CacheOK, OneEntryPerId
<1>11. ItemsFresh'
  BY <1>1, <1>7, <1>10 DEF IInv, ItemsFresh
<1> QED BY <1>4, <1>6, <1>7, <1>8, <1>9, <1>10, <1>11 DEF IInv, CachesOK

\* export() moves what is active, and nothing is left that is counted.
LEMMA ExportStep ==
  ASSUME IInv, Export
  PROVE  IInv' /\ \A j : Kept(j)' = Kept(j) /\ Restorable(j)' = Restorable(j)
<1> USE BoundsAssumption
<1>1. /\ role = "run" /\ role' = "exporting" /\ UNCHANGED <<item_cache, indexing, resaved>>
      /\ Exported(active_bundle, item_id_to_bundle_id, active_bundle_length)
  BY DEF Export
<1>2. active_bundle_length \in Nat /\ IndexOK(item_id_to_bundle_id, active_bundle, disk)
  BY <1>1 DEF IInv, RoleOK, NothingUncounted
<1>3. /\ FilesOK' /\ bundle_cache' \in Seq(Files') /\ CacheOK(bundle_cache', bundle_cache_capacity)
      /\ bundle_count' \in Nat /\ DOMAIN disk' = 0..(bundle_count' - 1)
      /\ IndexOK(item_id_to_bundle_id', active_bundle', disk')
      /\ active_bundle_length' = 0 /\ \A j \in DOMAIN active_bundle' : active_bundle'[j] = {}
      /\ \A j : Kept(j)' = Kept(j) /\ Restorable(j)' = Restorable(j)
  <2>1. CASE active_bundle_length > 0
    <3>1. active_bundle_length \in Nat \ {0}
      BY <1>2, <2>1
    <3>2. active_bundle' = <<>>
      BY <1>1, <1>2, <3>1, ExportedStep
    <3> QED BY <1>1, <1>2, <3>1, <3>2, ExportedStep DEF Kept
  <2>2. CASE ~(active_bundle_length > 0)
    <3>1. UNCHANGED <<active_bundle, active_bundle_length, item_id_to_bundle_id, disk, bundle_cache, bundle_count>>
      BY <1>1, <2>2 DEF Exported
    <3>2. active_bundle_length = 0
      BY <1>2, <2>2
    <3> QED BY <1>1, <3>1, <3>2 DEF IInv, FilesOK, RoleOK, CachesOK, Files, NothingUncounted, Kept, Restorable
  <2> QED BY <2>1, <2>2
<1>4. RoleOK' /\ NothingUncounted' /\ CachesOK'
  BY <1>1, <1>3 DEF RoleOK, NothingUncounted, CachesOK, IInv
<1>5. ItemsFresh'
  BY <1>1, <1>3 DEF IInv, ItemsFresh
<1> QED BY <1>3, <1>4, <1>5 DEF IInv

\* export_indexing() makes what is stored what a later run would find: what is
\* still active by then has no rows.
LEMMA ExportIndexingStep ==
  ASSUME IInv, ExportIndexing
  PROVE  IInv' /\ \A j : Kept(j)' = Kept(j) /\ Restorable(j)' = Kept(j)
<1>1. /\ role = "exporting" /\ role' = "run" /\ indexing' = item_id_to_bundle_id
      /\ UNCHANGED <<item_cache, bundle_cache, active_bundle, active_bundle_length, item_id_to_bundle_id,
                     bundle_count, disk, resaved>>
  BY DEF ExportIndexing, memory
<1>2. IndexOK(item_id_to_bundle_id, active_bundle, disk) /\ \A j \in DOMAIN active_bundle : active_bundle[j] = {}
  BY <1>1 DEF IInv, RoleOK, NothingUncounted
<1>3. \A j : Kept(j)' = Kept(j) /\ Restorable(j)' = Kept(j)
  BY <1>1, <1>2 DEF IndexOK, Kept, KeptIn, Restorable, ItemIn
<1>4. FilesOK' /\ RoleOK' /\ CachesOK' /\ NothingUncounted'
  BY <1>1, <1>2 DEF IInv, FilesOK, RoleOK, CachesOK, Files, NothingUncounted, IndexOK
<1>5. ItemsFresh'
  BY <1>1, <1>3 DEF IInv, ItemsFresh
<1> QED BY <1>3, <1>4, <1>5 DEF IInv

\* A later run finds what it should, wherever the run before it stopped.
LEMMA RestoreStep ==
  ASSUME IInv, Restore
  PROVE  IInv' /\ \A j : Kept(j)' = Restorable(j) /\ Restorable(j)' = Restorable(j)
<1> USE BoundsAssumption
<1>1. /\ role' = "backup" /\ item_id_to_bundle_id' = indexing
      /\ item_cache' = <<>> /\ bundle_cache' = <<>> /\ active_bundle' = <<>> /\ active_bundle_length' = 0
      /\ UNCHANGED <<disk, indexing>>
  BY DEF Restore
<1>2. DOMAIN <<>> = {}
  OBVIOUS
<1>3. \A j : Kept(j)' = Restorable(j) /\ Restorable(j)' = Restorable(j)
  BY <1>1, <1>2 DEF Kept, KeptIn, Restorable, ItemIn
<1>4. FilesOK' /\ RoleOK' /\ NothingUncounted' /\ ItemsFresh'
  BY <1>1, <1>2 DEF IInv, FilesOK, RoleOK, NothingUncounted, ItemsFresh
<1>5. CachesOK'
  BY <1>1 DEF CachesOK, CacheOK
<1> QED BY <1>3, <1>4, <1>5 DEF IInv

\* Nothing happens.
LEMMA StutterStep ==
  ASSUME IInv, UNCHANGED vars
  PROVE  IInv' /\ \A j : Kept(j)' = Kept(j) /\ Restorable(j)' = Restorable(j)
BY DEF vars, memory, IInv, FilesOK, RoleOK, CachesOK, Files, NothingUncounted, ItemsFresh, Kept, Restorable

-----------------------------------------------------------------------------
\* The caches, the index, the bundles and the active bundle stay in step.
THEOREM Inductive == Spec => []IInv
<1>1. IInv /\ [Next]_vars => IInv'
  BY GetStep, SaveStep, RemoveStep, ExportStep, ExportIndexingStep, RestoreStep, StutterStep DEF Next
<1> QED BY <1>1, InitEstablishes, PTL DEF Spec

\* The caches keep to their capacities, and the index leads to bundles and active
\* items that exist, whatever is saved, removed, exported and read in any order.
THEOREM TypeCorrect == Spec => []TypeOK
<1>1. IInv => TypeOK
  <2> SUFFICES ASSUME IInv PROVE TypeOK
    OBVIOUS
  <2>1. DOMAIN <<>> = {}
    OBVIOUS
  <2>2. DOMAIN active_bundle \subseteq Ids /\ Range(active_bundle) \subseteq Contents
    BY <2>1 DEF IInv, RoleOK, IndexOK, HoldsContents, Range
  <2>3. /\ DOMAIN item_id_to_bundle_id \subseteq Ids
        /\ Range(item_id_to_bundle_id) \subseteq DOMAIN disk \union {Active}
        /\ Range(indexing) \subseteq DOMAIN disk \union {Active}
    BY DEF IInv, RoleOK, FilesOK, IndexOK, Range
  <2> QED BY <2>2, <2>3 DEF IInv, RoleOK, IndexOK, CachesOK, NothingUncounted, TypeOK
<1> QED BY <1>1, Inductive, PTL

\* The item cache is stale for no other item than one that was saved again while
\* it was there.
THEOREM StaleOnlyIfSaved == Spec => []StaleOnlyAfterSave
<1>1. IInv => StaleOnlyAfterSave
  <2> SUFFICES ASSUME IInv, NEW i \in Ids, Contain(item_cache, i), i \notin resaved
               PROVE  Lookup(item_cache, i) = Stored(i)
    BY DEF StaleOnlyAfterSave
  <2>1. OneEntryPerId(item_cache)
    BY DEF IInv, CachesOK, CacheOK, OneEntryPerId
  <2>2. PICK k \in DOMAIN item_cache : item_cache[k][1] = i /\ item_cache[k][2] = Lookup(item_cache, i)
    BY <2>1, LookupProperties
  <2>3. Stored(i) = Kept(i)
    BY StoredIsKept DEF IInv
  <2> QED BY <2>2, <2>3 DEF IInv, ItemsFresh
<1> QED BY <1>1, Inductive, PTL

\* Past the item cache a loader is a durable store: each step is a step of the
\* store or shows nothing there.
THEOREM ImplementsStore == Spec => StoreSpec
<1>1. Init => Durable!Init
  BY DEF Init, Durable!Init, Stored, Restorable
<1>2. IInv /\ IInv' /\ [Next]_vars => [Durable!Next]_<<[i \in Ids |-> Stored(i)], [i \in Ids |-> Restorable(i)]>>
  <2> SUFFICES ASSUME IInv, IInv', [Next]_vars
               PROVE  [Durable!Next]_<<[i \in Ids |-> Stored(i)], [i \in Ids |-> Restorable(i)]>>
    OBVIOUS
  <2>1. \A j : Stored(j) = Kept(j) /\ Stored(j)' = Kept(j)'
    BY StoredIsKept, StoredIsKeptNext DEF IInv
  <2> DEFINE store == [i \in Ids |-> Stored(i)]
             exported == [i \in Ids |-> Restorable(i)]
  <2>2. CASE \A j : Kept(j)' = Kept(j) /\ Restorable(j)' = Restorable(j)
    <3>1. UNCHANGED <<store, exported>>
      BY <2>1, <2>2
    <3> QED BY <3>1
  <2>3. ASSUME NEW i \in Ids, NEW content \in Contents, Save(i, content)
        PROVE  Durable!Save(i, content)
    <3>1. \A j : Kept(j)' = (IF j = i THEN content ELSE Kept(j)) /\ Restorable(j)' = Restorable(j)
      BY <2>3, SaveStep
    <3> QED BY <2>1, <3>1 DEF Durable!Save
  <2>4. ASSUME NEW i \in Ids, RemoveItem(i)
        PROVE  Durable!Remove(i)
    <3>1. /\ \A j : Kept(j)' = (IF j = i THEN {} ELSE Kept(j))
          /\ \A j : j # i => Restorable(j)' = Restorable(j)
          /\ Restorable(i)' \in {Restorable(i), {}}
      BY <2>4, RemoveStep
    <3>2. store' = [store EXCEPT ![i] = {}]
      BY <2>1, <3>1
    <3>3. exported' \in {exported, [exported EXCEPT ![i] = {}]}
      BY <3>1
    <3> QED BY <3>2, <3>3 DEF Durable!Remove
  <2>5. ASSUME ExportIndexing PROVE Durable!Export
    <3>1. \A j : Kept(j)' = Kept(j) /\ Restorable(j)' = Kept(j)
      BY <2>5, ExportIndexingStep
    <3> QED BY <2>1, <3>1 DEF Durable!Export
  <2>6. ASSUME Restore PROVE Durable!Reopen
    <3>1. \A j : Kept(j)' = Restorable(j) /\ Restorable(j)' = Restorable(j)
      BY <2>6, RestoreStep
    <3> QED BY <2>1, <3>1 DEF Durable!Reopen
  <2>7. \A i \in Ids : Get(i) => \A j : Kept(j)' = Kept(j) /\ Restorable(j)' = Restorable(j)
    BY GetStep
  <2>8. Export \/ UNCHANGED vars => \A j : Kept(j)' = Kept(j) /\ Restorable(j)' = Restorable(j)
    BY ExportStep, StutterStep
  <2> QED BY <2>2, <2>3, <2>4, <2>5, <2>6, <2>7, <2>8 DEF Next, Durable!Next
<1> QED BY <1>1, <1>2, Inductive, PTL DEF Spec, StoreSpec, Durable!Spec
=============================================================================
