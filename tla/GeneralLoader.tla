---------------------------- MODULE GeneralLoader ----------------------------
(***************************************************************************)
(* GeneralLoader (util/loader.py): items are collected in an active        *)
(* bundle, written to disk a bundle at a time and read back through two    *)
(* LRU caches.  An index file tells a later run which bundle an item is    *)
(* in; that run opens the workspace of this one, wherever it stopped, as   *)
(* its backup and only reads it (UnitLevelIncrementalChecker).             *)
(*                                                                         *)
(* The content of an item is the set of its rows; None, an empty list and  *)
(* an item without rows read alike.                                        *)
(***************************************************************************)
EXTENDS Integers, Sequences, FiniteSets, SequencesExt, Functions

CONSTANTS
  Ids, Rows,
  MaxRows,               \* config.MAX_ROWS
  item_cache_capacity, bundle_cache_capacity,
  Kinds,                 \* the loaders of a run: "GeneralLoader", "UnitGIRLoader"
  MaxBundles             \* bound of this model: no save when so many bundles exist

ASSUME BoundsAssumption ==
  /\ MaxRows \in Nat /\ MaxBundles \in Nat
  /\ item_cache_capacity \in Nat \ {0} /\ bundle_cache_capacity \in Nat \ {0}
  /\ Kinds \subseteq {"GeneralLoader", "UnitGIRLoader"}
  /\ IsFiniteSet(Rows)

Contents == SUBSET Rows
Active == -1

VARIABLES
  kind,                     \* the class of the loader
  item_cache, bundle_cache,
  active_bundle,            \* id -> content
  active_bundle_length,
  item_id_to_bundle_id,
  bundle_count,
  disk,                     \* bundle id -> (id -> content), the bundle files
  indexing,                 \* the index file
  role,                     \* "run", "exporting" (inside Loader.export) or "backup"
  resaved                   \* history: the ids saved while the item cache held them

memory == <<item_cache, bundle_cache, active_bundle, active_bundle_length,
            item_id_to_bundle_id, bundle_count>>
vars == <<kind, memory, disk, indexing, role, resaved>>

Init ==
  /\ kind \in Kinds
  /\ item_cache = <<>> /\ bundle_cache = <<>>
  /\ active_bundle = <<>> /\ active_bundle_length = 0
  /\ item_id_to_bundle_id = <<>> /\ bundle_count = 0
  /\ disk = <<>> /\ indexing = <<>>
  /\ role = "run" /\ resaved = {}

-----------------------------------------------------------------------------
(* util.LRUCache: the entries <<id, data>> from the least to the most      *)
(* recently used one, which is the order of the linked list.               *)

Contain(cache, id) == \E i \in DOMAIN cache : cache[i][1] = id
PlaceOf(cache, id) == CHOOSE i \in DOMAIN cache : cache[i][1] = id

\* LRUCache.get of an id that is there, without the use it counts as.
Lookup(cache, id) == cache[PlaceOf(cache, id)][2]

\* LRUCache.remove
Discard(cache, id) == IF Contain(cache, id) THEN RemoveAt(cache, PlaceOf(cache, id)) ELSE cache

\* Mutant: nothing is evicted.
PutUnbounded(cache, id, data, capacity) == Append(Discard(cache, id), <<id, data>>)

\* LRUCache.put: the least recently used entry goes when there are too many.
Put(cache, id, data, capacity) ==
  LET longer == Append(Discard(cache, id), <<id, data>>)
  IN  IF Len(longer) > capacity THEN Tail(longer) ELSE longer

\* LRUCache.get: the entry becomes the most recently used one.
Touch(cache, id) == Append(Discard(cache, id), <<id, Lookup(cache, id)>>)

-----------------------------------------------------------------------------
\* The bundle as a read finds it, in the cache or on disk.
BundleData(b) == IF Contain(bundle_cache, b) THEN Lookup(bundle_cache, b) ELSE disk[b]

ItemIn(data, i) == IF i \in DOMAIN data THEN data[i] ELSE {}

\* What get_raw_item_by_id finds past the item cache.
Stored(i) ==
  IF i \notin DOMAIN item_id_to_bundle_id THEN {}
  ELSE IF item_id_to_bundle_id[i] = Active THEN ItemIn(active_bundle, i)
  ELSE ItemIn(BundleData(item_id_to_bundle_id[i]), i)

\* What get_raw_item_by_id returns.
Read(i) == IF Contain(item_cache, i) THEN Lookup(item_cache, i) ELSE Stored(i)

\* The item came from the item cache, or is put there; only an unknown id and an
\* id whose active item is missing are not cached.
Get(i) ==
  /\ role # "exporting"
  /\ LET known  == i \in DOMAIN item_id_to_bundle_id
         b      == item_id_to_bundle_id[i]
         cached == Contain(item_cache, i)
     IN  /\ item_cache' =
              IF cached THEN Touch(item_cache, i)
              ELSE IF known /\ (b # Active \/ i \in DOMAIN active_bundle)
              THEN Put(item_cache, i, Stored(i), item_cache_capacity)
              ELSE item_cache
         /\ bundle_cache' =
              IF cached \/ ~known THEN bundle_cache
              ELSE IF b = Active THEN bundle_cache
              ELSE IF Contain(bundle_cache, b) THEN Touch(bundle_cache, b)
              ELSE Put(bundle_cache, b, disk[b], bundle_cache_capacity)
  /\ resaved' = {j \in resaved : Contain(item_cache', j)}
  /\ UNCHANGED <<active_bundle, active_bundle_length, item_id_to_bundle_id, bundle_count,
                 disk, indexing, role, kind>>

\* Mutant: every item is taken to be in the new bundle.
IndexAllNew(index) == [i \in DOMAIN index |-> bundle_count]

\* The items of the active bundle are in the new bundle.
IndexOfExport(index) ==
  [i \in DOMAIN index |-> IF index[i] = Active THEN bundle_count ELSE index[i]]

\* export() of what is in the active bundle: bundle file, cache and index.  That of
\* UnitGIRLoader leaves the cache alone.
Exported(items, index, length) ==
  IF length > 0
  THEN /\ disk' = [b \in DOMAIN disk \union {bundle_count} |->
                     IF b = bundle_count THEN items ELSE disk[b]]
       /\ bundle_cache' = IF kind = "GeneralLoader"
                          THEN Put(bundle_cache, bundle_count, items, bundle_cache_capacity)
                          ELSE bundle_cache
       /\ item_id_to_bundle_id' = IndexOfExport(index)
       /\ bundle_count' = bundle_count + 1
       /\ active_bundle' = <<>> /\ active_bundle_length' = 0
  ELSE /\ active_bundle' = items /\ active_bundle_length' = length
       /\ item_id_to_bundle_id' = index
       /\ UNCHANGED <<disk, bundle_cache, bundle_count>>

\* save, which exports when the rows it has counted are too many.
Save(i, content) ==
  /\ role = "run" /\ bundle_count < MaxBundles
  /\ LET With(f, value) == [j \in DOMAIN f \union {i} |-> IF j = i THEN value ELSE f[j]]
         items  == With(active_bundle, content)
         index  == With(item_id_to_bundle_id, Active)
         length == active_bundle_length + Cardinality(content)
     IN  IF length > MaxRows THEN Exported(items, index, length)
         ELSE /\ active_bundle' = items /\ item_id_to_bundle_id' = index
              /\ active_bundle_length' = length
              /\ UNCHANGED <<disk, bundle_cache, bundle_count>>
  /\ resaved' = IF Contain(item_cache, i) THEN resaved \union {i} ELSE resaved
  /\ UNCHANGED <<item_cache, indexing, role, kind>>

Without(f, i) == Restrict(f, DOMAIN f \ {i})

\* Mutant: the item stays in the item cache.
RemoveKeepingItem(i) ==
  /\ role = "run" /\ i \in DOMAIN item_id_to_bundle_id
  /\ item_id_to_bundle_id' = Without(item_id_to_bundle_id, i)
  /\ active_bundle' = Without(active_bundle, i)
  /\ UNCHANGED <<item_cache, active_bundle_length, bundle_count, bundle_cache, disk, indexing,
                 role, resaved, kind>>

\* remove_unit_id of a known id.  The counted rows stay counted.
RemoveItem(i) ==
  /\ role = "run" /\ i \in DOMAIN item_id_to_bundle_id
  /\ item_cache' = Discard(item_cache, i)
  /\ resaved' = resaved \ {i}
  /\ item_id_to_bundle_id' = Without(item_id_to_bundle_id, i)
  /\ LET b == item_id_to_bundle_id[i]
     IN  IF b = Active
         THEN active_bundle' = Without(active_bundle, i) /\ UNCHANGED <<bundle_cache, disk>>
         ELSE /\ bundle_cache' = Discard(bundle_cache, b)
              /\ disk' = [disk EXCEPT ![b] = Without(@, i)]
              /\ UNCHANGED active_bundle
  /\ UNCHANGED <<active_bundle_length, bundle_count, indexing, role, kind>>

-----------------------------------------------------------------------------
\* Loader.export: export(), then export_indexing().
Export ==
  /\ role = "run"
  /\ Exported(active_bundle, item_id_to_bundle_id, active_bundle_length)
  /\ role' = "exporting"
  /\ UNCHANGED <<item_cache, indexing, resaved, kind>>

ExportIndexing ==
  /\ role = "exporting"
  /\ indexing' = item_id_to_bundle_id
  /\ role' = "run"
  /\ UNCHANGED <<memory, disk, resaved, kind>>

\* The run is over or has died, and a later one restores the index
\* (restore_indexing) in a new loader.
Restore ==
  /\ role # "backup" /\ role' = "backup"
  /\ item_id_to_bundle_id' = indexing
  /\ bundle_count' = IF indexing = <<>> THEN 0
                     ELSE Max({0} \union {indexing[i] + 1 : i \in DOMAIN indexing})
  /\ item_cache' = <<>> /\ bundle_cache' = <<>>
  /\ active_bundle' = <<>> /\ active_bundle_length' = 0 /\ resaved' = {}
  /\ UNCHANGED <<disk, indexing, kind>>

Next ==
  \/ \E i \in Ids :
       Get(i) \/ RemoveItem(i) \/ \E content \in Contents : Save(i, content)
  \/ Export \/ ExportIndexing \/ Restore

Spec == Init /\ [][Next]_vars

-----------------------------------------------------------------------------
CacheOK(cache, capacity) ==
  /\ Len(cache) <= capacity
  /\ \A i, j \in DOMAIN cache : cache[i][1] = cache[j][1] => i = j

\* Type invariant: the caches keep to their capacities, the index leads to
\* bundles that exist, and outside a backup to active items that exist.
TypeOK ==
  /\ CacheOK(item_cache, item_cache_capacity)
  /\ CacheOK(bundle_cache, bundle_cache_capacity)
  /\ DOMAIN active_bundle \subseteq Ids /\ Range(active_bundle) \subseteq Contents
  /\ active_bundle_length \in 0..MaxRows
  /\ DOMAIN item_id_to_bundle_id \subseteq Ids
  /\ Range(item_id_to_bundle_id) \subseteq DOMAIN disk \union {Active}
  /\ Range(indexing) \subseteq DOMAIN disk \union {Active}
  /\ role \in {"run", "exporting", "backup"}
  /\ role # "backup" =>
       /\ DOMAIN disk = 0..(bundle_count - 1)
       /\ DOMAIN active_bundle = {i \in DOMAIN item_id_to_bundle_id : item_id_to_bundle_id[i] = Active}

\* A read that the item cache answers returns what is stored, unless the id was
\* saved again since it was cached: eviction, export, a full active bundle and
\* remove_unit_id leave no stale item (get_raw_item_by_id, _clone_method_gir).
StaleOnlyAfterSave ==
  \A i \in Ids : Contain(item_cache, i) /\ i \notin resaved => Lookup(item_cache, i) = Stored(i)

\* What a later run would find of an item.
Restorable(i) ==
  IF i \notin DOMAIN indexing THEN {}
  ELSE IF indexing[i] = Active THEN {} ELSE ItemIn(disk[indexing[i]], i)

\* Past the item cache a loader is a durable store: bundles, the bundle cache,
\* exports in any place and the index lose nothing and bring nothing back, and a
\* later run finds what was exported last, though the run dies at any point.
Durable == INSTANCE DurableStore WITH
  store <- [i \in Ids |-> Stored(i)],
  exported <- [i \in Ids |-> Restorable(i)]
StoreSpec == Durable!Spec

=============================================================================
