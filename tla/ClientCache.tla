----------------------------- MODULE ClientCache -----------------------------
(***************************************************************************)
(* The block cache of the client library (pfs_cache.cpp).  The library     *)
(* builds one and only ever clears it, so the callers here are any code    *)
(* that uses the class.  A block is its key: data, the dirty bit and the   *)
(* token are stored and never looked at, and the counters only reported.   *)
(***************************************************************************)
EXTENDS Naturals, Sequences, SequencesExt, FiniteSets

CONSTANTS
  Keys,        \* filename + block id
  cache_size,  \* the constructor's argument
  MaxList      \* bound on the length of lru_list

ASSUME CacheSizeAssumption == cache_size \in Nat \ {0}

VARIABLES
  lru_list,   \* the keys, most recently added first
  cache_map,  \* the keys of the map
  readded     \* history: a key was added that was in the map

cacheVars == <<lru_list, cache_map, readded>>

hasBlock(key) == key \in cache_map

\* What evictBlock leaves: the back of the list goes, and its key from the map.
\* Mutant: the block stays in the map.
EvictedKeepsBlock(list, map) ==
  IF list = <<>> THEN [list |-> list, map |-> map]
  ELSE [list |-> Front(list), map |-> map]

Evicted(list, map) ==
  IF list = <<>> THEN [list |-> list, map |-> map]
  ELSE [list |-> Front(list), map |-> map \ {Last(list)}]

\* Mutant: the test is off by one.
FullIfAbove(map) == Cardinality(map) > cache_size
Full(map) == Cardinality(map) >= cache_size

addBlock(key) ==
  LET room == IF Full(cache_map) THEN Evicted(lru_list, cache_map)
              ELSE [list |-> lru_list, map |-> cache_map]
  IN  /\ Len(room.list) < MaxList
      /\ lru_list' = <<key>> \o room.list
      /\ cache_map' = room.map \union {key}
      /\ readded' = (readded \/ hasBlock(key))

evictBlock ==
  /\ lru_list # <<>>
  /\ lru_list' = Evicted(lru_list, cache_map).list
  /\ cache_map' = Evicted(lru_list, cache_map).map
  /\ UNCHANGED readded

\* list::remove takes out every copy of the key.
ListRemove(list, key) ==
  LET kept[n \in 0..Len(list)] ==
        IF n = 0 THEN <<>>
        ELSE IF list[n] = key THEN kept[n - 1] ELSE Append(kept[n - 1], list[n])
  IN  kept[Len(list)]

invalidateBlock(key) ==
  /\ hasBlock(key)
  /\ lru_list' = ListRemove(lru_list, key)
  /\ cache_map' = cache_map \ {key}
  /\ UNCHANGED readded

initialize ==
  /\ lru_list' = <<>>
  /\ cache_map' = {}
  /\ readded' = FALSE

CacheInit == lru_list = <<>> /\ cache_map = {} /\ readded = FALSE

CacheNext ==
  \/ initialize
  \/ evictBlock
  \/ \E key \in Keys : addBlock(key) \/ invalidateBlock(key)

CacheSpec == CacheInit /\ [][CacheNext]_cacheVars

-----------------------------------------------------------------------------
(* Properties.                                                              *)

\* Types; and a block in the map can be evicted: its key is on the list, even
\* after keys were added twice and one copy was evicted (lines 33-48).
Evictable ==
  /\ lru_list \in Seq(Keys)
  /\ readded \in BOOLEAN
  /\ cache_map \subseteq ToSet(lru_list)

\* Until a key that is present is added, the list names the blocks of the map,
\* each once, and there are at most cache_size of them (lines 33-39).  Adding
\* a key that is present ends that: the map may then outgrow cache_size.
ExactUntilReadded ==
  ~readded => /\ ToSet(lru_list) = cache_map
              /\ Len(lru_list) = Cardinality(cache_map)
              /\ Cardinality(cache_map) <= cache_size

=============================================================================
