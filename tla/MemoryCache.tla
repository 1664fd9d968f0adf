---------------------------- MODULE MemoryCache -----------------------------
(***************************************************************************)
(* The memory caches of ONEDrive (impl/cache_memory.py), as the callbacks  *)
(* of FUSE (impl/drivers/fuse/callbacks.py) use them: a path that is not   *)
(* in the cache is looked up and set. FUSE calls them from one thread,     *)
(* unless its option nothreads is disabled. The steps of __setitem__() up  *)
(* to the last, which stores the value, are one step here.                 *)
(***************************************************************************)
EXTENDS Naturals, FiniteSets, Sequences, Functions

CONSTANTS
    Path,
    Thread,
    MaxItems,  \* _max_items
    NoPath

ASSUME MemoryAssumption == MaxItems \in Nat \ {0} /\ NoPath \notin Path

VARIABLES
    keys,  \* _keys: oldest first
    data,  \* the keys of _data
    want,  \* the path that a thread serves
    at     \* "idle", "lookup" outside of the cache, or "set" what was found

memoryVars == <<keys, data, want, at>>

MemoryInit ==
    /\ keys = <<>> /\ data = {}
    /\ want = [t \in Thread |-> NoPath]
    /\ at = [t \in Thread |-> "idle"]

Goes(t, where, p) == at' = [at EXCEPT ![t] = where] /\ want' = [want EXCEPT ![t] = p]

(* __getitem__() raises KeyError. *)
NotCached(t, p) ==
    /\ at[t] = "idle" /\ p \notin data
    /\ Goes(t, "lookup", p)
    /\ UNCHANGED <<keys, data>>

(* There is no such file or directory. *)
NoSuchFile(t) ==
    /\ at[t] = "lookup"
    /\ Goes(t, "idle", NoPath)
    /\ UNCHANGED <<keys, data>>

KeysWith(p) == IF p \in data THEN keys ELSE Append(keys, p)

(* Variant: the key of the deleted item stays in the list. *)
OldestKept(s) == s

WithoutOldest(s) == Tail(s)

IsFull == Cardinality(data) = MaxItems

(* __setitem__() up to _delete_oldest_item_if_full(), which raises an        *)
(* exception if there is no oldest key, or no data under it.                 *)
Admit(t) ==
    /\ at[t] = "lookup"
    /\ LET added == KeysWith(want[t])
           deletes == IsFull /\ added # <<>> /\ Head(added) \in data
       IN  /\ keys' = IF deletes THEN WithoutOldest(added) ELSE added
           /\ data' = IF deletes THEN data \ {Head(added)} ELSE data
           /\ IF IsFull => deletes THEN Goes(t, "set", want[t]) ELSE Goes(t, "idle", NoPath)

SetData(t) ==
    /\ at[t] = "set"
    /\ data' = data \cup {want[t]}
    /\ Goes(t, "idle", NoPath)
    /\ UNCHANGED keys

MemoryNext ==
    \E t \in Thread : (\E p \in Path : NotCached(t, p)) \/ NoSuchFile(t) \/ Admit(t) \/ SetData(t)

MemorySpec == MemoryInit /\ [][MemoryNext]_memoryVars
-----------------------------------------------------------------------------
MemoryTypeOK ==
    /\ keys \in Seq(Path)
    /\ data \in SUBSET Path /\ IsFiniteSet(data)
    /\ want \in [Thread -> Path \cup {NoPath}]
    /\ at \in [Thread -> {"idle", "lookup", "set"}]

(* "a limit on how many objects can be cached" *)
WithinMaxItems == Cardinality(data) <= MaxItems

(* What is cached, and what is about to be, has a place in the list, by      *)
(* which it is deleted in its turn; and nothing else has.                    *)
Coming == {want[t] : t \in {u \in Thread : at[u] = "set"}}

KeysListData ==
    /\ \A i \in DOMAIN keys, j \in DOMAIN keys : keys[i] = keys[j] => i = j
    /\ Range(keys) = data \cup Coming

(* The cache stays within its limit, because the list of keys tells what is  *)
(* oldest.                                                                   *)
MemoryBounded == WithinMaxItems /\ KeysListData

(* Why, with one thread: what is looked up is not there, and there is room   *)
(* for what is about to be set.                                              *)
MemoryInv ==
    /\ MemoryTypeOK /\ KeysListData /\ WithinMaxItems
    /\ \A t \in Thread :
          /\ at[t] # "idle" => want[t] \in Path \ data
          /\ at[t] = "set" => Cardinality(data) < MaxItems
=============================================================================
