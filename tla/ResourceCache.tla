--------------------------- MODULE ResourceCache ---------------------------
(***************************************************************************)
(* ResourceCache (src/libs/level2/resourcemanager/resourcecache.cpp): the  *)
(* map from index to loaded resource that all threads share.  A lookup     *)
(* finds without the mutex and, on a miss, once more with it; an insert    *)
(* holds the mutex, and operator[] of the tbb map puts an empty pointer in *)
(* before the resource is assigned.                                        *)
(* The module gives the steps; ResourceMan says which thread takes them.   *)
(***************************************************************************)
CONSTANTS
  Slots,      \* the indices resources are cached under
  Copies,     \* the loaded resources, one per block of memory
  Absent,     \* no node for the index
  Empty,      \* a node whose pointer is not assigned yet
  Free        \* updateMutex is not held

VARIABLES
  cache,
  updateMutex

cacheVars == <<cache, updateMutex>>

CacheInit ==
  /\ cache = [i \in Slots |-> Absent]
  /\ updateMutex = Free

Cached(c) == \E i \in Slots : cache[i] = c

(* lookup, the find without the mutex: what it returns when it finds a node. *)
LookupFinds(i, r) ==
  /\ cache[i] # Absent
  /\ r = cache[i]

LookupMisses(i) == cache[i] = Absent

(* lookup, the second find: no inserter is at work while it looks. *)
LockedLookup(i, r) ==
  /\ updateMutex = Free
  /\ r = cache[i]

(* insert by thread t, when the index has no node: the empty node first ... *)
InsertEmpty(t, i) ==
  /\ updateMutex = Free
  /\ cache[i] = Absent
  /\ updateMutex' = t
  /\ cache' = [cache EXCEPT ![i] = Empty]

(* Mutant: the mutex stays held. *)
InsertAssignHolding(t, i, c) ==
  /\ updateMutex = t
  /\ UNCHANGED updateMutex
  /\ cache' = [cache EXCEPT ![i] = c]

(* ... then the resource. *)
InsertAssign(t, i, c) ==
  /\ updateMutex = t
  /\ updateMutex' = Free
  /\ cache' = [cache EXCEPT ![i] = c]

(* insert when the index has a resource: that one stays. *)
InsertKeeps(i) ==
  /\ updateMutex = Free
  /\ cache[i] # Absent
  /\ UNCHANGED cacheVars

Reset ==
  /\ updateMutex = Free
  /\ cache' = [i \in Slots |-> Absent]
  /\ UNCHANGED updateMutex

=============================================================================
