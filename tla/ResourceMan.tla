---------------------------- MODULE ResourceMan ----------------------------
(***************************************************************************)
(* The resource manager as its callers use it: names are opened            *)
(* (ResourceNames), resources are acquired, placed in memory storage and   *)
(* removed, the cache (ResourceCache) is flushed.                          *)
(*                                                                         *)
(* acquire and tryAcquire (resourceman.cpp) read the storage, which calls  *)
(* back for every chunk and every stage handler (InMemBundle::read,        *)
(* Bundle::read); the callback runs the handler's init and, after stage 0, *)
(* puts the resource in the cache.  A memory resource is one chunk, cached *)
(* under the handle's index; a disk bundle is several, each cached under   *)
(* the index of the name bundle$chunk, which the callback looks up through *)
(* getIndexFromName with a local string.                                   *)
(***************************************************************************)
EXTENDS ResourceNames, FiniteSets

CONSTANTS
  MemNames,     \* names of the memory storage
  Chunks,       \* disk names -> the names of the chunks in the bundle they read
  LastStage,    \* the last stage a handler is registered for, MaxHandlerStages - 1 = 3 at most
  Rejects,      \* pairs <<name, stage>> whose init returns false
  Owner,        \* memory names -> the thread that places and removes them
  Copies,       \* memory blocks for loaded resources (bound)
  MaxPlaced,    \* times a name is placed (bound)
  Absent, Empty

DiskNames == DOMAIN Chunks
Stages == 0..LastStage
Versions == 1..MaxPlaced

ASSUME ManAssumption ==
  /\ MemNames \cup DiskNames = Names
  /\ MemNames \cap DiskNames = {}
  /\ \A n \in DiskNames : Chunks[n] \in Seq(DiskNames \ Durable) /\ Chunks[n] # <<>>
  /\ LastStage \in 0..3
  /\ Rejects \subseteq Names \X Stages
  /\ Owner \in [MemNames -> Threads]
  /\ IsFiniteSet(Copies)
  /\ MaxPlaced \in Nat \ {0}
  /\ Absent # Empty
  /\ \A x \in {Absent, Empty, Null} : x \notin Copies /\ x \notin Nat

VARIABLES
  cache, updateMutex,
  memory,       \* filenameToMemory: the version of the content under each name
  placed,       \* history: how often a name was placed
  obj,          \* the resources in memory
  loadPc,       \* where each thread is in acquire, tryAcquire or placeInStorage
  load,         \* the locals of that call and of the callback
  result        \* what the last acquire returned, and for which index

manVars == <<cache, updateMutex, memory, placed, obj, loadPc, load, result>>
allVars == <<vars, manVars>>

C == INSTANCE ResourceCache WITH Slots <- Index, Free <- Null

Object == [name : Names, version : Versions, done : SUBSET Stages]

(* The locals of a call of acquire (blocking: it retries) or of tryAcquire: whether *)
(* the storage was read and the last lookup is next, the chunk the read is at and   *)
(* the resource being built from it, its stage, and the index it goes to.           *)
Locals(blocking, loaded, chunk, copy) ==
  [blocking |-> blocking, loaded |-> loaded, chunk |-> chunk, copy |-> copy,
   stage |-> 0, slot |-> Null]

NoLoad == Locals(FALSE, FALSE, 0, Null)

Nothing == [index |-> Null, copy |-> Null]

ManTypeOK ==
  /\ TypeOK
  /\ cache \in [Index -> Copies \cup {Absent, Empty}]
  /\ updateMutex \in Threads \cup {Null}
  /\ memory \in [MemNames -> Versions \cup {Absent, Empty}]
  /\ placed \in [MemNames -> 0..MaxPlaced]
  /\ obj \in [Copies -> Object \cup {Null}]
  /\ loadPc \in [Threads -> {"idle", "lookup", "lookupLocked", "read", "stage", "index",
                             "insert", "assign", "advance", "place"}]
  /\ load \in [Threads -> [blocking : BOOLEAN, loaded : BOOLEAN, chunk : Nat, stage : Stages,
                           copy : Copies \cup {Null}, slot : Index \cup {Null}]]
  /\ result \in [Threads -> [index : Index \cup {Null}, copy : Copies \cup {Null}]]

ManInit ==
  /\ Init
  /\ C!CacheInit
  /\ memory = [n \in MemNames |-> Absent]
  /\ placed = [n \in MemNames |-> 0]
  /\ obj = [c \in Copies |-> Null]
  /\ loadPc = [t \in Threads |-> "idle"]
  /\ load = [t \in Threads |-> NoLoad]
  /\ result = [t \in Threads |-> Nothing]

-----------------------------------------------------------------------------
(* Helpers *)

Goto(t, l) == loadPc' = [loadPc EXCEPT ![t] = l]

Wanted(t) == handle[t].base.index

(* The shared pointers: a resource lives while the cache, a callback or a *)
(* caller refers to it.                                                   *)
Referenced(c) ==
  \/ C!Cached(c)
  \/ \E t \in Threads : load[t].copy = c \/ result[t].copy = c

Unused == {c \in Copies : ~Referenced(c)}

(* Resources o without those nobody refers to after the step. *)
Kept(o) == [c \in Copies |-> IF Referenced(c)' THEN o[c] ELSE Null]

NewObject(n, v) == [name |-> n, version |-> v, done |-> {}]

(* The chunks a read of name n goes through, and what it can find of them. *)
ChunksOf(n) == IF n \in MemNames THEN <<n>> ELSE Chunks[n]
Stored(n) == n \in MemNames => memory[n] \in Versions
VersionOf(n) == IF n \in MemNames THEN memory[n] ELSE 1

(* tryAcquire returns nothing: acquire tries again, at once and for ever. *)
GiveUp(t) ==
  /\ Goto(t, IF load[t].blocking THEN "lookup" ELSE "idle")
  /\ load' = [load EXCEPT ![t] = Locals(load[t].blocking, FALSE, 0, Null)]

Return(t, c) ==
  /\ Goto(t, "idle")
  /\ load' = [load EXCEPT ![t] = NoLoad]
  /\ result' = [result EXCEPT ![t] = [index |-> Wanted(t), copy |-> c]]

NotCached(t) ==
  /\ \/ /\ ~load[t].loaded
        /\ Goto(t, "read")
        /\ UNCHANGED load
     \/ /\ load[t].loaded
        /\ GiveUp(t)
  /\ UNCHANGED result

-----------------------------------------------------------------------------
(* acquire and tryAcquire *)

(* A handle with InvalidIndex gives nothing; the caller's previous resource goes. *)
Acquire(t, b) ==
  /\ pc[t] = "idle" /\ loadPc[t] = "idle"
  /\ handle[t] # NoHandle
  /\ \/ Wanted(t) = Null /\ UNCHANGED <<loadPc, load>>
     \/ /\ Wanted(t) # Null
        /\ Goto(t, "lookup")
        /\ load' = [load EXCEPT ![t].blocking = b]
  /\ result' = [result EXCEPT ![t] = Nothing]
  /\ UNCHANGED <<vars, cache, updateMutex, memory, placed>>
  /\ obj' = Kept(obj)

(* resourceCache.lookup, before the read and again after it. *)
CacheLookup(t) ==
  /\ loadPc[t] = "lookup"
  /\ \/ \E c \in Copies : C!LookupFinds(Wanted(t), c) /\ Return(t, c)
     \/ C!LookupFinds(Wanted(t), Empty) /\ NotCached(t)
     \/ C!LookupMisses(Wanted(t)) /\ Goto(t, "lookupLocked") /\ UNCHANGED <<load, result>>
  /\ UNCHANGED <<vars, cache, updateMutex, memory, placed, obj>>

CacheLookupLocked(t) ==
  /\ loadPc[t] = "lookupLocked"
  /\ \/ \E c \in Copies : C!LockedLookup(Wanted(t), c) /\ Return(t, c)
     \/ C!LockedLookup(Wanted(t), Absent) /\ NotCached(t)
  /\ UNCHANGED <<vars, cache, updateMutex, memory, placed, obj>>

(* The read's next chunk: a new block of memory for it. *)
StartChunk(t, k, n, v) ==
  \E c \in Unused :
    /\ c = CHOOSE u \in Unused : TRUE
    /\ Goto(t, "stage")
    /\ load' = [load EXCEPT ![t] = Locals(load[t].blocking, FALSE, k, c)]
    /\ UNCHANGED <<cache, updateMutex, result>>
    /\ obj' = Kept([obj EXCEPT ![c] = NewObject(n, v)])

(* storage->read: nothing stored, or content that is still being put there. *)
ReadStorage(t) ==
  /\ loadPc[t] = "read"
  /\ LET n == indexToResourceName[Wanted(t)]
     IN  \/ Stored(n) /\ StartChunk(t, 1, ChunksOf(n)[1], VersionOf(n))
         \/ ~Stored(n) /\ GiveUp(t) /\ UNCHANGED <<cache, updateMutex, obj, result>>
  /\ UNCHANGED <<vars, memory, placed>>

(* Mutant: a stage that is refused ends the read. *)
RunStageStopping(t) ==
  /\ loadPc[t] = "stage"
  /\ LET c == load[t].copy
         s == load[t].stage
     IN  \/ /\ <<obj[c].name, s>> \in Rejects
            /\ GiveUp(t)
            /\ UNCHANGED obj
         \/ /\ <<obj[c].name, s>> \notin Rejects
            /\ obj' = [obj EXCEPT ![c].done = @ \cup {s}]
            /\ \/ s > 0 /\ Goto(t, "advance") /\ UNCHANGED load
               \/ /\ s = 0
                  /\ Goto(t, "insert")
                  /\ load' = [load EXCEPT ![t].slot = Wanted(t)]
  /\ UNCHANGED <<vars, cache, updateMutex, memory, placed, result>>

(* The stage's pointer is set and its init runs; a refusal is passed over. *)
RunStage(t) ==
  /\ loadPc[t] = "stage"
  /\ LET c == load[t].copy
         s == load[t].stage
         n == obj[c].name
     IN  \/ /\ <<n, s>> \in Rejects
            /\ Goto(t, "advance")
            /\ UNCHANGED <<vars, load, obj>>
         \/ /\ <<n, s>> \notin Rejects
            /\ obj' = [obj EXCEPT ![c].done = @ \cup {s}]
            /\ \/ s > 0 /\ Goto(t, "advance") /\ UNCHANGED <<vars, load>>
               \/ /\ s = 0 /\ n \in MemNames
                  /\ Goto(t, "insert")
                  /\ load' = [load EXCEPT ![t].slot = Wanted(t)]
                  /\ UNCHANGED vars
               \/ /\ s = 0 /\ n \in DiskNames
                  /\ Goto(t, "index")
                  /\ GetIndexFromName(t, n, "borrowed")
                  /\ UNCHANGED <<handle, load>>
  /\ UNCHANGED <<cache, updateMutex, memory, placed, result>>

(* Mutant: the chunk goes to the index of the handle that is acquired. *)
TakeWantedIndex(t) ==
  /\ loadPc[t] = "index"
  /\ ReturnIndex(t)
  /\ Goto(t, "insert")
  /\ load' = [load EXCEPT ![t].slot = Wanted(t)]
  /\ UNCHANGED <<handle, cache, updateMutex, memory, placed, obj, result>>

(* The callback has the index of the chunk's own name. *)
TakeIndex(t) ==
  /\ loadPc[t] = "index"
  /\ ReturnIndex(t)
  /\ Goto(t, "insert")
  /\ load' = [load EXCEPT ![t].slot = index[t]]
  /\ UNCHANGED <<handle, cache, updateMutex, memory, placed, obj, result>>

(* Mutant: the last to insert wins. *)
CacheInsertOver(t) ==
  /\ loadPc[t] = "insert"
  /\ updateMutex = Null
  /\ cache' = [cache EXCEPT ![load[t].slot] = load[t].copy]
  /\ Goto(t, "advance")
  /\ UNCHANGED <<vars, updateMutex, memory, placed, load, result>>
  /\ obj' = Kept(obj)

(* resourceCache.insert *)
CacheInsert(t) ==
  /\ loadPc[t] = "insert"
  /\ \/ C!InsertEmpty(t, load[t].slot) /\ Goto(t, "assign")
     \/ C!InsertKeeps(load[t].slot) /\ Goto(t, "advance")
  /\ UNCHANGED <<vars, memory, placed, obj, load, result>>

CacheAssign(t) ==
  /\ loadPc[t] = "assign"
  /\ C!InsertAssign(t, load[t].slot, load[t].copy)
  /\ Goto(t, "advance")
  /\ UNCHANGED <<vars, memory, placed, obj, load, result>>

(* Mutant: one stage too many. *)
AdvancePastLast(t) ==
  /\ loadPc[t] = "advance"
  /\ load[t].stage <= LastStage
  /\ Goto(t, "stage")
  /\ load' = [load EXCEPT ![t].stage = @ + 1]
  /\ UNCHANGED <<vars, cache, updateMutex, memory, placed, obj, result>>

(* The next stage, the next chunk, or the end of the read. *)
Advance(t) ==
  /\ loadPc[t] = "advance"
  /\ LET n == indexToResourceName[Wanted(t)]
         k == load[t].chunk
     IN  \/ /\ load[t].stage < LastStage
            /\ Goto(t, "stage")
            /\ load' = [load EXCEPT ![t].stage = @ + 1]
            /\ UNCHANGED <<cache, updateMutex, obj, result>>
         \/ /\ load[t].stage = LastStage /\ k < Len(ChunksOf(n))
            /\ StartChunk(t, k + 1, ChunksOf(n)[k + 1], obj[load[t].copy].version)
         \/ /\ load[t].stage = LastStage /\ k = Len(ChunksOf(n))
            /\ Goto(t, "lookup")
            /\ load' = [load EXCEPT ![t] = Locals(load[t].blocking, TRUE, 0, Null)]
            /\ UNCHANGED <<cache, updateMutex, result>>
            /\ obj' = Kept(obj)
  /\ UNCHANGED <<vars, memory, placed>>

-----------------------------------------------------------------------------
(* The storage *)

(* placeInStorage, addMemory: a name already there is left alone, otherwise *)
(* operator[] of the tbb map puts an empty entry before the content.        *)
PlaceInStorage(t, n) ==
  /\ pc[t] = "idle" /\ loadPc[t] = "idle"
  /\ Owner[n] = t
  /\ memory[n] = Absent
  /\ placed[n] < MaxPlaced
  /\ memory' = [memory EXCEPT ![n] = Empty]
  /\ placed' = [placed EXCEPT ![n] = @ + 1]
  /\ Goto(t, "place")
  /\ UNCHANGED <<vars, cache, updateMutex, obj, load, result>>

PlaceContent(t) ==
  /\ loadPc[t] = "place"
  /\ \E n \in MemNames :
       /\ Owner[n] = t
       /\ memory[n] = Empty
       /\ memory' = [memory EXCEPT ![n] = placed[n]]
  /\ Goto(t, "idle")
  /\ UNCHANGED <<vars, cache, updateMutex, placed, obj, load, result>>

ManQuiet == Quiet /\ \A t \in Threads : loadPc[t] = "idle"

(* removeFromStorage: the name loses its index and the storage its content; *)
(* the index, its name, its base and the cached resource stay.              *)
RemoveFromStorage(n) ==
  /\ ManQuiet
  /\ EraseName(n)
  /\ memory' = [memory EXCEPT ![n] = Absent]
  /\ UNCHANGED <<cache, updateMutex, placed, obj, loadPc, load, result>>

(* flushCache assigns a new map: like unsafe_erase, beside no other operation. *)
FlushCache ==
  /\ ManQuiet
  /\ C!Reset
  /\ UNCHANGED <<vars, memory, placed, loadPc, load, result>>
  /\ obj' = Kept(obj)

-----------------------------------------------------------------------------
NameStep(t) ==
  /\ Lookup(t) \/ (loadPc[t] = "idle" /\ OpenByIndex(t))
  /\ UNCHANGED manVars

ManStep(t) ==
  \/ NameStep(t)
  \/ CacheLookup(t) \/ CacheLookupLocked(t) \/ ReadStorage(t) \/ RunStage(t)
  \/ TakeIndex(t) \/ CacheInsert(t) \/ CacheAssign(t) \/ Advance(t)
  \/ PlaceContent(t)

Open(t, n, k) == loadPc[t] = "idle" /\ OpenByName(t, n, k) /\ UNCHANGED manVars

Forget(m) == TextDies(m) /\ UNCHANGED manVars

ManNext ==
  \/ \E t \in Threads :
       \/ ManStep(t)
       \/ \E n \in Names, k \in Text : Open(t, n, k)
       \/ \E b \in BOOLEAN : Acquire(t, b)
       \/ \E n \in MemNames : PlaceInStorage(t, n)
  \/ \E m \in nodes : Forget(m)
  \/ \E n \in MemNames : RemoveFromStorage(n)
  \/ FlushCache

ManSpec == ManInit /\ [][ManNext]_allVars

ManFairSpec == ManSpec /\ \A t \in Threads : WF_allVars(ManStep(t))

-----------------------------------------------------------------------------
(* Properties *)

Accepted(n) == {s \in Stages : <<n, s>> \notin Rejects}

Complete(c) == Accepted(obj[c].name) \subseteq obj[c].done

(* resourcecache.cpp 26-42: of the threads that load one resource at the same   *)
(* time the first to insert wins for everybody: what the cache gives for an     *)
(* index never changes until the cache is flushed.                              *)
CacheSlotStable ==
  [][ \/ \A i \in Index : cache[i] \in Copies => cache'[i] = cache[i]
      \/ \A i \in Index : cache'[i] = Absent ]_allVars

(* resourceman.cpp 233-268: what is cached under an index is a resource of the  *)
(* index's name that its handler took, though the callback looks the index up   *)
(* by name while other threads insert names, unless a lookup returned a node    *)
(* that was still being published.                                              *)
ServesName ==
  premature \/ \A i \in Index :
    cache[i] \in Copies =>
      obj[cache[i]].name = indexToResourceName[i] /\ 0 \in obj[cache[i]].done

(* resourceman.cpp 319-348: the index a memory name has now never gives content *)
(* the name had before it was removed and placed again, although the cache and  *)
(* the old index keep that content.                                             *)
CurrentContent ==
  premature \/ \A m \in nodes :
    (~BeingPublished(m) /\ m.name \in Durable \cap MemNames /\ cache[m.index] \in Copies) =>
      obj[cache[m.index]].version = memory[m.name]

(* inmembundle.h 98-126: a resource is in the cache from stage 0 on.  As long   *)
(* as it lacks a stage its handlers would take, a thread is still running them. *)
IncompleteIsBeingLoaded ==
  \A c \in Copies :
    (C!Cached(c) /\ ~Complete(c)) => \E t \in Threads : load[t].copy = c

(* resourceman.cpp 160-183: acquire returns when the memory storage has the     *)
(* name's content and the handler takes it.                                     *)
AcquireReturns ==
  \A t \in Threads :
    LET n == indexToResourceName[Wanted(t)]
    IN  (load[t].blocking /\ n \in MemNames /\ memory[n] \in Versions /\ 0 \in Accepted(n))
          ~> loadPc[t] = "idle"

-----------------------------------------------------------------------------
(* What the source says of itself and TLC refutes *)

(* The assertion that ends ResourceCache::insert, resourcecache.cpp 41, for the *)
(* case the comment above it gives: several threads inserting the same data.    *)
InsertAgrees ==
  \A t \in Threads :
    (loadPc[t] = "insert" /\ updateMutex = Null /\ cache[load[t].slot] # Absent) =>
      cache[load[t].slot] = load[t].copy

(* The assertion of ResourceBase::getStage, resource.h 35: the pointer of a     *)
(* stage of a resource that acquire returned is set.                            *)
ResultComplete ==
  \A t \in Threads :
    result[t].copy # Null => \A s \in Accepted(obj[result[t].copy].name) :
      s \in obj[result[t].copy].done

=============================================================================
