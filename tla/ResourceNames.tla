--------------------------- MODULE ResourceNames ---------------------------
(***************************************************************************)
(* ResourceMan::getIndexFromName and openByName: how threads turn resource *)
(* names into handles (src/libs/level2/resourcemanager/resourceman.cpp and *)
(* resourceman.h), with the pool of indices they draw from (MTFreeList,    *)
(* src/libs/core/freelist.h).                                              *)
(*                                                                         *)
(* The lookup is double checked: a find without the lock, then, on a miss, *)
(* a second find under nameCacheLock.  The allocating thread publishes the *)
(* name before it is finished with it: operator[] of the tbb map inserts   *)
(* the node with the value 0 and the index is assigned afterwards, and the *)
(* handle base of that index is written last.  Each of these is a step.    *)
(*                                                                         *)
(* The map's key is a view of the caller's text, not of the stored name.   *)
(* A caller's text is lasting (a literal, a static) or borrowed (a local   *)
(* string): when borrowed text dies the node stays, its key is dead, and a *)
(* lookup that compares with the freed bytes may match or miss.            *)
(***************************************************************************)
EXTENDS Naturals, Sequences

CONSTANTS
  Threads,    \* threads calling the manager
  Names,      \* resource names
  Durable,    \* the names every caller passes as lasting text
  Types,      \* resource types, ResourceId
  TypeOf,     \* the type each name is opened as
  PoolSize,   \* slots of indexToBase; 100000 in the code
  Null        \* no thread, no name, no type, InvalidIndex

ASSUME ConstantsAssumption ==
  /\ Durable \subseteq Names
  /\ TypeOf \in [Names -> Types]
  /\ PoolSize \in Nat \ {0}
  /\ Null \notin Threads \cup Names \cup Types \cup Nat

Index == 0..PoolSize-1

Text == {"lasting", "borrowed"}

(* A node of nameToResourceIndex. *)
Node == [name : Names, index : Index, key : Text \cup {"dead"}]

(* ResourceHandleBase, what a handle holds; managerIndex and generation never vary. *)
Base == [index : Index \cup {Null}, id : Types \cup {Null}]
BlankBase == [index |-> Null, id |-> Null]
FullBase(i, n) == [index |-> i, id |-> TypeOf[n]]

VARIABLES
  nodes,                \* nameToResourceIndex
  indexToResourceName,
  indexToBase,
  freelist,             \* the queue of free slots in indexToBase
  nameCacheLock,
  pc,                   \* where each thread is in getIndexFromName / openByIndex
  name,                 \* the thread's argument name_ ...
  text,                 \* ... and the kind of text it is a view of
  index,                \* the thread's local id, and the index it returns
  handle,               \* the last handle each thread opened, and for which name
  premature             \* history: some lookup returned a node still being published

vars == <<nodes, indexToResourceName, indexToBase, freelist, nameCacheLock,
          pc, name, text, index, handle, premature>>

Locked   == {"recheck", "alloc", "insert", "assign", "setBase", "unlock", "spin"}
Unlocked == {"idle", "find", "lock", "found"}

NoHandle == [name |-> Null, base |-> BlankBase]

TypeOK ==
  /\ nodes \subseteq Node
  /\ indexToResourceName \in [Index -> Names \cup {Null}]
  /\ indexToBase \in [Index -> Base]
  /\ freelist \in Seq(Index)
  /\ nameCacheLock \in Threads \cup {Null}
  /\ pc \in [Threads -> Locked \cup Unlocked]
  /\ name \in [Threads -> Names \cup {Null}]
  /\ text \in [Threads -> Text]
  /\ index \in [Threads -> Index \cup {Null}]
  /\ handle \in [Threads -> [name : Names \cup {Null}, base : Base]]
  /\ premature \in BOOLEAN

-----------------------------------------------------------------------------
(* Lookups *)

Matches(n) == {m \in nodes : m.name = n}

(* A find of n is certain to succeed when a node with a live key is there. *)
MayMiss(n) == \A m \in Matches(n) : m.key = "dead"

(* The node a thread puts into the map, once with the 0 that operator[] of the *)
(* map leaves, then with the thread's index.                                   *)
NewNode(t, i) == [name |-> name[t], index |-> i, key |-> text[t]]

(* The thread holding nameCacheLock has put the name into the map but has *)
(* not written the node's index, or not the handle base of that index.    *)
BeingPublished(m) ==
  \E t \in Threads :
    \/ pc[t] = "assign" /\ m = NewNode(t, 0)
    \/ pc[t] = "setBase" /\ m = NewNode(t, index[t])

(* The node's index is not assigned yet. *)
Unassigned(m) == \E t \in Threads : pc[t] = "assign" /\ m = NewNode(t, 0)

-----------------------------------------------------------------------------
(* Mutant: the pool hands out the slots from 1. *)
FreeFromOne == [k \in 1..PoolSize |-> k]

(* The constructor of MTFreeList pushes every slot, 0 first. *)
AllFree == [k \in 1..PoolSize |-> k - 1]

Init ==
  /\ nodes = {}
  /\ indexToResourceName = [i \in Index |-> Null]
  /\ indexToBase = [i \in Index |-> BlankBase]
  /\ freelist = AllFree
  /\ nameCacheLock = Null
  /\ pc = [t \in Threads |-> "idle"]
  /\ name = [t \in Threads |-> Null]
  /\ text = [t \in Threads |-> "lasting"]
  /\ index = [t \in Threads |-> Null]
  /\ handle = [t \in Threads |-> NoHandle]
  /\ premature = FALSE

(* A call of getIndexFromName with a name read from text of kind k. *)
GetIndexFromName(t, n, k) ==
  /\ pc[t] = "idle"
  /\ n \in Durable => k = "lasting"
  /\ pc' = [pc EXCEPT ![t] = "find"]
  /\ name' = [name EXCEPT ![t] = n]
  /\ text' = [text EXCEPT ![t] = k]
  /\ UNCHANGED <<nodes, indexToResourceName, indexToBase, freelist,
                 nameCacheLock, index, premature>>

OpenByName(t, n, k) ==
  /\ GetIndexFromName(t, n, k)
  /\ handle' = [handle EXCEPT ![t] = NoHandle]

(* The find without the lock: a hit returns the node's index as it is now. *)
FindHit(t) ==
  /\ pc[t] = "find"
  /\ \E m \in Matches(name[t]) :
       /\ index' = [index EXCEPT ![t] = m.index]
       /\ premature' = (premature \/ BeingPublished(m))
  /\ pc' = [pc EXCEPT ![t] = "found"]
  /\ UNCHANGED <<nodes, indexToResourceName, indexToBase, freelist,
                 nameCacheLock, name, text, handle>>

FindMiss(t) ==
  /\ pc[t] = "find"
  /\ MayMiss(name[t])
  /\ pc' = [pc EXCEPT ![t] = "lock"]
  /\ UNCHANGED <<nodes, indexToResourceName, indexToBase, freelist,
                 nameCacheLock, name, text, index, handle, premature>>

(* Mutant: no mutex. *)
LockUnguarded(t) ==
  /\ pc[t] = "lock"
  /\ nameCacheLock' = t
  /\ pc' = [pc EXCEPT ![t] = "recheck"]
  /\ UNCHANGED <<nodes, indexToResourceName, indexToBase, freelist,
                 name, text, index, handle, premature>>

Lock(t) ==
  /\ pc[t] = "lock"
  /\ nameCacheLock = Null
  /\ nameCacheLock' = t
  /\ pc' = [pc EXCEPT ![t] = "recheck"]
  /\ UNCHANGED <<nodes, indexToResourceName, indexToBase, freelist,
                 name, text, index, handle, premature>>

(* Mutant: the name is not looked up again under the lock. *)
RecheckSkipped(t) ==
  /\ pc[t] = "recheck"
  /\ pc' = [pc EXCEPT ![t] = "alloc"]
  /\ UNCHANGED <<nodes, indexToResourceName, indexToBase, freelist,
                 nameCacheLock, name, text, index, handle, premature>>

(* The find under the lock, "in case some one get here first".  The freed    *)
(* bytes of a dead key are those the first find read, so it misses them too. *)
Recheck(t) ==
  /\ pc[t] = "recheck"
  /\ \/ /\ MayMiss(name[t])
        /\ pc' = [pc EXCEPT ![t] = "alloc"]
        /\ UNCHANGED index
     \/ \E m \in Matches(name[t]) :
          /\ m.key # "dead"
          /\ pc' = [pc EXCEPT ![t] = "unlock"]
          /\ index' = [index EXCEPT ![t] = m.index]
  /\ UNCHANGED <<nodes, indexToResourceName, indexToBase, freelist,
                 nameCacheLock, name, text, handle, premature>>

(* indexToBase.alloc() takes the oldest free slot; the name is stored for it. *)
Alloc(t) ==
  /\ pc[t] = "alloc"
  /\ freelist # <<>>
  /\ index' = [index EXCEPT ![t] = Head(freelist)]
  /\ freelist' = Tail(freelist)
  /\ indexToResourceName' =
       [indexToResourceName EXCEPT ![Head(freelist)] = name[t]]
  /\ pc' = [pc EXCEPT ![t] = "insert"]
  /\ UNCHANGED <<nodes, indexToBase, nameCacheLock, name, text, handle, premature>>

(* No slot left: MTFreeList::alloc never leaves its loop, and the lock stays held. *)
AllocSpins(t) ==
  /\ pc[t] = "alloc"
  /\ freelist = <<>>
  /\ pc' = [pc EXCEPT ![t] = "spin"]
  /\ UNCHANGED <<nodes, indexToResourceName, indexToBase, freelist,
                 nameCacheLock, name, text, index, handle, premature>>

(* nameToResourceIndex[name_]: the node is in the map, its value is 0. *)
InsertNode(t) ==
  /\ pc[t] = "insert"
  /\ nodes' = nodes \cup {NewNode(t, 0)}
  /\ pc' = [pc EXCEPT ![t] = "assign"]
  /\ UNCHANGED <<indexToResourceName, indexToBase, freelist, nameCacheLock,
                 name, text, index, handle, premature>>

(* Mutant: the lock is given up before the handle base is written. *)
AssignIndexUnlocking(t) ==
  /\ pc[t] = "assign"
  /\ nodes' = (nodes \ {NewNode(t, 0)}) \cup {NewNode(t, index[t])}
  /\ nameCacheLock' = Null
  /\ pc' = [pc EXCEPT ![t] = "setBase"]
  /\ UNCHANGED <<indexToResourceName, indexToBase, freelist,
                 name, text, index, handle, premature>>

(* ... = id *)
AssignIndex(t) ==
  /\ pc[t] = "assign"
  /\ nodes' = (nodes \ {NewNode(t, 0)}) \cup {NewNode(t, index[t])}
  /\ pc' = [pc EXCEPT ![t] = "setBase"]
  /\ UNCHANGED <<indexToResourceName, indexToBase, freelist, nameCacheLock,
                 name, text, index, handle, premature>>

SetBase(t) ==
  /\ pc[t] = "setBase"
  /\ indexToBase' = [indexToBase EXCEPT ![index[t]] = FullBase(index[t], name[t])]
  /\ pc' = [pc EXCEPT ![t] = "unlock"]
  /\ UNCHANGED <<nodes, indexToResourceName, freelist, nameCacheLock,
                 name, text, index, handle, premature>>

(* Mutant: the lock stays held. *)
UnlockForgotten(t) ==
  /\ pc[t] = "unlock"
  /\ pc' = [pc EXCEPT ![t] = "found"]
  /\ UNCHANGED <<nodes, indexToResourceName, indexToBase, freelist,
                 nameCacheLock, name, text, index, handle, premature>>

Unlock(t) ==
  /\ pc[t] = "unlock"
  /\ nameCacheLock' = Null
  /\ pc' = [pc EXCEPT ![t] = "found"]
  /\ UNCHANGED <<nodes, indexToResourceName, indexToBase, freelist,
                 name, text, index, handle, premature>>

(* Copying the base of index i while its writer is at work is a data race: *)
(* each field is read as it was or as it will be.                          *)
ReadBase(i) ==
  LET racing == {FullBase(i, name[t]) :
                   t \in {u \in Threads : pc[u] = "setBase" /\ index[u] = i}}
      seen == racing \cup {indexToBase[i]}
  IN  [index : {b.index : b \in seen}, id : {b.id : b \in seen}]

(* getIndexFromName returns index[t] to its caller. *)
ReturnIndex(t) ==
  /\ pc[t] = "found"
  /\ pc' = [pc EXCEPT ![t] = "idle"]
  /\ name' = [name EXCEPT ![t] = Null]
  /\ text' = [text EXCEPT ![t] = "lasting"]
  /\ index' = [index EXCEPT ![t] = Null]
  /\ UNCHANGED <<nodes, indexToResourceName, indexToBase, freelist,
                 nameCacheLock, premature>>

(* openByIndex: the handle is a copy of the base. *)
OpenByIndex(t) ==
  /\ ReturnIndex(t)
  /\ \E b \in ReadBase(index[t]) :
       handle' = [handle EXCEPT ![t] = [name |-> name[t], base |-> b]]

-----------------------------------------------------------------------------
(* Borrowed text dies, at the earliest when the call it was passed to is over. *)
TextDies(m) ==
  /\ m.key = "borrowed"
  /\ ~BeingPublished(m)
  /\ nodes' = (nodes \ {m}) \cup {[m EXCEPT !.key = "dead"]}
  /\ UNCHANGED <<indexToResourceName, indexToBase, freelist, nameCacheLock,
                 pc, name, text, index, handle, premature>>

(* The name side of removeFromStorage.  unsafe_erase may not run beside any *)
(* other operation of the map: its callers see to it that no thread is in   *)
(* the manager.  Neither the index nor its name or base is given back.      *)
Quiet == \A t \in Threads : pc[t] = "idle"

(* Mutant: the slot goes back to the pool, the name stays with it. *)
EraseFreesSlot(n) ==
  /\ \E m \in Matches(n) :
       /\ nodes' = nodes \ {m}
       /\ freelist' = Append(freelist, m.index)
  /\ UNCHANGED <<indexToResourceName, indexToBase, nameCacheLock,
                 pc, name, text, index, handle, premature>>

(* Mutant: the slot goes back to the pool for another name. *)
EraseRecyclesSlot(n) ==
  /\ \E m \in Matches(n) :
       /\ nodes' = nodes \ {m}
       /\ freelist' = Append(freelist, m.index)
       /\ indexToResourceName' = [indexToResourceName EXCEPT ![m.index] = Null]
  /\ UNCHANGED <<indexToBase, nameCacheLock, pc, name, text, index, handle, premature>>

(* Mutant: the name keeps its index. *)
EraseKeepsNode(n) == UNCHANGED vars

EraseName(n) ==
  /\ \/ \E m \in Matches(n) : nodes' = nodes \ {m}
     \/ MayMiss(n) /\ UNCHANGED nodes
  /\ UNCHANGED <<indexToResourceName, indexToBase, freelist, nameCacheLock,
                 pc, name, text, index, handle, premature>>

RemoveName(n) == Quiet /\ EraseName(n)

-----------------------------------------------------------------------------
(* Everything a thread does by itself inside getIndexFromName, once called. *)
Lookup(t) ==
  \/ FindHit(t) \/ FindMiss(t) \/ Lock(t) \/ Recheck(t)
  \/ Alloc(t) \/ AllocSpins(t) \/ InsertNode(t) \/ AssignIndex(t)
  \/ SetBase(t) \/ Unlock(t)

Step(t) == Lookup(t) \/ OpenByIndex(t)

Next ==
  \/ \E t \in Threads : Step(t) \/ \E n \in Names, k \in Text : OpenByName(t, n, k)
  \/ \E m \in nodes : TextDies(m)
  \/ \E n \in Names : RemoveName(n)

Spec == Init /\ [][Next]_vars

(* A running thread keeps running; nothing is asked of the mutex beyond that. *)
FairSpec == Spec /\ \A t \in Threads : WF_vars(Step(t))

-----------------------------------------------------------------------------
(* Properties *)

(* A node whose publication is over leads to an index that carries its name *)
(* and to a handle base that is complete.                                   *)
Consistent(n, i) ==
  /\ indexToResourceName[i] = n
  /\ indexToBase[i] = FullBase(i, n)

(* resourceman.cpp 116-138: however the lookups of several threads interleave, *)
(* a name whose text lives has one node, two nodes never share an index, and   *)
(* every node not being written leads to the name and handle base of its own.  *)
OneIndexPerName ==
  /\ \A m1, m2 \in nodes : (m1.name = m2.name /\ m1.name \in Durable) => m1 = m2
  /\ \A m \in nodes : BeingPublished(m) \/ Consistent(m.name, m.index)

(* freelist.h 247-257, resourceman.cpp 127-129: an index is free or it has a   *)
(* name, never both, and no index is in the free queue twice or nowhere.       *)
PoolAccounted ==
  /\ \A j, k \in 1..Len(freelist) : freelist[j] = freelist[k] => j = k
  /\ \A i \in Index :
       indexToResourceName[i] = Null <=> \E k \in 1..Len(freelist) : freelist[k] = i

(* resourceman.cpp 121-134: what a thread has found or made when it gives up    *)
(* the lock is finished, whatever the other threads did since its first find.   *)
LockedResultSettled ==
  \A t \in Threads : pc[t] = "unlock" => Consistent(name[t], index[t])

(* resourceman.h 86-99: a handle names the index of the name it was opened with,  *)
(* as long as no lookup has returned a node that was still being published: that  *)
(* window is the only way to a wrong handle.                                      *)
HandlesRight ==
  premature \/ \A t \in Threads :
    handle[t] # NoHandle => \E i \in Index :
      /\ handle[t].base = FullBase(i, handle[t].name)
      /\ Consistent(handle[t].name, i)

(* resourceman.cpp 116-138, 319-330: the name an index stands for never changes, *)
(* not even when the name is removed, so a stale handle can never come to denote *)
(* another resource.                                                             *)
IndexKeepsName ==
  [][\A i \in Index : indexToResourceName[i] # Null =>
        indexToResourceName'[i] = indexToResourceName[i]]_vars

(* resourceman.cpp 116-138: every lookup returns, unless the pool has run dry. *)
LookupReturns ==
  \A t \in Threads :
    pc[t] = "find" ~> (pc[t] = "found" \/ \E u \in Threads : pc[u] = "spin")

(* The assertion of openByIndex, resourceman.h 90: the base found under the index *)
(* is of the type asked for.                                                      *)
OpenAssertion ==
  \A t \in Threads :
    handle[t] # NoHandle => handle[t].base.id = TypeOf[handle[t].name]

(* The promise NameTable states, for the names whose text lives.  An index counts *)
(* as used once the node that leads to it is in place.                            *)
NamePromise == INSTANCE NameTable WITH
  Names <- Durable,
  Indices <- Index,
  table <- {<<m.name, m.index>> :
              m \in {x \in nodes : x.name \in Durable /\ ~Unassigned(x)}},
  used <- {i \in Index :
             /\ indexToResourceName[i] # Null
             /\ \A t \in Threads : pc[t] \in {"insert", "assign"} => index[t] # i}

NamePromiseSpec == NamePromise!Spec

=============================================================================
