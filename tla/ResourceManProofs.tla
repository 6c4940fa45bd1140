------------------------- MODULE ResourceManProofs -------------------------
(***************************************************************************)
(* Proofs about ResourceMan, for any threads, names, storages, handlers,   *)
(* pool size and memory.                                                   *)
(***************************************************************************)
EXTENDS ResourceMan, ResourceNamesProofs

-----------------------------------------------------------------------------
(* The names of the manager are those of ResourceNames *)

(* Whatever the manager does, its names take a step of the lookup protocol, *)
(* one of the callback's, or none.                                          *)
LEMMA NamesStep == [ManNext]_allVars => [NamesNext]_vars
<1> SUFFICES ASSUME [ManNext]_allVars PROVE [NamesNext]_vars
  OBVIOUS
<1>1. ASSUME NEW t \in Threads, NameStep(t) PROVE NamesNext
  BY <1>1 DEF NameStep, NamesNext, Next, Step
<1>2. ASSUME NEW t \in Threads, NEW n \in Names, NEW k \in Text, Open(t, n, k) PROVE NamesNext
  BY <1>2 DEF Open, NamesNext, Next
<1>3. ASSUME NEW m \in nodes, Forget(m) PROVE NamesNext
  BY <1>3 DEF Forget, NamesNext, Next
<1>4. ASSUME NEW n \in MemNames, RemoveFromStorage(n) PROVE NamesNext
  BY <1>4, ManAssumption DEF RemoveFromStorage, ManQuiet, RemoveName, NamesNext, Next
<1>5. ASSUME NEW t \in Threads, RunStage(t) PROVE NamesNext \/ UNCHANGED vars
  BY <1>5, ManAssumption DEF RunStage, CallbackCalls, NamesNext
<1>6. ASSUME NEW t \in Threads, TakeIndex(t) PROVE NamesNext
  BY <1>6 DEF TakeIndex, CallbackReturns, NamesNext
<1>7. ASSUME NEW t \in Threads,
             \/ CacheLookup(t) \/ CacheLookupLocked(t) \/ ReadStorage(t) \/ CacheInsert(t)
             \/ CacheAssign(t) \/ Advance(t) \/ PlaceContent(t)
             \/ \E b \in BOOLEAN : Acquire(t, b)
             \/ \E n \in MemNames : PlaceInStorage(t, n)
      PROVE  UNCHANGED vars
  BY <1>7 DEF CacheLookup, CacheLookupLocked, ReadStorage, CacheInsert, CacheAssign, Advance,
     PlaceContent, Acquire, PlaceInStorage
<1>8. CASE FlushCache
  BY <1>8 DEF FlushCache
<1>9. CASE UNCHANGED allVars
  BY <1>9 DEF allVars
<1> QED
  BY <1>1, <1>2, <1>3, <1>4, <1>5, <1>6, <1>7, <1>8, <1>9 DEF ManNext, ManStep

LEMMA ManNames == ManSpec => NamesSpec
<1>1. ManInit => Init
  BY DEF ManInit
<1> QED
  BY <1>1, NamesStep, PTL DEF ManSpec, NamesSpec

(* What the table of handle bases says of an index, and a handle of its index. *)
SlotInv ==
  /\ \A i \in Index :
       /\ indexToBase[i].index \in {Null, i}
       /\ indexToResourceName[i] = Null => indexToBase[i] = BlankBase
  /\ \A t \in Threads :
       /\ pc[t] \in {"insert", "assign", "setBase"} => indexToBase[index[t]] = BlankBase
       /\ Wanted(t) # Null => indexToResourceName[Wanted(t)] # Null

LEMMA BaseReadIndex ==
  ASSUME IInv, SlotInv, NEW i \in Index, NEW b \in ReadBase(i)
  PROVE  b.index = Null \/ (b.index = i /\ indexToResourceName[i] # Null)
<1> DEFINE racing == {FullBase(i, name[u]) :
                        u \in {v \in Threads : pc[v] = "setBase" /\ index[v] = i}}
           seen == racing \cup {indexToBase[i]}
<1>1. \A x \in racing : x.index = i /\ indexToResourceName[i] # Null
  BY ConstantsAssumption DEF FullBase, IInv, HolderInv, CallInv
<1>2. indexToBase[i].index = Null \/ (indexToBase[i].index = i /\ indexToResourceName[i] # Null)
  BY DEF SlotInv, BlankBase
<1>3. b.index \in {x.index : x \in seen}
  BY DEF ReadBase
<1> QED
  BY <1>1, <1>2, <1>3

LEMMA SlotStep == IInv /\ SlotInv /\ [NamesNext]_vars => SlotInv'
<1> SUFFICES ASSUME IInv, SlotInv, [NamesNext]_vars PROVE SlotInv'
  OBVIOUS
<1> USE DEF SlotInv, Wanted
<1>1. ASSUME NEW t \in Threads, Alloc(t) PROVE SlotInv'
  <2> DEFINE i == Head(freelist)
  <2>1. i \in Index /\ i = freelist[1] /\ 1 \in 1..Len(freelist)
    BY <1>1, EmptySeq, HeadTailProperties DEF Alloc, IInv, TypeOK
  <2>2. indexToResourceName[i] = Null
    BY <2>1 DEF IInv, PoolAccounted
  <2>3. /\ index' = [index EXCEPT ![t] = i]
        /\ indexToResourceName' = [indexToResourceName EXCEPT ![i] = name[t]]
        /\ pc' = [pc EXCEPT ![t] = "insert"] /\ UNCHANGED <<indexToBase, handle>>
        /\ name[t] # Null
    BY <1>1, ConstantsAssumption DEF Alloc, IInv, CallInv
  <2>4. \A u \in Threads : pc'[u] \in {"insert", "assign", "setBase"} => u = t
    BY <1>1, <2>3, OneHolder DEF IInv, TypeOK, Alloc, Locked
  <2>5. \A u \in Threads : handle[u].base.index \in Index \cup {Null}
    BY DEF IInv, TypeOK, Base
  <2> QED
    BY <2>1, <2>2, <2>3, <2>4, <2>5 DEF IInv, TypeOK
<1>2. ASSUME NEW t \in Threads, SetBase(t) PROVE SlotInv'
  <2>1. \A u \in Threads : pc'[u] \notin {"insert", "assign", "setBase"}
    BY <1>2, OneHolder DEF SetBase, IInv, TypeOK, Locked
  <2>2. index[t] \in Index /\ indexToResourceName[index[t]] # Null
    BY <1>2, ConstantsAssumption DEF SetBase, IInv, CallInv, HolderInv
  <2> QED
    BY <1>2, <2>1, <2>2 DEF SetBase, IInv, TypeOK, FullBase
<1>3. ASSUME NEW t \in Threads, OpenByIndex(t) PROVE SlotInv'
  <2>1. /\ index[t] \in Index /\ UNCHANGED <<indexToBase, indexToResourceName>>
        /\ pc' = [pc EXCEPT ![t] = "idle"] /\ index' = [index EXCEPT ![t] = Null]
    BY <1>3 DEF OpenByIndex, ReturnIndex, IInv, CallInv
  <2>2. PICK b \in ReadBase(index[t]) :
          handle' = [handle EXCEPT ![t] = [name |-> name[t], base |-> b]]
    BY <1>3 DEF OpenByIndex
  <2>3. b.index = Null \/ (b.index = index[t] /\ indexToResourceName[index[t]] # Null)
    BY <2>1, BaseReadIndex
  <2>4. \A u \in Threads : pc'[u] \in {"insert", "assign", "setBase"} =>
                             pc[u] = pc'[u] /\ index'[u] = index[u]
    BY <2>1 DEF IInv, TypeOK
  <2>5. \A u \in Threads : \/ handle'[u].base.index = handle[u].base.index
                           \/ handle'[u].base.index = b.index
    BY <2>2 DEF IInv, TypeOK
  <2> QED
    BY <2>1, <2>3, <2>4, <2>5
<1>4. CASE /\ UNCHANGED <<indexToBase, indexToResourceName>>
           /\ \A u \in Threads :
                /\ pc'[u] \in {"insert", "assign", "setBase"} =>
                     pc[u] \in {"insert", "assign", "setBase"} /\ index'[u] = index[u]
                /\ handle'[u] = handle[u] \/ handle'[u] = NoHandle
  BY <1>4 DEF NoHandle, BlankBase
<1> QED
  BY <1>1, <1>2, <1>3, <1>4 DEF IInv, TypeOK, vars, NamesNext, CallbackCalls, CallbackReturns,
     Next, Step, Lookup, OpenByName, GetIndexFromName, FindHit, FindMiss, Lock, Recheck,
     AllocSpins, InsertNode, AssignIndex, Unlock, ReturnIndex, TextDies, RemoveName, EraseName

(* What the proofs about the manager know of its names. *)
NamesInv == IInv /\ FoundInv /\ HandlesRight /\ SlotInv

LEMMA ManNamesInv == ManSpec => []NamesInv
<1>1. Init => SlotInv
  BY DEF Init, SlotInv, Wanted, BlankBase, NoHandle
<1>2. IInv /\ SlotInv /\ [NamesNext]_vars => SlotInv'
  BY SlotStep
<1>3. NamesSpec => []SlotInv
  BY <1>1, <1>2, Inductive, PTL DEF NamesSpec
<1>4. IInv /\ FoundInv /\ HandlesRight /\ SlotInv => NamesInv
  BY DEF NamesInv
<1> QED
  BY <1>3, <1>4, ManNames, Inductive, HandlesInductive, PTL

-----------------------------------------------------------------------------
(* The inductive invariant *)

Loading == {"stage", "index", "insert", "assign", "advance"}
Acquiring == {"lookup", "lookupLocked", "read"} \cup Loading

NameWanted(t) == indexToResourceName[Wanted(t)]

(* Which call a thread is in: the manager's or, from the callback, also that of *)
(* the lookup of a chunk's name.  What it acquires has an index.                *)
InCall(t) ==
  /\ loadPc[t] \notin {"idle", "index"} => pc[t] = "idle"
  /\ loadPc[t] = "index" => pc[t] # "idle" /\ name[t] = obj[load[t].copy].name
  /\ loadPc[t] \in Acquiring => Wanted(t) # Null
  /\ loadPc[t] \notin Loading => load[t].copy = Null

PlaceInv == \A t \in Threads : InCall(t)

(* What a thread knows of the resource it builds: it is the chunk the read has *)
(* come to, of the content the storage has, and it has the stages gone by.     *)
Loads(t) ==
  LET o == obj[load[t].copy]
      s == load[t].stage
  IN  /\ load[t].copy \in Copies
      /\ load[t].chunk \in 1..Len(ChunksOf(NameWanted(t)))
      /\ o.name = ChunksOf(NameWanted(t))[load[t].chunk]
      /\ o.name \in MemNames => memory[o.name] \in Versions /\ o.version = memory[o.name]
      /\ \A r \in Accepted(o.name) : (r < s \/ (r = s /\ loadPc[t] # "stage")) => r \in o.done
      /\ loadPc[t] \in {"index", "insert", "assign"} => 0 \in o.done
      /\ loadPc[t] \in {"insert", "assign"} => load[t].slot \in Index

LoadInv == \A t \in Threads : loadPc[t] \in Loading => Loads(t)

(* A block of memory that somebody refers to holds a resource. *)
ObjInv == \A c \in Copies : Referenced(c) => obj[c] \in Object

(* The cache's mutex is held by the thread that has put an empty node in. *)
MutexInv ==
  \A t \in Threads :
    /\ loadPc[t] = "assign" <=> updateMutex = t
    /\ loadPc[t] = "assign" => cache[load[t].slot] = Empty

PlacedInv == \A n \in MemNames : memory[n] # Absent => placed[n] > 0

(* The shape of a state, whatever lookups have returned. *)
ShapeInv == ManTypeOK /\ PlaceInv /\ LoadInv /\ ObjInv /\ MutexInv /\ PlacedInv

-----------------------------------------------------------------------------
(* What steps leave alone *)

(* A thread in a call of the manager keeps its handle. *)
LEMMA HandleKept ==
  ASSUME TypeOK, ManNext, NEW u \in Threads, loadPc[u] # "idle"
  PROVE  handle'[u] = handle[u]
<1>1. CASE UNCHANGED handle
  BY <1>1
<1>2. ASSUME NEW t \in Threads, NEW n \in Names, NEW k \in Text, Open(t, n, k)
      PROVE  handle'[u] = handle[u]
  BY <1>2 DEF Open, OpenByName, TypeOK
<1>3. ASSUME NEW t \in Threads, loadPc[t] = "idle", OpenByIndex(t)
      PROVE  handle'[u] = handle[u]
  BY <1>3 DEF OpenByIndex, TypeOK
<1>4. ASSUME NEW t \in Threads, Lookup(t) PROVE UNCHANGED handle
  BY <1>4 DEF Lookup, FindHit, FindMiss, Lock, Recheck, Alloc, AllocSpins, InsertNode,
     AssignIndex, SetBase, Unlock
<1> QED
  BY <1>1, <1>2, <1>3, <1>4 DEF ManNext, ManStep, NameStep, CacheLookup, CacheLookupLocked,
     ReadStorage, RunStage, TakeIndex, CacheInsert, CacheAssign, Advance, PlaceContent, Acquire,
     PlaceInStorage, Forget, TextDies, RemoveFromStorage, EraseName, FlushCache, vars

(* What a thread acquires keeps its name. *)
LEMMA WantedKept ==
  ASSUME NamesInv, ManNext, NEW u \in Threads, loadPc[u] # "idle", Wanted(u) # Null
  PROVE  Wanted(u)' = Wanted(u) /\ NameWanted(u)' = NameWanted(u)
<1> USE DEF NamesInv
<1>1. Wanted(u)' = Wanted(u)
  BY HandleKept DEF Wanted, IInv
<1>2. Wanted(u) \in Index
  BY DEF Wanted, IInv, TypeOK, Base
<1>3. indexToResourceName[Wanted(u)] # Null
  BY DEF SlotInv
<1>4. [NamesNext]_vars
  BY NamesStep
<1>5. indexToResourceName'[Wanted(u)] = indexToResourceName[Wanted(u)]
  BY <1>2, <1>3, <1>4, NameKeptStep
<1> QED
  BY <1>1, <1>5 DEF NameWanted

(* A name under which the storage has content keeps it until it is removed, *)
(* and nobody is in the manager then.                                       *)
LEMMA ContentKept ==
  ASSUME ManTypeOK, ManNext, NEW n \in MemNames, memory[n] \in Versions
  PROVE  memory'[n] = memory[n] \/ \A t \in Threads : loadPc[t] = "idle"
<1> USE ManAssumption DEF Versions
<1>1. CASE UNCHANGED memory
  BY <1>1
<1>2. ASSUME NEW t \in Threads, NEW m \in MemNames, PlaceInStorage(t, m)
      PROVE  memory'[n] = memory[n]
  BY <1>2 DEF PlaceInStorage, ManTypeOK
<1>3. ASSUME NEW t \in Threads, PlaceContent(t) PROVE memory'[n] = memory[n]
  BY <1>3 DEF PlaceContent, ManTypeOK
<1>4. ASSUME NEW m \in MemNames, RemoveFromStorage(m)
      PROVE  \A t \in Threads : loadPc[t] = "idle"
  BY <1>4 DEF RemoveFromStorage, ManQuiet
<1> QED
  BY <1>1, <1>2, <1>3, <1>4 DEF ManNext, ManStep, NameStep, CacheLookup, CacheLookupLocked,
     ReadStorage, RunStage, TakeIndex, CacheInsert, CacheAssign, Advance, Acquire,
     Open, Forget, FlushCache, manVars

(* A resource that is referred to before and after a step stays the resource it *)
(* was, with the stages it had.                                                 *)
Grows(c) ==
  /\ obj'[c].name = obj[c].name
  /\ obj'[c].version = obj[c].version
  /\ obj[c].done \subseteq obj'[c].done

LEMMA StartChunkFacts ==
  ASSUME ManTypeOK, NEW t \in Threads, NEW k, NEW n, NEW v, StartChunk(t, k, n, v)
  PROVE  \E c \in Copies :
           /\ ~Referenced(c) /\ obj'[c] = NewObject(n, v)
           /\ loadPc' = [loadPc EXCEPT ![t] = "stage"]
           /\ load' = [load EXCEPT ![t] = Locals(load[t].blocking, FALSE, k, c)]
           /\ \A d \in Copies : obj'[d] = IF ~Referenced(d)' THEN Null
                                          ELSE IF d = c THEN NewObject(n, v) ELSE obj[d]
           /\ UNCHANGED <<cache, updateMutex, result>>
<1>1. PICK c \in Copies :
        /\ ~Referenced(c)
        /\ loadPc' = [loadPc EXCEPT ![t] = "stage"]
        /\ load' = [load EXCEPT ![t] = Locals(load[t].blocking, FALSE, k, c)]
        /\ UNCHANGED <<cache, updateMutex, result>>
        /\ obj' = Kept([obj EXCEPT ![c] = NewObject(n, v)])
  BY DEF StartChunk, Unused, Goto
<1>2. load'[t].copy = c
  BY <1>1 DEF ManTypeOK, Locals
<1>3. Referenced(c)'
  BY <1>2 DEF Referenced
<1>4. \A d \in Copies : obj'[d] = IF ~Referenced(d)' THEN Null
                                  ELSE IF d = c THEN NewObject(n, v) ELSE obj[d]
  BY <1>1 DEF Kept, ManTypeOK
<1> QED
  BY <1>1, <1>3, <1>4

(* The read and its end, and the steps between two stages, seen from the threads. *)
LEMMA ReadFacts ==
  ASSUME ManTypeOK, NEW t \in Threads, ReadStorage(t) \/ Advance(t)
  PROVE  /\ loadPc[t] \in {"read", "advance"} /\ UNCHANGED vars
         /\ \A w \in Threads \ {t} : loadPc'[w] = loadPc[w] /\ load'[w] = load[w]
         /\ \/ loadPc'[t] = "stage"
            \/ loadPc'[t] \in {"lookup", "idle"} /\ load'[t].copy = Null
<1> DEFINE Moves == /\ \A w \in Threads \ {t} : loadPc'[w] = loadPc[w] /\ load'[w] = load[w]
                    /\ \/ loadPc'[t] = "stage"
                       \/ loadPc'[t] \in {"lookup", "idle"} /\ load'[t].copy = Null
<1>1. loadPc[t] \in {"read", "advance"} /\ UNCHANGED vars
  BY DEF ReadStorage, Advance
<1> SUFFICES Moves
  BY <1>1
<1>2. ASSUME NEW k, NEW n, NEW v, StartChunk(t, k, n, v)
      PROVE  /\ \A w \in Threads \ {t} : loadPc'[w] = loadPc[w] /\ load'[w] = load[w]
             /\ loadPc'[t] = "stage"
  <2>1. PICK c : /\ loadPc' = [loadPc EXCEPT ![t] = "stage"]
                 /\ load' = [load EXCEPT ![t] = Locals(load[t].blocking, FALSE, k, c)]
    BY <1>2 DEF StartChunk, Goto
  <2> QED
    BY <2>1 DEF ManTypeOK
<1>3. CASE GiveUp(t)
  BY <1>3 DEF GiveUp, Goto, Locals, ManTypeOK
<1>4. CASE loadPc' = [loadPc EXCEPT ![t] = "stage"] /\ load' = [load EXCEPT ![t].stage = @ + 1]
  BY <1>4 DEF ManTypeOK
<1>5. CASE /\ loadPc' = [loadPc EXCEPT ![t] = "lookup"]
           /\ load' = [load EXCEPT ![t] = Locals(load[t].blocking, TRUE, 0, Null)]
  BY <1>5 DEF ManTypeOK, Locals
<1> QED
  BY <1>2, <1>3, <1>4, <1>5 DEF ReadStorage, Advance, Goto

LEMMA Growth ==
  ASSUME ManTypeOK, ObjInv, ManNext, NEW c \in Copies, Referenced(c), Referenced(c)'
  PROVE  Grows(c)
<1>1. CASE UNCHANGED obj
  BY <1>1 DEF Grows
<1>2. CASE obj' = Kept(obj)
  BY <1>2 DEF Grows, Kept
<1>3. ASSUME NEW t \in Threads, NEW k, NEW n, NEW v, StartChunk(t, k, n, v) PROVE Grows(c)
  BY <1>3, StartChunkFacts DEF Grows
<1>4. ASSUME NEW t \in Threads, NEW s, obj' = [obj EXCEPT ![load[t].copy].done = @ \cup {s}]
      PROVE  Grows(c)
  <2>1. obj[c] \in Object
    BY DEF ObjInv, ManTypeOK
  <2> QED
    BY <1>4, <2>1 DEF Grows, ManTypeOK, Object
<1> QED
  BY <1>1, <1>2, <1>3, <1>4 DEF ManNext, ManStep, NameStep, CacheLookup, CacheLookupLocked,
     ReadStorage, RunStage, TakeIndex, CacheInsert, CacheAssign, Advance, PlaceContent, Acquire,
     PlaceInStorage, Open, Forget, RemoveFromStorage, FlushCache, manVars

(* The resource a thread goes on building. *)
LEMMA OwnGrows ==
  ASSUME ManTypeOK, ObjInv, ManNext, NEW u \in Threads, load[u].copy \in Copies,
         load'[u].copy = load[u].copy
  PROVE  /\ obj'[load[u].copy].name = obj[load[u].copy].name
         /\ obj'[load[u].copy].version = obj[load[u].copy].version
         /\ obj[load[u].copy].done \subseteq obj'[load[u].copy].done
<1>1. ASSUME NEW c \in Copies, load[u].copy = c, load'[u].copy = c PROVE Grows(c)
  <2>1. Referenced(c) /\ Referenced(c)'
    BY <1>1 DEF Referenced
  <2> QED
    BY <2>1, Growth
<1> QED
  BY <1>1 DEF Grows

-----------------------------------------------------------------------------
(* Where the threads are *)

LEMMA InCallKept ==
  ASSUME NamesInv, ShapeInv, ManNext, NEW u \in Threads, loadPc'[u] = loadPc[u],
         load'[u].copy = load[u].copy, pc'[u] = "idle" <=> pc[u] = "idle",
         pc[u] # "idle" => name'[u] = name[u]
  PROVE  InCall(u)'
<1> USE DEF ShapeInv, PlaceInv, InCall
<1>1. loadPc[u] = "index" => name'[u] = obj'[load[u].copy].name
  <2> SUFFICES ASSUME loadPc[u] = "index" PROVE name'[u] = obj'[load[u].copy].name
    OBVIOUS
  <2>1. load[u].copy \in Copies /\ name[u] = obj[load[u].copy].name
    BY DEF LoadInv, Loads, Loading
  <2> QED
    BY <2>1, OwnGrows
<1>2. loadPc[u] \in Acquiring => Wanted(u)' # Null
  BY WantedKept DEF Acquiring, Loading
<1> QED
  BY <1>1, <1>2

LEMMA PlaceStep == NamesInv /\ ShapeInv /\ ManNext => PlaceInv'
<1> SUFFICES ASSUME NamesInv, ShapeInv, ManNext, NEW u \in Threads PROVE InCall(u)'
  BY DEF PlaceInv
<1> USE DEF ShapeInv
<1>0. InCall(u)
  BY DEF PlaceInv
<1>1. CASE /\ loadPc'[u] = loadPc[u] /\ load'[u].copy = load[u].copy
           /\ pc'[u] = "idle" <=> pc[u] = "idle"
           /\ pc[u] # "idle" => name'[u] = name[u]
  BY <1>1, InCallKept
<1> DEFINE Same == /\ loadPc'[u] = loadPc[u] /\ load'[u].copy = load[u].copy
                   /\ pc'[u] = "idle" <=> pc[u] = "idle"
                   /\ pc[u] # "idle" => name'[u] = name[u]
<1>2. ASSUME NEW t \in Threads, Lookup(t), UNCHANGED manVars PROVE Same
  BY <1>2 DEF Lookup, FindHit, FindMiss, Lock, Recheck, Alloc, AllocSpins, InsertNode,
     AssignIndex, SetBase, Unlock, ManTypeOK, TypeOK, manVars
<1>3. ASSUME NEW t \in Threads, loadPc[t] = "idle",
             OpenByIndex(t) \/ \E n \in Names, k \in Text : OpenByName(t, n, k),
             UNCHANGED manVars
      PROVE  InCall(u)'
  <2>1. CASE u # t
    BY <1>1, <1>3, <2>1 DEF OpenByIndex, ReturnIndex, OpenByName, GetIndexFromName, ManTypeOK,
       TypeOK, manVars
  <2>2. CASE u = t
    BY <1>0, <1>3, <2>2 DEF manVars, InCall, Acquiring, Loading
  <2> QED
    BY <2>1, <2>2
<1>4. ASSUME NEW t \in Threads, CacheLookup(t) \/ CacheLookupLocked(t) PROVE InCall(u)'
  <2>1. CASE u # t
    BY <1>1, <1>4, <2>1 DEF CacheLookup, CacheLookupLocked, Return, NotCached, GiveUp, Goto,
       ManTypeOK, vars
  <2>2. CASE u = t
    <3>1. loadPc[t] \in {"lookup", "lookupLocked"}
      BY <1>4 DEF CacheLookup, CacheLookupLocked
    <3>2. loadPc'[t] \in {"lookup", "lookupLocked", "read", "idle"} /\ load'[t].copy = Null
          /\ UNCHANGED pc
      BY <1>0, <1>4, <2>2, <3>1 DEF CacheLookup, CacheLookupLocked, Return, NotCached, GiveUp,
         Goto, ManTypeOK, vars, NoLoad, Locals, InCall, Loading
    <3>3. Wanted(t)' = Wanted(t) /\ Wanted(t) # Null
      BY <1>0, <2>2, <3>1, WantedKept DEF InCall, Acquiring
    <3> QED
      BY <1>0, <2>2, <3>1, <3>2, <3>3 DEF InCall, Loading
  <2> QED
    BY <2>1, <2>2
<1>5. ASSUME NEW t \in Threads, ReadStorage(t) \/ Advance(t) PROVE InCall(u)'
  <2>1. /\ loadPc[t] \in {"read", "advance"} /\ UNCHANGED vars
        /\ \A w \in Threads \ {t} : loadPc'[w] = loadPc[w] /\ load'[w] = load[w]
        /\ \/ loadPc'[t] = "stage"
           \/ loadPc'[t] \in {"lookup", "idle"} /\ load'[t].copy = Null
    BY <1>5, ReadFacts
  <2>2. CASE u # t
    BY <1>1, <2>1, <2>2 DEF vars
  <2>3. CASE u = t
    <3>1. Wanted(t)' = Wanted(t) /\ Wanted(t) # Null /\ pc[t] = "idle"
      BY <1>0, <2>1, <2>3, WantedKept DEF InCall, Acquiring, Loading
    <3>2. pc'[t] = "idle" /\ loadPc'[t] # "index"
      BY <2>1, <3>1 DEF vars
    <3> QED
      BY <2>1, <2>3, <3>1, <3>2 DEF InCall, Loading
  <2> QED
    BY <2>2, <2>3
<1>6. ASSUME NEW t \in Threads, RunStage(t) PROVE InCall(u)'
  <2>1. CASE u # t
    BY <1>1, <1>6, <2>1 DEF RunStage, Goto, GetIndexFromName, ManTypeOK, TypeOK, vars
  <2>2. CASE u = t
    <3>1. /\ Wanted(t)' = Wanted(t) /\ Wanted(t) # Null /\ pc[t] = "idle"
          /\ loadPc[t] = "stage" /\ load[t].copy \in Copies
      BY <1>0, <1>6, <2>2, WantedKept DEF RunStage, InCall, Acquiring, Loading, LoadInv, Loads
    <3>2. \/ loadPc'[t] \in {"advance", "insert"} /\ UNCHANGED vars
          \/ /\ loadPc'[t] = "index" /\ pc'[t] = "find" /\ UNCHANGED load
             /\ name'[t] = obj[load[t].copy].name
      BY <1>6 DEF RunStage, Goto, GetIndexFromName, ManTypeOK, TypeOK
    <3>3. loadPc'[t] = "index" => obj'[load[t].copy].name = obj[load[t].copy].name
      BY <3>1, <3>2, OwnGrows
    <3>4. CASE loadPc'[t] = "index"
      BY <2>2, <3>1, <3>2, <3>3, <3>4 DEF InCall, Loading
    <3>5. CASE loadPc'[t] # "index"
      BY <2>2, <3>1, <3>2, <3>5 DEF InCall, Loading, vars
    <3> QED
      BY <3>4, <3>5
  <2> QED
    BY <2>1, <2>2
<1>7. ASSUME NEW t \in Threads, TakeIndex(t) PROVE InCall(u)'
  <2>1. CASE u # t
    BY <1>1, <1>7, <2>1 DEF TakeIndex, ReturnIndex, Goto, ManTypeOK, TypeOK
  <2>2. CASE u = t
    <3>1. Wanted(t)' = Wanted(t) /\ Wanted(t) # Null
      BY <1>0, <1>7, <2>2, WantedKept DEF TakeIndex, InCall, Acquiring, Loading
    <3>2. loadPc'[t] = "insert" /\ pc'[t] = "idle"
      BY <1>7 DEF TakeIndex, ReturnIndex, Goto, ManTypeOK, TypeOK
    <3> QED
      BY <2>2, <3>1, <3>2 DEF InCall, Loading
  <2> QED
    BY <2>1, <2>2
<1>8. ASSUME NEW t \in Threads, CacheInsert(t) \/ CacheAssign(t) PROVE InCall(u)'
  <2>1. CASE u # t
    BY <1>1, <1>8, <2>1 DEF CacheInsert, CacheAssign, Goto, ManTypeOK, vars
  <2>2. CASE u = t
    <3>1. Wanted(t)' = Wanted(t) /\ Wanted(t) # Null /\ pc[t] = "idle"
      BY <1>0, <1>8, <2>2, WantedKept DEF CacheInsert, CacheAssign, InCall, Acquiring, Loading
    <3>2. loadPc'[t] \in {"assign", "advance"} /\ UNCHANGED vars
      BY <1>8 DEF CacheInsert, CacheAssign, Goto, ManTypeOK
    <3> QED
      BY <2>2, <3>1, <3>2 DEF InCall, Loading, vars
  <2> QED
    BY <2>1, <2>2
<1>9. ASSUME NEW t \in Threads, NEW b \in BOOLEAN, Acquire(t, b) PROVE InCall(u)'
  <2>1. CASE u # t
    BY <1>1, <1>9, <2>1 DEF Acquire, Goto, ManTypeOK, vars
  <2>2. CASE u = t
    <3>1. /\ UNCHANGED vars /\ pc[t] = "idle" /\ load'[t].copy = Null
          /\ loadPc'[t] = "idle" \/ (loadPc'[t] = "lookup" /\ Wanted(t) # Null)
      BY <1>0, <1>9, <2>2 DEF Acquire, Goto, ManTypeOK, InCall, Loading
    <3> QED
      BY <2>2, <3>1 DEF InCall, Wanted, Acquiring, Loading, vars
  <2> QED
    BY <2>1, <2>2
<1>10. ASSUME NEW t \in Threads, PlaceContent(t) \/ \E n \in MemNames : PlaceInStorage(t, n)
       PROVE InCall(u)'
  <2>1. CASE u # t
    BY <1>1, <1>10, <2>1 DEF PlaceContent, PlaceInStorage, Goto, ManTypeOK, vars
  <2>2. CASE u = t
    <3>1. /\ UNCHANGED vars /\ pc[t] = "idle" /\ load'[t].copy = Null
          /\ loadPc'[t] \in {"idle", "place"}
      BY <1>0, <1>10, <2>2 DEF PlaceContent, PlaceInStorage, Goto, ManTypeOK, InCall, Loading
    <3> QED
      BY <2>2, <3>1 DEF InCall, Acquiring, Loading, vars
  <2> QED
    BY <2>1, <2>2
<1>11. ASSUME \/ \E m \in nodes : Forget(m)
              \/ \E n \in MemNames : RemoveFromStorage(n)
              \/ FlushCache
       PROVE  InCall(u)'
  BY <1>1, <1>11 DEF Forget, TextDies, RemoveFromStorage, EraseName, FlushCache, manVars, vars
<1> QED
  BY <1>1, <1>2, <1>3, <1>4, <1>5, <1>6, <1>7, <1>8, <1>9, <1>10, <1>11
     DEF ManNext, ManStep, NameStep, Open

-----------------------------------------------------------------------------
(* Type correctness *)

LEMMA ChunkFacts ==
  ASSUME NEW n \in Names
  PROVE  /\ Len(ChunksOf(n)) \in Nat \ {0}
         /\ \A k \in 1..Len(ChunksOf(n)) :
              /\ ChunksOf(n)[k] \in Names
              /\ ChunksOf(n)[k] \in MemNames =>
                   n \in MemNames /\ ChunksOf(n)[k] = n /\ Len(ChunksOf(n)) = 1
<1>1. CASE n \in MemNames
  BY <1>1 DEF ChunksOf
<1>2. CASE n \notin MemNames
  <2>1. n \in DiskNames /\ ChunksOf(n) \in Seq(DiskNames \ Durable) /\ ChunksOf(n) # <<>>
    BY <1>2, ManAssumption DEF ChunksOf
  <2>2. \A k \in 1..Len(ChunksOf(n)) : ChunksOf(n)[k] \in DiskNames
    BY <2>1, ElementOfSeq
  <2> QED
    BY <2>1, <2>2, EmptySeq, LenProperties, ManAssumption
<1> QED
  BY <1>1, <1>2

LEMMA WantedFacts ==
  ASSUME NamesInv, NEW t \in Threads
  PROVE  /\ Wanted(t) \in Index \cup {Null}
         /\ Wanted(t) # Null => Wanted(t) \in Index /\ NameWanted(t) \in Names
BY DEF NamesInv, IInv, TypeOK, Base, Wanted, NameWanted, SlotInv

LocalsType == [blocking : BOOLEAN, loaded : BOOLEAN, chunk : Nat, stage : Stages,
               copy : Copies \cup {Null}, slot : Index \cup {Null}]

LEMMA LocalsUpdate ==
  ASSUME ManTypeOK, NEW t \in Threads
  PROVE  /\ load \in [Threads -> LocalsType]
         /\ \A l \in LocalsType : [load EXCEPT ![t] = l] \in [Threads -> LocalsType]
         /\ \A b \in BOOLEAN : [load EXCEPT ![t].blocking = b] \in [Threads -> LocalsType]
         /\ \A s \in Stages : [load EXCEPT ![t].stage = s] \in [Threads -> LocalsType]
         /\ \A i \in Index \cup {Null} :
              [load EXCEPT ![t].slot = i] \in [Threads -> LocalsType]
<1>1. load \in [Threads -> LocalsType] /\ load[t] \in LocalsType
  BY DEF ManTypeOK, LocalsType
<1>2. \A l \in LocalsType, b \in BOOLEAN : [l EXCEPT !.blocking = b] \in LocalsType
  BY DEF LocalsType
<1>3. \A l \in LocalsType, s \in Stages : [l EXCEPT !.stage = s] \in LocalsType
  BY DEF LocalsType
<1>4. \A l \in LocalsType, i \in Index \cup {Null} : [l EXCEPT !.slot = i] \in LocalsType
  BY DEF LocalsType
<1> QED
  BY <1>1, <1>2, <1>3, <1>4

LEMMA ObjectTypes ==
  ASSUME ManTypeOK, NEW t \in Threads, NEW k, NEW n \in Names, NEW v \in Versions,
         StartChunk(t, k, n, v), k \in Nat
  PROVE  /\ loadPc' \in [Threads -> {"idle", "lookup", "lookupLocked", "read", "stage", "index",
                                     "insert", "assign", "advance", "place"}]
         /\ load' \in [Threads -> LocalsType]
         /\ obj' \in [Copies -> Object \cup {Null}]
<1>1. NewObject(n, v) \in Object
  BY DEF NewObject, Object
<1>2. 0 \in Stages
  BY ManAssumption DEF Stages
<1>3. PICK c \in Copies :
        /\ loadPc' = [loadPc EXCEPT ![t] = "stage"]
        /\ load' = [load EXCEPT ![t] = Locals(load[t].blocking, FALSE, k, c)]
        /\ obj' = Kept([obj EXCEPT ![c] = NewObject(n, v)])
  BY DEF StartChunk, Unused, Goto
<1>4. obj' \in [Copies -> Object \cup {Null}]
  BY <1>1, <1>3 DEF Kept, ManTypeOK
<1>5. Locals(load[t].blocking, FALSE, k, c) \in LocalsType
  BY <1>2 DEF Locals, LocalsType, ManTypeOK
<1> QED
  BY <1>3, <1>4, <1>5, LocalsUpdate DEF ManTypeOK

(* A read starts a chunk of the content that is wanted, gives up, goes on to the *)
(* next stage, or ends.                                                          *)
Starts(t) ==
  \E k \in 1..Len(ChunksOf(NameWanted(t))), n \in Names, v \in Versions :
    /\ StartChunk(t, k, n, v)
    /\ n = ChunksOf(NameWanted(t))[k]
    /\ n \in MemNames => v = memory[n]

NextStage(t) ==
  /\ loadPc[t] = "advance" /\ load[t].stage < LastStage
  /\ Goto(t, "stage")
  /\ load' = [load EXCEPT ![t].stage = load[t].stage + 1]
  /\ UNCHANGED obj

EndsRead(t) ==
  /\ loadPc[t] = "advance" /\ load[t].stage = LastStage
  /\ Goto(t, "lookup")
  /\ load' = [load EXCEPT ![t] = Locals(load[t].blocking, TRUE, 0, Null)]
  /\ obj' = Kept(obj)

LEMMA ReadCases ==
  ASSUME NamesInv, ShapeInv, NEW t \in Threads, ReadStorage(t) \/ Advance(t)
  PROVE  /\ UNCHANGED <<vars, cache, updateMutex, memory, placed, result>>
         /\ \/ Starts(t) /\ (loadPc[t] = "advance" => load[t].stage = LastStage)
            \/ GiveUp(t) /\ UNCHANGED obj /\ loadPc[t] = "read"
            \/ NextStage(t)
            \/ EndsRead(t)
<1> USE DEF ShapeInv
<1> DEFINE n == NameWanted(t)
<1>1. UNCHANGED <<vars, cache, updateMutex, memory, placed, result>>
  BY DEF ReadStorage, Advance, StartChunk, GiveUp
<1>2. /\ n \in Names /\ Len(ChunksOf(n)) \in Nat \ {0}
      /\ \A k \in 1..Len(ChunksOf(n)) :
              /\ ChunksOf(n)[k] \in Names
              /\ ChunksOf(n)[k] \in MemNames =>
                   n \in MemNames /\ ChunksOf(n)[k] = n /\ Len(ChunksOf(n)) = 1
  BY WantedFacts, ChunkFacts DEF ReadStorage, Advance, PlaceInv, InCall, Acquiring, Loading
<1>3. CASE ReadStorage(t)
  <2>1. CASE Stored(n) /\ StartChunk(t, 1, ChunksOf(n)[1], VersionOf(n))
    <3>1. 1 \in 1..Len(ChunksOf(n)) /\ VersionOf(n) \in Versions
      BY <1>2, <2>1, ManAssumption DEF Stored, VersionOf, Versions
    <3>2. ChunksOf(n)[1] \in MemNames => VersionOf(n) = memory[ChunksOf(n)[1]]
      BY <1>2, <3>1 DEF VersionOf
    <3>3. Starts(t)
      BY <1>2, <2>1, <3>1, <3>2 DEF Starts
    <3> QED
      BY <1>1, <1>3, <3>3 DEF ReadStorage
  <2>2. CASE GiveUp(t) /\ UNCHANGED obj
    BY <1>1, <1>3, <2>2 DEF ReadStorage
  <2> QED
    BY <1>3, <2>1, <2>2 DEF ReadStorage, NameWanted
<1>4. CASE Advance(t)
  <2> DEFINE k == load[t].chunk
  <2>1. k \in 1..Len(ChunksOf(n)) /\ obj[load[t].copy] \in Object
    BY <1>4 DEF Advance, LoadInv, Loads, Loading, ObjInv, Referenced
  <2>2. CASE /\ load[t].stage = LastStage /\ k < Len(ChunksOf(n))
             /\ StartChunk(t, k + 1, ChunksOf(n)[k + 1], obj[load[t].copy].version)
    <3>1. k + 1 \in 1..Len(ChunksOf(n)) /\ obj[load[t].copy].version \in Versions
      BY <1>2, <2>1, <2>2 DEF Object
    <3>2. ChunksOf(n)[k + 1] \notin MemNames
      BY <1>2, <2>1, <2>2, <3>1
    <3>3. Starts(t)
      BY <1>2, <2>2, <3>1, <3>2 DEF Starts
    <3> QED
      BY <1>1, <2>2, <3>3
  <2>3. CASE load[t].stage < LastStage
    <3>1. load[t].stage # LastStage
      BY <2>3, ManAssumption
    <3> QED
      BY <1>1, <1>4, <2>3, <3>1 DEF Advance, NextStage
  <2>4. CASE load[t].stage = LastStage /\ k = Len(ChunksOf(n))
    <3>1. ~(k < Len(ChunksOf(n))) /\ ~(load[t].stage < LastStage)
      BY <1>2, <2>4, ManAssumption
    <3> QED
      BY <1>1, <1>4, <2>4, <3>1 DEF Advance, EndsRead, NameWanted
  <2> QED
    BY <1>4, <2>2, <2>3, <2>4 DEF Advance, NameWanted
<1> QED
  BY <1>3, <1>4

LEMMA ManTypeInit == ManInit => ManTypeOK
<1> SUFFICES ASSUME ManInit PROVE ManTypeOK
  OBVIOUS
<1>1. TypeOK
  BY TypeInit DEF ManInit
<1>2. 0 \in Stages
  BY ManAssumption DEF Stages
<1>3. NoLoad \in LocalsType
  BY <1>2 DEF NoLoad, Locals, LocalsType
<1> QED
  BY <1>1, <1>3, ManAssumption DEF LocalsType, ManInit, ManTypeOK, C!CacheInit, Nothing

LEMMA ManTypeStep ==
  ASSUME NamesInv, NamesInv', ShapeInv, ManNext
  PROVE  ManTypeOK'
<1> USE DEF ShapeInv
<1>0. TypeOK' /\ 0 \in Stages /\ 1 \in Versions
  BY ManAssumption DEF NamesInv, IInv, Stages, Versions
<1> DEFINE StoreTypes == /\ cache' \in [Index -> Copies \cup {Absent, Empty}]
                     /\ updateMutex' \in Threads \cup {Null}
                     /\ memory' \in [MemNames -> Versions \cup {Absent, Empty}]
                     /\ placed' \in [MemNames -> 0..MaxPlaced]
                     /\ result' \in [Threads -> [index : Index \cup {Null},
                                                 copy : Copies \cup {Null}]]
           CallTypes == /\ loadPc' \in [Threads -> {"idle", "lookup", "lookupLocked", "read",
                                                 "stage", "index", "insert", "assign",
                                                 "advance", "place"}]
                     /\ load' \in [Threads -> LocalsType]
                     /\ obj' \in [Copies -> Object \cup {Null}]
<1>1. \A b, l \in BOOLEAN : Locals(b, l, 0, Null) \in LocalsType
  BY <1>0 DEF Locals, LocalsType
<1> SUFFICES StoreTypes /\ CallTypes
  BY <1>0 DEF ManTypeOK, LocalsType
<1>2. ASSUME obj' = Kept(obj) PROVE obj' \in [Copies -> Object \cup {Null}]
  BY <1>2 DEF Kept, ManTypeOK
<1>3. CASE UNCHANGED manVars
  BY <1>3 DEF manVars, ManTypeOK, LocalsType
<1>4. ASSUME NEW t \in Threads, CacheLookup(t) \/ CacheLookupLocked(t) PROVE StoreTypes /\ CallTypes
  <2>1. UNCHANGED <<cache, updateMutex, memory, placed, obj>>
    BY <1>4 DEF CacheLookup, CacheLookupLocked
  <2>2. Wanted(t) \in Index \cup {Null}
    BY WantedFacts
  <2>3. CASE \E c \in Copies : Return(t, c)
    <3>1. load' \in [Threads -> LocalsType]
      BY <1>1, <2>3, LocalsUpdate DEF Return, NoLoad
    <3> QED
      BY <2>1, <2>2, <2>3, <3>1 DEF Return, Goto, ManTypeOK
  <2>4. CASE NotCached(t)
    <3>1. load' = load \/ load' = [load EXCEPT ![t] = Locals(load[t].blocking, FALSE, 0, Null)]
      BY <2>4 DEF NotCached, GiveUp
    <3>2. load[t].blocking \in BOOLEAN
      BY DEF ManTypeOK
    <3>3. load' \in [Threads -> LocalsType]
      BY <1>1, <3>1, <3>2, LocalsUpdate
    <3> QED
      BY <2>1, <2>4, <3>3 DEF NotCached, GiveUp, Goto, ManTypeOK
  <2>5. CASE Goto(t, "lookupLocked") /\ UNCHANGED <<load, result>>
    BY <2>1, <2>5 DEF Goto, ManTypeOK, LocalsType
  <2> QED
    BY <1>4, <2>3, <2>4, <2>5 DEF CacheLookup, CacheLookupLocked
<1>5. ASSUME NEW t \in Threads, ReadStorage(t) \/ Advance(t) PROVE StoreTypes /\ CallTypes
  <2>1. UNCHANGED <<cache, updateMutex, result, memory, placed>>
    BY <1>5, ReadCases
  <2>2. StoreTypes
    BY <2>1 DEF ManTypeOK
  <2>3. CASE Starts(t)
    <3>1. PICK k \in Nat, n \in Names, v \in Versions : StartChunk(t, k, n, v)
      BY <2>3 DEF Starts
    <3> QED
      BY <2>2, <3>1, ObjectTypes
  <2>4. CASE GiveUp(t) /\ UNCHANGED obj
    BY <1>1, <2>2, <2>4, LocalsUpdate DEF GiveUp, Goto, ManTypeOK
  <2>5. CASE NextStage(t)
    <3>1. load[t].stage + 1 \in Stages
      BY <2>5, ManAssumption DEF NextStage, ManTypeOK, Stages
    <3>2. load' \in [Threads -> LocalsType]
      BY <2>5, <3>1, LocalsUpdate DEF NextStage
    <3> QED
      BY <2>2, <2>5, <3>2 DEF NextStage, Goto, ManTypeOK
  <2>6. CASE EndsRead(t)
    BY <1>1, <1>2, <2>2, <2>6, LocalsUpdate DEF EndsRead, Goto, ManTypeOK
  <2> QED
    BY <1>5, <2>3, <2>4, <2>5, <2>6, ReadCases
<1>6. ASSUME NEW t \in Threads, RunStage(t) PROVE StoreTypes /\ CallTypes
  <2> DEFINE c == load[t].copy
  <2>1. c \in Copies /\ obj[c] \in Object
    BY <1>6 DEF RunStage, LoadInv, Loads, Loading, ObjInv, Referenced, ManTypeOK
  <2>2. load[t].stage \in Stages
    BY DEF ManTypeOK
  <2>3. UNCHANGED obj \/ obj' = [obj EXCEPT ![c].done = @ \cup {load[t].stage}]
    BY <1>6 DEF RunStage
  <2>4. obj' \in [Copies -> Object \cup {Null}]
    BY <2>1, <2>2, <2>3 DEF ManTypeOK, Object
  <2>5. UNCHANGED load \/ load' = [load EXCEPT ![t].slot = Wanted(t)]
    BY <1>6 DEF RunStage
  <2>6. load' \in [Threads -> LocalsType]
    BY <2>5, WantedFacts, LocalsUpdate
  <2>7. loadPc' \in [Threads -> {"idle", "lookup", "lookupLocked", "read", "stage", "index",
                                 "insert", "assign", "advance", "place"}]
    BY <1>6 DEF RunStage, Goto, ManTypeOK
  <2> QED
    BY <1>6, <2>4, <2>6, <2>7 DEF RunStage, ManTypeOK
<1>7. ASSUME NEW t \in Threads, TakeIndex(t) PROVE StoreTypes /\ CallTypes
  <2>1. index[t] \in Index
    BY <1>7 DEF TakeIndex, ReturnIndex, NamesInv, IInv, CallInv
  <2> QED
    BY <1>7, <2>1, LocalsUpdate DEF TakeIndex, Goto, ManTypeOK
<1>8. ASSUME NEW t \in Threads, CacheInsert(t) PROVE StoreTypes /\ CallTypes
  BY <1>8 DEF CacheInsert, C!InsertEmpty, C!InsertKeeps, C!cacheVars, Goto, ManTypeOK,
     LocalsType
<1>9. ASSUME NEW t \in Threads, CacheAssign(t) PROVE StoreTypes /\ CallTypes
  <2>1. load[t].copy \in Copies
    BY <1>9 DEF CacheAssign, LoadInv, Loads, Loading
  <2> QED
    BY <1>9, <2>1 DEF CacheAssign, C!InsertAssign, Goto, ManTypeOK, LocalsType
<1>10. ASSUME NEW t \in Threads, NEW b \in BOOLEAN, Acquire(t, b) PROVE StoreTypes /\ CallTypes
  <2>1. load' = load \/ load' = [load EXCEPT ![t].blocking = b]
    BY <1>10 DEF Acquire
  <2>2. load' \in [Threads -> LocalsType]
    BY <2>1, LocalsUpdate
  <2> QED
    BY <1>2, <1>10, <2>2 DEF Acquire, Goto, Nothing, ManTypeOK
<1>11. ASSUME NEW t \in Threads, NEW n \in MemNames, PlaceInStorage(t, n) PROVE StoreTypes /\ CallTypes
  <2>1. placed[n] + 1 \in 0..MaxPlaced
    BY <1>11, ManAssumption DEF PlaceInStorage, ManTypeOK
  <2> QED
    BY <1>11, <2>1 DEF PlaceInStorage, Goto, ManTypeOK, LocalsType
<1>12. ASSUME NEW t \in Threads, PlaceContent(t) PROVE StoreTypes /\ CallTypes
  <2>1. PICK n \in MemNames : memory[n] = Empty /\ memory' = [memory EXCEPT ![n] = placed[n]]
    BY <1>12 DEF PlaceContent
  <2>2. placed[n] \in Versions
    BY <2>1, ManAssumption DEF PlacedInv, ManTypeOK, Versions
  <2> QED
    BY <1>12, <2>1, <2>2 DEF PlaceContent, Goto, ManTypeOK, LocalsType
<1>13. ASSUME NEW n \in MemNames, RemoveFromStorage(n) PROVE StoreTypes /\ CallTypes
  BY <1>13 DEF RemoveFromStorage, ManTypeOK, LocalsType
<1>14. CASE FlushCache
  BY <1>2, <1>14 DEF FlushCache, C!Reset, ManTypeOK, LocalsType
<1> QED
  BY <1>3, <1>4, <1>5, <1>6, <1>7, <1>8, <1>9, <1>10, <1>11, <1>12, <1>13, <1>14
     DEF ManNext, ManStep, NameStep, Open, Forget

-----------------------------------------------------------------------------
(* The memory of the resources, the cache's mutex, the storage *)

LEMMA ObjStep == NamesInv /\ ShapeInv /\ ManNext => ObjInv'
<1> SUFFICES ASSUME NamesInv, ShapeInv, ManNext, NEW c \in Copies, Referenced(c)'
             PROVE  obj'[c] \in Object
  BY DEF ObjInv
<1> USE DEF ShapeInv
<1>1. ASSUME NEW t \in Threads, NEW k, NEW n \in Names, NEW v \in Versions,
             StartChunk(t, k, n, v)
      PROVE  obj'[c] \in Object
  <2>1. PICK d \in Copies :
          /\ obj' = Kept([obj EXCEPT ![d] = NewObject(n, v)])
          /\ load' = [load EXCEPT ![t] = Locals(load[t].blocking, FALSE, k, d)]
          /\ UNCHANGED <<cache, updateMutex, result>>
    BY <1>1 DEF StartChunk, Unused
  <2>2. CASE c = d
    BY <2>1, <2>2 DEF Kept, ManTypeOK, NewObject, Object
  <2>3. CASE c # d
    <3>1. Referenced(c)
      BY <2>1, <2>3 DEF Referenced, C!Cached, Locals, ManTypeOK
    <3> QED
      BY <2>1, <2>3, <3>1 DEF ObjInv, Kept, ManTypeOK
  <2> QED
    BY <2>2, <2>3
<1>2. CASE Referenced(c) /\ (UNCHANGED obj \/ obj' = Kept(obj))
  BY <1>2 DEF ObjInv, Kept
<1>3. CASE UNCHANGED manVars
  BY <1>2, <1>3 DEF Referenced, C!Cached, manVars
<1>4. ASSUME NEW t \in Threads, CacheLookup(t) \/ CacheLookupLocked(t) PROVE obj'[c] \in Object
  <2>1. UNCHANGED <<obj, cache>>
    BY <1>4 DEF CacheLookup, CacheLookupLocked
  <2>2. \A u \in Threads : load'[u].copy = load[u].copy \/ load'[u].copy = Null
    BY <1>4 DEF CacheLookup, CacheLookupLocked, Return, NotCached, GiveUp, NoLoad, Locals,
       ManTypeOK
  <2>3. \A u \in Threads : result'[u].copy = result[u].copy \/ C!Cached(result'[u].copy)
    <3>1. CASE UNCHANGED result
      BY <3>1
    <3>2. ASSUME NEW d \in Copies, Return(t, d), \E i \in Index : cache[i] = d
          PROVE  \A u \in Threads : result'[u].copy = result[u].copy \/ C!Cached(result'[u].copy)
      BY <3>2 DEF Return, C!Cached, ManTypeOK
    <3>3. ASSUME NEW d \in Copies, Return(t, d), d = cache[Wanted(t)]
          PROVE  Wanted(t) \in Index
      <4>1. loadPc[t] \in {"lookup", "lookupLocked"}
        BY <1>4 DEF CacheLookup, CacheLookupLocked
      <4> QED
        BY <4>1 DEF PlaceInv, InCall, Acquiring, ManTypeOK, TypeOK, Base, Wanted
    <3> QED
      BY <1>4, <3>1, <3>2, <3>3 DEF CacheLookup, CacheLookupLocked, NotCached,
         C!LookupFinds, C!LockedLookup
  <2>4. Referenced(c)
    BY <2>1, <2>2, <2>3, ManAssumption DEF Referenced, C!Cached
  <2> QED
    BY <1>2, <2>1, <2>4
<1>5. ASSUME NEW t \in Threads, RunStage(t) PROVE obj'[c] \in Object
  <2>0. UNCHANGED load \/ load' = [load EXCEPT ![t].slot = Wanted(t)]
    BY <1>5 DEF RunStage
  <2>1. UNCHANGED <<cache, result>> /\ \A u \in Threads : load'[u].copy = load[u].copy
    BY <1>5, <2>0 DEF RunStage, ManTypeOK
  <2>2. Referenced(c)
    BY <2>1 DEF Referenced, C!Cached
  <2>3. obj[c] \in Object
    BY <2>2 DEF ObjInv
  <2>4. UNCHANGED obj \/ obj' = [obj EXCEPT ![load[t].copy].done = @ \cup {load[t].stage}]
    BY <1>5 DEF RunStage
  <2>5. load[t].stage \in Stages
    BY DEF ManTypeOK
  <2> QED
    BY <2>3, <2>4, <2>5 DEF Object, ManTypeOK
<1>6. ASSUME NEW t \in Threads, TakeIndex(t) \/ CacheInsert(t) PROVE obj'[c] \in Object
  <2>1. UNCHANGED <<obj, result>> /\ \A u \in Threads : load'[u].copy = load[u].copy
    BY <1>6 DEF TakeIndex, CacheInsert, ManTypeOK
  <2>2. UNCHANGED cache \/ \E i \in Index : cache' = [cache EXCEPT ![i] = Empty]
    BY <1>6 DEF TakeIndex, CacheInsert, C!InsertEmpty, C!InsertKeeps, C!cacheVars, LoadInv,
       Loads, Loading
  <2>3. C!Cached(c)' => C!Cached(c)
    BY <2>2, ManAssumption DEF C!Cached, ManTypeOK
  <2>4. Referenced(c)
    BY <2>1, <2>3 DEF Referenced
  <2> QED
    BY <1>2, <2>1, <2>4
<1>7. ASSUME NEW t \in Threads, CacheAssign(t) PROVE obj'[c] \in Object
  <2>1. UNCHANGED <<obj, result, load>> /\ cache' = [cache EXCEPT ![load[t].slot] = load[t].copy]
    BY <1>7 DEF CacheAssign, C!InsertAssign
  <2>2. C!Cached(c)' => C!Cached(c) \/ load[t].copy = c
    BY <2>1 DEF C!Cached, ManTypeOK
  <2>3. Referenced(c)
    BY <2>1, <2>2 DEF Referenced
  <2> QED
    BY <1>2, <2>1, <2>3
<1>8. ASSUME obj' = Kept(obj) \/ UNCHANGED obj,
             \A i \in Index : cache'[i] = cache[i] \/ cache'[i] = Absent,
             \A u \in Threads : load'[u].copy = load[u].copy \/ load'[u].copy = Null,
             \A u \in Threads : result'[u] = result[u] \/ result'[u].copy = Null
      PROVE  obj'[c] \in Object
  <2>1. Referenced(c)
    BY <1>8, ManAssumption DEF Referenced, C!Cached
  <2> QED
    BY <1>2, <1>8, <2>1
<1>9. ASSUME NEW t \in Threads, NEW b \in BOOLEAN, Acquire(t, b) PROVE obj'[c] \in Object
  BY <1>8, <1>9 DEF Acquire, Nothing, ManTypeOK
<1>10. ASSUME NEW t \in Threads, PlaceContent(t) \/ \E n \in MemNames : PlaceInStorage(t, n)
       PROVE obj'[c] \in Object
  BY <1>8, <1>10 DEF PlaceContent, PlaceInStorage
<1>11. CASE FlushCache \/ \E n \in MemNames : RemoveFromStorage(n)
  BY <1>8, <1>11 DEF FlushCache, C!Reset, RemoveFromStorage
<1>12. ASSUME NEW t \in Threads, ReadStorage(t) \/ Advance(t) PROVE obj'[c] \in Object
  <2>1. UNCHANGED <<cache, result>>
    BY <1>12, ReadCases
  <2>2. CASE Starts(t)
    BY <1>1, <2>2 DEF Starts
  <2>3. CASE GiveUp(t) /\ UNCHANGED obj
    BY <1>8, <2>1, <2>3 DEF GiveUp, Locals, ManTypeOK
  <2>4. CASE NextStage(t)
    BY <1>8, <2>1, <2>4 DEF NextStage, ManTypeOK
  <2>5. CASE EndsRead(t)
    BY <1>8, <2>1, <2>5 DEF EndsRead, Locals, ManTypeOK
  <2> QED
    BY <1>12, <2>2, <2>3, <2>4, <2>5, ReadCases
<1> QED
  BY <1>3, <1>4, <1>5, <1>6, <1>7, <1>9, <1>10, <1>11, <1>12
     DEF ManNext, ManStep, NameStep, Open, Forget

LEMMA MutexStep == NamesInv /\ ShapeInv /\ ManNext => MutexInv'
<1> SUFFICES ASSUME NamesInv, ShapeInv, ManNext, NEW u \in Threads
             PROVE  /\ loadPc'[u] = "assign" <=> updateMutex' = u
                    /\ loadPc'[u] = "assign" => cache'[load'[u].slot] = Empty
  BY DEF MutexInv
<1> USE DEF ShapeInv
<1>0. /\ loadPc[u] = "assign" <=> updateMutex = u
      /\ loadPc[u] = "assign" => cache[load[u].slot] = Empty /\ load[u].slot \in Index
      /\ u # Null
  BY ConstantsAssumption DEF MutexInv, LoadInv, Loads, Loading
<1>1. CASE /\ UNCHANGED <<cache, updateMutex>>
           /\ loadPc'[u] = "assign" <=> loadPc[u] = "assign"
           /\ loadPc[u] = "assign" => load'[u] = load[u]
  BY <1>0, <1>1
<1>2. CASE UNCHANGED manVars
  BY <1>1, <1>2 DEF manVars
<1>3. ASSUME NEW t \in Threads, CacheLookup(t) \/ CacheLookupLocked(t)
      PROVE  /\ UNCHANGED <<cache, updateMutex>>
             /\ loadPc'[u] = "assign" <=> loadPc[u] = "assign"
             /\ loadPc[u] = "assign" => load'[u] = load[u]
  BY <1>3 DEF CacheLookup, CacheLookupLocked, Return, NotCached, GiveUp, Goto, ManTypeOK
<1>4. ASSUME NEW t \in Threads, ReadStorage(t) \/ Advance(t)
      PROVE  /\ UNCHANGED <<cache, updateMutex>>
             /\ loadPc'[u] = "assign" <=> loadPc[u] = "assign"
             /\ loadPc[u] = "assign" => load'[u] = load[u]
  <2>1. UNCHANGED <<cache, updateMutex>>
    BY <1>4, ReadCases
  <2>2. CASE u # t
    BY <1>4, <2>1, <2>2, ReadFacts
  <2>3. CASE u = t
    BY <1>4, <2>1, <2>3, ReadFacts
  <2> QED
    BY <2>2, <2>3
<1>5. ASSUME NEW t \in Threads, RunStage(t) \/ TakeIndex(t)
      PROVE  /\ UNCHANGED <<cache, updateMutex>>
             /\ loadPc'[u] = "assign" <=> loadPc[u] = "assign"
             /\ loadPc[u] = "assign" => load'[u] = load[u]
  BY <1>5 DEF RunStage, TakeIndex, Goto, ManTypeOK
<1>6. ASSUME NEW t \in Threads, CacheInsert(t)
      PROVE  /\ loadPc'[u] = "assign" <=> updateMutex' = u
             /\ loadPc'[u] = "assign" => cache'[load'[u].slot] = Empty
  <2>1. loadPc[t] = "insert" /\ updateMutex = Null /\ UNCHANGED load /\ load[t].slot \in Index
    BY <1>6 DEF CacheInsert, C!InsertEmpty, C!InsertKeeps, LoadInv, Loads, Loading
  <2>2. loadPc[u] # "assign"
    BY <1>0, <2>1
  <2>3. \/ /\ loadPc' = [loadPc EXCEPT ![t] = "assign"] /\ updateMutex' = t
           /\ cache' = [cache EXCEPT ![load[t].slot] = Empty]
        \/ loadPc' = [loadPc EXCEPT ![t] = "advance"] /\ UNCHANGED updateMutex
    BY <1>6 DEF CacheInsert, C!InsertEmpty, C!InsertKeeps, C!cacheVars, Goto
  <2> QED
    BY <1>0, <2>1, <2>2, <2>3 DEF ManTypeOK
<1>7. ASSUME NEW t \in Threads, CacheAssign(t)
      PROVE  loadPc'[u] # "assign" /\ updateMutex' = Null
  BY <1>0, <1>7 DEF CacheAssign, C!InsertAssign, Goto, ManTypeOK
<1>8. ASSUME NEW t \in Threads,
             \/ PlaceContent(t) \/ \E b \in BOOLEAN : Acquire(t, b)
             \/ \E n \in MemNames : PlaceInStorage(t, n)
      PROVE  /\ UNCHANGED <<cache, updateMutex>>
             /\ loadPc'[u] = "assign" <=> loadPc[u] = "assign"
             /\ loadPc[u] = "assign" => load'[u] = load[u]
  BY <1>8 DEF PlaceContent, Acquire, PlaceInStorage, Goto, ManTypeOK
<1>9. CASE FlushCache \/ \E n \in MemNames : RemoveFromStorage(n)
  <2>1. loadPc[u] = "idle" /\ UNCHANGED <<loadPc, updateMutex>>
    BY <1>9 DEF FlushCache, C!Reset, RemoveFromStorage, ManQuiet
  <2> QED
    BY <1>0, <2>1
<1> QED
  BY <1>0, <1>1, <1>2, <1>3, <1>4, <1>5, <1>6, <1>7, <1>8, <1>9
     DEF ManNext, ManStep, NameStep, Open, Forget

LEMMA PlacedStep == ShapeInv /\ ManNext => PlacedInv'
<1> SUFFICES ASSUME ShapeInv, ManNext, NEW n \in MemNames, memory'[n] # Absent
             PROVE  placed'[n] > 0
  BY DEF PlacedInv
<1> USE DEF ShapeInv
<1>1. placed[n] \in 0..MaxPlaced /\ MaxPlaced \in Nat /\ (memory[n] # Absent => placed[n] > 0)
  BY ManAssumption DEF PlacedInv, ManTypeOK
<1>2. CASE UNCHANGED placed /\ (memory'[n] = memory[n] \/ memory'[n] = Absent)
  BY <1>1, <1>2
<1>3. ASSUME NEW t \in Threads, NEW m \in MemNames, PlaceInStorage(t, m) PROVE placed'[n] > 0
  BY <1>1, <1>3 DEF PlaceInStorage, ManTypeOK
<1>4. ASSUME NEW t \in Threads, PlaceContent(t) PROVE placed'[n] > 0
  BY <1>1, <1>4, ManAssumption DEF PlaceContent, ManTypeOK
<1>5. ASSUME NEW m \in MemNames, RemoveFromStorage(m) PROVE placed'[n] > 0
  BY <1>1, <1>5 DEF RemoveFromStorage, ManTypeOK
<1> QED
  BY <1>2, <1>3, <1>4, <1>5 DEF ManNext, ManStep, NameStep, CacheLookup, CacheLookupLocked,
     ReadStorage, RunStage, TakeIndex, CacheInsert, CacheAssign, Advance, Acquire, Open, Forget,
     FlushCache, manVars

-----------------------------------------------------------------------------
(* What a thread knows of the resource it builds *)

LEMMA LoadsKept ==
  ASSUME NamesInv, ShapeInv, ManNext, NEW u \in Threads, loadPc[u] \in Loading,
         loadPc'[u] = loadPc[u], load'[u] = load[u]
  PROVE  Loads(u)'
<1> USE DEF ShapeInv
<1>1. Loads(u)
  BY DEF LoadInv
<1>2. NameWanted(u)' = NameWanted(u)
  BY WantedKept DEF PlaceInv, InCall, Acquiring, Loading
<1> DEFINE c == load[u].copy
<1>3. c \in Copies /\ load'[u].copy = c
  BY <1>1 DEF Loads
<1>4. obj'[c].name = obj[c].name /\ obj'[c].version = obj[c].version
      /\ obj[c].done \subseteq obj'[c].done
  BY <1>3, OwnGrows
<1>5. obj[c].name \in MemNames => memory'[obj[c].name] = memory[obj[c].name]
  BY <1>1, ContentKept DEF Loads, Loading
<1>6. ChunksOf(NameWanted(u))' = ChunksOf(NameWanted(u))
  BY <1>2 DEF ChunksOf
<1> QED
  BY <1>1, <1>2, <1>3, <1>4, <1>5, <1>6 DEF Loads

LEMMA LoadStep == NamesInv /\ ShapeInv /\ ManNext => LoadInv'
<1> SUFFICES ASSUME NamesInv, ShapeInv, ManNext, NEW u \in Threads, loadPc'[u] \in Loading
             PROVE  Loads(u)'
  BY DEF LoadInv
<1> USE DEF ShapeInv
<1>1. CASE loadPc'[u] = loadPc[u] /\ load'[u] = load[u]
  BY <1>1, LoadsKept
<1>2. ASSUME loadPc[u] \in Acquiring
      PROVE  /\ NameWanted(u)' = NameWanted(u)
             /\ ChunksOf(NameWanted(u))' = ChunksOf(NameWanted(u))
  <2>1. NameWanted(u)' = NameWanted(u)
    BY <1>2, WantedKept DEF PlaceInv, InCall, Acquiring, Loading
  <2> QED
    BY <2>1 DEF ChunksOf
<1>3. CASE Starts(u) /\ UNCHANGED <<vars, memory>> /\ loadPc[u] \in Acquiring
  <2>1. PICK k \in 1..Len(ChunksOf(NameWanted(u))), n \in Names, v \in Versions :
          /\ StartChunk(u, k, n, v)
          /\ n = ChunksOf(NameWanted(u))[k]
          /\ n \in MemNames => v = memory[n]
    BY <1>3 DEF Starts
  <2>2. PICK c \in Copies :
          /\ obj' = Kept([obj EXCEPT ![c] = NewObject(n, v)])
          /\ loadPc' = [loadPc EXCEPT ![u] = "stage"]
          /\ load' = [load EXCEPT ![u] = Locals(load[u].blocking, FALSE, k, c)]
    BY <2>1 DEF StartChunk, Unused, Goto
  <2>3. /\ load'[u].copy = c /\ load'[u].chunk = k /\ load'[u].stage = 0
        /\ loadPc'[u] = "stage"
    BY <2>2 DEF Locals, ManTypeOK
  <2>4. obj'[c].name = n /\ obj'[c].version = v
    BY <2>2, <2>3 DEF Kept, Referenced, NewObject, ManTypeOK
  <2>5. memory'[n] = memory[n]
    BY <1>3
  <2>6. \A r \in Accepted(n) : ~(r < 0)
    BY ManAssumption DEF Accepted, Stages
  <2> QED
    BY <1>2, <1>3, <2>1, <2>3, <2>4, <2>5, <2>6 DEF Loads, Acquiring, Loading
<1>4. ASSUME loadPc[u] \in Loading,
             \/ NextStage(u) /\ UNCHANGED vars
             \/ RunStage(u) \/ TakeIndex(u) \/ CacheInsert(u) \/ CacheAssign(u)
      PROVE  Loads(u)'
  <2> DEFINE c == load[u].copy
             n == obj[c].name
  <2>0. load'[u].copy = load[u].copy /\ load'[u].chunk = load[u].chunk
    BY <1>4 DEF NextStage, RunStage, TakeIndex, CacheInsert, CacheAssign, ManTypeOK
  <2>1. /\ c \in Copies
        /\ load[u].chunk \in 1..Len(ChunksOf(NameWanted(u)))
        /\ n = ChunksOf(NameWanted(u))[load[u].chunk]
        /\ n \in MemNames => memory[n] \in Versions /\ obj[c].version = memory[n]
        /\ \A r \in Accepted(n) :
             (r < load[u].stage \/ (r = load[u].stage /\ loadPc[u] # "stage")) => r \in obj[c].done
        /\ loadPc[u] \in {"index", "insert", "assign"} => 0 \in obj[c].done
    BY <1>4 DEF LoadInv, Loads
  <2>2. /\ obj'[c].name = n /\ obj'[c].version = obj[c].version
        /\ obj[c].done \subseteq obj'[c].done
    BY <2>1, <2>0, OwnGrows
  <2>3. n \in MemNames => memory'[n] = memory[n]
    BY <1>4, <2>1, ContentKept DEF Loading
  <2>4. /\ load'[u].copy \in Copies
        /\ load'[u].chunk \in 1..Len(ChunksOf(NameWanted(u))')
        /\ obj'[load'[u].copy].name = ChunksOf(NameWanted(u))'[load'[u].chunk]
        /\ obj'[load'[u].copy].name \in MemNames =>
             /\ memory'[obj'[load'[u].copy].name] \in Versions
             /\ obj'[load'[u].copy].version = memory'[obj'[load'[u].copy].name]
    BY <1>2, <1>4, <2>0, <2>1, <2>2, <2>3 DEF Acquiring
  <2> SUFFICES /\ \A r \in Accepted(n) :
                    (r < load'[u].stage \/ (r = load'[u].stage /\ loadPc'[u] # "stage"))
                      => r \in obj'[c].done
               /\ loadPc'[u] \in {"index", "insert", "assign"} => 0 \in obj'[c].done
               /\ loadPc'[u] \in {"insert", "assign"} => load'[u].slot \in Index
    BY <2>2, <2>4, <2>0 DEF Loads, Accepted
  <2>5. CASE NextStage(u)
    <3>1. load'[u].stage = load[u].stage + 1 /\ loadPc[u] = "advance" /\ loadPc'[u] = "stage"
      BY <2>5 DEF NextStage, Goto, ManTypeOK
    <3>2. load[u].stage \in 0..LastStage /\ LastStage \in Nat
      BY ManAssumption DEF Stages, ManTypeOK
    <3>3. \A r \in Accepted(n) : r < load[u].stage + 1 => r < load[u].stage \/ r = load[u].stage
      BY <3>2 DEF Accepted, Stages
    <3> QED
      BY <2>1, <2>2, <3>1, <3>3
  <2>6. CASE RunStage(u)
    <3> DEFINE s == load[u].stage
    <3>1. loadPc[u] = "stage" /\ s \in Stages /\ load'[u].stage = s
      BY <2>6 DEF RunStage, ManTypeOK
    <3>2. CASE <<n, s>> \in Rejects
      <4>1. loadPc'[u] = "advance" /\ s \notin Accepted(n)
        BY <2>6, <3>2 DEF RunStage, Goto, Accepted, ManTypeOK
      <4> QED
        BY <2>1, <2>2, <3>1, <4>1
    <3>3. CASE <<n, s>> \notin Rejects
      <4>1. obj' = [obj EXCEPT ![c].done = @ \cup {s}] /\ obj[c] \in Object
        BY <2>1, <2>6, <3>3 DEF RunStage, ObjInv, Referenced
      <4>2. obj'[c].done = obj[c].done \cup {s}
        BY <2>1, <4>1 DEF Object, ManTypeOK
      <4>3. loadPc'[u] \in {"index", "insert"} => s = 0
        BY <2>6, <3>3 DEF RunStage, Goto, ManTypeOK
      <4>4. loadPc'[u] = "insert" => load'[u].slot = Wanted(u)
        BY <2>6, <3>3 DEF RunStage, Goto, ManTypeOK
      <4>5. Wanted(u) \in Index
        BY <1>4, WantedFacts DEF PlaceInv, InCall, Acquiring
      <4>6. loadPc'[u] # "assign"
        BY <2>6 DEF RunStage, Goto, ManTypeOK
      <4> QED
        BY <2>1, <3>1, <4>2, <4>3, <4>4, <4>5, <4>6
    <3> QED
      BY <3>2, <3>3
  <2>7. CASE TakeIndex(u)
    <3>1. index[u] \in Index
      BY <2>7 DEF TakeIndex, ReturnIndex, NamesInv, IInv, CallInv
    <3>2. /\ load'[u].stage = load[u].stage /\ load'[u].slot = index[u]
          /\ loadPc[u] = "index" /\ loadPc'[u] = "insert"
      BY <2>7 DEF TakeIndex, Goto, ManTypeOK
    <3> QED
      BY <2>1, <2>2, <3>1, <3>2
  <2>8. CASE CacheInsert(u) \/ CacheAssign(u)
    <3>1. UNCHANGED load /\ loadPc[u] \in {"insert", "assign"}
          /\ loadPc'[u] \in {"assign", "advance"}
      BY <2>8 DEF CacheInsert, CacheAssign, Goto, ManTypeOK
    <3>2. load[u].slot \in Index
      BY <3>1 DEF LoadInv, Loads, Loading
    <3> QED
      BY <2>1, <2>2, <3>1, <3>2
  <2> QED
    BY <1>4, <2>5, <2>6, <2>7, <2>8
<1>5. ASSUME NEW t \in Threads, ReadStorage(t) \/ Advance(t) PROVE Loads(u)'
  <2>1. CASE u # t
    BY <1>1, <1>5, <2>1, ReadFacts
  <2>2. CASE u = t
    <3>1. loadPc[t] \in Acquiring /\ UNCHANGED <<vars, memory>>
      BY <1>5 DEF ReadStorage, Advance, Acquiring, Loading
    <3>2. CASE NextStage(t)
      BY <1>4, <2>2, <3>1, <3>2 DEF NextStage, Loading
    <3>3. ~GiveUp(t) /\ ~EndsRead(t)
      BY <2>2 DEF GiveUp, EndsRead, Goto, Loading, ManTypeOK
    <3> QED
      BY <1>3, <1>5, <2>2, <3>1, <3>2, <3>3, ReadCases
  <2> QED
    BY <2>1, <2>2
<1>6. ASSUME NEW t \in Threads,
             RunStage(t) \/ TakeIndex(t) \/ CacheInsert(t) \/ CacheAssign(t)
      PROVE  Loads(u)'
  <2>1. CASE u # t
    BY <1>1, <1>6, <2>1 DEF RunStage, TakeIndex, CacheInsert, CacheAssign, Goto, ManTypeOK
  <2>2. CASE u = t
    <3>1. loadPc[t] \in Loading
      BY <1>6 DEF RunStage, TakeIndex, CacheInsert, CacheAssign, Loading
    <3> QED
      BY <1>4, <1>6, <2>2, <3>1
  <2> QED
    BY <2>1, <2>2
<1>7. ASSUME NEW t \in Threads,
             \/ CacheLookup(t) \/ CacheLookupLocked(t) \/ PlaceContent(t)
             \/ \E b \in BOOLEAN : Acquire(t, b)
             \/ \E n \in MemNames : PlaceInStorage(t, n)
      PROVE  loadPc'[u] = loadPc[u] /\ load'[u] = load[u]
  <2>1. CASE u # t
    BY <1>7, <2>1 DEF CacheLookup, CacheLookupLocked, Return, NotCached, GiveUp, PlaceContent,
       Acquire, PlaceInStorage, Goto, ManTypeOK
  <2>2. loadPc'[t] \notin Loading \/ UNCHANGED <<loadPc, load>>
    BY <1>7 DEF CacheLookup, CacheLookupLocked, Return, NotCached, GiveUp, PlaceContent,
       Acquire, PlaceInStorage, Goto, ManTypeOK, Loading
  <2> QED
    BY <2>1, <2>2
<1>8. CASE \/ UNCHANGED manVars \/ FlushCache
           \/ \E n \in MemNames : RemoveFromStorage(n)
  BY <1>1, <1>8 DEF manVars, FlushCache, RemoveFromStorage
<1> QED
  BY <1>1, <1>5, <1>6, <1>7, <1>8 DEF ManNext, ManStep, NameStep, Open, Forget

-----------------------------------------------------------------------------
(* The invariant is inductive *)

LEMMA ShapeInit == ManInit => ShapeInv
<1> SUFFICES ASSUME ManInit PROVE ShapeInv
  OBVIOUS
<1>1. ManTypeOK
  BY ManTypeInit
<1>2. /\ \A t \in Threads : loadPc[t] = "idle" /\ load[t].copy = Null /\ result[t].copy = Null
      /\ \A i \in Index : cache[i] = Absent
      /\ updateMutex = Null
      /\ \A n \in MemNames : memory[n] = Absent
  BY DEF ManInit, C!CacheInit, NoLoad, Locals, Nothing
<1>3. PlaceInv /\ LoadInv
  BY <1>2 DEF PlaceInv, InCall, LoadInv, Loading, Acquiring
<1>4. ObjInv
  BY <1>2, ManAssumption DEF ObjInv, Referenced, C!Cached
<1>5. MutexInv /\ PlacedInv
  BY <1>2, ConstantsAssumption DEF MutexInv, PlacedInv
<1> QED
  BY <1>1, <1>3, <1>4, <1>5 DEF ShapeInv

LEMMA ShapeStep == NamesInv /\ NamesInv' /\ ShapeInv /\ [ManNext]_allVars => ShapeInv'
<1> SUFFICES ASSUME NamesInv, NamesInv', ShapeInv, [ManNext]_allVars PROVE ShapeInv'
  OBVIOUS
<1>1. CASE ManNext
  BY <1>1, ManTypeStep, PlaceStep, LoadStep, ObjStep, MutexStep, PlacedStep DEF ShapeInv
<1>2. CASE UNCHANGED allVars
  <2>1. UNCHANGED vars /\ UNCHANGED manVars
    BY <1>2 DEF allVars
  <2>2. ManTypeOK'
    BY <2>1 DEF manVars, vars, ShapeInv, ManTypeOK, TypeOK
  <2>3. PlaceInv' /\ LoadInv'
    BY <2>1 DEF manVars, vars, ShapeInv, PlaceInv, InCall, LoadInv, Loads, NameWanted, Wanted,
       ChunksOf
  <2>4. ObjInv' /\ MutexInv' /\ PlacedInv'
    BY <2>1 DEF manVars, ShapeInv, ObjInv, Referenced, C!Cached, MutexInv, PlacedInv
  <2> QED
    BY <2>2, <2>3, <2>4 DEF ShapeInv
<1> QED
  BY <1>1, <1>2

LEMMA ManInductive == ManSpec => [](NamesInv /\ ShapeInv)
<1>1. ManInit => ShapeInv
  BY ShapeInit
<1>2. NamesInv /\ NamesInv' /\ ShapeInv /\ [ManNext]_allVars => ShapeInv'
  BY ShapeStep
<1> QED
  BY <1>1, <1>2, ManNamesInv, PTL DEF ManSpec

(* Every variable keeps its type, whatever the threads do. *)
THEOREM ManTypeCorrect == ManSpec => []ManTypeOK
<1>1. ShapeInv => ManTypeOK
  BY DEF ShapeInv
<1> QED
  BY <1>1, ManInductive, PTL

-----------------------------------------------------------------------------
(* The names, below the manager *)

(* A handle opened through the manager is right, although the callback looks names *)
(* up with text that dies.                                                         *)
THEOREM ManHandlesAreRight == ManSpec => []HandlesRight
<1>1. NamesInv => HandlesRight
  BY DEF NamesInv
<1> QED
  BY <1>1, ManInductive, PTL

(* The manager leaves the table of names the promise it makes by itself. *)
THEOREM ManNamesKeepPromise == ManSpec => IndexKeepsName /\ NamePromiseSpec
BY ManNames, NamesKept, PromiseKept

-----------------------------------------------------------------------------
(* The cache *)

LEMMA SlotKept ==
  ASSUME ShapeInv, [ManNext]_allVars
  PROVE  \/ \A i \in Index : cache[i] \in Copies => cache'[i] = cache[i]
         \/ \A i \in Index : cache'[i] = Absent
<1> USE DEF ShapeInv
<1>1. CASE UNCHANGED cache
  BY <1>1
<1>2. ASSUME NEW t \in Threads, CacheInsert(t)
      PROVE  \A i \in Index : cache[i] \in Copies => cache'[i] = cache[i]
  <2>1. cache' = cache \/ (cache[load[t].slot] = Absent
                            /\ cache' = [cache EXCEPT ![load[t].slot] = Empty])
    BY <1>2 DEF CacheInsert, C!InsertEmpty, C!InsertKeeps, C!cacheVars
  <2> QED
    BY <2>1, ManAssumption DEF ManTypeOK
<1>3. ASSUME NEW t \in Threads, CacheAssign(t)
      PROVE  \A i \in Index : cache[i] \in Copies => cache'[i] = cache[i]
  <2>1. cache[load[t].slot] = Empty /\ cache' = [cache EXCEPT ![load[t].slot] = load[t].copy]
    BY <1>3 DEF CacheAssign, C!InsertAssign, MutexInv
  <2> QED
    BY <2>1, ManAssumption DEF ManTypeOK
<1>4. CASE FlushCache
  BY <1>4 DEF FlushCache, C!Reset
<1> QED
  BY <1>1, <1>2, <1>3, <1>4 DEF ManNext, ManStep, NameStep, CacheLookup, CacheLookupLocked,
     ReadStorage, StartChunk, RunStage, TakeIndex, Advance, PlaceContent, Acquire,
     PlaceInStorage, Open, Forget, RemoveFromStorage, manVars, allVars

(* The first of several loads of a resource to be cached stays until a flush. *)
THEOREM FirstLoadWins == ManSpec => CacheSlotStable
<1>1. ShapeInv /\ [ManNext]_allVars =>
        [ \/ \A i \in Index : cache[i] \in Copies => cache'[i] = cache[i]
          \/ \A i \in Index : cache'[i] = Absent ]_allVars
  BY SlotKept
<1> QED
  BY <1>1, ManInductive, PTL DEF ManSpec, CacheSlotStable

-----------------------------------------------------------------------------
(* What the cache gives *)

Serves(c, i) == Consistent(obj[c].name, i) /\ 0 \in obj[c].done

(* What is cached, or about to be, belongs under its index. *)
ServesInv ==
  premature \/
    /\ \A i \in Index : cache[i] \in Copies => Serves(cache[i], i)
    /\ \A t \in Threads :
         loadPc[t] \in {"insert", "assign"} => Serves(load[t].copy, load[t].slot)

LEMMA PrematureStays ==
  ASSUME [NamesNext]_vars, premature \in BOOLEAN, premature' = FALSE
  PROVE  premature = FALSE
BY DEF NamesNext, CallbackCalls, CallbackReturns, Next, Step, Lookup, OpenByName,
   GetIndexFromName, FindHit, FindMiss, Lock, Recheck, Alloc, AllocSpins, InsertNode,
   AssignIndex, SetBase, Unlock, OpenByIndex, ReturnIndex, TextDies, RemoveName, EraseName, vars

LEMMA ServesKept ==
  ASSUME NamesInv, ShapeInv, ManNext, NEW c \in Copies, Referenced(c), Referenced(c)',
         NEW i \in Index, Serves(c, i)
  PROVE  Serves(c, i)'
<1> USE DEF ShapeInv
<1>1. Grows(c)
  BY Growth
<1>2. obj[c].name \in Names
  BY DEF ObjInv, Object
<1>3. [NamesNext]_vars
  BY NamesStep
<1>4. ASSUME NEW n \in Names, Consistent(n, i) PROVE Consistent(n, i)'
  <2>1. CASE NamesNext
    BY <1>4, <2>1, ConsistentStep DEF NamesInv, IInv
  <2>2. CASE UNCHANGED vars
    BY <1>4, <2>2 DEF vars, Consistent, FullBase
  <2> QED
    BY <1>3, <2>1, <2>2
<1>5. \A n \in Names : Consistent(n, i) =>
        indexToResourceName'[i] = n /\ indexToBase'[i] = FullBase(i, n)
  BY <1>4 DEF Consistent, FullBase
<1> QED
  BY <1>1, <1>2, <1>5 DEF Serves, Grows, Consistent, FullBase

LEMMA ServesStep ==
  ASSUME NamesInv, ShapeInv, ServesInv, ManNext
  PROVE  ServesInv'
<1> USE DEF ShapeInv
<1>1. [NamesNext]_vars /\ premature \in BOOLEAN /\ premature' \in BOOLEAN
  BY NamesStep, TypeStep DEF NamesInv, IInv, TypeOK, vars
<1>2. \A t \in Threads : loadPc'[t] \in {"insert", "assign"} =>
        load'[t].copy \in Copies /\ load'[t].slot \in Index
  BY LoadStep DEF LoadInv, Loads, Loading
<1>3. SUFFICES ASSUME premature' = FALSE
               PROVE  /\ \A i \in Index, c \in Copies : cache'[i] = c => Serves(c, i)'
                      /\ \A t \in Threads, c \in Copies, i \in Index :
                           /\ loadPc'[t] \in {"insert", "assign"}
                           /\ load'[t].copy = c
                           /\ load'[t].slot = i
                           => Serves(c, i)'
  <2>1. CASE premature' = TRUE
    BY <2>1 DEF ServesInv
  <2>2. CASE premature' = FALSE
    BY <1>2, <1>3, <2>2 DEF ServesInv, Serves, Consistent, FullBase
  <2> QED
    BY <1>1, <2>1, <2>2
<1>4. /\ \A i \in Index : cache[i] \in Copies => Serves(cache[i], i)
      /\ \A t \in Threads :
           loadPc[t] \in {"insert", "assign"} => Serves(load[t].copy, load[t].slot)
      /\ \A t \in Threads : pc[t] = "found" => Consistent(name[t], index[t])
      /\ \A t \in Threads : handle[t] # NoHandle => \E i \in Index :
           /\ handle[t].base = FullBase(i, handle[t].name)
           /\ Consistent(handle[t].name, i)
  BY <1>1, <1>3, PrematureStays DEF ServesInv, NamesInv, FoundInv, HandlesRight
<1>5. ASSUME NEW i \in Index, NEW c \in Copies, cache'[i] = c PROVE Serves(c, i)'
  <2>1. Referenced(c)'
    BY <1>5 DEF Referenced, C!Cached
  <2>2. CASE cache[i] = c
    <3>1. Referenced(c) /\ Serves(c, i)
      BY <1>4, <2>2 DEF Referenced, C!Cached
    <3> QED
      BY <2>1, <3>1, ServesKept
  <2>3. ASSUME NEW t \in Threads, CacheAssign(t), cache[i] # c PROVE Serves(c, i)'
    <3>1. c = load[t].copy /\ i = load[t].slot /\ loadPc[t] = "assign"
      BY <1>5, <2>3 DEF CacheAssign, C!InsertAssign, ManTypeOK
    <3>2. Referenced(c) /\ Serves(c, i)
      BY <1>4, <3>1 DEF Referenced
    <3> QED
      BY <2>1, <3>2, ServesKept
  <2>4. ASSUME NEW t \in Threads, CacheInsert(t) PROVE cache'[i] = cache[i]
    BY <1>5, <2>4, ManAssumption DEF CacheInsert, C!InsertEmpty, C!InsertKeeps, C!cacheVars,
       ManTypeOK
  <2>5. ~FlushCache
    BY <1>5, ManAssumption DEF FlushCache, C!Reset
  <2> QED
    BY <1>5, <2>2, <2>3, <2>4, <2>5 DEF ManNext, ManStep, NameStep, CacheLookup,
       CacheLookupLocked, ReadStorage, StartChunk, RunStage, TakeIndex, Advance, PlaceContent,
       Acquire, PlaceInStorage, Open, Forget, RemoveFromStorage, manVars
<1>6. ASSUME NEW t \in Threads, NEW c \in Copies, NEW i \in Index,
             loadPc'[t] \in {"insert", "assign"}, load'[t].copy = c, load'[t].slot = i
      PROVE  Serves(c, i)'
  <2>1. Referenced(c)'
    BY <1>6 DEF Referenced
  <2>2. CASE loadPc[t] \in {"insert", "assign"} /\ load'[t] = load[t]
    <3>1. Referenced(c) /\ Serves(c, i)
      BY <1>4, <1>6, <2>2 DEF Referenced
    <3> QED
      BY <2>1, <3>1, ServesKept
  <2>3. ASSUME RunStage(t) PROVE Serves(c, i)'
    <3> DEFINE n == obj[c].name
    <3>1. /\ loadPc[t] = "stage" /\ load[t].stage = 0 /\ n \in MemNames /\ load[t].copy = c
          /\ i = Wanted(t) /\ obj' = [obj EXCEPT ![c].done = @ \cup {0}] /\ UNCHANGED vars
      BY <1>6, <2>3 DEF RunStage, Goto, ManTypeOK
    <3>2. n = NameWanted(t)
      BY <3>1, ChunkFacts, WantedFacts DEF LoadInv, Loads, Loading, PlaceInv, InCall, Acquiring
    <3>3. Consistent(n, i)
      <4>1. handle[t] # NoHandle
        BY <3>1 DEF PlaceInv, InCall, Acquiring, Loading, NoHandle, BlankBase, Wanted
      <4>2. PICK j \in Index : /\ handle[t].base = FullBase(j, handle[t].name)
                               /\ Consistent(handle[t].name, j)
        BY <1>4, <4>1
      <4>3. j = i /\ handle[t].name = n
        BY <3>1, <3>2, <4>2 DEF FullBase, Wanted, NameWanted, Consistent
      <4> QED
        BY <4>2, <4>3
    <3>4. obj[c] \in Object
      BY <3>1 DEF ObjInv, Referenced
    <3>5. obj'[c].name = n /\ 0 \in obj'[c].done
      BY <3>1, <3>4 DEF Object, ManTypeOK
    <3> QED
      BY <3>1, <3>3, <3>5 DEF Serves, Consistent, FullBase, vars
  <2>4. ASSUME TakeIndex(t) PROVE Serves(c, i)'
    <3>1. /\ loadPc[t] = "index" /\ pc[t] = "found" /\ load[t].copy = c /\ i = index[t]
          /\ UNCHANGED <<obj, indexToResourceName, indexToBase>>
      BY <1>6, <2>4 DEF TakeIndex, ReturnIndex, ManTypeOK
    <3>2. Consistent(name[t], index[t]) /\ name[t] = obj[c].name /\ 0 \in obj[c].done
      BY <1>4, <3>1 DEF PlaceInv, InCall, LoadInv, Loads, Loading
    <3> QED
      BY <3>1, <3>2 DEF Serves, Consistent, FullBase
  <2>5. ASSUME NEW u \in Threads, CacheInsert(u) \/ CacheAssign(u)
        PROVE  loadPc[t] \in {"insert", "assign"} /\ load'[t] = load[t]
    BY <1>6, <2>5 DEF CacheInsert, CacheAssign, Goto, ManTypeOK
  <2>6. ASSUME NEW u \in Threads, ReadStorage(u) \/ Advance(u)
        PROVE  loadPc[t] \in {"insert", "assign"} /\ load'[t] = load[t]
    <3>1. u # t
      BY <1>6, <2>6, ReadFacts
    <3> QED
      BY <1>6, <2>6, <3>1, ReadFacts
  <2>7. ASSUME NEW u \in Threads, u # t, RunStage(u) \/ TakeIndex(u)
        PROVE  loadPc[t] \in {"insert", "assign"} /\ load'[t] = load[t]
    BY <1>6, <2>7 DEF RunStage, TakeIndex, Goto, ManTypeOK
  <2>8. ASSUME NEW u \in Threads,
               \/ CacheLookup(u) \/ CacheLookupLocked(u) \/ PlaceContent(u)
               \/ \E b \in BOOLEAN : Acquire(u, b)
               \/ \E n \in MemNames : PlaceInStorage(u, n)
        PROVE  loadPc[t] \in {"insert", "assign"} /\ load'[t] = load[t]
    <3>1. CASE u # t
      BY <1>6, <2>8, <3>1 DEF CacheLookup, CacheLookupLocked, Return, NotCached, GiveUp,
         PlaceContent, Acquire, PlaceInStorage, Goto, ManTypeOK
    <3>2. loadPc'[u] \notin {"insert", "assign"} \/ UNCHANGED <<loadPc, load>>
      BY <2>8 DEF CacheLookup, CacheLookupLocked, Return, NotCached, GiveUp, PlaceContent,
         Acquire, PlaceInStorage, Goto, ManTypeOK
    <3> QED
      BY <1>6, <3>1, <3>2
  <2> QED
    BY <1>6, <2>2, <2>3, <2>4, <2>5, <2>6, <2>7, <2>8 DEF ManNext, ManStep, NameStep, Open,
       Forget, RemoveFromStorage, FlushCache, manVars
<1> QED
  BY <1>5, <1>6

LEMMA ServesInductive == ManSpec => []ServesInv
<1>1. ManInit => ServesInv
  BY ManAssumption DEF ManInit, C!CacheInit, ServesInv
<1>2. NamesInv /\ ShapeInv /\ ServesInv /\ [ManNext]_allVars => ServesInv'
  <2>1. CASE UNCHANGED allVars
    BY <2>1 DEF allVars, vars, manVars, ServesInv, Serves, Consistent, FullBase
  <2> QED
    BY <2>1, ServesStep
<1> QED
  BY <1>1, <1>2, ManInductive, PTL DEF ManSpec

(* What is cached under an index is a resource of the index's name that its handler *)
(* took, unless a lookup returned a node that was still being published.            *)
THEOREM CacheServesNames == ManSpec => []ServesName
<1>1. ServesInv => ServesName
  BY DEF ServesInv, ServesName, Serves, Consistent
<1> QED
  BY <1>1, ServesInductive, PTL

-----------------------------------------------------------------------------
(* Resources that lack a stage *)

(* A thread lets go of a resource it builds when its last stage is over. *)
LEMMA DropsComplete ==
  ASSUME NamesInv, ShapeInv, ManNext, NEW t \in Threads, load[t].copy \in Copies,
         load'[t].copy # load[t].copy
  PROVE  Complete(load[t].copy)
<1> USE DEF ShapeInv
<1>1. loadPc[t] \in Loading /\ Loads(t)
  BY ManAssumption DEF PlaceInv, InCall, LoadInv
<1>2. ReadStorage(t) \/ Advance(t)
  <2>1. ASSUME NEW u \in Threads, u # t, ReadStorage(u) \/ Advance(u) PROVE FALSE
    BY <2>1, ReadFacts
  <2>2. ASSUME NEW u \in Threads,
               CacheLookup(u) \/ CacheLookupLocked(u) \/ (\E b \in BOOLEAN : Acquire(u, b))
        PROVE  FALSE
    BY <1>1, <2>2 DEF CacheLookup, CacheLookupLocked, Return, NotCached, GiveUp, Goto, Acquire,
       Loading, ManTypeOK
  <2>3. ASSUME NEW u \in Threads, RunStage(u) \/ TakeIndex(u) PROVE FALSE
    <3>1. UNCHANGED load \/ \E i : load' = [load EXCEPT ![u].slot = i]
      BY <2>3 DEF RunStage, TakeIndex
    <3> QED
      BY <3>1 DEF ManTypeOK
  <2>4. ASSUME UNCHANGED load PROVE FALSE
    BY <2>4
  <2>5. ASSUME NEW u \in Threads,
               \/ NameStep(u) \/ CacheInsert(u) \/ CacheAssign(u) \/ PlaceContent(u)
               \/ \E n \in Names, k \in Text : Open(u, n, k)
               \/ \E n \in MemNames : PlaceInStorage(u, n)
        PROVE  UNCHANGED load
    BY <2>5 DEF NameStep, CacheInsert, CacheAssign, PlaceContent, PlaceInStorage, Open, manVars
  <2>6. ASSUME \/ \E m \in nodes : Forget(m)
               \/ \E n \in MemNames : RemoveFromStorage(n)
               \/ FlushCache
        PROVE  UNCHANGED load
    BY <2>6 DEF Forget, RemoveFromStorage, FlushCache, manVars
  <2> QED
    BY <2>1, <2>2, <2>3, <2>4, <2>5, <2>6 DEF ManNext, ManStep
<1>3. loadPc[t] = "advance" /\ load[t].stage = LastStage
  <2>1. ~NextStage(t)
    BY DEF NextStage, ManTypeOK
  <2>2. loadPc[t] = "advance"
    BY <1>1, <1>2, ReadFacts DEF Loading
  <2> QED
    BY <1>2, <2>1, <2>2, ReadCases DEF EndsRead
<1>4. \A r \in Stages : r < LastStage \/ r = LastStage
  BY ManAssumption DEF Stages
<1> QED
  BY <1>1, <1>3, <1>4 DEF Loads, Complete, Accepted

LEMMA IncompleteStep ==
  ASSUME NamesInv, ShapeInv, IncompleteIsBeingLoaded, ManNext
  PROVE  IncompleteIsBeingLoaded'
<1> USE DEF ShapeInv
<1> SUFFICES ASSUME NEW c \in Copies, C!Cached(c)', ~Complete(c)'
             PROVE  \E t \in Threads : load'[t].copy = c
  BY DEF IncompleteIsBeingLoaded
<1>1. CASE C!Cached(c)
  <2>1. Grows(c)
    BY <1>1, Growth DEF Referenced
  <2>2. ~Complete(c)
    BY <2>1 DEF Grows, Complete, Accepted
  <2>3. PICK t \in Threads : load[t].copy = c
    BY <1>1, <2>2 DEF IncompleteIsBeingLoaded
  <2>4. load'[t].copy = c
    BY <2>2, <2>3, DropsComplete
  <2> QED
    BY <2>4
<1>2. CASE ~C!Cached(c)
  <2>1. PICK i \in Index : cache'[i] = c /\ cache[i] # c
    BY <1>2 DEF C!Cached
  <2>2. ASSUME NEW t \in Threads, CacheAssign(t) PROVE load'[t].copy = c
    BY <2>1, <2>2 DEF CacheAssign, C!InsertAssign, ManTypeOK
  <2>3. ASSUME NEW t \in Threads, CacheInsert(t) PROVE FALSE
    BY <2>1, <2>3, ManAssumption DEF CacheInsert, C!InsertEmpty, C!InsertKeeps, C!cacheVars,
       ManTypeOK
  <2>4. ~FlushCache
    BY <2>1, ManAssumption DEF FlushCache, C!Reset
  <2> QED
    BY <2>1, <2>2, <2>3, <2>4 DEF ManNext, ManStep, NameStep, CacheLookup, CacheLookupLocked,
       ReadStorage, StartChunk, RunStage, TakeIndex, Advance, PlaceContent, Acquire,
       PlaceInStorage, Open, Forget, RemoveFromStorage, manVars
<1> QED
  BY <1>1, <1>2

(* A cached resource that lacks a stage is one a thread is still loading: no other *)
(* is ever left in the cache.                                                      *)
THEOREM NothingStaysIncomplete == ManSpec => []IncompleteIsBeingLoaded
<1>1. ManInit => IncompleteIsBeingLoaded
  BY ManAssumption DEF ManInit, C!CacheInit, IncompleteIsBeingLoaded, C!Cached
<1>2. NamesInv /\ ShapeInv /\ IncompleteIsBeingLoaded /\ [ManNext]_allVars
        => IncompleteIsBeingLoaded'
  <2>1. CASE UNCHANGED allVars
    BY <2>1 DEF allVars, manVars, IncompleteIsBeingLoaded, C!Cached, Complete, Accepted
  <2> QED
    BY <2>1, IncompleteStep
<1> QED
  BY <1>1, <1>2, ManInductive, PTL DEF ManSpec

-----------------------------------------------------------------------------
(* Memory resources that are removed and placed again *)

(* A node of a durable name whose publication is over was there before the step, *)
(* its publication over, or its handle base was not written yet.                 *)
LEMMA SettledBefore ==
  ASSUME IInv, [NamesNext]_vars, NEW m \in nodes', ~BeingPublished(m)', m.name \in Durable
  PROVE  /\ m \in nodes
         /\ \/ ~BeingPublished(m)
            \/ \E t \in Threads : pc[t] = "setBase" /\ index[t] = m.index
<1> USE DEF IInv
<1>1. ASSUME NEW t \in Threads, InsertNode(t) PROVE m \in nodes /\ ~BeingPublished(m)
  <2>1. m # NewNode(t, 0)
    BY <1>1 DEF InsertNode, BeingPublished, NewNode, TypeOK
  <2>2. m \in nodes
    BY <1>1, <2>1 DEF InsertNode
  <2> QED
    BY <1>1, <2>2, NobodyPublishes DEF InsertNode
<1>2. ASSUME NEW t \in Threads, AssignIndex(t) PROVE m \in nodes /\ ~BeingPublished(m)
  <2>1. m # NewNode(t, index[t])
    BY <1>2 DEF AssignIndex, BeingPublished, NewNode, TypeOK
  <2>2. m \in nodes /\ m # NewNode(t, 0)
    BY <1>2, <2>1 DEF AssignIndex
  <2>3. \A u \in Threads : pc[u] \in {"assign", "setBase"} => u = t
    BY <1>2, OneHolder DEF AssignIndex, Locked
  <2> QED
    BY <1>2, <2>2, <2>3 DEF AssignIndex, BeingPublished
<1>3. ASSUME NEW t \in Threads, SetBase(t)
      PROVE  m \in nodes /\ (~BeingPublished(m) \/ index[t] = m.index)
  <2>1. \A u \in Threads : pc[u] \in {"assign", "setBase"} => u = t
    BY <1>3, OneHolder DEF SetBase, Locked
  <2> QED
    BY <1>3, <2>1 DEF SetBase, BeingPublished, NewNode
<1>4. CASE /\ m \in nodes
           /\ \A u \in Threads : pc[u] \in {"assign", "setBase"} =>
                pc'[u] = pc[u] /\ name'[u] = name[u] /\ text'[u] = text[u] /\ index'[u] = index[u]
  BY <1>4 DEF BeingPublished, NewNode
<1>5. ASSUME NEW x \in nodes, TextDies(x) PROVE m \in nodes
  <2>1. m = [x EXCEPT !.key = "dead"] => m.name = x.name
    BY <1>5 DEF TypeOK, Node
  <2> QED
    BY <1>5, <2>1 DEF TextDies, KeyInv
<1>6. ASSUME NEW n \in Names, EraseName(n) PROVE m \in nodes
  BY <1>6 DEF EraseName
<1>7. ASSUME NEW t \in Threads,
             \/ FindHit(t) \/ FindMiss(t) \/ Lock(t) \/ Recheck(t) \/ Alloc(t) \/ AllocSpins(t)
             \/ Unlock(t) \/ ReturnIndex(t)
             \/ \E n \in Names, k \in Text : GetIndexFromName(t, n, k)
      PROVE  /\ m \in nodes
             /\ \A u \in Threads : pc[u] \in {"assign", "setBase"} =>
                  pc'[u] = pc[u] /\ name'[u] = name[u] /\ text'[u] = text[u]
                    /\ index'[u] = index[u]
  BY <1>7 DEF FindHit, FindMiss, Lock, Recheck, Alloc, AllocSpins, Unlock, ReturnIndex,
     GetIndexFromName, TypeOK
<1>8. ASSUME \/ UNCHANGED vars
             \/ \E x \in nodes : TextDies(x)
             \/ \E n \in Names : EraseName(n)
      PROVE  /\ m \in nodes
             /\ \A u \in Threads : pc[u] \in {"assign", "setBase"} =>
                  pc'[u] = pc[u] /\ name'[u] = name[u] /\ text'[u] = text[u]
                    /\ index'[u] = index[u]
  BY <1>5, <1>6, <1>8 DEF vars, TextDies, EraseName
<1> QED
  BY <1>1, <1>2, <1>3, <1>4, <1>7, <1>8 DEF NamesNext, CallbackCalls, CallbackReturns, Next,
     Step, Lookup, OpenByName, OpenByIndex, RemoveName, SetBase, Text

LEMMA CurrentStep ==
  ASSUME NamesInv, NamesInv', ShapeInv, ServesInv, ServesInv', CurrentContent, ManNext
  PROVE  CurrentContent'
<1> USE DEF ShapeInv
<1>1. [NamesNext]_vars /\ premature \in BOOLEAN /\ premature' \in BOOLEAN
  BY NamesStep, TypeStep DEF NamesInv, IInv, TypeOK, vars
<1> SUFFICES ASSUME premature' = FALSE, NEW m \in nodes', ~BeingPublished(m)',
                    m.name \in Durable \cap MemNames,
                    NEW c \in Copies, cache'[m.index] = c
             PROVE  obj'[c].version = memory'[m.name]
  BY <1>1 DEF CurrentContent
<1> DEFINE n == m.name
           i == m.index
<1>3. premature = FALSE
  BY <1>1, PrematureStays
<1>4. /\ m \in nodes /\ i \in Index
      /\ ~BeingPublished(m) \/ \E t \in Threads : pc[t] = "setBase" /\ index[t] = i
  <2>1. IInv
    BY DEF NamesInv
  <2>2. /\ m \in nodes
        /\ ~BeingPublished(m) \/ \E t \in Threads : pc[t] = "setBase" /\ index[t] = i
    BY <1>1, <2>1, SettledBefore
  <2> QED
    BY <2>1, <2>2 DEF IInv, TypeOK, Node
<1>5. obj'[c].name = n
  <2>1. indexToResourceName'[i] = n
    BY DEF NamesInv, IInv, OneIndexPerName, Consistent
  <2>2. Serves(cache[i], i)'
    BY <1>4 DEF ServesInv
  <2>3. obj'[c].name = indexToResourceName'[i]
    BY <2>2 DEF Serves, Consistent
  <2> QED
    BY <2>1, <2>3
<1>6. CASE cache[i] = c
  <2>1. Serves(c, i) /\ Referenced(c) /\ Referenced(c)'
    BY <1>3, <1>4, <1>6 DEF ServesInv, Referenced, C!Cached
  <2>2. ~BeingPublished(m)
    <3>1. indexToBase[i].index = i /\ i # Null
      BY <1>4, <2>1, ConstantsAssumption DEF Serves, Consistent, FullBase, Index
    <3>2. \A t \in Threads : pc[t] = "setBase" => indexToBase[index[t]].index = Null
      BY DEF NamesInv, SlotInv, BlankBase
    <3> QED
      BY <1>4, <3>1, <3>2
  <2>3. obj[c].version = memory[n]
    BY <1>3, <1>4, <1>6, <2>2 DEF CurrentContent
  <2>4. obj[c] \in Object /\ obj'[c].version = obj[c].version
    BY <2>1, Growth DEF ObjInv, Grows
  <2>5. memory[n] \in Nat
    BY <2>3, <2>4 DEF Object, Versions
  <2>6. memory'[n] = memory[n]
    <3>1. ASSUME NEW r \in MemNames, RemoveFromStorage(r) PROVE memory'[n] = memory[n]
      <4>1. r # n
        BY <1>4, <3>1 DEF RemoveFromStorage, EraseName, MayMiss, Matches, NamesInv, IInv,
           OneIndexPerName, KeyInv
      <4> QED
        BY <3>1, <4>1 DEF RemoveFromStorage, ManTypeOK
    <3>2. ASSUME NEW t \in Threads, NEW p \in MemNames, PlaceInStorage(t, p)
          PROVE  memory'[n] = memory[n]
      BY <2>5, <3>2, ManAssumption DEF PlaceInStorage, ManTypeOK
    <3>3. ASSUME NEW t \in Threads, PlaceContent(t) PROVE memory'[n] = memory[n]
      BY <2>5, <3>3, ManAssumption DEF PlaceContent, ManTypeOK
    <3> QED
      BY <3>1, <3>2, <3>3 DEF ManNext, ManStep, NameStep, CacheLookup, CacheLookupLocked,
         ReadStorage, RunStage, TakeIndex, CacheInsert, CacheAssign, Advance, Acquire, Open,
         Forget, FlushCache, manVars
  <2> QED
    BY <2>3, <2>4, <2>6
<1>7. ASSUME NEW t \in Threads, CacheAssign(t), cache[i] # c
      PROVE  obj'[c].version = memory'[n]
  <2>1. c = load[t].copy /\ UNCHANGED <<obj, memory>> /\ loadPc[t] = "assign"
    BY <1>4, <1>7 DEF CacheAssign, C!InsertAssign, ManTypeOK
  <2> QED
    BY <1>5, <2>1 DEF LoadInv, Loads, Loading
<1>8. ASSUME NEW t \in Threads, CacheInsert(t) PROVE cache[i] = c
  BY <1>4, <1>8, ManAssumption DEF CacheInsert, C!InsertEmpty, C!InsertKeeps, C!cacheVars,
     ManTypeOK
<1>9. ~FlushCache
  BY <1>4, ManAssumption DEF FlushCache, C!Reset
<1>10. ASSUME UNCHANGED cache PROVE cache[i] = c
  BY <1>10
<1> QED
  BY <1>6, <1>7, <1>8, <1>9, <1>10 DEF ManNext, ManStep, NameStep, CacheLookup,
     CacheLookupLocked, ReadStorage, StartChunk, RunStage, TakeIndex, Advance, PlaceContent,
     Acquire, PlaceInStorage, Open, Forget, RemoveFromStorage, manVars

(* The index a memory name has now never gives content the name had before it was *)
(* removed and placed again.                                                      *)
THEOREM ContentIsCurrent == ManSpec => []CurrentContent
<1>1. ManInit => CurrentContent
  BY DEF ManInit, Init, CurrentContent
<1>2. /\ NamesInv /\ NamesInv' /\ ShapeInv /\ ServesInv /\ ServesInv' /\ CurrentContent
      /\ [ManNext]_allVars
      => CurrentContent'
  <2>1. CASE UNCHANGED allVars
    BY <2>1 DEF allVars, vars, manVars, CurrentContent, BeingPublished, NewNode
  <2> QED
    BY <2>1, CurrentStep
<1> QED
  BY <1>1, <1>2, ManInductive, ServesInductive, PTL DEF ManSpec

=============================================================================
