------------------------ MODULE ResourceNamesProofs ------------------------
(***************************************************************************)
(* Proofs about ResourceNames, for any threads, names and pool size.       *)
(***************************************************************************)
EXTENDS ResourceNames, SequenceTheorems, TLAPS

-----------------------------------------------------------------------------
(* The inductive invariant *)

(* What a thread knows of its own call. *)
CallInv ==
  \A t \in Threads :
    /\ pc[t] # "idle" => name[t] \in Names
    /\ pc[t] \in {"insert", "assign", "setBase", "unlock", "found"} => index[t] \in Index
    /\ name[t] \in Durable => text[t] = "lasting"
    /\ handle[t] # NoHandle => handle[t].name \in Names

(* The mutex is held by the thread that is in the locked part of the lookup. *)
LockInv == \A t \in Threads : pc[t] \in Locked <=> nameCacheLock = t

(* What the holder of the mutex may rely on. *)
HolderInv ==
  \A t \in Threads :
    /\ pc[t] \in {"alloc", "insert"} => MayMiss(name[t])
    /\ pc[t] \in {"insert", "assign", "setBase"} => indexToResourceName[index[t]] = name[t]
    /\ pc[t] = "assign" => NewNode(t, 0) \in nodes

(* The keys of durable names stay alive. *)
KeyInv == \A m \in nodes : m.name \in Durable => m.key = "lasting"

IInv ==
  /\ TypeOK
  /\ CallInv
  /\ LockInv
  /\ HolderInv
  /\ KeyInv
  /\ PoolAccounted
  /\ OneIndexPerName
  /\ LockedResultSettled

(* What an unlocked lookup, and the handle made from it, may rely on. *)
FoundInv ==
  premature \/ \A t \in Threads : pc[t] = "found" => Consistent(name[t], index[t])

-----------------------------------------------------------------------------
(* The steps *)

(* The steps of the protocol and those of the resource manager's callback, which *)
(* looks an index up for a bundle's chunk and opens no handle for it.            *)
CallbackCalls(t, n) == GetIndexFromName(t, n, "borrowed") /\ UNCHANGED handle
CallbackReturns(t) == ReturnIndex(t) /\ UNCHANGED handle

NamesNext ==
  \/ Next
  \/ \E t \in Threads : CallbackReturns(t) \/ \E n \in Names : CallbackCalls(t, n)

NamesSpec == Init /\ [][NamesNext]_vars

LEMMA SpecNames == Spec => NamesSpec
<1>1. [Next]_vars => [NamesNext]_vars
  BY DEF NamesNext
<1> QED
  BY <1>1, PTL DEF Spec, NamesSpec

-----------------------------------------------------------------------------
(* Type correctness *)

LEMMA AllFreeType ==
  /\ AllFree \in Seq(Index)
  /\ Len(AllFree) = PoolSize
  /\ \A k \in 1..PoolSize : AllFree[k] = k - 1
<1>1. PoolSize \in Nat /\ AllFree \in [1..PoolSize -> Index]
  BY ConstantsAssumption DEF AllFree, Index
<1>2. AllFree \in Seq(Index)
  BY <1>1, SeqDef
<1>3. Len(AllFree) = PoolSize
  BY <1>1, <1>2, LenProperties DEF AllFree
<1> QED
  BY <1>2, <1>3 DEF AllFree

LEMMA TypeInit == Init => TypeOK /\ CallInv
<1> SUFFICES ASSUME Init PROVE TypeOK /\ CallInv
  OBVIOUS
<1>1. freelist \in Seq(Index)
  BY AllFreeType DEF Init
<1>2. TypeOK
  BY <1>1 DEF Init, TypeOK, Base, BlankBase, NoHandle, Text, Locked, Unlocked
<1>3. CallInv
  BY ConstantsAssumption DEF Init, CallInv
<1> QED
  BY <1>2, <1>3

(* A handle base read while it is written is made of old and of new fields. *)
LEMMA ReadBaseType ==
  ASSUME TypeOK, CallInv, NEW i \in Index
  PROVE  ReadBase(i) \subseteq Base
<1> DEFINE racing == {FullBase(i, name[u]) :
                        u \in {v \in Threads : pc[v] = "setBase" /\ index[v] = i}}
           seen == racing \cup {indexToBase[i]}
<1>1. racing \subseteq Base
  BY ConstantsAssumption DEF CallInv, FullBase, Base
<1>2. seen \subseteq Base
  BY <1>1 DEF TypeOK
<1> QED
  BY <1>2 DEF ReadBase, Base

LEMMA TypeStep == TypeOK /\ CallInv /\ [NamesNext]_vars => TypeOK' /\ CallInv'
<1> SUFFICES ASSUME TypeOK, CallInv, [NamesNext]_vars PROVE TypeOK' /\ CallInv'
  OBVIOUS
<1> USE DEF TypeOK, CallInv, Locked, Unlocked, Text
<1>1. ASSUME NEW t \in Threads, NEW n \in Names, NEW k \in Text, OpenByName(t, n, k)
      PROVE  TypeOK' /\ CallInv'
  BY <1>1 DEF OpenByName, GetIndexFromName, NoHandle, BlankBase, Base
<1>2. ASSUME NEW t \in Threads, FindHit(t) PROVE TypeOK' /\ CallInv'
  BY <1>2 DEF FindHit, Matches, Node, BeingPublished
<1>3. ASSUME NEW t \in Threads, FindMiss(t) PROVE TypeOK' /\ CallInv'
  BY <1>3 DEF FindMiss
<1>4. ASSUME NEW t \in Threads, Lock(t) PROVE TypeOK' /\ CallInv'
  BY <1>4 DEF Lock
<1>5. ASSUME NEW t \in Threads, Recheck(t) PROVE TypeOK' /\ CallInv'
  BY <1>5 DEF Recheck, Matches, Node
<1>6. ASSUME NEW t \in Threads, Alloc(t) PROVE TypeOK' /\ CallInv'
  BY <1>6, HeadTailProperties DEF Alloc
<1>7. ASSUME NEW t \in Threads, AllocSpins(t) PROVE TypeOK' /\ CallInv'
  BY <1>7 DEF AllocSpins
<1>8. ASSUME NEW t \in Threads, InsertNode(t) PROVE TypeOK' /\ CallInv'
  BY <1>8, ConstantsAssumption DEF InsertNode, NewNode, Node, Index
<1>9. ASSUME NEW t \in Threads, AssignIndex(t) PROVE TypeOK' /\ CallInv'
  BY <1>9 DEF AssignIndex, NewNode, Node
<1>10. ASSUME NEW t \in Threads, SetBase(t) PROVE TypeOK' /\ CallInv'
  BY <1>10, ConstantsAssumption DEF SetBase, FullBase, Base
<1>11. ASSUME NEW t \in Threads, Unlock(t) PROVE TypeOK' /\ CallInv'
  BY <1>11 DEF Unlock
<1>12. ASSUME NEW t \in Threads, OpenByIndex(t) PROVE TypeOK' /\ CallInv'
  <2>1. index[t] \in Index
    BY <1>12 DEF OpenByIndex, ReturnIndex
  <2>2. ReadBase(index[t]) \subseteq Base
    BY <2>1, ReadBaseType
  <2> QED
    BY <1>12, <2>2 DEF OpenByIndex, ReturnIndex
<1>13. ASSUME NEW m \in nodes, TextDies(m) PROVE TypeOK' /\ CallInv'
  BY <1>13 DEF TextDies, Node
<1>14. ASSUME NEW n \in Names, RemoveName(n) PROVE TypeOK' /\ CallInv'
  BY <1>14 DEF RemoveName, EraseName
<1>15. ASSUME NEW t \in Threads, CallbackReturns(t) PROVE TypeOK' /\ CallInv'
  BY <1>15 DEF CallbackReturns, ReturnIndex
<1>16. ASSUME NEW t \in Threads, NEW n \in Names, CallbackCalls(t, n)
       PROVE  TypeOK' /\ CallInv'
  BY <1>16 DEF CallbackCalls, GetIndexFromName
<1>17. CASE UNCHANGED vars
  BY <1>17 DEF vars
<1> QED
  BY <1>1, <1>2, <1>3, <1>4, <1>5, <1>6, <1>7, <1>8, <1>9, <1>10, <1>11,
     <1>12, <1>13, <1>14, <1>15, <1>16, <1>17 DEF NamesNext, Next, Step, Lookup

(* Type correctness of the lookup protocol and its callers. *)
THEOREM TypeCorrect == Spec => []TypeOK
<1>1. Init => TypeOK /\ CallInv
  BY TypeInit
<1>2. TypeOK /\ CallInv /\ [NamesNext]_vars => (TypeOK /\ CallInv)'
  BY TypeStep
<1> QED
  BY <1>1, <1>2, SpecNames, PTL DEF NamesSpec

-----------------------------------------------------------------------------
(* The mutex, and what its holder may rely on *)

LEMMA OneHolder ==
  ASSUME LockInv, NEW t \in Threads, NEW u \in Threads, pc[t] \in Locked, pc[u] \in Locked
  PROVE  t = u
BY DEF LockInv

LEMMA LockStep == TypeOK /\ LockInv /\ NamesNext => LockInv'
<1> SUFFICES ASSUME TypeOK, LockInv, NamesNext PROVE LockInv'
  OBVIOUS
<1> USE ConstantsAssumption DEF TypeOK, LockInv, Locked, Unlocked
<1>1. ASSUME NEW t \in Threads, NEW n \in Names, NEW k \in Text,
             OpenByName(t, n, k) \/ CallbackCalls(t, n)
      PROVE  LockInv'
  BY <1>1 DEF OpenByName, CallbackCalls, GetIndexFromName
<1>2. ASSUME NEW t \in Threads, FindHit(t) \/ FindMiss(t) PROVE LockInv'
  BY <1>2 DEF FindHit, FindMiss
<1>3. ASSUME NEW t \in Threads, Lock(t) PROVE LockInv'
  BY <1>3 DEF Lock
<1>4. ASSUME NEW t \in Threads, Recheck(t) \/ Alloc(t) \/ AllocSpins(t) PROVE LockInv'
  BY <1>4 DEF Recheck, Alloc, AllocSpins
<1>5. ASSUME NEW t \in Threads, InsertNode(t) \/ AssignIndex(t) \/ SetBase(t) PROVE LockInv'
  BY <1>5 DEF InsertNode, AssignIndex, SetBase
<1>6. ASSUME NEW t \in Threads, Unlock(t) PROVE LockInv'
  BY <1>6 DEF Unlock
<1>7. ASSUME NEW t \in Threads, OpenByIndex(t) \/ CallbackReturns(t) PROVE LockInv'
  BY <1>7 DEF OpenByIndex, CallbackReturns, ReturnIndex
<1>8. ASSUME NEW m \in nodes, TextDies(m) PROVE LockInv'
  BY <1>8 DEF TextDies
<1>9. ASSUME NEW n \in Names, RemoveName(n) PROVE LockInv'
  BY <1>9 DEF RemoveName, EraseName
<1> QED
  BY <1>1, <1>2, <1>3, <1>4, <1>5, <1>6, <1>7, <1>8, <1>9 DEF NamesNext, Next, Step, Lookup

LEMMA KeyStep == TypeOK /\ CallInv /\ KeyInv /\ NamesNext => KeyInv'
<1> SUFFICES ASSUME TypeOK, CallInv, KeyInv, NamesNext PROVE KeyInv'
  OBVIOUS
<1> USE DEF KeyInv
<1>1. CASE UNCHANGED nodes
  BY <1>1
<1>2. ASSUME NEW t \in Threads, InsertNode(t) \/ AssignIndex(t) PROVE KeyInv'
  BY <1>2 DEF InsertNode, AssignIndex, NewNode, CallInv
<1>3. ASSUME NEW m \in nodes, TextDies(m) PROVE KeyInv'
  BY <1>3 DEF TextDies, TypeOK, Node
<1>4. ASSUME NEW n \in Names, RemoveName(n) PROVE KeyInv'
  BY <1>4 DEF RemoveName, EraseName
<1> QED
  BY <1>1, <1>2, <1>3, <1>4 DEF NamesNext, CallbackCalls, CallbackReturns, Next, Step, Lookup,
     OpenByName, GetIndexFromName, FindHit, FindMiss, Lock, Recheck, Alloc, AllocSpins, SetBase,
     Unlock, OpenByIndex, ReturnIndex

LEMMA HolderStep == TypeOK /\ CallInv /\ LockInv /\ HolderInv /\ NamesNext => HolderInv'
<1> SUFFICES ASSUME TypeOK, CallInv, LockInv, HolderInv, NamesNext PROVE HolderInv'
  OBVIOUS
<1> USE DEF TypeOK, HolderInv, MayMiss, Matches, NewNode
<1>1. ASSUME NEW t \in Threads, NEW n \in Names, NEW k \in Text,
             OpenByName(t, n, k) \/ CallbackCalls(t, n)
      PROVE  HolderInv'
  BY <1>1 DEF OpenByName, CallbackCalls, GetIndexFromName
<1>2. ASSUME NEW t \in Threads, FindHit(t) \/ FindMiss(t) \/ Lock(t) \/ Unlock(t)
      PROVE  HolderInv'
  BY <1>2 DEF FindHit, FindMiss, Lock, Unlock
<1>3. ASSUME NEW t \in Threads, Recheck(t) PROVE HolderInv'
  BY <1>3 DEF Recheck
<1>4. ASSUME NEW t \in Threads, Alloc(t) PROVE HolderInv'
  BY <1>4, OneHolder, HeadTailProperties DEF Alloc, Locked
<1>5. ASSUME NEW t \in Threads, AllocSpins(t) PROVE HolderInv'
  BY <1>5 DEF AllocSpins
<1>6. ASSUME NEW t \in Threads, InsertNode(t) PROVE HolderInv'
  BY <1>6, OneHolder DEF InsertNode, Locked
<1>7. ASSUME NEW t \in Threads, AssignIndex(t) PROVE HolderInv'
  BY <1>7, OneHolder DEF AssignIndex, Locked
<1>8. ASSUME NEW t \in Threads, SetBase(t) PROVE HolderInv'
  BY <1>8 DEF SetBase
<1>9. ASSUME NEW t \in Threads, OpenByIndex(t) \/ CallbackReturns(t) PROVE HolderInv'
  BY <1>9 DEF OpenByIndex, CallbackReturns, ReturnIndex
<1>10. ASSUME NEW m \in nodes, TextDies(m) PROVE HolderInv'
  BY <1>10 DEF TextDies, BeingPublished, Node
<1>11. ASSUME NEW n \in Names, RemoveName(n) PROVE HolderInv'
  BY <1>11 DEF RemoveName, EraseName, Quiet
<1> QED
  BY <1>1, <1>2, <1>3, <1>4, <1>5, <1>6, <1>7, <1>8, <1>9, <1>10, <1>11 DEF NamesNext, Next,
     Step, Lookup

LEMMA PoolInit == Init => PoolAccounted
<1> SUFFICES ASSUME Init PROVE PoolAccounted
  OBVIOUS
<1>1. PoolSize \in Nat /\ freelist = AllFree
  BY ConstantsAssumption DEF Init
<1>2. \A j, k \in 1..Len(freelist) : freelist[j] = freelist[k] => j = k
  BY <1>1, AllFreeType
<1>3. ASSUME NEW i \in Index
      PROVE  indexToResourceName[i] = Null /\ \E k \in 1..Len(freelist) : freelist[k] = i
  <2>1. i + 1 \in 1..Len(freelist) /\ freelist[i + 1] = i
    BY <1>1, AllFreeType DEF Index
  <2> QED
    BY <2>1 DEF Init
<1> QED
  BY <1>2, <1>3 DEF PoolAccounted

LEMMA PoolStep == TypeOK /\ CallInv /\ PoolAccounted /\ NamesNext => PoolAccounted'
<1> SUFFICES ASSUME TypeOK, CallInv, PoolAccounted, NamesNext PROVE PoolAccounted'
  OBVIOUS
<1>1. CASE UNCHANGED <<freelist, indexToResourceName>>
  BY <1>1 DEF PoolAccounted
<1>2. ASSUME NEW t \in Threads, Alloc(t) PROVE PoolAccounted'
  <2> DEFINE i == Head(freelist)
  <2>1. /\ freelist \in Seq(Index) /\ freelist # <<>>
        /\ Len(freelist) \in Nat \ {0}
        /\ freelist' = Tail(freelist) /\ freelist' \in Seq(Index)
        /\ i \in Index /\ i = freelist[1]
        /\ Len(freelist') = Len(freelist) - 1
        /\ \A k \in 1..Len(freelist') : freelist'[k] = freelist[k + 1]
    BY <1>2, HeadTailProperties, EmptySeq DEF Alloc, TypeOK
  <2>2. indexToResourceName' = [indexToResourceName EXCEPT ![i] = name[t]] /\ name[t] # Null
    BY <1>2, ConstantsAssumption DEF Alloc, CallInv
  <2>3. \A j, k \in 1..Len(freelist') : freelist'[j] = freelist'[k] => j = k
    BY <2>1 DEF PoolAccounted
  <2>4. ASSUME NEW x \in Index
        PROVE  indexToResourceName'[x] = Null <=> \E k \in 1..Len(freelist') : freelist'[k] = x
    <3>1. CASE x = i
      <4>1. indexToResourceName'[x] # Null
        BY <2>1, <2>2, <3>1 DEF TypeOK
      <4>2. \A k \in 1..Len(freelist') : freelist'[k] # x
        BY <2>1, <3>1 DEF PoolAccounted
      <4> QED BY <4>1, <4>2
    <3>2. CASE x # i
      <4>1. indexToResourceName'[x] = indexToResourceName[x]
        BY <2>1, <2>2, <3>2 DEF TypeOK
      <4>2. ASSUME NEW k \in 1..Len(freelist), freelist[k] = x
            PROVE  k - 1 \in 1..Len(freelist') /\ freelist'[k - 1] = x
        BY <2>1, <3>2, <4>2
      <4>3. ASSUME NEW k \in 1..Len(freelist'), freelist'[k] = x
            PROVE  k + 1 \in 1..Len(freelist) /\ freelist[k + 1] = x
        BY <2>1, <4>3
      <4> QED
        BY <4>1, <4>2, <4>3 DEF PoolAccounted
    <3> QED BY <3>1, <3>2
  <2> QED
    BY <2>3, <2>4 DEF PoolAccounted
<1> QED
  BY <1>1, <1>2 DEF NamesNext, CallbackCalls, CallbackReturns, Next, Step, Lookup, OpenByName,
     GetIndexFromName, FindHit, FindMiss, Lock, Recheck, AllocSpins, InsertNode, AssignIndex,
     SetBase, Unlock, OpenByIndex, ReturnIndex, TextDies, RemoveName, EraseName

-----------------------------------------------------------------------------
(* Settled nodes stay consistent *)

(* Consistency of a name and an index survives every step that neither names *)
(* the index again nor writes its base for another name.                     *)
LEMMA ConsistentStep ==
  ASSUME TypeOK, CallInv, HolderInv, PoolAccounted, NamesNext,
         NEW n \in Names, NEW i \in Index, Consistent(n, i)
  PROVE  Consistent(n, i)'
<1> USE DEF Consistent
<1>1. CASE UNCHANGED <<indexToResourceName, indexToBase>>
  BY <1>1 DEF FullBase
<1>2. ASSUME NEW t \in Threads, Alloc(t) PROVE Consistent(n, i)'
  <2>1. Head(freelist) = freelist[1] /\ 1 \in 1..Len(freelist)
    BY <1>2, EmptySeq DEF Alloc, TypeOK
  <2>2. indexToResourceName[i] # Null
    BY ConstantsAssumption
  <2>3. Head(freelist) # i
    BY <2>1, <2>2 DEF PoolAccounted
  <2> QED
    BY <1>2, <2>3 DEF Alloc, TypeOK, FullBase
<1>3. ASSUME NEW t \in Threads, SetBase(t) PROVE Consistent(n, i)'
  <2>1. index[t] \in Index /\ indexToResourceName[index[t]] = name[t]
    BY <1>3 DEF SetBase, CallInv, HolderInv
  <2>2. indexToBase' = [indexToBase EXCEPT ![index[t]] = FullBase(index[t], name[t])]
        /\ UNCHANGED indexToResourceName
    BY <1>3 DEF SetBase
  <2>3. CASE index[t] = i
    BY <2>1, <2>2, <2>3 DEF TypeOK, FullBase
  <2>4. CASE index[t] # i
    BY <2>1, <2>2, <2>4 DEF TypeOK, FullBase
  <2> QED BY <2>3, <2>4
<1> QED
  BY <1>1, <1>2, <1>3 DEF NamesNext, CallbackCalls, CallbackReturns, Next, Step, Lookup,
     OpenByName, GetIndexFromName, FindHit, FindMiss, Lock, Recheck, AllocSpins, InsertNode,
     AssignIndex, Unlock, OpenByIndex, ReturnIndex, TextDies, RemoveName, EraseName

(* A node that is being published is one the holder of the mutex is writing. *)
LEMMA NobodyPublishes ==
  ASSUME LockInv, NEW t \in Threads, pc[t] \in {"recheck", "alloc", "insert", "unlock", "spin"},
         NEW m \in nodes
  PROVE  ~BeingPublished(m)
BY OneHolder DEF BeingPublished, Locked

LEMMA OneIndexStep == IInv /\ NamesNext => OneIndexPerName'
<1> SUFFICES ASSUME IInv, NamesNext PROVE OneIndexPerName'
  OBVIOUS
<1> USE DEF IInv
<1> DEFINE Unique == \A m1, m2 \in nodes :
                       (m1.name = m2.name /\ m1.name \in Durable) => m1 = m2
           Settled == \A m \in nodes : BeingPublished(m) \/ Consistent(m.name, m.index)
<1>1. ASSUME NEW m \in nodes, Consistent(m.name, m.index)
      PROVE  Consistent(m.name, m.index)'
  <2>1. m.name \in Names /\ m.index \in Index
    BY DEF TypeOK, Node
  <2> QED
    BY <1>1, <2>1, ConsistentStep
<1>2. CASE /\ UNCHANGED nodes
           /\ \A m \in nodes : BeingPublished(m) => BeingPublished(m)'
  BY <1>1, <1>2 DEF OneIndexPerName
<1>3. ASSUME NEW t \in Threads, InsertNode(t) PROVE OneIndexPerName'
  <2>1. Unique'
    BY <1>3 DEF InsertNode, OneIndexPerName, HolderInv, MayMiss, Matches, KeyInv, NewNode
  <2>2. \A m \in nodes : Consistent(m.name, m.index)'
    BY <1>1, <1>3, NobodyPublishes DEF InsertNode, OneIndexPerName
  <2>3. BeingPublished(NewNode(t, 0))'
    BY <1>3 DEF InsertNode, BeingPublished, NewNode, TypeOK
  <2>4. Settled'
    BY <1>3, <2>2, <2>3 DEF InsertNode, NewNode
  <2> QED
    BY <2>1, <2>4 DEF OneIndexPerName
<1>4. ASSUME NEW t \in Threads, AssignIndex(t) PROVE OneIndexPerName'
  <2>1. Unique'
    <3>1. NewNode(t, 0) \in nodes
      BY <1>4 DEF AssignIndex, HolderInv
    <3>2. ASSUME NEW m \in nodes \ {NewNode(t, 0)}, m.name \in Durable
          PROVE  m.name # name[t]
      BY <3>1, <3>2 DEF OneIndexPerName, NewNode
    <3>3. nodes' = (nodes \ {NewNode(t, 0)}) \cup {NewNode(t, index[t])}
          /\ NewNode(t, index[t]).name = name[t]
      BY <1>4 DEF AssignIndex, NewNode
    <3> QED
      BY <3>2, <3>3 DEF OneIndexPerName
  <2>2. \A m \in nodes \ {NewNode(t, 0)} : Consistent(m.name, m.index)'
    BY <1>1, <1>4, OneHolder DEF AssignIndex, OneIndexPerName, BeingPublished, Locked
  <2>3. BeingPublished(NewNode(t, index[t]))'
    BY <1>4 DEF AssignIndex, BeingPublished, NewNode, TypeOK
  <2>4. Settled'
    BY <1>4, <2>2, <2>3 DEF AssignIndex, NewNode
  <2> QED
    BY <2>1, <2>4 DEF OneIndexPerName
<1>5. ASSUME NEW t \in Threads, SetBase(t) PROVE OneIndexPerName'
  <2>1. Consistent(name[t], index[t])'
    BY <1>5 DEF SetBase, Consistent, HolderInv, CallInv, TypeOK, FullBase
  <2>2. \A m \in nodes : BeingPublished(m) => m.name = name[t] /\ m.index = index[t]
    BY <1>5, OneHolder DEF SetBase, BeingPublished, Locked, NewNode
  <2>3. Settled'
    BY <1>1, <1>5, <2>1, <2>2 DEF SetBase, OneIndexPerName
  <2> QED
    BY <1>5, <2>3 DEF SetBase, OneIndexPerName
<1>6. ASSUME NEW m \in nodes, TextDies(m) PROVE OneIndexPerName'
  <2>1. m.name \notin Durable /\ m.key = "borrowed"
    BY <1>6 DEF TextDies, KeyInv
  <2>2. Unique'
    BY <1>6, <2>1 DEF TextDies, OneIndexPerName, TypeOK, Node
  <2>3. Consistent(m.name, m.index)'
    BY <1>1, <1>6 DEF TextDies, OneIndexPerName
  <2>4. \A x \in nodes : BeingPublished(x) => BeingPublished(x)'
    BY <1>6 DEF TextDies, BeingPublished, NewNode
  <2>5. Settled'
    BY <1>1, <1>6, <2>3, <2>4 DEF TextDies, OneIndexPerName, TypeOK, Node
  <2> QED
    BY <2>2, <2>5 DEF OneIndexPerName
<1>7. ASSUME NEW n \in Names, RemoveName(n) PROVE OneIndexPerName'
  <2>1. nodes' \subseteq nodes
    BY <1>7 DEF RemoveName, EraseName
  <2>2. \A m \in nodes : ~BeingPublished(m)
    BY <1>7 DEF RemoveName, Quiet, BeingPublished
  <2> QED
    BY <1>1, <2>1, <2>2 DEF OneIndexPerName
<1>8. ASSUME NEW t \in Threads, NEW n \in Names, NEW k \in Text,
             OpenByName(t, n, k) \/ CallbackCalls(t, n)
      PROVE  OneIndexPerName'
  BY <1>2, <1>8 DEF OpenByName, CallbackCalls, GetIndexFromName, BeingPublished, NewNode, TypeOK
<1>9. ASSUME NEW t \in Threads,
             FindHit(t) \/ FindMiss(t) \/ Lock(t) \/ Recheck(t) \/ Alloc(t) \/ AllocSpins(t)
               \/ Unlock(t) \/ OpenByIndex(t) \/ CallbackReturns(t)
      PROVE  OneIndexPerName'
  <2>1. /\ UNCHANGED nodes
        /\ pc[t] \notin {"assign", "setBase"}
        /\ \A u \in Threads \ {t} : /\ pc'[u] = pc[u] /\ name'[u] = name[u]
                                    /\ text'[u] = text[u] /\ index'[u] = index[u]
    BY <1>9 DEF FindHit, FindMiss, Lock, Recheck, Alloc, AllocSpins, Unlock, OpenByIndex,
       CallbackReturns, ReturnIndex, TypeOK
  <2> QED
    BY <1>2, <2>1 DEF BeingPublished, NewNode
<1> QED
  BY <1>3, <1>4, <1>5, <1>6, <1>7, <1>8, <1>9 DEF NamesNext, Next, Step, Lookup, Text

LEMMA LockedResultStep == IInv /\ NamesNext => LockedResultSettled'
<1> SUFFICES ASSUME IInv, NamesNext, NEW t \in Threads, pc'[t] = "unlock"
             PROVE  Consistent(name[t], index[t])'
  BY DEF LockedResultSettled
<1> USE DEF IInv
<1>1. CASE pc[t] = "unlock" /\ name'[t] = name[t] /\ index'[t] = index[t]
  <2>1. Consistent(name[t], index[t]) /\ name[t] \in Names /\ index[t] \in Index
    BY <1>1 DEF LockedResultSettled, CallInv
  <2>2. ASSUME NEW n \in Names, NEW i \in Index, Consistent(n, i)
        PROVE  indexToResourceName'[i] = n /\ indexToBase'[i] = FullBase(i, n)
    BY <2>2, ConsistentStep DEF Consistent, FullBase
  <2> QED
    BY <1>1, <2>1, <2>2 DEF Consistent, FullBase
<1>2. CASE Recheck(t)
  <2>1. PICK m \in Matches(name[t]) : index'[t] = m.index
    BY <1>2 DEF Recheck, TypeOK
  <2>2. /\ m \in nodes /\ m.name = name[t] /\ ~BeingPublished(m)
        /\ name' = name /\ UNCHANGED <<indexToResourceName, indexToBase>>
    BY <1>2, <2>1, NobodyPublishes DEF Recheck, Matches
  <2> QED
    BY <2>1, <2>2 DEF OneIndexPerName, Consistent, FullBase
<1>3. CASE SetBase(t)
  BY <1>3 DEF SetBase, Consistent, FullBase, HolderInv, CallInv, TypeOK
<1>4. pc[t] = "unlock" \/ Recheck(t) \/ SetBase(t)
  BY DEF NamesNext, CallbackCalls, CallbackReturns, Next, Step, Lookup, OpenByName,
     GetIndexFromName, FindHit, FindMiss, Lock, Recheck, Alloc, AllocSpins, InsertNode,
     AssignIndex, SetBase, Unlock, OpenByIndex, ReturnIndex, TextDies, RemoveName, EraseName,
     TypeOK
<1>5. pc[t] = "unlock" => name'[t] = name[t] /\ index'[t] = index[t]
  BY DEF NamesNext, CallbackCalls, CallbackReturns, Next, Step, Lookup, OpenByName,
     GetIndexFromName, FindHit, FindMiss, Lock, Recheck, Alloc, AllocSpins, InsertNode,
     AssignIndex, SetBase, Unlock, OpenByIndex, ReturnIndex, TextDies, RemoveName, EraseName,
     TypeOK
<1> QED
  BY <1>1, <1>2, <1>3, <1>4, <1>5

LEMMA Inductive == NamesSpec => []IInv
<1>1. Init => IInv
  <2> SUFFICES ASSUME Init PROVE IInv
    OBVIOUS
  <2>1. TypeOK /\ CallInv /\ PoolAccounted
    BY TypeInit, PoolInit
  <2>2. LockInv /\ HolderInv /\ KeyInv /\ OneIndexPerName /\ LockedResultSettled
    BY ConstantsAssumption DEF Init, LockInv, HolderInv, KeyInv, OneIndexPerName,
       LockedResultSettled, Locked
  <2> QED
    BY <2>1, <2>2 DEF IInv
<1>2. IInv /\ [NamesNext]_vars => IInv'
  <2> SUFFICES ASSUME IInv, [NamesNext]_vars PROVE IInv'
    OBVIOUS
  <2>1. CASE NamesNext
    BY <2>1, TypeStep, LockStep, HolderStep, KeyStep, PoolStep, OneIndexStep, LockedResultStep
       DEF IInv
  <2>2. CASE UNCHANGED vars
    BY <2>2 DEF vars, IInv, TypeOK, CallInv, LockInv, HolderInv, KeyInv, PoolAccounted,
       OneIndexPerName, LockedResultSettled, MayMiss, Matches, NewNode, BeingPublished,
       Consistent, FullBase
  <2> QED
    BY <2>1, <2>2
<1> QED
  BY <1>1, <1>2, PTL DEF NamesSpec

(* However the lookups interleave, a name whose text lives has one node, and    *)
(* every node not being written leads to its own name and handle base.          *)
THEOREM NamesAreUnique == Spec => []OneIndexPerName
<1>1. IInv => OneIndexPerName
  BY DEF IInv
<1> QED
  BY <1>1, SpecNames, Inductive, PTL

(* An index is free or named, never both, and is in the free queue at most once. *)
THEOREM PoolIsAccounted == Spec => []PoolAccounted
<1>1. IInv => PoolAccounted
  BY DEF IInv
<1> QED
  BY <1>1, SpecNames, Inductive, PTL

(* What a thread leaves the mutex with is finished. *)
THEOREM LockedResultIsSettled == Spec => []LockedResultSettled
<1>1. IInv => LockedResultSettled
  BY DEF IInv
<1> QED
  BY <1>1, SpecNames, Inductive, PTL

LEMMA NameKeptStep ==
  ASSUME IInv, [NamesNext]_vars, NEW i \in Index, indexToResourceName[i] # Null
  PROVE  indexToResourceName'[i] = indexToResourceName[i]
<1>1. CASE UNCHANGED indexToResourceName
  BY <1>1
<1>2. ASSUME NEW t \in Threads, Alloc(t)
      PROVE  indexToResourceName'[i] = indexToResourceName[i]
  <2>1. Head(freelist) = freelist[1] /\ 1 \in 1..Len(freelist)
    BY <1>2, EmptySeq DEF Alloc, IInv, TypeOK
  <2>2. Head(freelist) # i
    BY <2>1 DEF IInv, PoolAccounted
  <2> QED
    BY <1>2, <2>2 DEF Alloc, IInv, TypeOK
<1> QED
  BY <1>1, <1>2 DEF vars, NamesNext, CallbackCalls, CallbackReturns, Next, Step, Lookup,
     OpenByName, GetIndexFromName, FindHit, FindMiss, Lock, Recheck, AllocSpins, InsertNode,
     AssignIndex, SetBase, Unlock, OpenByIndex, ReturnIndex, TextDies, RemoveName, EraseName

LEMMA NamesKept == NamesSpec => IndexKeepsName
<1>1. IInv /\ [NamesNext]_vars =>
        [\A i \in Index : indexToResourceName[i] # Null =>
            indexToResourceName'[i] = indexToResourceName[i]]_vars
  BY NameKeptStep
<1> QED
  BY <1>1, Inductive, PTL DEF NamesSpec, IndexKeepsName

(* An index that has a name keeps it for ever. *)
THEOREM IndicesKeepNames == Spec => IndexKeepsName
BY SpecNames, NamesKept

-----------------------------------------------------------------------------
(* Handles *)

LEMMA FoundStep == IInv /\ FoundInv /\ NamesNext => FoundInv'
<1> SUFFICES ASSUME IInv, FoundInv, NamesNext, premature' = FALSE,
                    NEW t \in Threads, pc'[t] = "found"
             PROVE  Consistent(name[t], index[t])'
  BY DEF FoundInv, IInv, TypeOK, NamesNext, CallbackCalls, CallbackReturns, Next, Step, Lookup,
     OpenByName, GetIndexFromName, FindHit, FindMiss, Lock, Recheck, Alloc, AllocSpins,
     InsertNode, AssignIndex, SetBase, Unlock, OpenByIndex, ReturnIndex, TextDies, RemoveName,
     EraseName
<1> USE DEF IInv
<1>1. premature = FALSE
  BY DEF NamesNext, CallbackCalls, CallbackReturns, Next, Step, Lookup, OpenByName,
     GetIndexFromName, FindHit, FindMiss, Lock, Recheck, Alloc, AllocSpins, InsertNode,
     AssignIndex, SetBase, Unlock, OpenByIndex, ReturnIndex, TextDies, RemoveName, EraseName,
     TypeOK
<1>2. ASSUME NEW n \in Names, NEW i \in Index, Consistent(n, i)
      PROVE  indexToResourceName'[i] = n /\ indexToBase'[i] = FullBase(i, n)
  BY <1>2, ConsistentStep DEF Consistent, FullBase
<1>3. CASE FindHit(t)
  <2>1. PICK m \in Matches(name[t]) : /\ index'[t] = m.index
                                      /\ premature' = (premature \/ BeingPublished(m))
    BY <1>3 DEF FindHit, TypeOK
  <2>2. /\ m \in nodes /\ m.name = name[t] /\ ~BeingPublished(m)
        /\ name' = name /\ UNCHANGED <<indexToResourceName, indexToBase>>
    BY <1>1, <1>3, <2>1 DEF FindHit, Matches
  <2> QED
    BY <2>1, <2>2 DEF OneIndexPerName, Consistent, FullBase
<1>4. CASE Unlock(t)
  BY <1>4 DEF Unlock, LockedResultSettled, Consistent, FullBase
<1>5. CASE pc[t] = "found" /\ name'[t] = name[t] /\ index'[t] = index[t]
  <2>1. Consistent(name[t], index[t]) /\ name[t] \in Names /\ index[t] \in Index
    BY <1>1, <1>5 DEF FoundInv, CallInv
  <2> QED
    BY <1>2, <1>5, <2>1 DEF Consistent, FullBase
<1>6. FindHit(t) \/ Unlock(t) \/ (pc[t] = "found" /\ name'[t] = name[t] /\ index'[t] = index[t])
  BY DEF NamesNext, CallbackCalls, CallbackReturns, Next, Step, Lookup, OpenByName,
     GetIndexFromName, FindHit, FindMiss, Lock, Recheck, Alloc, AllocSpins, InsertNode,
     AssignIndex, SetBase, Unlock, OpenByIndex, ReturnIndex, TextDies, RemoveName, EraseName,
     TypeOK
<1> QED
  BY <1>3, <1>4, <1>5, <1>6

(* An index that is consistent has one base to read, whoever is writing it. *)
LEMMA ReadConsistent ==
  ASSUME IInv, NEW n \in Names, NEW i \in Index, Consistent(n, i), NEW b \in ReadBase(i)
  PROVE  b = FullBase(i, n)
<1> DEFINE seen == {FullBase(i, name[u]) :
                      u \in {v \in Threads : pc[v] = "setBase" /\ index[v] = i}}
                    \cup {indexToBase[i]}
<1>1. \A x \in seen : x = FullBase(i, n)
  BY DEF Consistent, IInv, HolderInv
<1>2. b \in [index : {x.index : x \in seen}, id : {x.id : x \in seen}]
  BY DEF ReadBase
<1> QED
  BY <1>1, <1>2 DEF FullBase

LEMMA HandleStep == IInv /\ FoundInv /\ HandlesRight /\ NamesNext => HandlesRight'
<1> DEFINE Right(h) == \E i \in Index : h.base = FullBase(i, h.name) /\ Consistent(h.name, i)
<1> SUFFICES ASSUME IInv, FoundInv, HandlesRight, NamesNext PROVE HandlesRight'
  OBVIOUS
<1> USE DEF IInv
<1>0. premature' \in BOOLEAN
  BY TypeStep DEF TypeOK
<1> SUFFICES ASSUME premature' = FALSE, NEW t \in Threads, handle'[t] # NoHandle
             PROVE  Right(handle[t])'
  BY <1>0 DEF HandlesRight
<1>1. premature = FALSE
  BY DEF NamesNext, CallbackCalls, CallbackReturns, Next, Step, Lookup, OpenByName,
     GetIndexFromName, FindHit, FindMiss, Lock, Recheck, Alloc, AllocSpins, InsertNode,
     AssignIndex, SetBase, Unlock, OpenByIndex, ReturnIndex, TextDies, RemoveName, EraseName,
     TypeOK
<1>2. CASE handle'[t] = handle[t]
  <2>1. PICK i \in Index : handle[t].base = FullBase(i, handle[t].name)
                           /\ Consistent(handle[t].name, i)
    BY <1>1, <1>2 DEF HandlesRight
  <2>2. handle[t].name \in Names
    BY <1>2 DEF CallInv
  <2>3. Consistent(handle[t].name, i)'
    <3>1. ASSUME NEW n \in Names, Consistent(n, i)
          PROVE  indexToResourceName'[i] = n /\ indexToBase'[i] = FullBase(i, n)
      BY <3>1, ConsistentStep DEF Consistent, FullBase
    <3> QED
      BY <1>2, <2>1, <2>2, <3>1 DEF Consistent, FullBase
  <2> QED
    BY <1>2, <2>1, <2>3 DEF FullBase
<1>3. CASE OpenByIndex(t)
  <2>1. /\ pc[t] = "found" /\ name[t] \in Names /\ index[t] \in Index
        /\ UNCHANGED <<indexToResourceName, indexToBase>>
    BY <1>3 DEF OpenByIndex, ReturnIndex, CallInv
  <2>2. PICK b \in ReadBase(index[t]) : handle'[t] = [name |-> name[t], base |-> b]
    BY <1>3 DEF OpenByIndex, TypeOK
  <2>3. Consistent(name[t], index[t])
    BY <1>1, <2>1 DEF FoundInv
  <2>4. b = FullBase(index[t], name[t])
    BY <2>1, <2>3, ReadConsistent
  <2> QED
    BY <2>1, <2>2, <2>3, <2>4 DEF Consistent, FullBase
<1>4. handle'[t] = handle[t] \/ OpenByIndex(t)
  BY DEF NamesNext, CallbackCalls, CallbackReturns, Next, Step, Lookup, OpenByName,
     GetIndexFromName, FindHit, FindMiss, Lock, Recheck, Alloc, AllocSpins, InsertNode,
     AssignIndex, SetBase, Unlock, OpenByIndex, ReturnIndex, TextDies, RemoveName, EraseName,
     TypeOK
<1> QED
  BY <1>2, <1>3, <1>4

LEMMA HandlesInductive == NamesSpec => [](FoundInv /\ HandlesRight)
<1>1. Init => FoundInv /\ HandlesRight
  BY DEF Init, FoundInv, HandlesRight
<1>2. IInv /\ FoundInv /\ HandlesRight /\ [NamesNext]_vars => (FoundInv /\ HandlesRight)'
  <2> SUFFICES ASSUME IInv, FoundInv, HandlesRight, [NamesNext]_vars
               PROVE  (FoundInv /\ HandlesRight)'
    OBVIOUS
  <2>1. CASE NamesNext
    BY <2>1, FoundStep, HandleStep
  <2>2. CASE UNCHANGED vars
    BY <2>2 DEF vars, FoundInv, HandlesRight, Consistent, FullBase
  <2> QED
    BY <2>1, <2>2
<1> QED
  BY <1>1, <1>2, Inductive, PTL DEF NamesSpec

(* A handle names the index and type of the name it was opened with, unless a *)
(* lookup returned a node that was still being published.                     *)
THEOREM HandlesAreRight == Spec => []HandlesRight
BY SpecNames, HandlesInductive, PTL

-----------------------------------------------------------------------------
(* Refinement of NameTable *)

Table == {<<m.name, m.index>> : m \in {x \in nodes : x.name \in Durable /\ ~Unassigned(x)}}

Used == {i \in Index :
           /\ indexToResourceName[i] # Null
           /\ \A t \in Threads : pc[t] \in {"insert", "assign"} => index[t] # i}

(* The steps of the promise, on the table and the indices the protocol has. *)
TableBound(n) == \E i \in Index : <<n, i>> \in Table

TableBind(n) ==
  /\ ~TableBound(n)
  /\ \E i \in Index \ Used : Table' = Table \cup {<<n, i>>} /\ Used' = Used \cup {i}

TableSpend == (\E i \in Index \ Used : Used' = Used \cup {i}) /\ UNCHANGED Table

TableForget(n) ==
  /\ TableBound(n)
  /\ Table' = {b \in Table : b[1] # n}
  /\ UNCHANGED Used

TableNext == (\E n \in Durable : TableBind(n) \/ TableForget(n)) \/ TableSpend

(* Nothing of the table moves while the nodes and the threads that insert stay. *)
LEMMA TableStutters ==
  ASSUME UNCHANGED <<nodes, indexToResourceName>>,
         \A t \in Threads :
           \/ /\ pc[t] \notin {"insert", "assign"} /\ pc'[t] \notin {"insert", "assign"}
           \/ pc'[t] = pc[t] /\ name'[t] = name[t] /\ text'[t] = text[t] /\ index'[t] = index[t]
  PROVE  UNCHANGED <<Table, Used>>
<1>1. \A m \in nodes : Unassigned(m)' <=> Unassigned(m)
  BY DEF Unassigned, NewNode
<1>2. Table' = Table
  BY <1>1 DEF Table
<1>3. Used' = Used
  BY DEF Used
<1> QED
  BY <1>2, <1>3

LEMMA AllocStutters ==
  ASSUME IInv, NEW t \in Threads, Alloc(t)
  PROVE  UNCHANGED <<Table, Used>>
<1> USE DEF IInv
<1>1. /\ Head(freelist) = freelist[1] /\ 1 \in 1..Len(freelist) /\ Head(freelist) \in Index
  BY EmptySeq, HeadTailProperties DEF Alloc, TypeOK
<1>2. indexToResourceName[Head(freelist)] = Null
  BY <1>1 DEF PoolAccounted
<1>3. \A m \in nodes : Unassigned(m)' <=> Unassigned(m)
  BY DEF Alloc, Unassigned, NewNode, TypeOK
<1>4. Table' = Table
  BY <1>3 DEF Table, Alloc
<1>5. Used' = Used
  BY <1>1, <1>2 DEF Used, Alloc, TypeOK
<1> QED
  BY <1>4, <1>5

LEMMA InsertStutters ==
  ASSUME IInv, NEW t \in Threads, InsertNode(t)
  PROVE  UNCHANGED <<Table, Used>>
<1> USE DEF IInv
<1>1. pc[t] = "insert" /\ pc' = [pc EXCEPT ![t] = "assign"]
      /\ nodes' = nodes \cup {NewNode(t, 0)} /\ UNCHANGED <<indexToResourceName, name, text, index>>
  BY DEF InsertNode
<1>2. NewNode(t, 0) \notin nodes /\ \A m \in nodes : m # NewNode(t, 0)
  BY <1>1 DEF HolderInv, MayMiss, Matches, NewNode, TypeOK, Text
<1>3. \A m \in nodes' : Unassigned(m)' <=> m = NewNode(t, 0)
  BY <1>1, OneHolder DEF Unassigned, NewNode, TypeOK, Locked
<1>4. \A m \in nodes : ~Unassigned(m)
  BY <1>1, OneHolder DEF Unassigned, Locked
<1>5. Table' = Table
  BY <1>1, <1>2, <1>3, <1>4 DEF Table
<1>6. Used' = Used
  BY <1>1 DEF Used, TypeOK
<1> QED
  BY <1>5, <1>6

LEMMA AssignBinds ==
  ASSUME IInv, NEW t \in Threads, AssignIndex(t)
  PROVE  TableNext
<1> USE DEF IInv
<1> DEFINE old == NewNode(t, 0)
           new == NewNode(t, index[t])
<1>1. /\ pc[t] = "assign" /\ pc' = [pc EXCEPT ![t] = "setBase"]
      /\ nodes' = (nodes \ {old}) \cup {new}
      /\ UNCHANGED <<indexToResourceName, name, text, index>>
  BY DEF AssignIndex
<1>2. /\ name[t] \in Names /\ index[t] \in Index /\ old \in nodes
      /\ indexToResourceName[index[t]] # Null
  BY <1>1, ConstantsAssumption DEF CallInv, HolderInv
<1>3. \A u \in Threads : pc[u] \in {"insert", "assign"} => u = t
  BY <1>1, OneHolder DEF Locked
<1>4. \A m \in nodes : Unassigned(m) <=> m = old
  BY <1>1, <1>3 DEF Unassigned
<1>5. \A m \in nodes' : ~Unassigned(m)'
  BY <1>1, <1>3 DEF Unassigned, TypeOK
<1>6. Table = {<<m.name, m.index>> : m \in {x \in nodes \ {old} : x.name \in Durable}}
  BY <1>4 DEF Table
<1>7. Table' = {<<m.name, m.index>> : m \in {x \in nodes' : x.name \in Durable}}
  BY <1>5 DEF Table
<1>8. index[t] \notin Used
  BY <1>1 DEF Used
<1>9. Used' = Used \cup {index[t]}
  <2>1. Used' = {i \in Index : indexToResourceName[i] # Null}
    BY <1>1, <1>3 DEF Used, TypeOK
  <2>2. Used = {i \in Index : indexToResourceName[i] # Null /\ i # index[t]}
    BY <1>1, <1>3 DEF Used
  <2> QED
    BY <1>2, <2>1, <2>2
<1>10. CASE name[t] \in Durable
  <2>1. new.name = name[t] /\ new.index = index[t] /\ old.name = name[t]
    BY DEF NewNode
  <2>2. Table' = Table \cup {<<name[t], index[t]>>}
    BY <1>1, <1>6, <1>7, <1>10, <2>1
  <2>3. ~TableBound(name[t])
    <3>1. \A m \in nodes \ {old} : m.name # name[t]
      BY <1>2, <1>10, <2>1 DEF OneIndexPerName
    <3> QED
      BY <1>6, <3>1 DEF TableBound
  <2>4. TableBind(name[t])
    BY <1>2, <1>8, <1>9, <2>2, <2>3 DEF TableBind
  <2> QED
    BY <1>10, <2>4 DEF TableNext
<1>11. CASE name[t] \notin Durable
  <2>1. new.name = name[t] /\ old.name = name[t]
    BY DEF NewNode
  <2>2. Table' = Table
    BY <1>1, <1>6, <1>7, <1>11, <2>1
  <2> QED
    BY <1>2, <1>8, <1>9, <2>2 DEF TableNext, TableSpend
<1> QED
  BY <1>10, <1>11

LEMMA TextDiesStutters ==
  ASSUME IInv, NEW m \in nodes, TextDies(m)
  PROVE  UNCHANGED <<Table, Used>>
<1> USE DEF IInv
<1> DEFINE dead == [m EXCEPT !.key = "dead"]
<1>1. /\ nodes' = (nodes \ {m}) \cup {dead} /\ m.key = "borrowed"
      /\ UNCHANGED <<pc, name, text, index, indexToResourceName>>
  BY DEF TextDies
<1>2. m.name \notin Durable /\ dead.name \notin Durable
  BY <1>1 DEF KeyInv, TypeOK, Node
<1>3. \A x : Unassigned(x)' <=> Unassigned(x)
  BY <1>1 DEF Unassigned, NewNode
<1>4. {x \in nodes' : x.name \in Durable /\ ~Unassigned(x)'}
        = {x \in nodes : x.name \in Durable /\ ~Unassigned(x)}
  BY <1>1, <1>2, <1>3
<1>5. Table' = Table
  BY <1>4 DEF Table
<1>6. Used' = Used
  BY <1>1 DEF Used
<1> QED
  BY <1>5, <1>6

LEMMA RemoveForgets ==
  ASSUME IInv, NEW n \in Names, RemoveName(n)
  PROVE  TableNext \/ UNCHANGED <<Table, Used>>
<1> USE DEF IInv
<1>1. UNCHANGED <<pc, name, text, index, indexToResourceName>> /\ Quiet
  BY DEF RemoveName, EraseName
<1>2. Used' = Used
  BY <1>1 DEF Used
<1>3. \A x : ~Unassigned(x) /\ ~Unassigned(x)'
  BY <1>1 DEF Unassigned, Quiet
<1>4. Table = {<<m.name, m.index>> : m \in {x \in nodes : x.name \in Durable}}
  BY <1>3 DEF Table
<1>5. Table' = {<<m.name, m.index>> : m \in {x \in nodes' : x.name \in Durable}}
  BY <1>3 DEF Table
<1>6. CASE UNCHANGED nodes
  BY <1>2, <1>4, <1>5, <1>6
<1>7. ASSUME NEW m \in Matches(n), nodes' = nodes \ {m}
      PROVE  TableNext \/ UNCHANGED <<Table, Used>>
  <2>1. m \in nodes /\ m.name = n /\ m.index \in Index
    BY DEF Matches, TypeOK, Node
  <2>2. CASE n \notin Durable
    BY <1>2, <1>4, <1>5, <1>7, <2>1, <2>2
  <2>3. CASE n \in Durable
    <3>1. \A x \in nodes : x.name = n => x = m
      BY <2>1, <2>3 DEF OneIndexPerName
    <3>2. TableBound(n)
      BY <1>4, <2>1, <2>3 DEF TableBound
    <3>3. Table' = {b \in Table : b[1] # n}
      BY <1>4, <1>5, <1>7, <2>1, <3>1
    <3> QED
      BY <1>2, <2>3, <3>2, <3>3 DEF TableNext, TableForget
  <2> QED
    BY <2>2, <2>3
<1> QED
  BY <1>6, <1>7 DEF RemoveName, EraseName

LEMMA PromiseStep == IInv /\ [NamesNext]_vars => TableNext \/ UNCHANGED <<Table, Used>>
<1> SUFFICES ASSUME IInv, [NamesNext]_vars PROVE TableNext \/ UNCHANGED <<Table, Used>>
  OBVIOUS
<1>1. ASSUME NEW t \in Threads, Alloc(t) \/ InsertNode(t) \/ AssignIndex(t)
      PROVE  TableNext \/ UNCHANGED <<Table, Used>>
  BY <1>1, AllocStutters, InsertStutters, AssignBinds
<1>2. ASSUME NEW m \in nodes, TextDies(m) PROVE TableNext \/ UNCHANGED <<Table, Used>>
  BY <1>2, TextDiesStutters
<1>3. ASSUME NEW n \in Names, RemoveName(n) PROVE TableNext \/ UNCHANGED <<Table, Used>>
  BY <1>3, RemoveForgets
<1>4. ASSUME NEW t \in Threads,
             \/ \E n \in Names, k \in Text : OpenByName(t, n, k)
             \/ CallbackReturns(t) \/ \E n \in Names : CallbackCalls(t, n)
             \/ FindHit(t) \/ FindMiss(t) \/ Lock(t) \/ Recheck(t) \/ AllocSpins(t)
             \/ SetBase(t) \/ Unlock(t) \/ OpenByIndex(t)
      PROVE  UNCHANGED <<Table, Used>>
  BY <1>4, TableStutters DEF OpenByName, CallbackCalls, CallbackReturns, GetIndexFromName,
     FindHit, FindMiss, Lock, Recheck, AllocSpins, SetBase, Unlock, OpenByIndex, ReturnIndex,
     IInv, TypeOK
<1>5. CASE UNCHANGED vars
  BY <1>5, TableStutters DEF vars
<1> QED
  BY <1>1, <1>2, <1>3, <1>4, <1>5 DEF NamesNext, Next, Step, Lookup

LEMMA PromiseKept == NamesSpec => NamePromiseSpec
<1>1. Init => NamePromise!Init
  BY DEF Init, NamePromise!Init
<1>2. IInv /\ [NamesNext]_vars => [NamePromise!Next]_NamePromise!vars
  BY PromiseStep DEF TableNext, TableBind, TableForget, TableSpend, TableBound, Table, Used,
     NamePromise!Next, NamePromise!Bind, NamePromise!Forget, NamePromise!Spend,
     NamePromise!Bound, NamePromise!vars
<1> QED
  BY <1>1, <1>2, Inductive, PTL DEF NamesSpec, NamePromiseSpec, NamePromise!Spec

(* The lookup protocol keeps the promise of NameTable for the names whose text *)
(* lives: every step binds, spends or forgets, or leaves the table alone.      *)
THEOREM NamesImplementTable == Spec => NamePromiseSpec
BY SpecNames, PromiseKept

=============================================================================
