------------------------- MODULE BundleWriterProofs -------------------------
(***************************************************************************)
(* Proofs about BundleWriter, for any types of chunks, any dependencies    *)
(* among them, circular ones included, and bundles of any length.          *)
(***************************************************************************)
EXTENDS BundleWriter, SequenceTheorems, TLAPS

-----------------------------------------------------------------------------
(* The inductive invariant *)

(* Chunk c is among the notes after the first n. *)
NotedAfter(c, n) == \E q \in n+1..Len(order) : order[q] = c

OnStack(c) == Contains(dirIndices, c)

(* What each phase starts from. *)
PhaseInv ==
  /\ phase = "adding" => order = <<>>
  /\ phase = "scan" => order # <<>>
  /\ phase \in {"flatten", "built"} => dirIndices = <<>>
  /\ phase \in {"adding", "pop", "scan"} => final = <<>>
  /\ phase = "built" => it = 0

(* No chunk gets lost on the stack. *)
StackInv ==
  phase # "adding" => \A c \in Chunk : NotedAfter(c, 0) \/ OnStack(c)

(* The dependency k of the note p has not been looked for beyond chunk j yet. *)
NotReached(p, k, j) ==
  /\ phase = "scan"
  /\ p = Len(order)
  /\ k > dep \/ (k = dep /\ j >= fit)

(* A chunk that a noted one depends on is noted after it, or will be. *)
NoteInv ==
  \A p \in 1..Len(order) :
    \A k \in 1..Len(dirEntries[order[p]].dependencies), j \in Chunk :
      dirEntries[order[p]].dependencies[k] = dirEntries[j].id =>
        NotedAfter(j, p) \/ OnStack(j) \/ NotReached(p, k, j)

(* The backward walk: what it has seen is in the directory, once, and comes *)
(* after what it depends on.                                                *)
WalkInv ==
  /\ phase \in {"flatten", "built"} =>
       \A q \in it+1..Len(order) : Contains(final, order[q])
  /\ \A k, l \in 1..Len(final) : final[k] = final[l] => k = l
  /\ \A k \in 1..Len(final) : \A j \in Requires(final[k]) : Before(final, j, k)

OrderInv == WriterTypeOK /\ PhaseInv /\ StackInv /\ NoteInv /\ WalkInv

-----------------------------------------------------------------------------
(* Sequences that grow and shrink at their end *)

LEMMA FrontProperties ==
  ASSUME NEW S, NEW s \in Seq(S), s # <<>>
  PROVE  /\ Front(s) \in Seq(S)
         /\ Last(s) \in S
         /\ Len(Front(s)) = Len(s) - 1
         /\ \A k \in 1..Len(s) - 1 : Front(s)[k] = s[k]
<1>1. Len(s) \in Nat /\ Len(s) > 0
  BY EmptySeq, LenProperties
<1>2. Front(s) \in Seq(S) /\ Last(s) \in S
  BY <1>1, LenProperties, ElementOfSeq DEF Front, Last
<1>3. PICK n \in Int : n = Len(s) - 1
  BY <1>1
<1>4. Len(SubSeq(s, 1, n)) = n
  BY <1>1, <1>3
<1>5. \A k \in 1..Len(s) - 1 : Front(s)[k] = s[k]
  BY <1>1 DEF Front
<1> QED
  BY <1>2, <1>3, <1>4, <1>5 DEF Front

(* A member of a sequence is its last element or a member of the front. *)
LEMMA FrontContains ==
  ASSUME NEW S, NEW s \in Seq(S), s # <<>>, NEW e, Contains(s, e)
  PROVE  e = Last(s) \/ Contains(Front(s), e)
<1>1. PICK k \in 1..Len(s) : s[k] = e
  BY DEF Contains
<1>2. CASE k = Len(s)
  BY <1>1, <1>2 DEF Last
<1>3. CASE k # Len(s)
  <2>1. k \in 1..Len(Front(s)) /\ Front(s)[k] = e
    BY <1>1, <1>3, FrontProperties, LenProperties
  <2> QED
    BY <2>1 DEF Contains
<1> QED
  BY <1>2, <1>3

LEMMA AppendContains ==
  ASSUME NEW S, NEW s \in Seq(S), NEW e \in S
  PROVE  /\ Contains(Append(s, e), e)
         /\ \A c : Contains(s, c) => Contains(Append(s, e), c)
         /\ \A c : Contains(Append(s, e), c) => c = e \/ Contains(s, c)
<1>1. Len(s) \in Nat
  BY LenProperties
<1> QED
  BY <1>1, AppendProperties DEF Contains

(* What a sequence holds after the place p it still holds there once it has *)
(* grown, and the new element too.                                         *)
LEMMA AppendAfter ==
  ASSUME NEW S, NEW s \in Seq(S), NEW e \in S, NEW p \in 0..Len(s), NEW c,
         c = e \/ \E q \in p+1..Len(s) : s[q] = c
  PROVE  \E q \in p+1..Len(Append(s, e)) : Append(s, e)[q] = c
<1>1. Len(s) \in Nat
  BY LenProperties
<1>2. /\ Len(Append(s, e)) = Len(s) + 1
      /\ Append(s, e)[Len(s) + 1] = e
      /\ \A q \in 1..Len(s) : Append(s, e)[q] = s[q]
  BY AppendProperties
<1>3. CASE c = e
  <2>1. Len(s) + 1 \in p+1..Len(Append(s, e))
    BY <1>1, <1>2
  <2> QED
    BY <1>2, <1>3, <2>1
<1>4. ASSUME NEW q \in p+1..Len(s), s[q] = c
      PROVE  \E r \in p+1..Len(Append(s, e)) : Append(s, e)[r] = c
  <2>1. q \in p+1..Len(Append(s, e)) /\ q \in 1..Len(s)
    BY <1>1, <1>2
  <2> QED
    BY <1>2, <1>4, <2>1
<1> QED
  BY <1>3, <1>4

-----------------------------------------------------------------------------
(* Type correctness *)

LEMMA WriterTypeStep == WriterTypeOK /\ PhaseInv /\ [WriterNext]_writerVars
                          => WriterTypeOK' /\ PhaseInv'
<1> SUFFICES ASSUME WriterTypeOK, PhaseInv, [WriterNext]_writerVars
             PROVE  WriterTypeOK' /\ PhaseInv'
  OBVIOUS
<1> USE DEF WriterTypeOK, PhaseInv
<1>0. Len(dirEntries) \in Nat /\ Len(order) \in Nat
  BY LenProperties
<1>1. ASSUME NEW t \in Ids, AddChunk(t) PROVE WriterTypeOK' /\ PhaseInv'
  <2>1. PICK d \in Dependencies[t] :
          dirEntries' = Append(dirEntries, [id |-> t, dependencies |-> d])
    BY <1>1 DEF AddChunk
  <2>2. [id |-> t, dependencies |-> d] \in Entry
    BY <2>1, BundleAssumption DEF Entry
  <2>3. dirEntries' \in Seq(Entry) /\ Len(dirEntries') = Len(dirEntries) + 1
    BY <2>1, <2>2, AppendProperties
  <2>4. Chunk \subseteq Chunk'
    BY <2>3, <1>0 DEF Chunk
  <2>5. dirIndices \in Seq(Chunk') /\ order \in Seq(Chunk') /\ final \in Seq(Chunk')
    BY <2>4, SeqMonotonic
  <2> QED
    BY <1>1, <2>3, <2>5 DEF AddChunk
<1>2. CASE Build
  <2>1. [k \in Chunk |-> k] \in Seq(Chunk)
    BY <1>0, IsASeq DEF Chunk
  <2> QED
    BY <1>2, <2>1 DEF Build, Chunk
<1>3. CASE Pop
  <2>1. Front(dirIndices) \in Seq(Chunk) /\ Last(dirIndices) \in Chunk
    BY <1>3, FrontProperties DEF Pop
  <2>2. /\ Append(order, Last(dirIndices)) \in Seq(Chunk)
        /\ Append(order, Last(dirIndices)) # <<>>
        /\ Len(Append(order, Last(dirIndices))) = Len(order) + 1
    <3>1. order \in Seq(Chunk)
      OBVIOUS
    <3> HIDE DEF WriterTypeOK, PhaseInv
    <3> QED
      BY <2>1, <3>1, AppendProperties
  <2> QED
    BY <1>0, <1>3, <2>1, <2>2 DEF Pop, Chunk
<1>4. CASE PushDependency
  <2>1. fit \in Chunk
    BY <1>0, <1>4 DEF PushDependency, Chunk
  <2>2. Append(dirIndices, fit) \in Seq(Chunk)
    BY <2>1, AppendProperties
  <2>3. dirIndices' \in Seq(Chunk)
    BY <1>4, <2>2 DEF PushDependency
  <2>4. /\ phase = "scan" /\ fit' = fit + 1
        /\ UNCHANGED <<dirEntries, phase, order, dep, it, final>>
    BY <1>4 DEF PushDependency
  <2> QED
    BY <2>3, <2>4 DEF Chunk
<1>5. CASE NextDependency
  BY <1>5 DEF NextDependency, Chunk
<1>6. CASE DependenciesPushed
  BY <1>6 DEF DependenciesPushed, Chunk
<1>7. CASE Flatten
  BY <1>0, <1>7 DEF Flatten, Chunk
<1>8. CASE KeepFirst
  <2>1. order[it] \in Chunk
    BY <1>0, <1>8, ElementOfSeq DEF KeepFirst
  <2>2. Append(final, order[it]) \in Seq(Chunk)
    BY <2>1, AppendProperties
  <2>3. final' \in Seq(Chunk)
    BY <1>8, <2>2 DEF KeepFirst
  <2>4. /\ phase = "flatten" /\ it > 0 /\ it' = it - 1
        /\ UNCHANGED <<dirEntries, phase, dirIndices, order, dep, fit>>
    BY <1>8 DEF KeepFirst
  <2> QED
    BY <1>0, <2>3, <2>4 DEF Chunk
<1>9. CASE WriteOut
  BY <1>9 DEF WriteOut, Chunk
<1>10. CASE UNCHANGED writerVars
  BY <1>10 DEF writerVars, Chunk
<1> QED
  BY <1>1, <1>2, <1>3, <1>4, <1>5, <1>6, <1>7, <1>8, <1>9, <1>10 DEF WriterNext, BuildStep

-----------------------------------------------------------------------------
(* Nothing gets lost on the way to the notes *)

LEMMA StackStep ==
  ASSUME OrderInv, [WriterNext]_writerVars
  PROVE  StackInv'
<1> USE DEF OrderInv, WriterTypeOK, StackInv, NotedAfter, OnStack
<1>0. Len(dirEntries) \in Nat /\ Len(order) \in Nat /\ Len(dirIndices) \in Nat
  BY LenProperties
<1>1. ASSUME NEW t \in Ids, AddChunk(t) PROVE StackInv'
  BY <1>1 DEF AddChunk
<1>2. CASE Build
  <2>1. dirIndices' = [k \in Chunk |-> k] /\ Len(dirIndices') = Len(dirEntries)
    BY <1>0, <1>2 DEF Build, Chunk
  <2>2. \A c \in Chunk : Contains(dirIndices', c)
    BY <2>1 DEF Contains, Chunk
  <2> QED
    BY <1>2, <2>2 DEF Build, Chunk, Contains
<1>3. CASE Pop
  <2>1. /\ Last(dirIndices) \in Chunk
        /\ order' = Append(order, Last(dirIndices))
        /\ dirIndices' = Front(dirIndices)
        /\ phase = "pop" /\ dirIndices # <<>>
        /\ Chunk' = Chunk
    BY <1>3, FrontProperties DEF Pop, Chunk
  <2>2. /\ Len(order') = Len(order) + 1
        /\ \A q \in 1..Len(order) : order'[q] = order[q]
        /\ order'[Len(order) + 1] = Last(dirIndices)
    BY <2>1, AppendProperties
  <2>3. \A c : Contains(dirIndices, c) => c = Last(dirIndices) \/ Contains(dirIndices', c)
    BY <2>1, FrontContains
  <2>4. ASSUME NEW c \in Chunk
        PROVE  (\E q \in 1..Len(order') : order'[q] = c) \/ Contains(dirIndices', c)
    <3>1. CASE \E q \in 1..Len(order) : order[q] = c
      BY <1>0, <2>2, <3>1
    <3>2. CASE Contains(dirIndices, c)
      BY <1>0, <2>2, <2>3, <3>2
    <3>3. (\E q \in 1..Len(order) : order[q] = c) \/ Contains(dirIndices, c)
      BY <1>0, <2>1
    <3> QED
      BY <3>1, <3>2, <3>3
  <2>5. StackInv' <=> (phase' # "adding" =>
          \A c \in Chunk' : (\E q \in 1..Len(order') : order'[q] = c) \/ Contains(dirIndices', c))
    BY DEF Contains
  <2> QED
    BY <2>1, <2>4, <2>5
<1>4. CASE PushDependency
  <2>1. fit \in Chunk /\ Chunk' = Chunk /\ phase = "scan"
    BY <1>0, <1>4 DEF PushDependency, Chunk
  <2>2. dirIndices \in Seq(Chunk)
    OBVIOUS
  <2>3. dirIndices' = dirIndices \/ dirIndices' = Append(dirIndices, fit)
    BY <1>4 DEF PushDependency
  <2>4. \A c : Contains(dirIndices, c) => Contains(dirIndices', c)
    <3> HIDE DEF OrderInv, WriterTypeOK, StackInv, NotedAfter, OnStack
    <3> QED
      BY <2>1, <2>2, <2>3, AppendContains
  <2> QED
    BY <1>4, <2>1, <2>4 DEF PushDependency, Contains
<1>5. CASE NextDependency
  BY <1>5 DEF NextDependency, Chunk, Contains
<1>6. CASE DependenciesPushed
  BY <1>6 DEF DependenciesPushed, Chunk, Contains
<1>7. CASE Flatten
  BY <1>7 DEF Flatten, Chunk, Contains
<1>8. CASE KeepFirst
  BY <1>8 DEF KeepFirst, Chunk, Contains
<1>9. CASE WriteOut
  BY <1>9 DEF WriteOut, Chunk, Contains
<1>10. CASE UNCHANGED writerVars
  BY <1>10 DEF writerVars, Chunk, Contains
<1> QED
  BY <1>1, <1>2, <1>3, <1>4, <1>5, <1>6, <1>7, <1>8, <1>9, <1>10 DEF WriterNext, BuildStep

(* Two steps that change neither the chunks nor the notes: it is enough that  *)
(* what was on the stack, or not reached, is on the stack, or not reached.    *)
LEMMA NoteFrame ==
  ASSUME NoteInv, UNCHANGED <<dirEntries, order>>,
         \A c : OnStack(c) => OnStack(c)',
         \A p \in 1..Len(order) :
           \A k \in 1..Len(dirEntries[order[p]].dependencies), j \in Chunk :
             (NotReached(p, k, j) /\ dirEntries[order[p]].dependencies[k] = dirEntries[j].id)
               => OnStack(j)' \/ NotReached(p, k, j)'
  PROVE  NoteInv'
<1>1. Chunk' = Chunk /\ \A c, n : NotedAfter(c, n)' <=> NotedAfter(c, n)
  BY DEF Chunk, NotedAfter
<1> QED
  BY <1>1 DEF NoteInv

LEMMA NoteStep ==
  ASSUME OrderInv, [WriterNext]_writerVars
  PROVE  NoteInv'
<1> USE DEF OrderInv, WriterTypeOK, PhaseInv
<1>0. Len(dirEntries) \in Nat /\ Len(order) \in Nat /\ Len(dirIndices) \in Nat
  BY LenProperties
<1>1. ASSUME NEW t \in Ids, AddChunk(t) PROVE NoteInv'
  BY <1>1 DEF AddChunk, NoteInv
<1>2. CASE Build
  BY <1>2 DEF Build, NoteInv
<1>3. CASE Pop
  <2>1. /\ Last(dirIndices) \in Chunk
        /\ order' = Append(order, Last(dirIndices))
        /\ dirIndices' = Front(dirIndices)
        /\ phase = "pop" /\ dirIndices # <<>>
        /\ phase' = "scan" /\ dep' = 1 /\ fit' = 1
        /\ Chunk' = Chunk /\ dirEntries' = dirEntries
    BY <1>3, FrontProperties DEF Pop, Chunk
  <2>2. /\ Len(order') = Len(order) + 1
        /\ \A q \in 1..Len(order) : order'[q] = order[q]
        /\ order'[Len(order) + 1] = Last(dirIndices)
    BY <2>1, AppendProperties
  <2>3. \A c : OnStack(c) => c = Last(dirIndices) \/ OnStack(c)'
    <3>1. dirIndices \in Seq(Chunk)
      OBVIOUS
    <3> HIDE DEF OrderInv, WriterTypeOK, PhaseInv
    <3>2. \A c : Contains(dirIndices, c) => c = Last(dirIndices) \/ Contains(dirIndices', c)
      BY <2>1, <3>1, FrontContains
    <3> QED
      BY <3>2 DEF OnStack, Contains
  <2>4. ASSUME NEW c, NEW p \in 1..Len(order), c = Last(dirIndices) \/ NotedAfter(c, p)
        PROVE  NotedAfter(c, p)'
    <3>1. p \in 0..Len(order)
      BY <1>0
    <3>2. order \in Seq(Chunk) /\ Last(dirIndices) \in Chunk
      BY <2>1
    <3> HIDE DEF OrderInv, WriterTypeOK, PhaseInv
    <3>3. c = Last(dirIndices) \/ \E q \in p+1..Len(order) : order[q] = c
      BY <2>4 DEF NotedAfter
    <3>4. \E q \in p+1..Len(Append(order, Last(dirIndices))) :
            Append(order, Last(dirIndices))[q] = c
      BY <3>1, <3>2, <3>3, AppendAfter
    <3> QED
      BY <2>1, <3>4 DEF NotedAfter
  <2>6. SUFFICES ASSUME NEW p \in 1..Len(order'),
                        NEW k \in 1..Len(dirEntries[order'[p]].dependencies), NEW j \in Chunk,
                        dirEntries[order'[p]].dependencies[k] = dirEntries[j].id
                 PROVE  NotedAfter(j, p)' \/ OnStack(j)' \/ NotReached(p, k, j)'
    BY <2>1 DEF NoteInv
  <2>7. CASE p = Len(order')
    <3>1. order'[p] \in Chunk
      BY <1>0, <2>1, <2>2, <2>7
    <3>2. dirEntries[order'[p]] \in Entry
      BY <3>1, ElementOfSeq DEF Chunk
    <3>3. Len(dirEntries[order'[p]].dependencies) \in Nat
      BY <3>2, LenProperties DEF Entry
    <3> QED
      BY <1>0, <2>1, <2>2, <2>7, <3>3 DEF NotReached, Chunk
  <2>8. CASE p # Len(order')
    <3>1. p \in 1..Len(order) /\ order'[p] = order[p]
      <4> HIDE DEF OrderInv, WriterTypeOK, PhaseInv
      <4>1. p \in 1..Len(order)
        BY <1>0, <2>2, <2>8
      <4> QED
        BY <2>2, <4>1
    <3>2. NotedAfter(j, p) \/ OnStack(j)
      BY <2>1, <2>6, <3>1 DEF NoteInv, NotReached
    <3> QED
      BY <2>3, <2>4, <3>1, <3>2
  <2> QED
    BY <2>7, <2>8
<1>4. CASE PushDependency
  <2>1. /\ fit \in Chunk /\ phase = "scan" /\ phase' = "scan" /\ dep' = dep /\ fit' = fit + 1
        /\ UNCHANGED <<dirEntries, order>>
    BY <1>0, <1>4 DEF PushDependency, Chunk
  <2>2. \A c : OnStack(c) => OnStack(c)'
    <3>1. \A c : Contains(dirIndices, c) => Contains(Append(dirIndices, fit), c)
      BY <2>1, AppendContains
    <3>2. dirIndices' \in {dirIndices, Append(dirIndices, fit)}
      BY <1>4 DEF PushDependency
    <3>3. \A c : Contains(dirIndices, c) => Contains(dirIndices', c)
      BY <3>1, <3>2
    <3> QED
      BY <3>3 DEF OnStack, Contains
  <2>3. ASSUME NEW p \in 1..Len(order),
               NEW k \in 1..Len(dirEntries[order[p]].dependencies), NEW j \in Chunk,
               NotReached(p, k, j),
               dirEntries[order[p]].dependencies[k] = dirEntries[j].id
        PROVE  OnStack(j)' \/ NotReached(p, k, j)'
    <3>1. CASE k = dep /\ j = fit
      <4>1. dirIndices' = Append(dirIndices, fit)
        BY <1>4, <2>3, <3>1 DEF PushDependency, Depends, NotReached, Last
      <4>2. Contains(dirIndices', fit)
        BY <2>1, <4>1, AppendContains
      <4> QED
        BY <3>1, <4>2 DEF OnStack, Contains
    <3>2. CASE ~(k = dep /\ j = fit)
      <4>1. p = Len(order) /\ (k > dep \/ (k = dep /\ j > fit))
        BY <1>0, <2>3, <3>2 DEF NotReached, Chunk
      <4> QED
        BY <1>0, <2>1, <4>1 DEF NotReached, Chunk
    <3> QED
      BY <3>1, <3>2
  <2> QED
    BY <2>1, <2>2, <2>3, NoteFrame
<1>5. CASE NextDependency
  <2>1. /\ fit > Len(dirEntries) /\ phase' = "scan" /\ dep' = dep + 1 /\ fit' = 1
        /\ UNCHANGED <<dirEntries, order, dirIndices>>
    BY <1>5 DEF NextDependency
  <2>2. ASSUME NEW p \in 1..Len(order),
               NEW k \in 1..Len(dirEntries[order[p]].dependencies), NEW j \in Chunk,
               NotReached(p, k, j)
        PROVE  NotReached(p, k, j)'
    <3>1. order[p] \in Chunk
      BY <1>0, ElementOfSeq
    <3>2. dirEntries[order[p]] \in Entry
      BY <3>1, ElementOfSeq DEF Chunk
    <3>3. Len(dirEntries[order[p]].dependencies) \in Nat
      BY <3>2, LenProperties DEF Entry
    <3>4. k \in Int /\ j \in 1..Len(dirEntries)
      BY <3>3 DEF Chunk
    <3> QED
      BY <1>0, <2>1, <2>2, <3>4 DEF NotReached
  <2> QED
    BY <2>1, <2>2, NoteFrame DEF OnStack, Contains
<1>6. CASE DependenciesPushed
  <2>1. /\ phase = "scan" /\ dep > Len(Depends) /\ UNCHANGED <<dirEntries, order, dirIndices>>
    BY <1>6 DEF DependenciesPushed
  <2>2. ASSUME NEW p \in 1..Len(order),
               NEW k \in 1..Len(dirEntries[order[p]].dependencies), NEW j \in Chunk,
               NotReached(p, k, j)
        PROVE  FALSE
    <3>1. order[p] \in Chunk
      BY <1>0, ElementOfSeq
    <3>2. dirEntries[order[p]] \in Entry
      BY <3>1, ElementOfSeq DEF Chunk
    <3>3. Len(dirEntries[order[p]].dependencies) \in Nat
      BY <3>2, LenProperties DEF Entry
    <3>4. Depends = dirEntries[order[p]].dependencies
      BY <2>2 DEF NotReached, Depends, Last
    <3> QED
      BY <2>1, <2>2, <3>3, <3>4 DEF NotReached
  <2> QED
    BY <2>1, <2>2, NoteFrame DEF OnStack, Contains
<1>7. CASE Flatten
  BY <1>7, NoteFrame DEF Flatten, OnStack, Contains, NotReached
<1>8. CASE KeepFirst
  BY <1>8, NoteFrame DEF KeepFirst, OnStack, Contains, NotReached
<1>9. CASE WriteOut
  BY <1>9, NoteFrame DEF WriteOut, OnStack, Contains, NotReached
<1>10. CASE UNCHANGED writerVars
  BY <1>10, NoteFrame DEF writerVars, OnStack, Contains, NotReached
<1> QED
  BY <1>1, <1>2, <1>3, <1>4, <1>5, <1>6, <1>7, <1>8, <1>9, <1>10 DEF WriterNext, BuildStep

-----------------------------------------------------------------------------
(* The backward walk makes the order of the directory *)

LEMMA RequiresFrame ==
  ASSUME UNCHANGED dirEntries
  PROVE  \A k : Requires(final[k])' = Requires(final'[k])
BY DEF Requires, Chunk

LEMMA WalkStep ==
  ASSUME OrderInv, [WriterNext]_writerVars
  PROVE  WalkInv'
<1> USE DEF OrderInv, WriterTypeOK, PhaseInv
<1>0. Len(dirEntries) \in Nat /\ Len(order) \in Nat /\ Len(final) \in Nat
  BY LenProperties
<1>1. ASSUME final' = <<>>, phase' \notin {"flatten", "built"} \/ it' = Len(order')
      PROVE  WalkInv'
  BY <1>1 DEF WalkInv
<1>2. ASSUME NEW t \in Ids, AddChunk(t) PROVE WalkInv'
  BY <1>1, <1>2 DEF AddChunk
<1>3. CASE Build
  BY <1>1, <1>3 DEF Build
<1>4. CASE Pop
  BY <1>1, <1>4 DEF Pop
<1>5. CASE PushDependency
  BY <1>1, <1>5 DEF PushDependency
<1>6. CASE NextDependency
  BY <1>1, <1>6 DEF NextDependency
<1>7. CASE DependenciesPushed
  BY <1>1, <1>7 DEF DependenciesPushed
<1>8. CASE Flatten
  BY <1>0, <1>1, <1>8 DEF Flatten
<1>9. CASE KeepFirst
  <2> DEFINE c == order[it]
  <2>1. /\ c \in Chunk /\ it > 0 /\ it \in Nat /\ it <= Len(order) /\ it' = it - 1
        /\ phase = "flatten" /\ dirIndices = <<>>
        /\ UNCHANGED <<dirEntries, phase, order>>
    BY <1>0, <1>9, ElementOfSeq DEF KeepFirst
  <2>2. \A k : Requires(final[k])' = Requires(final'[k])
    BY <2>1, RequiresFrame
  <2>3. CASE Contains(final, c)
    <3>1. final' = final
      BY <1>9, <2>3 DEF KeepFirst
    <3>2. \A q \in it'+1..Len(order') : Contains(final, order'[q])
      BY <1>0, <2>1, <2>3 DEF WalkInv
    <3>3. \A q \in it'+1..Len(order') : Contains(final, order[q])'
      BY <3>1, <3>2 DEF Contains
    <3>4. \A k \in 1..Len(final') : \A j \in Requires(final[k])' : Before(final, j, k)'
      <4>1. \A k : Requires(final[k])' = Requires(final[k])
        BY <2>2, <3>1
      <4>2. \A j, k : Before(final, j, k)' <=> Before(final, j, k)
        BY <3>1 DEF Before
      <4> QED
        BY <3>1, <4>1, <4>2 DEF WalkInv
    <3> QED
      BY <3>1, <3>3, <3>4 DEF WalkInv
  <2>4. CASE ~Contains(final, c)
    <3>1. final' = Append(final, c)
      BY <1>9, <2>4 DEF KeepFirst
    <3>2. /\ Len(final') = Len(final) + 1
          /\ \A k \in 1..Len(final) : final'[k] = final[k]
          /\ final'[Len(final) + 1] = c
      BY <2>1, <3>1, AppendProperties
    <3>3. Contains(final', c) /\ \A e : Contains(final, e) => Contains(final', e)
      BY <2>1, <3>1, AppendContains
    <3>4. ASSUME NEW q \in it'+1..Len(order') PROVE Contains(final', order'[q])
      <4>1. CASE q = it
        BY <2>1, <3>3, <4>1
      <4>2. CASE q # it
        <5>1. q \in it+1..Len(order) /\ order'[q] = order[q]
          BY <1>0, <2>1, <4>2
        <5>2. Contains(final, order[q])
          BY <2>1, <5>1 DEF WalkInv
        <5> QED
          BY <3>3, <5>1, <5>2
      <4> QED
        BY <4>1, <4>2
    <3>5. ASSUME NEW k \in 1..Len(final'), NEW l \in 1..Len(final'), final'[k] = final'[l]
          PROVE  k = l
      <4>1. \A m \in 1..Len(final) : final'[m] # c
        BY <2>4, <3>2 DEF Contains
      <4>2. CASE k \in 1..Len(final) /\ l \in 1..Len(final)
        BY <3>2, <3>5, <4>2 DEF WalkInv
      <4>3. CASE ~(k \in 1..Len(final) /\ l \in 1..Len(final))
        BY <1>0, <3>2, <3>5, <4>1, <4>3
      <4> QED
        BY <4>2, <4>3
    <3>6. ASSUME NEW k \in 1..Len(final'), NEW j \in Requires(final'[k])
          PROVE  Before(final', j, k)
      <4>1. CASE k \in 1..Len(final)
        <5>1. j \in Requires(final[k])
          BY <3>2, <3>6, <4>1
        <5>2. Before(final, j, k)
          BY <4>1, <5>1 DEF WalkInv
        <5>3. PICK l \in 1..k-1 : final[l] = j
          BY <5>2 DEF Before
        <5>4. l \in 1..Len(final)
          BY <1>0, <4>1
        <5> QED
          BY <3>2, <5>3, <5>4 DEF Before
      <4>2. CASE k = Len(final) + 1
        <5>1. j \in Requires(c)
          BY <3>2, <3>6, <4>2
        <5>2. PICK d \in 1..Len(dirEntries[c].dependencies) :
                dirEntries[c].dependencies[d] = dirEntries[j].id
          BY <5>1 DEF Requires
        <5>3. ~OnStack(j) /\ ~NotReached(it, d, j)
          BY <2>1 DEF OnStack, Contains, NotReached
        <5>4. NotedAfter(j, it)
          <6>1. j \in Chunk /\ it \in 1..Len(order) /\ order[it] = c
            BY <1>0, <2>1, <5>1 DEF Requires
          <6>2. NoteInv
            OBVIOUS
          <6> HIDE DEF OrderInv, WriterTypeOK, PhaseInv
          <6> QED
            BY <5>2, <5>3, <6>1, <6>2 DEF NoteInv
        <5>5. Contains(final, j)
          BY <2>1, <5>4 DEF NotedAfter, WalkInv
        <5> QED
          BY <1>0, <3>2, <4>2, <5>5 DEF Contains, Before
      <4> QED
        BY <1>0, <3>2, <4>1, <4>2
    <3>7. \A k \in 1..Len(final') : \A j \in Requires(final[k])' : Before(final, j, k)'
      BY <2>2, <3>6 DEF Before
    <3>8. \A q \in it'+1..Len(order') : Contains(final, order[q])'
      BY <3>4 DEF Contains
    <3> QED
      BY <3>5, <3>7, <3>8 DEF WalkInv
  <2> QED
    BY <2>3, <2>4
<1>10. CASE WriteOut
  <2>1. UNCHANGED <<dirEntries, order, it, final>> /\ phase = "flatten"
    BY <1>10 DEF WriteOut
  <2> QED
    BY <2>1 DEF WalkInv, Contains, Before, Requires, Chunk
<1>11. CASE UNCHANGED writerVars
  <2>1. UNCHANGED <<dirEntries, order, it, final>> /\ phase' = phase
    BY <1>11 DEF writerVars
  <2> QED
    BY <2>1 DEF WalkInv, Contains, Before, Requires, Chunk
<1> QED
  BY <1>2, <1>3, <1>4, <1>5, <1>6, <1>7, <1>8, <1>9, <1>10, <1>11 DEF WriterNext, BuildStep

-----------------------------------------------------------------------------
(* The theorems *)

LEMMA OrderInit == WriterInit => OrderInv
<1> SUFFICES ASSUME WriterInit PROVE OrderInv
  OBVIOUS
<1>1. Len(dirEntries) = 0 /\ Len(order) = 0 /\ Len(final) = 0
  BY DEF WriterInit
<1>2. WriterTypeOK /\ PhaseInv /\ StackInv
  BY <1>1 DEF WriterInit, WriterTypeOK, PhaseInv, StackInv
<1>3. NoteInv /\ WalkInv
  BY <1>1 DEF WriterInit, NoteInv, WalkInv
<1> QED
  BY <1>2, <1>3 DEF OrderInv

LEMMA OrderInvariant == WriterSpec => []OrderInv
<1>1. WriterInit => OrderInv
  BY OrderInit
<1>2. OrderInv /\ [WriterNext]_writerVars => OrderInv'
  BY WriterTypeStep, StackStep, NoteStep, WalkStep DEF OrderInv
<1> QED
  BY <1>1, <1>2, PTL DEF WriterSpec

(* The types, for every bundle. *)
THEOREM WriterTypeCorrect == WriterSpec => []WriterTypeOK
<1>1. OrderInv => WriterTypeOK
  BY DEF OrderInv
<1> QED
  BY <1>1, OrderInvariant, PTL

(* build puts every chunk after all it depends on: bundlewriter.cpp 190-245.  *)
(* Nothing is asked of the dependencies: with a circle build does not end.    *)
THEOREM DependenciesComeFirst == WriterSpec => []DependenciesFirst
<1>1. OrderInv => DependenciesFirst
  BY DEF OrderInv, WalkInv, DependenciesFirst
<1> QED
  BY <1>1, OrderInvariant, PTL

(* When the directory is complete. *)
LEMMA BuiltComplete == OrderInv => EveryChunkOnce
<1>1. ASSUME OrderInv, phase = "built", NEW c \in Chunk
      PROVE  \E k \in 1..Len(final) : final[k] = c
  <2>1. NotedAfter(c, 0)
    BY <1>1 DEF OrderInv, PhaseInv, StackInv, OnStack, Contains
  <2>2. PICK q \in 1..Len(order) : order[q] = c
    BY <2>1 DEF NotedAfter
  <2>3. Contains(final, order[q])
    BY <1>1, <2>2 DEF OrderInv, PhaseInv, WalkInv
  <2> QED
    BY <2>2, <2>3 DEF Contains
<1> QED
  BY <1>1 DEF OrderInv, WalkInv, EveryChunkOnce

(* The directory is the chunks that were added, each once: bundlewriter.cpp 210-245. *)
THEOREM DirectoryIsComplete == WriterSpec => []EveryChunkOnce
BY BuiltComplete, OrderInvariant, PTL

=============================================================================
