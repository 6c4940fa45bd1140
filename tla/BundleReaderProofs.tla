-------------------------- MODULE BundleReaderProofs --------------------------
(***************************************************************************)
(* Proofs about BundleReader, for any types, sizes and alignment of the    *)
(* chunks, any read of the bundle and any of the faults.                   *)
(***************************************************************************)
EXTENDS BundleReader, BundleWriterProofs, WellFoundedInduction

-----------------------------------------------------------------------------
(* Where the chunks lie in the file *)

(* Induction, for sets in place of predicates. *)
LEMMA InductiveSet ==
  ASSUME NEW S, 0 \in S, \A n \in Nat : n \in S => n + 1 \in S
  PROVE  Nat \subseteq S
<1> DEFINE Out == Nat \ S
<1>1. SUFFICES ASSUME Out # {} PROVE FALSE
  OBVIOUS
<1>2. PICK x \in Out : \A y \in Out : ~(<<y, x>> \in OpToRel(<, Nat))
  <2>1. Out \subseteq Nat
    OBVIOUS
  <2> HIDE DEF Out
  <2> QED
    BY <1>1, <2>1, NatLessThanWellFounded, WFMin
<1>3. \A y \in Out : ~(y < x)
  BY <1>2 DEF OpToRel
<1>4. x \in Nat /\ x # 0
  OBVIOUS
<1>5. PICK y \in Nat : x = y + 1
  <2>1. x - 1 \in Nat /\ x = (x - 1) + 1
    BY <1>4
  <2> QED
    BY <2>1
<1>6. y \in S
  BY <1>3, <1>4, <1>5
<1> QED
  BY <1>5, <1>6

(* The sums of the steps s, up to m of them. *)
Sums(g, s, m) ==
  /\ g[0] = 0
  /\ \A c \in 1..m : g[c] = g[c - 1] + s[c]

(* There is a function that satisfies what defines ChunkEnd. *)
LEMMA SumsExist ==
  ASSUME NEW s
  PROVE  \E g : g = [c \in Nat |-> IF c = 0 THEN 0 ELSE g[c - 1] + s[c]]
<1> DEFINE Reached == {m \in Nat : \E g : Sums(g, s, m)}
<1>1. 0 \in Reached
  <2>1. Sums([c \in {0} |-> 0], s, 0)
    BY DEF Sums
  <2> QED
    BY <2>1
<1>2. ASSUME NEW m \in Nat, m \in Reached PROVE m + 1 \in Reached
  <2>1. PICK g : Sums(g, s, m)
    BY <1>2
  <2>2. PICK h : h = [c \in 0..m+1 |-> IF c = m + 1 THEN g[m] + s[c] ELSE g[c]]
    OBVIOUS
  <2>3. h[0] = 0
    BY <2>1, <2>2 DEF Sums
  <2>4. ASSUME NEW c \in 1..m+1 PROVE h[c] = h[c - 1] + s[c]
    <3>1. CASE c = m + 1
      BY <2>2, <3>1
    <3>2. CASE c \in 1..m
      BY <2>1, <2>2, <3>2 DEF Sums
    <3> QED
      BY <3>1, <3>2
  <2>5. Sums(h, s, m + 1)
    BY <2>3, <2>4 DEF Sums
  <2> QED
    BY <2>5
<1>3. \A m \in Nat : \E g : Sums(g, s, m)
  <2> HIDE DEF Reached
  <2>1. Nat \subseteq Reached
    BY <1>1, <1>2, InductiveSet
  <2> QED
    BY <2>1 DEF Reached
<1>4. PICK q : q = [m \in Nat |-> CHOOSE g : Sums(g, s, m)]
  OBVIOUS
<1>5. \A m \in Nat : Sums(q[m], s, m)
  BY <1>3, <1>4
(* Two that sum as far agree as far. *)
<1>6. ASSUME NEW m \in Nat PROVE q[m + 1][m] = q[m][m]
  <2> DEFINE Agreed == {c \in Nat : c <= m => q[m + 1][c] = q[m][c]}
  <2>1. Sums(q[m], s, m) /\ Sums(q[m + 1], s, m + 1)
    BY <1>5
  <2>2. 0 \in Agreed
    BY <2>1 DEF Sums
  <2>3. ASSUME NEW c \in Nat, c \in Agreed PROVE c + 1 \in Agreed
    <3> SUFFICES ASSUME c + 1 <= m PROVE q[m + 1][c + 1] = q[m][c + 1]
      OBVIOUS
    <3>1. q[m + 1][c] = q[m][c]
      BY <2>3
    <3>2. c + 1 \in 1..m /\ c + 1 \in 1..m+1 /\ (c + 1) - 1 = c
      OBVIOUS
    <3>3. q[m][c + 1] = q[m][c] + s[c + 1]
      BY <2>1, <3>2 DEF Sums
    <3>4. q[m + 1][c + 1] = q[m + 1][c] + s[c + 1]
      BY <2>1, <3>2 DEF Sums
    <3> QED
      BY <3>1, <3>3, <3>4
  <2>4. Nat \subseteq Agreed
    <3> HIDE DEF Agreed
    <3> QED
      BY <2>2, <2>3, InductiveSet
  <2> QED
    BY <2>4
<1>7. PICK e : e = [c \in Nat |-> q[c][c]]
  OBVIOUS
<1>8. e[0] = 0
  BY <1>5, <1>7 DEF Sums
<1>9. ASSUME NEW c \in Nat, c # 0 PROVE e[c] = e[c - 1] + s[c]
  <2>1. PICK d \in Nat : d = c - 1
    BY <1>9
  <2>2. c = d + 1 /\ c \in 1..c
    BY <1>9, <2>1
  <2>3. q[c][c] = q[c][c - 1] + s[c]
    BY <1>5, <2>2 DEF Sums
  <2>4. q[c][d] = q[d][d]
    BY <1>6, <2>2
  <2>5. q[c][c] = q[d][d] + s[c]
    BY <2>1, <2>3, <2>4
  <2> QED
    BY <1>7, <2>1, <2>5
<1>10. e = [c \in Nat |-> IF c = 0 THEN 0 ELSE e[c - 1] + s[c]]
  <2>1. \A c \in Nat : e[c] = IF c = 0 THEN 0 ELSE e[c - 1] + s[c]
    BY <1>8, <1>9
  <2>2. \A c \in Nat : q[c][c] = e[c]
    BY <1>7
  <2> QED
    BY <1>7, <2>1, <2>2
<1> QED
  BY <1>10

LEMMA ChunkEndDef ==
  ChunkEnd = [c \in Nat |-> IF c = 0 THEN 0 ELSE ChunkEnd[c - 1] + Aligned(SizeOf(c))]
<1> DEFINE s == [c \in Nat |-> Aligned(SizeOf(c))]
<1> DEFINE Is(g) == g = [c \in Nat |-> IF c = 0 THEN 0 ELSE g[c - 1] + Aligned(SizeOf(c))]
<1>1. \E g : Is(g)
  <2>1. PICK g : g = [c \in Nat |-> IF c = 0 THEN 0 ELSE g[c - 1] + s[c]]
    BY SumsExist
  <2>2. Is(g)
    BY <2>1
  <2> QED
    BY <2>2
<1>2. ChunkEnd = CHOOSE g : Is(g)
  BY DEF ChunkEnd
<1>3. Is(ChunkEnd)
  <2> HIDE DEF Is
  <2> QED
    BY <1>1, <1>2
<1> QED
  BY <1>3

LEMMA AlignedUp ==
  ASSUME NEW n \in Nat
  PROVE  Aligned(n) \in Nat /\ Aligned(n) >= n
<1>1. Alignment \in Nat /\ Alignment > 0
  BY BundleAssumption
<1>2. PICK m \in Nat : m = n + Alignment - 1
  BY <1>1
<1>3. PICK q \in Int : q = m \div Alignment
  BY <1>1
<1>4. q * Alignment \in Int /\ q * Alignment <= m /\ m < q * Alignment + Alignment
  BY <1>1, <1>3
<1>5. Aligned(n) = q * Alignment
  BY <1>2, <1>3 DEF Aligned
<1> QED
  BY <1>1, <1>2, <1>4, <1>5

LEMMA SizeType ==
  ASSUME WriterTypeOK, NEW c \in Chunk
  PROVE  SizeOf(c) \in Nat
<1>1. dirEntries[c] \in Entry
  BY ElementOfSeq DEF WriterTypeOK, Chunk
<1> QED
  BY <1>1, BundleAssumption DEF Entry, SizeOf

(* Every chunk lies whole between its start and its end, and these ends grow. *)
LayoutInv ==
  /\ ChunkEnd[0] = 0
  /\ ChunksEnd \in Nat
  /\ \A c \in 0..Len(dirEntries) : ChunkEnd[c] \in Nat /\ ChunkEnd[c] <= ChunksEnd
  /\ \A c \in Chunk : ChunkStart(c) + SizeOf(c) <= ChunkEnd[c]

LEMMA Layout == WriterTypeOK => LayoutInv
<1> SUFFICES ASSUME WriterTypeOK PROVE LayoutInv
  OBVIOUS
<1>1. PICK n \in Nat : n = Len(dirEntries)
  BY LenProperties DEF WriterTypeOK
<1>2. ChunkEnd[0] = 0 /\ \A c \in Chunk : ChunkEnd[c] = ChunkEnd[c - 1] + Aligned(SizeOf(c))
  BY <1>1, ChunkEndDef DEF Chunk
<1> DEFINE Grown == {c \in Nat : c <= n =>
                   \A d \in 0..c : ChunkEnd[d] \in Nat /\ ChunkEnd[d] <= ChunkEnd[c]}
<1>3. 0 \in Grown
  BY <1>2
<1>4. ASSUME NEW c \in Nat, c \in Grown PROVE c + 1 \in Grown
  <2> SUFFICES ASSUME c + 1 <= n
               PROVE  \A d \in 0..c+1 : ChunkEnd[d] \in Nat /\ ChunkEnd[d] <= ChunkEnd[c + 1]
    OBVIOUS
  <2>1. c + 1 \in Chunk
    BY <1>1 DEF Chunk
  <2>2. PICK a \in Nat : a = Aligned(SizeOf(c + 1))
    BY <2>1, SizeType, AlignedUp
  <2>3. ChunkEnd[c + 1] = ChunkEnd[c] + a
    BY <1>2, <2>1, <2>2
  <2>4. \A d \in 0..c : ChunkEnd[d] \in Nat /\ ChunkEnd[d] <= ChunkEnd[c]
    BY <1>4
  <2>5. ChunkEnd[c] \in Nat
    BY <2>4
  <2>6. \A d \in 0..c+1 : d \in 0..c \/ d = c + 1
    OBVIOUS
  <2> QED
    BY <2>3, <2>4, <2>5, <2>6
<1>5. Nat \subseteq Grown
  <2> HIDE DEF Grown
  <2> QED
    BY <1>3, <1>4, InductiveSet
<1>6. \A c \in 0..n : ChunkEnd[c] \in Nat /\ ChunkEnd[c] <= ChunkEnd[n]
  BY <1>5
<1>7. ASSUME NEW c \in Chunk PROVE ChunkStart(c) + SizeOf(c) <= ChunkEnd[c]
  <2>1. c - 1 \in 0..n /\ c \in 0..n
    BY <1>1 DEF Chunk
  <2>2. ChunkEnd[c - 1] \in Nat /\ ChunkEnd[c] = ChunkEnd[c - 1] + Aligned(SizeOf(c))
    BY <1>2, <1>6, <2>1
  <2>3. SizeOf(c) \in Nat /\ Aligned(SizeOf(c)) \in Nat /\ Aligned(SizeOf(c)) >= SizeOf(c)
    BY SizeType, AlignedUp
  <2> QED
    BY <2>2, <2>3 DEF ChunkStart
<1> QED
  BY <1>1, <1>2, <1>6, <1>7 DEF ChunksEnd, LayoutInv

LEMMA ChunkInFile ==
  ASSUME WriterTypeOK, NEW c \in Chunk
  PROVE  /\ ChunkStart(c) \in Nat /\ SizeOf(c) \in Nat /\ ChunksEnd \in Nat
         /\ ChunkStart(c) + SizeOf(c) <= ChunksEnd
<1>1. LayoutInv
  BY Layout
<1>2. c \in 0..Len(dirEntries) /\ c - 1 \in 0..Len(dirEntries)
  BY LenProperties DEF Chunk, WriterTypeOK
<1>3. /\ ChunkEnd[c - 1] \in Nat /\ ChunkEnd[c] \in Nat /\ ChunkEnd[c] <= ChunksEnd
      /\ ChunkStart(c) + SizeOf(c) <= ChunkEnd[c] /\ ChunksEnd \in Nat
  BY <1>1, <1>2 DEF LayoutInv
<1>4. SizeOf(c) \in Nat
  BY SizeType
<1> QED
  BY <1>3, <1>4 DEF ChunkStart

LEMMA LayoutNext == WriterTypeOK' => LayoutInv'
BY Layout, PTL

-----------------------------------------------------------------------------
(* The inductive invariant *)

(* What a call starts from, and that it begins when the bundle is built. *)
CallInv ==
  /\ reading = "no" =>
       /\ damaged = 0 /\ fileEnd = 0 /\ wanted = Anything
       /\ i = 1 /\ pos = 0 /\ lastStoredSize = 0
       /\ delivered = <<>>
  /\ reading # "no" => phase = "built"
  /\ reading # "done" => result = "none"
  /\ result = "Okay" => i > Len(final)

(* What was delivered is what was taken of the entries passed, in their order. *)
PassInv ==
  /\ \A x \in 1..i-1 : Taken(final[x]) => Contains(delivered, final[x])
  /\ \A l \in 1..Len(delivered) :
       /\ delivered[l] # damaged
       /\ \E x \in 1..i-1 :
            /\ final[x] = delivered[l]
            /\ Taken(final[x])
            /\ \A y \in 1..x-1 : Taken(final[y]) => Before(delivered, final[y], l)

(* The stream stands behind the chunk delivered last. *)
PosInv ==
  /\ delivered = <<>> => pos = 0 /\ lastStoredSize = 0
  /\ delivered # <<>> => pos - lastStoredSize = ChunkStart(Last(delivered))
  /\ i > 1 /\ Taken(final[i - 1]) => delivered # <<>> /\ Last(delivered) = final[i - 1]

ReaderInv == BundleTypeOK /\ CallInv /\ PassInv /\ PosInv /\ GaplessReadWorks

-----------------------------------------------------------------------------
(* Before the read *)

LEMMA WriterSteps ==
  ASSUME [BundleNext]_bundleVars
  PROVE  [WriterNext]_writerVars
BY DEF BundleNext, bundleVars, ReadStep, Read, Skip, ReadChunk, ReadCorrupt, ReadFails,
       Finish, End

(* The writer is done when the reader begins. *)
LEMMA BuiltIsBuilt ==
  ASSUME phase = "built", WriterNext
  PROVE  FALSE
BY DEF WriterNext, AddChunk, Build, BuildStep, Pop, PushDependency, NextDependency,
       DependenciesPushed, Flatten, KeepFirst, WriteOut

LEMMA UnreadKeeps ==
  ASSUME ReaderInv, WriterTypeOK', reading = "no", UNCHANGED readerVars,
         phase # "built"
  PROVE  ReaderInv'
<1>1. /\ damaged' = 0 /\ fileEnd' = 0 /\ wanted' = Anything /\ reading' = "no"
      /\ i' = 1 /\ pos' = 0 /\ lastStoredSize' = 0 /\ delivered' = <<>> /\ result' = "none"
      /\ handlerMap' \subseteq Ids
  BY DEF ReaderInv, CallInv, BundleTypeOK, readerVars
<1>2. BundleTypeOK'
  <2>1. ChunksEnd' \in Nat
    BY LayoutNext DEF LayoutInv
  <2>2. Len(final') \in Nat
    BY LenProperties DEF WriterTypeOK
  <2> QED
    BY <1>1, <2>1, <2>2 DEF BundleTypeOK, Results
<1>3. CallInv' /\ GaplessReadWorks'
  BY <1>1 DEF CallInv, GaplessReadWorks
<1>4. Len(delivered') = 0
  BY <1>1
<1>5. PassInv' /\ PosInv'
  BY <1>1, <1>4 DEF PassInv, PosInv
<1> QED
  BY <1>2, <1>3, <1>5 DEF ReaderInv

-----------------------------------------------------------------------------
(* The steps of the read *)

(* The bundle stays as it was built. *)
LEMMA BundleFrame ==
  ASSUME UNCHANGED writerVars
  PROVE  /\ UNCHANGED <<dirEntries, phase, final, Chunk, ChunkEnd, ChunksEnd>>
         /\ \A c : ChunkStart(c)' = ChunkStart(c)
         /\ WriterTypeOK => WriterTypeOK'
<1>1. UNCHANGED <<dirEntries, phase, dirIndices, order, dep, fit, it, final>>
  BY DEF writerVars
<1>2. UNCHANGED <<Chunk, ChunkEnd>>
  BY <1>1 DEF Chunk, ChunkEnd, SizeOf
<1>3. UNCHANGED ChunksEnd
  BY <1>1, <1>2 DEF ChunksEnd
<1>4. \A c : ChunkStart(c)' = ChunkStart(c)
  BY <1>2 DEF ChunkStart
<1>5. WriterTypeOK => WriterTypeOK'
  BY <1>1, <1>2 DEF WriterTypeOK
<1> QED
  BY <1>1, <1>2, <1>3, <1>4, <1>5

LEMMA ReadKeeps ==
  ASSUME ReaderInv, WriterTypeOK',
         NEW handled \in SUBSET Ids, NEW wants \in Chunk \cup {Anything}, Read(handled, wants)
  PROVE  ReaderInv'
<1>1. /\ UNCHANGED <<i, pos, lastStoredSize, delivered, result>>
      /\ handlerMap' = handled /\ wanted' = wants /\ reading' = "walk"
      /\ phase = "built" /\ reading = "no"
  BY DEF Read
<1>2. /\ i = 1 /\ pos = 0 /\ lastStoredSize = 0 /\ delivered = <<>> /\ result = "none"
  BY <1>1 DEF ReaderInv, CallInv
<1>3. UNCHANGED writerVars
  BY DEF Read
<1>4. UNCHANGED <<dirEntries, phase, final, Chunk, ChunkEnd, ChunksEnd>>
  BY <1>3, BundleFrame
<1>5. damaged' \in Chunk \cup {0} /\ fileEnd' \in 0..ChunksEnd
  <2>1. WriterTypeOK
    BY DEF ReaderInv, BundleTypeOK
  <2>2. \A c \in Chunk : ChunkStart(c) \in 0..ChunksEnd
    BY <2>1, ChunkInFile
  <2>3. ChunksEnd \in 0..ChunksEnd
    BY <2>1, Layout DEF LayoutInv
  <2> QED
    BY <2>2, <2>3 DEF Read, Fault
<1>6. BundleTypeOK'
  <2>1. BundleTypeOK
    BY DEF ReaderInv
  <2> QED
    BY <1>1, <1>4, <1>5, <2>1 DEF BundleTypeOK
<1>7. CallInv' /\ GaplessReadWorks'
  BY <1>1, <1>2, <1>4 DEF CallInv, GaplessReadWorks
<1>8. Len(delivered') = 0
  BY <1>1, <1>2
<1>9. PassInv' /\ PosInv'
  BY <1>1, <1>2, <1>8 DEF PassInv, PosInv
<1> QED
  BY <1>6, <1>7, <1>9 DEF ReaderInv

(* What every step of the walk leaves alone. *)
LEMMA WalkFrame ==
  ASSUME UNCHANGED <<writerVars, handlerMap, wanted>>
  PROVE  /\ \A c : Taken(c)' <=> Taken(c)
         /\ Gapless' <=> Gapless
<1>1. UNCHANGED <<dirEntries, final>> /\ \A c : ChunkStart(c)' = ChunkStart(c)
  BY BundleFrame
<1>2. \A c : Taken(c)' <=> Taken(c)
  BY <1>1 DEF Taken
<1>3. \A lo, hi : AllTaken(lo, hi)' <=> AllTaken(lo, hi)
  BY <1>1, <1>2 DEF AllTaken
<1>4. ChunkStart(final[1])' = ChunkStart(final[1])
  BY <1>1
<1>5. Gapless' <=> Gapless
  BY <1>1, <1>2, <1>3, <1>4 DEF Gapless
<1> QED
  BY <1>2, <1>5

LEMMA SkipKeeps ==
  ASSUME ReaderInv, Skip
  PROVE  ReaderInv'
<1>1. /\ UNCHANGED <<damaged, fileEnd, reading, handlerMap, wanted, pos, lastStoredSize,
                     delivered, result>>
      /\ i' = i + 1 /\ i <= Len(final) /\ ~Taken(final[i]) /\ reading = "walk"
  BY DEF Skip
<1>2. UNCHANGED writerVars
  BY DEF Skip
<1>3. /\ UNCHANGED <<dirEntries, phase, final, Chunk, ChunksEnd>>
      /\ WriterTypeOK'
      /\ ChunkStart(Last(delivered))' = ChunkStart(Last(delivered))
  <2>1. UNCHANGED Last(delivered)
    BY <1>1 DEF Last
  <2>2. \A c : ChunkStart(c)' = ChunkStart(c)
    BY <1>2, BundleFrame
  <2>3. WriterTypeOK
    BY DEF ReaderInv, BundleTypeOK
  <2> QED
    BY <1>2, <2>1, <2>2, <2>3, BundleFrame
<1>4. /\ \A c : Taken(c)' <=> Taken(c)
      /\ Gapless' <=> Gapless
  BY <1>1, <1>2, WalkFrame
<1>5. i \in Nat /\ i > 0 /\ Len(final) \in Nat
  BY LenProperties DEF ReaderInv, BundleTypeOK, WriterTypeOK
<1>6. BundleTypeOK'
  BY <1>1, <1>3, <1>5 DEF ReaderInv, BundleTypeOK
<1>7. CallInv' /\ GaplessReadWorks'
  BY <1>1, <1>3, <1>4, <1>5 DEF ReaderInv, CallInv, GaplessReadWorks
<1>8. \A x \in 1..i'-1 : x \in 1..i-1 \/ x = i
  BY <1>1, <1>5
<1>9. PassInv'
  <2>1. \A x \in 1..i'-1 : Taken(final[x]) => Contains(delivered, final[x])
    BY <1>1, <1>8 DEF ReaderInv, PassInv
  <2>2. \A l \in 1..Len(delivered) :
          /\ delivered[l] # damaged
          /\ \E x \in 1..i'-1 :
               /\ final[x] = delivered[l]
               /\ Taken(final[x])
               /\ \A y \in 1..x-1 : Taken(final[y]) => Before(delivered, final[y], l)
    BY <1>1, <1>5 DEF ReaderInv, PassInv
  <2>3. \A x : Taken(final[x])' <=> Taken(final[x])
    BY <1>3, <1>4
  <2>4. \A x : Contains(delivered, final[x])' <=> Contains(delivered, final[x])
    BY <1>1, <1>3 DEF Contains
  <2>5. \A y, l : Before(delivered, final[y], l)' <=> Before(delivered, final[y], l)
    BY <1>1, <1>3 DEF Before
  <2> QED
    BY <1>1, <1>3, <2>1, <2>2, <2>3, <2>4, <2>5 DEF PassInv
<1>10. PosInv'
  <2>1. PICK c : c = final[i]
    OBVIOUS
  <2>2. final'[i' - 1] = c
    BY <1>1, <1>3, <1>5, <2>1
  <2>3. ~Taken(c)'
    BY <1>1, <1>4, <2>1
  <2>4. ~Taken(final[i - 1])'
    BY <2>2, <2>3 DEF Taken
  <2> QED
    BY <1>1, <1>3, <2>4 DEF ReaderInv, PosInv
<1> QED
  BY <1>6, <1>7, <1>9, <1>10 DEF ReaderInv

LEMMA ReadChunkKeeps ==
  ASSUME ReaderInv, ReadChunk
  PROVE  ReaderInv'
<1>1. PICK c : c = final[i]
  OBVIOUS
<1>2. /\ UNCHANGED <<damaged, fileEnd, reading, handlerMap, wanted, result>>
      /\ i' = i + 1 /\ i <= Len(final) /\ reading = "walk"
      /\ Taken(c) /\ c # damaged /\ Target = ChunkStart(c)
      /\ pos' = Target + SizeOf(c) /\ Target + SizeOf(c) <= fileEnd
      /\ lastStoredSize' = SizeOf(c)
      /\ delivered' = Append(delivered, c)
  BY <1>1 DEF ReadChunk, Intact, InFile
<1>3. UNCHANGED writerVars
  BY DEF ReadChunk
<1>4. /\ UNCHANGED <<dirEntries, phase, final, Chunk, ChunksEnd>>
      /\ WriterTypeOK /\ WriterTypeOK'
      /\ \A e : ChunkStart(e)' = ChunkStart(e)
  <2>1. WriterTypeOK
    BY DEF ReaderInv, BundleTypeOK
  <2> QED
    BY <1>3, <2>1, BundleFrame
<1>5. /\ \A e : Taken(e)' <=> Taken(e)
      /\ Gapless' <=> Gapless
  BY <1>2, <1>3, WalkFrame
<1>6. /\ i \in Nat /\ i > 0 /\ Len(final) \in Nat /\ c \in Chunk /\ fileEnd \in 0..ChunksEnd
      /\ delivered \in Seq(Chunk)
  BY <1>1, <1>2, ElementOfSeq, LenProperties DEF ReaderInv, BundleTypeOK, WriterTypeOK
<1>7. SizeOf(c) \in Nat /\ ChunkStart(c) \in Nat /\ ChunksEnd \in Nat
  BY <1>4, <1>6, ChunkInFile
<1>8. PICK n \in Nat : n = Len(delivered)
  BY <1>6, LenProperties
<1>9. /\ Len(delivered') = n + 1
      /\ \A l \in 1..n : delivered'[l] = delivered[l]
      /\ delivered'[n + 1] = c
      /\ delivered' \in Seq(Chunk)
      /\ delivered' # <<>>
  BY <1>2, <1>6, <1>8, AppendProperties
<1>10. Last(delivered') = c
  BY <1>9 DEF Last
<1>11. BundleTypeOK'
  <2>1. pos' \in 0..ChunksEnd
    BY <1>2, <1>6, <1>7
  <2>2. i' \in 1..Len(final)+1
    BY <1>2, <1>6
  <2> QED
    BY <1>2, <1>4, <1>7, <1>9, <2>1, <2>2 DEF ReaderInv, BundleTypeOK
<1>12. CallInv' /\ GaplessReadWorks'
  BY <1>2, <1>4, <1>5, <1>6 DEF ReaderInv, CallInv, GaplessReadWorks
<1>13. \A x \in 1..i'-1 : x \in 1..i-1 \/ x = i
  BY <1>2, <1>6
<1>14. PosInv'
  <2>1. pos' - lastStoredSize' = ChunkStart(c)
    BY <1>2, <1>7
  <2>2. ChunkStart(Last(delivered))' = ChunkStart(c)
    <3>1. ChunkStart(Last(delivered))' = ChunkStart(Last(delivered'))
      BY <1>4 DEF ChunkStart, Last
    <3> QED
      BY <1>10, <3>1
  <2>3. final'[i' - 1] = c
    BY <1>1, <1>2, <1>4, <1>6
  <2>4. Last(delivered)' = c
    BY <1>10 DEF Last
  <2> QED
    BY <1>9, <2>1, <2>2, <2>3, <2>4 DEF PosInv
<1>15. PassInv'
  <2>1. ASSUME NEW x \in 1..i'-1, Taken(final[x]) PROVE Contains(delivered', final[x])
    <3>1. CASE x \in 1..i-1
      <4>1. Contains(delivered, final[x])
        BY <2>1, <3>1 DEF ReaderInv, PassInv
      <4> QED
        BY <1>2, <1>6, <4>1, AppendContains
    <3>2. CASE x = i
      BY <1>1, <1>2, <1>6, <3>2, AppendContains
    <3> QED
      BY <1>13, <3>1, <3>2
  <2>2. ASSUME NEW l \in 1..n+1
        PROVE  /\ delivered'[l] # damaged
               /\ \E x \in 1..i'-1 :
                    /\ final[x] = delivered'[l]
                    /\ Taken(final[x])
                    /\ \A y \in 1..x-1 : Taken(final[y]) => Before(delivered', final[y], l)
    <3>1. CASE l \in 1..n
      <4>1. delivered[l] # damaged /\ delivered'[l] = delivered[l]
        BY <1>8, <1>9, <3>1 DEF ReaderInv, PassInv
      <4>2. PICK x \in 1..i-1 :
              /\ final[x] = delivered[l]
              /\ Taken(final[x])
              /\ \A y \in 1..x-1 : Taken(final[y]) => Before(delivered, final[y], l)
        BY <1>8, <3>1 DEF ReaderInv, PassInv
      <4>3. \A e : Before(delivered, e, l) => Before(delivered', e, l)
        <5>1. \A m \in 1..l-1 : m \in 1..n
          BY <3>1
        <5> QED
          BY <1>9, <5>1 DEF Before
      <4>4. x \in 1..i'-1
        BY <1>2, <1>6
      <4> QED
        BY <4>1, <4>2, <4>3, <4>4
    <3>2. CASE l = n + 1
      <4>1. delivered'[l] = c /\ final[i] = c
        BY <1>1, <1>9, <3>2
      <4>2. ASSUME NEW y \in 1..i-1, Taken(final[y]) PROVE Before(delivered', final[y], l)
        <5>1. Contains(delivered, final[y])
          BY <4>2 DEF ReaderInv, PassInv
        <5>2. PICK m \in 1..n : delivered[m] = final[y]
          BY <1>8, <5>1 DEF Contains
        <5>3. m \in 1..l-1 /\ delivered'[m] = final[y]
          BY <1>9, <3>2, <5>2
        <5> QED
          BY <5>3 DEF Before
      <4>3. i \in 1..i'-1
        BY <1>2, <1>6
      <4> QED
        BY <1>2, <4>1, <4>2, <4>3
    <3> QED
      BY <3>1, <3>2
  <2>3. \A x : Taken(final[x])' <=> Taken(final[x])
    BY <1>4, <1>5
  <2>4. \A x : Contains(delivered, final[x])' <=> Contains(delivered', final[x])
    BY <1>4 DEF Contains
  <2>5. \A y, l : Before(delivered, final[y], l)' <=> Before(delivered', final[y], l)
    BY <1>4 DEF Before
  <2> QED
    BY <1>2, <1>4, <1>9, <2>1, <2>2, <2>3, <2>4, <2>5 DEF PassInv
<1> QED
  BY <1>11, <1>12, <1>14, <1>15 DEF ReaderInv

(* No entry is left out midway: the seek ends where the chunk begins. *)
LEMMA GaplessSeek ==
  ASSUME ReaderInv, Gapless, i <= Len(final), Taken(final[i])
  PROVE  Target = ChunkStart(final[i])
<1>1. /\ WriterTypeOK /\ i \in 1..Len(final) /\ Len(final) \in Nat
      /\ pos \in Nat /\ lastStoredSize \in Nat
  BY LenProperties DEF ReaderInv, BundleTypeOK, WriterTypeOK
<1>2. \A x \in 1..Len(final) : final[x] \in Chunk
  BY <1>1, ElementOfSeq DEF WriterTypeOK
<1>3. \A x \in 1..Len(final) : ChunkStart(final[x]) \in Nat
  BY <1>1, <1>2, ChunkInFile
<1>4. PICK a \in Nat : a = ChunkStart(final[i])
  BY <1>1, <1>3
<1>5. PICK n \in 0..Len(final) :
        /\ \A k \in n+1..Len(final) : ~Taken(final[k])
        /\ \/ AllTaken(1, n)
           \/ AllTaken(2, n) /\ n > 0 /\ ChunkStart(final[1]) = 0
  BY DEF Gapless
<1>6. i <= n
  BY <1>1, <1>5
<1>7. CASE i = 1
  <2>1. delivered = <<>>
    <3>1. delivered \in Seq(Chunk)
      BY DEF ReaderInv, BundleTypeOK
    <3>2. ~(\E l \in 1..Len(delivered) : TRUE)
      BY <1>7 DEF ReaderInv, PassInv
    <3>3. Len(delivered) \in Nat
      BY <3>1, LenProperties
    <3>4. Len(delivered) = 0
      BY <3>2, <3>3
    <3> QED
      BY <3>1, <3>4, EmptySeq
  <2>2. pos = 0 /\ lastStoredSize = 0
    BY <2>1 DEF ReaderInv, PosInv
  <2>3. Target = a
    BY <1>4, <1>7, <2>2 DEF Target, StoredOffset
  <2> QED
    BY <1>4, <2>3
<1>8. CASE i > 1
  <2>1. PICK b \in Nat : b = ChunkStart(final[i - 1])
    <3>1. i - 1 \in 1..Len(final)
      BY <1>1, <1>8
    <3> QED
      BY <1>3, <3>1
  <2>2. pos - lastStoredSize = b
    <3>1. CASE Taken(final[i - 1])
      <4>1. delivered # <<>> /\ Last(delivered) = final[i - 1]
        BY <1>8, <3>1 DEF ReaderInv, PosInv
      <4> QED
        BY <2>1, <4>1 DEF ReaderInv, PosInv
    <3>2. CASE ~Taken(final[i - 1])
      <4>1. i = 2 /\ b = 0
        BY <1>1, <1>5, <1>6, <1>8, <2>1, <3>2 DEF AllTaken
      <4>2. delivered = <<>>
        <5>1. delivered \in Seq(Chunk)
          BY DEF ReaderInv, BundleTypeOK
        <5>2. ~(\E l \in 1..Len(delivered) : TRUE)
          <6>1. \A x \in 1..i-1 : x = 1
            BY <4>1
          <6>2. ~Taken(final[1])
            BY <3>2, <4>1
          <6> QED
            BY <6>1, <6>2 DEF ReaderInv, PassInv
        <5>3. Len(delivered) \in Nat
          BY <5>1, LenProperties
        <5>4. Len(delivered) = 0
          BY <5>2, <5>3
        <5> QED
          BY <5>1, <5>4, EmptySeq
      <4> QED
        BY <4>1, <4>2 DEF ReaderInv, PosInv
    <3> QED
      BY <3>1, <3>2
  <2>3. StoredOffset(i) = a - b
    BY <1>4, <1>8, <2>1 DEF StoredOffset
  <2>4. Target = a
    BY <1>1, <2>2, <2>3 DEF Target
  <2> QED
    BY <1>4, <2>4
<1> QED
  BY <1>1, <1>7, <1>8

(* Such a read of a file nobody damaged finds every chunk. *)
LEMMA GaplessFinds ==
  ASSUME ReaderInv, Gapless, damaged = 0, fileEnd = ChunksEnd,
         i <= Len(final), Taken(final[i])
  PROVE  Target \in Nat /\ InFile(final[i]) /\ Intact(final[i])
<1>1. WriterTypeOK /\ i \in 1..Len(final)
  BY LenProperties DEF ReaderInv, BundleTypeOK, WriterTypeOK
<1>2. PICK c \in Chunk : c = final[i]
  BY <1>1, ElementOfSeq DEF WriterTypeOK
<1>3. Target = ChunkStart(c)
  BY <1>2, GaplessSeek
<1>4. /\ ChunkStart(c) \in Nat /\ SizeOf(c) \in Nat /\ ChunksEnd \in Nat
      /\ ChunkStart(c) + SizeOf(c) <= ChunksEnd
  BY <1>1, ChunkInFile
<1>5. c # 0
  BY <1>1, LenProperties DEF Chunk, WriterTypeOK
<1>6. InFile(c) /\ Intact(c)
  BY <1>3, <1>4, <1>5 DEF InFile, Intact
<1> QED
  BY <1>2, <1>3, <1>4, <1>6

(* A read that ends keeps everything but GaplessReadWorks whatever its result. *)
LEMMA EndKeeps ==
  ASSUME ReaderInv, reading = "walk", NEW r \in Results, End(r),
         r = "Okay" => i > Len(final),
         r \in {"CorruptError", "ReadError"} =>
           ~(damaged = 0 /\ fileEnd = ChunksEnd /\ Gapless)
  PROVE  ReaderInv'
<1>1. /\ UNCHANGED <<damaged, fileEnd, handlerMap, wanted, i, pos, lastStoredSize, delivered>>
      /\ reading' = "done" /\ result' = r
  BY DEF End
<1>2. UNCHANGED writerVars
  BY DEF End
<1>3. /\ UNCHANGED <<dirEntries, phase, final, Chunk, ChunksEnd>>
      /\ WriterTypeOK'
      /\ \A c : ChunkStart(c)' = ChunkStart(c)
  <2>1. WriterTypeOK
    BY DEF ReaderInv, BundleTypeOK
  <2> QED
    BY <1>2, <2>1, BundleFrame
<1>4. /\ \A c : Taken(c)' <=> Taken(c)
      /\ Gapless' <=> Gapless
  BY <1>1, <1>2, WalkFrame
<1>5. BundleTypeOK'
  BY <1>1, <1>3 DEF ReaderInv, BundleTypeOK
<1>6. CallInv' /\ GaplessReadWorks'
  BY <1>1, <1>3, <1>4 DEF ReaderInv, CallInv, GaplessReadWorks, Results
<1>7. PassInv'
  <2>1. /\ \A x : Taken(final[x])' <=> Taken(final[x])
        /\ \A x : Contains(delivered, final[x])' <=> Contains(delivered, final[x])
        /\ \A y, l : Before(delivered, final[y], l)' <=> Before(delivered, final[y], l)
    BY <1>1, <1>3, <1>4 DEF Contains, Before
  <2> QED
    BY <1>1, <1>3, <2>1 DEF ReaderInv, PassInv
<1>8. PosInv'
  <2>1. Taken(final[i - 1])' <=> Taken(final[i - 1])
    BY <1>1, <1>3 DEF Taken
  <2>2. UNCHANGED Last(delivered) /\ ChunkStart(Last(delivered))' = ChunkStart(Last(delivered))
    BY <1>1, <1>3 DEF Last, ChunkStart, ChunkEnd, SizeOf
  <2> QED
    BY <1>1, <1>3, <2>1, <2>2 DEF ReaderInv, PosInv
<1> QED
  BY <1>5, <1>6, <1>7, <1>8 DEF ReaderInv

LEMMA ReaderStep ==
  ASSUME OrderInv, ReaderInv, [BundleNext]_bundleVars
  PROVE  OrderInv' /\ ReaderInv'
<1>1. [WriterNext]_writerVars
  BY WriterSteps
<1>2. OrderInv'
  BY <1>1, WriterTypeStep, StackStep, NoteStep, WalkStep DEF OrderInv
<1>3. WriterTypeOK'
  BY <1>2 DEF OrderInv
<1>4. ASSUME UNCHANGED bundleVars PROVE ReaderInv'
  <2>1. /\ UNCHANGED <<dirEntries, phase, dirIndices, order, dep, fit, it, final>>
        /\ UNCHANGED <<damaged, fileEnd, reading, handlerMap, wanted, i, pos,
                       lastStoredSize, delivered, result>>
    BY <1>4 DEF bundleVars, writerVars, readerVars
  <2>2. UNCHANGED writerVars
    BY <2>1 DEF writerVars
  <2>3. /\ UNCHANGED <<Chunk, ChunkEnd, ChunksEnd>>
        /\ \A c : Taken(c)' <=> Taken(c)
        /\ Gapless' <=> Gapless
    BY <2>1, <2>2, BundleFrame, WalkFrame
  <2>4. BundleTypeOK' /\ CallInv' /\ GaplessReadWorks'
    BY <1>3, <2>1, <2>3 DEF ReaderInv, BundleTypeOK, CallInv, GaplessReadWorks
  <2>5. PassInv'
    BY <2>1 DEF ReaderInv, PassInv, Taken, Contains, Before
  <2>6. PosInv'
    BY <2>1, <2>3 DEF ReaderInv, PosInv, Taken, Last, ChunkStart
  <2> QED
    BY <2>4, <2>5, <2>6 DEF ReaderInv
<1>5. ASSUME WriterNext, UNCHANGED readerVars PROVE ReaderInv'
  <2>1. phase # "built"
    BY <1>5, BuiltIsBuilt
  <2>2. reading = "no"
    BY <2>1 DEF ReaderInv, CallInv
  <2> QED
    BY <1>3, <1>5, <2>1, <2>2, UnreadKeeps
<1>6. ASSUME NEW handled \in SUBSET Ids, NEW wants \in Chunk \cup {Anything},
             Read(handled, wants)
      PROVE  ReaderInv'
  BY <1>3, <1>6, ReadKeeps
<1>7. ASSUME Skip PROVE ReaderInv'
  BY <1>7, SkipKeeps
<1>8. ASSUME ReadChunk PROVE ReaderInv'
  BY <1>8, ReadChunkKeeps
<1>9. ASSUME ReadCorrupt PROVE ReaderInv'
  <2>1. /\ reading = "walk" /\ i <= Len(final) /\ Taken(final[i])
        /\ Target < 0 \/ (InFile(final[i]) /\ ~Intact(final[i]))
        /\ End("CorruptError")
    BY <1>9 DEF ReadCorrupt
  <2>2. ~(damaged = 0 /\ fileEnd = ChunksEnd /\ Gapless)
    <3>1. SUFFICES ASSUME damaged = 0, fileEnd = ChunksEnd, Gapless PROVE FALSE
      OBVIOUS
    <3>2. Target \in Nat /\ InFile(final[i]) /\ Intact(final[i])
      BY <2>1, <3>1, GaplessFinds
    <3> QED
      BY <2>1, <3>2
  <2> QED
    BY <2>1, <2>2, EndKeeps DEF Results
<1>10. ASSUME ReadFails PROVE ReaderInv'
  <2>1. /\ reading = "walk" /\ i <= Len(final) /\ Taken(final[i])
        /\ ~InFile(final[i])
        /\ End("ReadError")
    BY <1>10 DEF ReadFails
  <2>2. ~(damaged = 0 /\ fileEnd = ChunksEnd /\ Gapless)
    BY <2>1, GaplessFinds
  <2> QED
    BY <2>1, <2>2, EndKeeps DEF Results
<1>11. ASSUME Finish PROVE ReaderInv'
  <2>1. /\ reading = "walk" /\ i > Len(final)
        /\ End("NotFound") \/ End("Okay")
    BY <1>11 DEF Finish
  <2> QED
    BY <2>1, EndKeeps DEF Results
<1> QED
  BY <1>2, <1>4, <1>5, <1>6, <1>7, <1>8, <1>9, <1>10, <1>11 DEF BundleNext, ReadStep

-----------------------------------------------------------------------------
(* The theorems *)

LEMMA ReaderInitially == BundleInit => OrderInv /\ ReaderInv
<1> SUFFICES ASSUME BundleInit PROVE OrderInv /\ ReaderInv
  OBVIOUS
<1>1. OrderInv
  BY OrderInit DEF BundleInit
<1>2. WriterTypeOK /\ ChunksEnd \in Nat
  BY <1>1, Layout DEF OrderInv, LayoutInv
<1>3. Len(final) = 0 /\ Len(delivered) = 0
  BY DEF BundleInit, WriterInit
<1>4. BundleTypeOK
  BY <1>2, <1>3 DEF BundleInit, BundleTypeOK
<1>5. CallInv /\ GaplessReadWorks /\ PassInv /\ PosInv
  BY <1>3 DEF BundleInit, CallInv, GaplessReadWorks, PassInv, PosInv
<1> QED
  BY <1>1, <1>4, <1>5 DEF ReaderInv

LEMMA ReaderInvariant == BundleSpec => [](OrderInv /\ ReaderInv)
<1>1. BundleInit => OrderInv /\ ReaderInv
  BY ReaderInitially
<1>2. (OrderInv /\ ReaderInv) /\ [BundleNext]_bundleVars => (OrderInv /\ ReaderInv)'
  BY ReaderStep
<1> QED
  BY <1>1, <1>2, PTL DEF BundleSpec

(* Reading leaves the bundle as build left it: what holds of the writer holds of *)
(* the two together.                                                             *)
THEOREM ReaderKeepsBuild == BundleSpec => WriterSpec
<1>1. BundleInit => WriterInit
  BY DEF BundleInit
<1>2. [BundleNext]_bundleVars => [WriterNext]_writerVars
  BY WriterSteps
<1> QED
  BY <1>1, <1>2, PTL DEF BundleSpec, WriterSpec

(* The types, the stream's positions in the file among them, for bundles of *)
(* any chunks and any alignment.                                            *)
THEOREM BundleTypeCorrect == BundleSpec => []BundleTypeOK
<1>1. OrderInv /\ ReaderInv => BundleTypeOK
  BY DEF ReaderInv
<1> QED
  BY <1>1, ReaderInvariant, PTL

(* A handler finds what its chunk depends on already handled, of what is read at *)
(* all, whatever was damaged: bundlewriter.cpp 190-245, bundle.cpp 96-125.       *)
THEOREM HandlersFollowDependencies == BundleSpec => []DeliveredInOrder
<1>1. ASSUME OrderInv, ReaderInv,
             NEW k \in 1..Len(delivered), NEW j \in Requires(delivered[k]), Taken(j)
      PROVE  Before(delivered, j, k)
  <2>1. PICK x \in 1..i-1 :
          /\ final[x] = delivered[k]
          /\ \A y \in 1..x-1 : Taken(final[y]) => Before(delivered, final[y], k)
    BY <1>1 DEF ReaderInv, PassInv
  <2>2. x \in 1..Len(final)
    BY LenProperties, <1>1 DEF ReaderInv, BundleTypeOK, WriterTypeOK
  <2>3. Before(final, j, x)
    BY <1>1, <2>1, <2>2 DEF OrderInv, WalkInv
  <2> QED
    BY <1>1, <2>1, <2>3 DEF Before
<1>2. OrderInv /\ ReaderInv => DeliveredInOrder
  BY <1>1 DEF DeliveredInOrder
<1> QED
  BY <1>2, ReaderInvariant, PTL

(* The seeks meet the offsets: an undamaged file is read to its end when no entry *)
(* is left out midway: bundlewriter.cpp 258, bundle.cpp 116-125.                  *)
THEOREM GaplessReadsSucceed == BundleSpec => []GaplessReadWorks
<1>1. OrderInv /\ ReaderInv => GaplessReadWorks
  BY DEF ReaderInv
<1> QED
  BY <1>1, ReaderInvariant, PTL

(* Okay means that all that was asked for was handled, and none of it damaged: *)
(* bundle.cpp 119-125, 271-272.                                                *)
THEOREM OkayMeansWhole == BundleSpec => []OkayIsWhole
<1>1. ASSUME OrderInv, ReaderInv, result = "Okay", NEW c \in Chunk, Taken(c)
      PROVE  c # damaged /\ Contains(delivered, c)
  <2>1. phase = "built" /\ i > Len(final)
    BY <1>1 DEF ReaderInv, CallInv
  <2>2. PICK k \in 1..Len(final) : final[k] = c
    BY <1>1, <2>1, BuiltComplete DEF EveryChunkOnce
  <2>3. k \in 1..i-1
    BY <1>1, <2>1, LenProperties DEF ReaderInv, BundleTypeOK, WriterTypeOK
  <2>4. Contains(delivered, c)
    BY <1>1, <2>2, <2>3 DEF ReaderInv, PassInv
  <2> QED
    BY <1>1, <2>4 DEF ReaderInv, PassInv, Contains
<1>2. OrderInv /\ ReaderInv => OkayIsWhole
  BY <1>1 DEF OkayIsWhole
<1> QED
  BY <1>2, ReaderInvariant, PTL

=============================================================================
