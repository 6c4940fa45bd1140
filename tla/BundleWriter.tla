---------------------------- MODULE BundleWriter ----------------------------
(***************************************************************************)
(* BundleWriter (src/libs/level1/binny/bundlewriter.cpp): chunks are added *)
(* in any order, build puts their directory entries into an order in which *)
(* every chunk comes after the chunks it depends on, and the chunks        *)
(* themselves, one after the other, in the order they were added.          *)
(*                                                                         *)
(* A dependency names a type of chunk and stands for all chunks of it.     *)
(* The flattening runs in two loops: one pops chunks off a stack, notes    *)
(* each and pushes what it depends on; the other walks the notes backwards *)
(* and keeps the first sight of each chunk.                                *)
(***************************************************************************)
EXTENDS Integers, SequencesExt

CONSTANTS
  Ids,          \* the types of chunks
  Dependencies, \* for each type, the dependency lists a chunk of it may have
  StoredSize,   \* for each type, the bytes a chunk of it takes in the file
  Alignment,    \* addressLength / 8, what chunks start at multiples of
  MaxChunks     \* chunks in a bundle (bound)

ASSUME BundleAssumption ==
  /\ Dependencies \in [Ids -> SUBSET Seq(Ids)]
  /\ StoredSize \in [Ids -> Nat \ {0}]
  /\ Alignment \in Nat \ {0}
  /\ MaxChunks \in Nat

VARIABLES
  dirEntries,   \* the chunks, in the order they were added
  phase,        \* where build is
  dirIndices,   \* the stack, its top last
  order,        \* the chunks that came off it
  dep, fit,     \* the dependency of the last of them that is looked for, and up to where
  it,           \* the notes the backward walk has still to see
  final         \* the order of the directory

writerVars == <<dirEntries, phase, dirIndices, order, dep, fit, it, final>>

Entry == [id : Ids, dependencies : Seq(Ids)]
Chunk == 1..Len(dirEntries)

WriterTypeOK ==
  /\ dirEntries \in Seq(Entry)
  /\ phase \in {"adding", "pop", "scan", "flatten", "built"}
  /\ dirIndices \in Seq(Chunk)
  /\ order \in Seq(Chunk)
  /\ dep \in Nat \ {0}
  /\ fit \in Nat \ {0}
  /\ it \in 0..Len(order)
  /\ final \in Seq(Chunk)

WriterInit ==
  /\ dirEntries = <<>>
  /\ phase = "adding"
  /\ dirIndices = <<>>
  /\ order = <<>>
  /\ dep = 1 /\ fit = 1
  /\ it = 0
  /\ final = <<>>

-----------------------------------------------------------------------------
(* addChunk and the two raw variants, all through addChunkInternal. *)
AddChunk(t) ==
  /\ phase = "adding"
  /\ Len(dirEntries) < MaxChunks
  /\ \E d \in Dependencies[t] :
       dirEntries' = Append(dirEntries, [id |-> t, dependencies |-> d])
  /\ UNCHANGED <<phase, dirIndices, order, dep, fit, it, final>>

(* build starts with every chunk on the stack. *)
Build ==
  /\ phase = "adding"
  /\ phase' = "pop"
  /\ dirIndices' = [k \in Chunk |-> k]
  /\ UNCHANGED <<dirEntries, order, dep, fit, it, final>>

(* Mutant: a chunk that was noted before is not noted again. *)
PopOnce ==
  /\ phase = "pop"
  /\ dirIndices # <<>>
  /\ dirIndices' = Front(dirIndices)
  /\ \/ Contains(order, Last(dirIndices)) /\ UNCHANGED <<order, phase, dep, fit>>
     \/ /\ ~Contains(order, Last(dirIndices))
        /\ order' = Append(order, Last(dirIndices))
        /\ phase' = "scan"
        /\ dep' = 1 /\ fit' = 1
  /\ UNCHANGED <<dirEntries, it, final>>

Pop ==
  /\ phase = "pop"
  /\ dirIndices # <<>>
  /\ order' = Append(order, Last(dirIndices))
  /\ dirIndices' = Front(dirIndices)
  /\ phase' = "scan"
  /\ dep' = 1 /\ fit' = 1
  /\ UNCHANGED <<dirEntries, it, final>>

(* The chunk whose dependencies are pushed. *)
Depends == dirEntries[Last(order)].dependencies

(* Mutant: the search for a dependency ends with the first chunk of the type. *)
PushDependencyOnce ==
  /\ phase = "scan"
  /\ dep <= Len(Depends) /\ fit <= Len(dirEntries)
  /\ \/ /\ dirEntries[fit].id = Depends[dep]
        /\ dirIndices' = Append(dirIndices, fit)
        /\ fit' = Len(dirEntries) + 1
     \/ /\ dirEntries[fit].id # Depends[dep]
        /\ UNCHANGED dirIndices
        /\ fit' = fit + 1
  /\ UNCHANGED <<dirEntries, phase, order, dep, it, final>>

(* find_if, one chunk at a time: a chunk of the type looked for is pushed. *)
PushDependency ==
  /\ phase = "scan"
  /\ dep <= Len(Depends) /\ fit <= Len(dirEntries)
  /\ \/ dirEntries[fit].id = Depends[dep] /\ dirIndices' = Append(dirIndices, fit)
     \/ dirEntries[fit].id # Depends[dep] /\ UNCHANGED dirIndices
  /\ fit' = fit + 1
  /\ UNCHANGED <<dirEntries, phase, order, dep, it, final>>

NextDependency ==
  /\ phase = "scan"
  /\ dep <= Len(Depends) /\ fit > Len(dirEntries)
  /\ dep' = dep + 1 /\ fit' = 1
  /\ UNCHANGED <<dirEntries, phase, dirIndices, order, it, final>>

DependenciesPushed ==
  /\ phase = "scan"
  /\ dep > Len(Depends)
  /\ phase' = "pop"
  /\ UNCHANGED <<dirEntries, dirIndices, order, dep, fit, it, final>>

(* Mutant: the walk starts behind the last note. *)
FlattenPastEnd ==
  /\ phase = "pop"
  /\ dirIndices = <<>>
  /\ phase' = "flatten"
  /\ it' = Len(order) + 1
  /\ UNCHANGED <<dirEntries, dirIndices, order, dep, fit, final>>

Flatten ==
  /\ phase = "pop"
  /\ dirIndices = <<>>
  /\ phase' = "flatten"
  /\ it' = Len(order)
  /\ UNCHANGED <<dirEntries, dirIndices, order, dep, fit, final>>

(* Mutant: duplicates are not recognised. *)
KeepEvery ==
  /\ phase = "flatten"
  /\ it > 0
  /\ final' = Append(final, order[it])
  /\ it' = it - 1
  /\ UNCHANGED <<dirEntries, phase, dirIndices, order, dep, fit>>

(* Mutant: the walk only goes on when it has kept a chunk. *)
KeepFirstStuck ==
  /\ phase = "flatten"
  /\ it > 0
  /\ \/ Contains(final, order[it]) /\ UNCHANGED <<final, it>>
     \/ ~Contains(final, order[it]) /\ final' = Append(final, order[it]) /\ it' = it - 1
  /\ UNCHANGED <<dirEntries, phase, dirIndices, order, dep, fit>>

(* The backward walk: only the first sight of a chunk goes into the directory. *)
KeepFirst ==
  /\ phase = "flatten"
  /\ it > 0
  /\ \/ Contains(final, order[it]) /\ UNCHANGED final
     \/ ~Contains(final, order[it]) /\ final' = Append(final, order[it])
  /\ it' = it - 1
  /\ UNCHANGED <<dirEntries, phase, dirIndices, order, dep, fit>>

(* The directory, the string table and the chunks are written. *)
WriteOut ==
  /\ phase = "flatten"
  /\ it = 0
  /\ phase' = "built"
  /\ UNCHANGED <<dirEntries, dirIndices, order, dep, fit, it, final>>

-----------------------------------------------------------------------------
(* The layout of what was written *)

Aligned(n) == ((n + Alignment - 1) \div Alignment) * Alignment

SizeOf(c) == StoredSize[dirEntries[c].id]

(* The end of chunk c and its padding, from the label "chunks" on. *)
ChunkEnd[c \in Nat] ==
  IF c = 0 THEN 0 ELSE ChunkEnd[c - 1] + Aligned(SizeOf(c))

ChunkStart(c) == ChunkEnd[c - 1]

ChunksEnd == ChunkEnd[Len(dirEntries)]

(* use_label(name, lastName): counted from the chunk of the entry before. *)
StoredOffset(k) ==
  ChunkStart(final[k]) - (IF k = 1 THEN 0 ELSE ChunkStart(final[k - 1]))

-----------------------------------------------------------------------------
BuildStep ==
  \/ Pop \/ PushDependency \/ NextDependency \/ DependenciesPushed
  \/ Flatten \/ KeepFirst \/ WriteOut

WriterNext ==
  \/ \E t \in Ids : AddChunk(t)
  \/ Build
  \/ BuildStep

WriterSpec == WriterInit /\ [][WriterNext]_writerVars

-----------------------------------------------------------------------------
(* Properties *)

(* The chunks that chunk c depends on: all those of a type in its list. *)
Requires(c) ==
  {j \in Chunk : \E k \in 1..Len(dirEntries[c].dependencies) :
                   dirEntries[c].dependencies[k] = dirEntries[j].id}

Before(s, j, k) == \E l \in 1..k-1 : s[l] = j

(* bundlewriter.cpp 190-245: in the directory every chunk comes after all the   *)
(* chunks it depends on, whatever the order they were added in.                 *)
DependenciesFirst ==
  phase = "built" =>
    \A k \in 1..Len(final) : \A j \in Requires(final[k]) : Before(final, j, k)

(* bundlewriter.cpp 210-245: though the notes hold chunks many times over, the  *)
(* directory has every chunk that was added, and has it once.                   *)
EveryChunkOnce ==
  phase = "built" =>
    /\ \A c \in Chunk : \E k \in 1..Len(final) : final[k] = c
    /\ \A k, l \in 1..Len(final) : final[k] = final[l] => k = l

=============================================================================
