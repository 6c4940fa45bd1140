---------------------------- MODULE BundleReader ----------------------------
(***************************************************************************)
(* Bundle::read (src/libs/level1/binny/bundle.cpp) on what BundleWriter    *)
(* built.  The directory is walked in its order; chunks without a handler, *)
(* or with another name than the one asked for, are passed over, for the   *)
(* others the stream is moved by the entry's offset less the bytes of the  *)
(* chunk read last, the chunk is read and checked, and the handlers of its *)
(* type are called.  Positions count from the label "chunks".              *)
(*                                                                         *)
(* Before it is read the file may be damaged in one chunk or cut short.    *)
(* A checksum is taken to tell every wrong content from the right one.     *)
(***************************************************************************)
EXTENDS BundleWriter

CONSTANT Anything   \* the empty name: every chunk is asked for

ASSUME ReaderAssumption == Anything \notin Nat

VARIABLES
  damaged,          \* the chunk whose bytes have changed, 0 for none
  fileEnd,          \* where the stream ends
  reading,          \* "no", "walk", "done"
  handlerMap,       \* the types that have handlers
  wanted,           \* the chunk whose name is asked for, or Anything
  i,                \* the directory entry
  pos,              \* the read position of the stream
  lastStoredSize,
  delivered,        \* the chunks handlers were called with
  result

readerVars == <<damaged, fileEnd, reading, handlerMap, wanted, i, pos,
                lastStoredSize, delivered, result>>
bundleVars == <<writerVars, readerVars>>

Results == {"Okay", "NotFound", "ReadError", "CorruptError"}

BundleTypeOK ==
  /\ WriterTypeOK
  /\ damaged \in Chunk \cup {0}
  /\ fileEnd \in 0..ChunksEnd
  /\ reading \in {"no", "walk", "done"}
  /\ handlerMap \subseteq Ids
  /\ wanted \in Chunk \cup {Anything}
  /\ i \in 1..Len(final) + 1
  /\ pos \in 0..ChunksEnd
  /\ lastStoredSize \in Nat
  /\ delivered \in Seq(Chunk)
  /\ result \in Results \cup {"none"}

BundleInit ==
  /\ WriterInit
  /\ damaged = 0
  /\ fileEnd = 0
  /\ reading = "no"
  /\ handlerMap = {}
  /\ wanted = Anything
  /\ i = 1
  /\ pos = 0
  /\ lastStoredSize = 0
  /\ delivered = <<>>
  /\ result = "none"

-----------------------------------------------------------------------------
(* The file stays as it was written, or its tail is lost, or a chunk is damaged. *)
Fault ==
  \/ damaged' = 0 /\ fileEnd' = ChunksEnd
  \/ damaged' = 0 /\ \E c \in Chunk : fileEnd' = ChunkStart(c)
  \/ damaged' \in Chunk /\ fileEnd' = ChunksEnd

(* The call: the header, the directory and the names are read. *)
Read(handled, wants) ==
  /\ phase = "built" /\ reading = "no"
  /\ Fault
  /\ handlerMap' = handled
  /\ wanted' = wants
  /\ reading' = "walk"
  /\ UNCHANGED <<writerVars, i, pos, lastStoredSize, delivered, result>>

Taken(c) ==
  /\ dirEntries[c].id \in handlerMap
  /\ wanted \in {Anything, c}

(* Neither the stream nor lastStoredSize moves with an entry passed over. *)
Skip ==
  /\ reading = "walk" /\ i <= Len(final)
  /\ ~Taken(final[i])
  /\ i' = i + 1
  /\ UNCHANGED <<writerVars, damaged, fileEnd, reading, handlerMap, wanted,
                 pos, lastStoredSize, delivered, result>>

(* seekg(storedOffset - lastStoredSize, cur) *)
Target == pos + StoredOffset(i) - lastStoredSize

(* The bytes at the target are those the checksum was made of. *)
Intact(c) == Target = ChunkStart(c) /\ damaged # c

InFile(c) == Target >= 0 /\ Target + SizeOf(c) <= fileEnd

(* Mutant: the bytes read are forgotten at once. *)
ReadChunkUncounted ==
  /\ reading = "walk" /\ i <= Len(final)
  /\ LET c == final[i]
     IN  /\ Taken(c) /\ InFile(c) /\ Intact(c)
         /\ pos' = Target + SizeOf(c)
         /\ lastStoredSize' = 0
         /\ delivered' = Append(delivered, c)
  /\ i' = i + 1
  /\ UNCHANGED <<writerVars, damaged, fileEnd, reading, handlerMap, wanted, result>>

(* Mutant: no checksum. *)
ReadChunkUnchecked ==
  /\ reading = "walk" /\ i <= Len(final)
  /\ LET c == final[i]
     IN  /\ Taken(c) /\ InFile(c)
         /\ pos' = Target + SizeOf(c)
         /\ lastStoredSize' = SizeOf(c)
         /\ delivered' = Append(delivered, c)
  /\ i' = i + 1
  /\ UNCHANGED <<writerVars, damaged, fileEnd, reading, handlerMap, wanted, result>>

ReadChunk ==
  /\ reading = "walk" /\ i <= Len(final)
  /\ LET c == final[i]
     IN  /\ Taken(c) /\ InFile(c) /\ Intact(c)
         /\ pos' = Target + SizeOf(c)
         /\ lastStoredSize' = SizeOf(c)
         /\ delivered' = Append(delivered, c)
  /\ i' = i + 1
  /\ UNCHANGED <<writerVars, damaged, fileEnd, reading, handlerMap, wanted, result>>

End(r) ==
  /\ reading' = "done"
  /\ result' = r
  /\ UNCHANGED <<writerVars, damaged, fileEnd, handlerMap, wanted, i, pos,
                 lastStoredSize, delivered>>

(* A wrong checksum.  Before the label "chunks" lie the names and the directory. *)
ReadCorrupt ==
  /\ reading = "walk" /\ i <= Len(final)
  /\ Taken(final[i])
  /\ Target < 0 \/ (InFile(final[i]) /\ ~Intact(final[i]))
  /\ End("CorruptError")

(* Past the end of the file, or, as the names take few bytes, before its start. *)
ReadFails ==
  /\ reading = "walk" /\ i <= Len(final)
  /\ Taken(final[i])
  /\ ~InFile(final[i])
  /\ End("ReadError")

Finish ==
  /\ reading = "walk" /\ i > Len(final)
  /\ End(IF delivered = <<>> THEN "NotFound" ELSE "Okay")

ReadStep == Skip \/ ReadChunk \/ ReadCorrupt \/ ReadFails \/ Finish

-----------------------------------------------------------------------------
BundleNext ==
  \/ WriterNext /\ UNCHANGED readerVars
  \/ \E handled \in SUBSET Ids, wants \in Chunk \cup {Anything} : Read(handled, wants)
  \/ ReadStep

BundleSpec == BundleInit /\ [][BundleNext]_bundleVars

(* build and read are plain calls: once begun they go on. *)
BundleFairSpec ==
  /\ BundleSpec
  /\ WF_bundleVars(BuildStep /\ UNCHANGED readerVars)
  /\ WF_bundleVars(ReadStep)

-----------------------------------------------------------------------------
(* Properties *)

(* Entries lo to hi of the directory, taken or not. *)
AllTaken(lo, hi) == \A k \in lo..hi : Taken(final[k])

(* The entries taken so far are the first ones, or all but one that lies where *)
(* the chunks begin.                                                           *)
Gapless ==
  \E n \in 0..Len(final) :
    /\ \A k \in n+1..Len(final) : ~Taken(final[k])
    /\ \/ AllTaken(1, n)
       \/ AllTaken(2, n) /\ n > 0 /\ ChunkStart(final[1]) = 0

(* bundlewriter.cpp 190-245 and bundle.cpp 96-125 together: handlers are called *)
(* with a chunk only when they were called with all the chunks it depends on,   *)
(* of those that are read at all.                                               *)
DeliveredInOrder ==
  \A k \in 1..Len(delivered) : \A j \in Requires(delivered[k]) :
    Taken(j) => Before(delivered, j, k)

(* bundlewriter.cpp 258 and bundle.cpp 116-125: the relative offsets of the     *)
(* writer and the relative seeks of the reader meet: a file nobody damaged is   *)
(* read to the end, padding and all, as long as no entry is left out midway.    *)
GaplessReadWorks ==
  (damaged = 0 /\ fileEnd = ChunksEnd /\ Gapless) =>
    result \in {"none", "Okay", "NotFound"}

(* bundle.cpp 119-125, 271-272: Okay is only returned when every chunk asked    *)
(* for was delivered, and whole.                                                *)
OkayIsWhole ==
  result = "Okay" => \A c \in Chunk :
    Taken(c) => c # damaged /\ Contains(delivered, c)

(* bundlewriter.cpp 212-245, bundle.cpp 98-267: a build of chunks that do not   *)
(* depend on each other in a circle ends, and so does every read.               *)
BundleEnds ==
  /\ phase \in {"pop", "scan", "flatten"} ~> phase = "built"
  /\ reading = "walk" ~> reading = "done"

-----------------------------------------------------------------------------
(* What the source says of itself and TLC refutes *)

(* bundle.h 16: "skips chunk that are not handled": that a type has no handler  *)
(* is no reason for a sound file to be found corrupt.                           *)
SkipsUnhandled ==
  (damaged = 0 /\ fileEnd = ChunksEnd /\ wanted = Anything) => result # "CorruptError"

=============================================================================
