--------------------------- MODULE FrameLoopProofs ---------------------------
(***************************************************************************)
(* What holds of the frame loop for any number of images and frames:       *)
(* nothing the program resets or hands out again is in use by the GPU, and *)
(* the image on the screen holds the frame that it was presented for.      *)
(***************************************************************************)
EXTENDS FrameLoop, SequenceTheorems, TLAPS

(* Of the state, what the argument needs; the pictures play no part in it. *)
QueuesOK ==
  /\ pc \in {"top", "render", "upload", "loaded", "stall", "present", "blit", "next", "done"}
  /\ frame \in 0..MaxFrames
  /\ image \in Images \cup {None}
  /\ general \in Queue /\ dma \in Queue
  /\ semaphore \in [Semaphores -> {"off", "pending", "on"}]
  /\ acquired \subseteq Images

(* A batch is a present, and then it only waits for the blit, or it is not;   *)
(* none signals what the engine does.                                         *)
BatchesOK ==
  /\ \A k \in DOMAIN general.submitted :
       LET b == general.submitted[k]
       IN /\ b.shows # None => b.encoders = <<>> /\ "imageAvailable" \notin b.waits
          /\ "imageAvailable" \notin b.signals
  /\ \A k \in DOMAIN dma.submitted : dma.submitted[k].shows = None

(* Scenes are with the GPU while the loop stalls, uploads while it waits for  *)
(* them; the image is awaited from its acquisition to the end of its blit,    *)
(* and no longer than to the next stall.                                      *)
UseInv ==
  /\ Draws(general) => pc = "stall"
  /\ dma.submitted # <<>> => pc = "upload"
  /\ Waits(general, "imageAvailable") => pc \notin {"present", "blit"}
  /\ semaphore["imageAvailable"] # "off" =>
       pc = "blit" \/ Waits(general, "imageAvailable")

FrameInv == QueuesOK /\ BatchesOK /\ UseInv

(* One encoder run on a queue is one more batch, which waits for what the     *)
(* encoder begins with and signals what it ends with.                         *)
LEMMA RunIsBatch ==
  ASSUME NEW q \in Queue, NEW e \in Encoder, frame \in 0..MaxFrames
  PROVE  \E b \in Batch :
           /\ Run(q, e) = [enqueued |-> <<>>, submitted |-> Append(q.submitted, b)]
           /\ b.encoders = <<e>> /\ b.shows = None
           /\ b.waits = e.begin /\ b.signals = e.end
<1> DEFINE b == BatchOf(<<e>>)
<1>1. Range(<<e>>) = {e}
  BY DEF Range
<1>2. b.waits = e.begin /\ b.signals = e.end /\ b.encoders = <<e>> /\ b.shows = None
  BY <1>1 DEF BatchOf
<1>3. b \in Batch
  BY <1>1 DEF BatchOf, Batch, Encoder
<1>4. Enqueued(q, e) = [enqueued |-> <<e>>, submitted |-> q.submitted]
  BY DEF Enqueued, Queue
<1>5. Run(q, e) = [enqueued |-> <<>>, submitted |-> Append(q.submitted, b)]
  BY <1>4 DEF Run, Submitted
<1> QED
  BY <1>2, <1>3, <1>5

(* A queue with one more batch. *)
LEMMA AppendBatch ==
  ASSUME NEW q \in Queue, NEW b \in Batch, NEW r,
         r = [enqueued |-> <<>>, submitted |-> Append(q.submitted, b)]
  PROVE  /\ r \in Queue
         /\ DOMAIN r.submitted = 1..Len(q.submitted)+1
         /\ Len(q.submitted) \in Nat
         /\ \A k \in DOMAIN q.submitted : r.submitted[k] = q.submitted[k]
         /\ r.submitted[Len(q.submitted)+1] = b
BY DEF Queue

(* A queue with the first batch gone. *)
LEMMA TailOfQueue ==
  ASSUME NEW q \in Queue, q.submitted # <<>>
  PROVE  /\ [q EXCEPT !.submitted = Tail(@)] \in Queue
         /\ [q EXCEPT !.submitted = Tail(@)].submitted = Tail(q.submitted)
         /\ Head(q.submitted) = q.submitted[1] /\ 1 \in DOMAIN q.submitted
         /\ Head(q.submitted) \in Batch
         /\ \A k \in DOMAIN Tail(q.submitted) :
              k + 1 \in DOMAIN q.submitted /\ Tail(q.submitted)[k] = q.submitted[k + 1]
         /\ \A k \in DOMAIN q.submitted : k # 1 =>
              k - 1 \in DOMAIN Tail(q.submitted) /\ Tail(q.submitted)[k - 1] = q.submitted[k]
<1>1. q.submitted \in Seq(Batch)
  BY DEF Queue
<1>2. /\ [q EXCEPT !.submitted = Tail(@)].submitted = Tail(q.submitted)
      /\ [q EXCEPT !.submitted = Tail(@)] = [enqueued |-> <<>>, submitted |-> Tail(q.submitted)]
  BY DEF Queue
<1>3. [q EXCEPT !.submitted = Tail(@)] \in Queue
  BY <1>1, <1>2, HeadTailProperties DEF Queue
<1> QED
  BY <1>1, <1>2, <1>3, HeadTailProperties

-----------------------------------------------------------------------------
(* It holds initially. *)
LEMMA FrameInit == Init => FrameInv
<1> SUFFICES ASSUME Init PROVE FrameInv
  OBVIOUS
<1>1. NewQueue \in Queue /\ NewQueue.submitted = <<>>
  BY DEF NewQueue, Queue
<1>2. QueuesOK
  BY <1>1, FrameAssumption DEF Init, QueuesOK
<1>3. BatchesOK
  BY <1>1 DEF Init, BatchesOK
<1>4. UseInv
  BY <1>1 DEF Init, UseInv, Draws, Waits, Semaphores
<1> QED
  BY <1>2, <1>3, <1>4 DEF FrameInv

(* A batch more keeps what is said of the batches, if it is one of them. *)
LEMMA AppendKeeps ==
  ASSUME NEW q \in Queue, NEW b \in Batch, NEW r,
         r = [enqueued |-> <<>>, submitted |-> Append(q.submitted, b)]
  PROVE  /\ Draws(r) <=> Draws(q) \/ \E e \in Range(b.encoders) : e.kind = "scene"
         /\ \A s : Waits(r, s) <=> Waits(q, s) \/ s \in b.waits
<1>1. /\ DOMAIN r.submitted = 1..Len(q.submitted)+1
      /\ DOMAIN q.submitted = 1..Len(q.submitted)
      /\ Len(q.submitted) \in Nat
      /\ \A k \in DOMAIN q.submitted : r.submitted[k] = q.submitted[k]
      /\ r.submitted[Len(q.submitted)+1] = b
  BY AppendBatch DEF Queue
<1> QED
  BY <1>1 DEF Draws, Waits

(* Every step of the loop, the GPU and the engine keeps it. *)
LEMMA FrameStep == FrameInv /\ [Next]_vars => FrameInv'
<1> SUFFICES ASSUME FrameInv, [Next]_vars PROVE FrameInv'
  OBVIOUS
<1> USE FrameAssumption DEF FrameInv
<1>1. CASE BeginFrame \/ NextFrame \/ AcquireFails
  <2>1. QueuesOK'
    BY <1>1 DEF BeginFrame, NextFrame, AcquireFails, QueuesOK, engineVars
  <2>2. BatchesOK'
    BY <1>1 DEF BeginFrame, NextFrame, AcquireFails, BatchesOK
  <2>3. UseInv'
    BY <1>1 DEF BeginFrame, NextFrame, AcquireFails, UseInv, Draws, Waits
  <2> QED BY <2>1, <2>2, <2>3
<1>2. CASE Upload
  <2>1. Plain("upload") \in Encoder
    BY DEF Plain, Encoder, QueuesOK
  <2>2. PICK b \in Batch : /\ dma' = [enqueued |-> <<>>, submitted |-> Append(dma.submitted, b)]
                           /\ b.shows = None
    BY <1>2, <2>1, RunIsBatch DEF Upload, QueuesOK
  <2>3. QueuesOK'
    BY <1>2, <2>2, AppendBatch DEF Upload, QueuesOK, engineVars
  <2>4. BatchesOK'
    BY <1>2, <2>2, AppendBatch DEF Upload, BatchesOK, QueuesOK
  <2>5. UseInv'
    BY <1>2 DEF Upload, UseInv, Draws, Waits
  <2> QED BY <2>3, <2>4, <2>5
<1>3. CASE Uploaded
  <2>1. dma.submitted = <<>>
    BY <1>3 DEF Uploaded, Idle, BatchesOK, QueuesOK, Queue
  <2> QED
    BY <1>3, <2>1 DEF Uploaded, QueuesOK, BatchesOK, UseInv, Draws, Waits, engineVars
<1>4. CASE SubmitScene
  <2>1. Plain("scene") \in Encoder /\ Plain("scene").begin = {} /\ Plain("scene").end = {}
    BY DEF Plain, Encoder, QueuesOK
  <2>2. PICK b \in Batch :
          /\ general' = [enqueued |-> <<>>, submitted |-> Append(general.submitted, b)]
          /\ b.shows = None /\ b.waits = {} /\ b.signals = {}
    <3>1. general \in Queue /\ frame \in 0..MaxFrames /\ general' = Run(general, Plain("scene"))
      BY <1>4 DEF SubmitScene, QueuesOK
    <3> QED
      BY <2>1, <3>1, RunIsBatch
  <2>3. QueuesOK'
    BY <1>4, <2>2, AppendBatch DEF SubmitScene, QueuesOK, engineVars
  <2>4. BatchesOK'
    BY <1>4, <2>2, AppendBatch DEF SubmitScene, BatchesOK, QueuesOK
  <2>5. UseInv'
    <3>1. \A s : Waits(general', s) <=> Waits(general, s)
      BY <2>2, AppendKeeps DEF QueuesOK
    <3> QED
      BY <1>4, <3>1 DEF SubmitScene, UseInv
  <2> QED BY <2>3, <2>4, <2>5
<1>5. CASE StallTillIdle
  <2>1. \A k \in DOMAIN general.submitted :
          /\ general.submitted[k].encoders = <<>>
          /\ "imageAvailable" \notin general.submitted[k].waits
    BY <1>5 DEF StallTillIdle, Idle, BatchesOK
  <2>2. ~Draws(general) /\ ~Waits(general, "imageAvailable")
    BY <2>1 DEF Draws, Waits, Range
  <2>3. QueuesOK' /\ BatchesOK'
    BY <1>5 DEF StallTillIdle, QueuesOK, BatchesOK, engineVars
  <2>4. UseInv'
    BY <1>5, <2>2 DEF StallTillIdle, UseInv, Draws, Waits
  <2> QED BY <2>3, <2>4
<1>6. CASE Acquire
  <2>1. QueuesOK'
    BY <1>6 DEF Acquire, QueuesOK
  <2>2. BatchesOK'
    BY <1>6 DEF Acquire, BatchesOK
  <2>3. UseInv'
    BY <1>6 DEF Acquire, UseInv, Draws, Waits
  <2> QED BY <2>1, <2>2, <2>3
<1>7. CASE BlitAndPresent
  <2> DEFINE blit == [kind |-> "blit", frame |-> frame, target |-> image,
                      begin |-> {"imageAvailable"}, end |-> {"presentComplete"}]
             present == [encoders |-> <<>>, waits |-> {"presentComplete"}, signals |-> {},
                         shows |-> image, frame |-> frame]
             run == Run(general, blit)
  <2>1. blit \in Encoder /\ present \in Batch
    BY DEF Encoder, Batch, QueuesOK, Semaphores
  <2>2. PICK b \in Batch :
          /\ run = [enqueued |-> <<>>, submitted |-> Append(general.submitted, b)]
          /\ b.encoders = <<blit>> /\ b.shows = None
          /\ b.waits = {"imageAvailable"} /\ b.signals = {"presentComplete"}
    BY <2>1, RunIsBatch DEF QueuesOK
  <2>3. general' = [enqueued |-> <<>>, submitted |-> Append(run.submitted, present)]
    <3>1. general' = [run EXCEPT !.submitted = Append(@, present)]
      BY <1>7 DEF BlitAndPresent
    <3> HIDE DEF run, present
    <3> QED
      BY <2>2, <3>1
  <2>4. run \in Queue
    BY <2>2, AppendBatch DEF QueuesOK
  <2> HIDE DEF run, present, blit
  <2>5. general' \in Queue
    BY <2>1, <2>3, <2>4, AppendBatch
  <2>6. QueuesOK'
    BY <1>7, <2>5 DEF BlitAndPresent, QueuesOK, engineVars
  <2>7. BatchesOK'
    <3>1. \A k \in DOMAIN general.submitted :
            k \in DOMAIN run.submitted /\ run.submitted[k] = general.submitted[k]
      BY <2>2, AppendBatch DEF QueuesOK, Queue
    <3>2. \A k \in DOMAIN run.submitted : k \in DOMAIN general.submitted \/ run.submitted[k] = b
      BY <2>2, AppendBatch DEF QueuesOK, Queue
    <3>3. \A k \in DOMAIN general'.submitted :
            \/ k \in DOMAIN run.submitted /\ general'.submitted[k] = run.submitted[k]
            \/ general'.submitted[k] = present
      BY <2>1, <2>3, <2>4, AppendBatch DEF Queue
    <3>4. /\ present.encoders = <<>> /\ "imageAvailable" \notin present.waits
          /\ "imageAvailable" \notin present.signals
      BY DEF present
    <3>5. dma' = dma
      BY <1>7 DEF BlitAndPresent
    <3>6. \A k \in DOMAIN general'.submitted :
            \/ k \in DOMAIN general.submitted /\ general'.submitted[k] = general.submitted[k]
            \/ general'.submitted[k] \in {b, present}
      BY <3>1, <3>2, <3>3
    <3> QED
      BY <2>2, <3>4, <3>5, <3>6 DEF BatchesOK
  <2>8. UseInv'
    <3>1. /\ Draws(run) <=> Draws(general) \/ \E e \in Range(b.encoders) : e.kind = "scene"
          /\ \A s : Waits(run, s) <=> Waits(general, s) \/ s \in b.waits
      <4>1. general \in Queue
        BY DEF QueuesOK
      <4>2. run = [enqueued |-> <<>>, submitted |-> Append(general.submitted, b)]
        BY <2>2
      <4> QED
        BY <4>1, <4>2, AppendKeeps
    <3>2. /\ Draws(general') <=>
               Draws(run) \/ \E e \in Range(present.encoders) : e.kind = "scene"
          /\ \A s : Waits(general', s) <=> Waits(run, s) \/ s \in present.waits
      BY <2>1, <2>3, <2>4, AppendKeeps
    <3>3. ~ \E e \in Range(b.encoders) : e.kind = "scene"
      BY <2>2 DEF Range, blit
    <3>4. ~ \E e \in Range(present.encoders) : e.kind = "scene"
      BY DEF Range, present
    <3>5. Waits(general', "imageAvailable")
      BY <2>2, <3>1, <3>2
    <3> QED
      BY <1>7, <3>1, <3>2, <3>3, <3>4, <3>5 DEF BlitAndPresent, UseInv
  <2> QED BY <2>6, <2>7, <2>8
<1>8. CASE Execute
  <2> DEFINE batch == Head(general.submitted)
  <2>1. general' = [general EXCEPT !.submitted = Tail(@)] /\ general.submitted # <<>>
    BY <1>8 DEF Execute
  <2>2. /\ general' \in Queue
        /\ batch = general.submitted[1] /\ 1 \in DOMAIN general.submitted /\ batch \in Batch
        /\ \A k \in DOMAIN general'.submitted :
             /\ k + 1 \in DOMAIN general.submitted
             /\ general'.submitted[k] = general.submitted[k + 1]
        /\ \A k \in DOMAIN general.submitted : k # 1 =>
             k - 1 \in DOMAIN general'.submitted
             /\ general'.submitted[k - 1] = general.submitted[k]
    <3>1. general \in Queue
      BY DEF QueuesOK
    <3>2. general'.submitted = Tail(general.submitted) /\ general' \in Queue
      BY <2>1, <3>1, TailOfQueue
    <3> QED
      BY <2>1, <3>1, <3>2, TailOfQueue
  <2>3. semaphore' = [s \in Semaphores |->
             IF s \in batch.signals THEN "on"
             ELSE IF s \in batch.waits THEN "off" ELSE semaphore[s]]
    BY <1>8 DEF Execute
  <2> HIDE DEF batch
  <2>4. QueuesOK'
    BY <1>8, <2>2, <2>3 DEF Execute, QueuesOK, loopVars
  <2>5. BatchesOK'
    BY <1>8, <2>2 DEF Execute, BatchesOK
  <2>6. UseInv'
    <3>1. Draws(general') => Draws(general)
      BY <2>2 DEF Draws
    <3>2. Waits(general', "imageAvailable") => Waits(general, "imageAvailable")
      BY <2>2 DEF Waits
    <3>3. /\ "imageAvailable" \notin batch.signals
          /\ semaphore'["imageAvailable"] =
               IF "imageAvailable" \in batch.waits THEN "off" ELSE semaphore["imageAvailable"]
      BY <2>2, <2>3 DEF BatchesOK, Semaphores
    <3>4. Waits(general, "imageAvailable") /\ "imageAvailable" \notin batch.waits
            => Waits(general', "imageAvailable")
      BY <2>2 DEF Waits
    <3> QED
      BY <1>8, <3>1, <3>2, <3>3, <3>4 DEF Execute, UseInv, loopVars
  <2> QED BY <2>4, <2>5, <2>6
<1>9. CASE ExecuteUpload
  <2>1. /\ dma' \in Queue
        /\ \A k \in DOMAIN dma'.submitted :
             k + 1 \in DOMAIN dma.submitted /\ dma'.submitted[k] = dma.submitted[k + 1]
    <3>1. dma \in Queue /\ dma.submitted # <<>> /\ dma' = [dma EXCEPT !.submitted = Tail(@)]
      BY <1>9 DEF ExecuteUpload, QueuesOK
    <3>2. dma'.submitted = Tail(dma.submitted) /\ dma' \in Queue
      BY <3>1, TailOfQueue
    <3> QED
      BY <3>1, <3>2, TailOfQueue
  <2>2. QueuesOK'
    BY <1>9, <2>1 DEF ExecuteUpload, QueuesOK, loopVars, engineVars
  <2>3. BatchesOK'
    BY <1>9, <2>1 DEF ExecuteUpload, BatchesOK
  <2>4. UseInv'
    BY <1>9 DEF ExecuteUpload, UseInv, Draws, Waits, loopVars
  <2> QED BY <2>2, <2>3, <2>4
<1>10. CASE Show \/ ImageAvailable
  <2>1. QueuesOK'
    BY <1>10 DEF Show, ImageAvailable, QueuesOK, loopVars, engineVars
  <2>2. BatchesOK'
    BY <1>10 DEF Show, ImageAvailable, BatchesOK
  <2>3. UseInv'
    BY <1>10 DEF Show, ImageAvailable, UseInv, Draws, Waits, loopVars
  <2> QED BY <2>1, <2>2, <2>3
<1>11. CASE UNCHANGED vars
  BY <1>11 DEF QueuesOK, BatchesOK, UseInv, Draws, Waits, vars, loopVars, engineVars
<1> QED
  BY <1>1, <1>2, <1>3, <1>4, <1>5, <1>6, <1>7, <1>8, <1>9, <1>10, <1>11
  DEF Next, Loop, Terminated

(* replayapp.cpp 214-253, device.cpp 832-835, display.cpp 104-108: whatever   *)
(* the GPU has not come to yet, the program resets no pool, overwrites no     *)
(* globals and hands out no semaphore that it still uses, for any number of   *)
(* images and frames.                                                         *)
THEOREM NothingIsInUse == Spec => []NothingInUse
<1>1. FrameInv => NothingInUse
  BY DEF FrameInv, UseInv, NothingInUse
<1> QED
  BY <1>1, FrameInit, FrameStep, PTL DEF Spec

-----------------------------------------------------------------------------
(* What the GPU does with a batch *)

LEMMA MaxOfOne == ASSUME NEW n \in Int PROVE Max({n}) = n
<1>1. n \in {n} /\ \A y \in {n} : n >= y
  OBVIOUS
<1> QED
  BY <1>1 DEF Max

LEMMA AfterNone ==
  ASSUME NEW encoders, encoders = <<>>, held \in [Images -> 0..MaxFrames]
  PROVE  PictureAfter(encoders, Len(encoders)) = picture /\ HeldAfter(encoders) = held
<1>1. Len(encoders) = 0 /\ DOMAIN encoders = {} /\ 1..0 = {}
  OBVIOUS
<1>2. PictureAfter(encoders, Len(encoders)) = picture
  BY <1>1 DEF PictureAfter
<1>3. HeldAfter(encoders) = [i \in Images |-> held[i]]
  BY <1>1 DEF HeldAfter
<1> QED
  BY <1>2, <1>3

LEMMA AfterOne ==
  ASSUME NEW e
  PROVE  /\ PictureAfter(<<e>>, Len(<<e>>)) = IF e.kind = "scene" THEN e.frame ELSE picture
         /\ HeldAfter(<<e>>) =
              [i \in Images |-> IF e.kind = "blit" /\ e.target = i THEN picture ELSE held[i]]
<1>0. PICK encoders : encoders = <<e>>
  OBVIOUS
<1>1. Len(encoders) = 1 /\ DOMAIN encoders = {1} /\ 1..1 = {1} /\ encoders[1] = e
  BY <1>0
<1>2. Max({1}) = 1
  BY MaxOfOne
<1>3. PictureAfter(encoders, 1) = IF e.kind = "scene" THEN e.frame ELSE picture
  <2>1. CASE e.kind = "scene"
    <3>1. {k \in 1..1 : encoders[k].kind = "scene"} = {1}
      BY <1>1, <2>1
    <3> QED
      BY <1>1, <1>2, <2>1, <3>1 DEF PictureAfter
  <2>2. CASE e.kind # "scene"
    <3>1. {k \in 1..1 : encoders[k].kind = "scene"} = {}
      BY <1>1, <2>2
    <3> QED
      BY <2>2, <3>1 DEF PictureAfter
  <2> QED
    BY <2>1, <2>2
<1>4. ASSUME NEW i \in Images
      PROVE  HeldAfter(encoders)[i] = IF e.kind = "blit" /\ e.target = i THEN picture
                                      ELSE held[i]
  <2> DEFINE blits == {k \in DOMAIN encoders :
                         encoders[k].kind = "blit" /\ encoders[k].target = i}
  <2>1. HeldAfter(encoders)[i] = IF blits = {} THEN held[i]
                                 ELSE PictureAfter(encoders, Max(blits))
    BY DEF HeldAfter
  <2>2. CASE e.kind = "blit" /\ e.target = i
    <3>1. blits = {1}
      BY <1>1, <2>2
    <3> HIDE DEF blits
    <3> QED
      BY <1>2, <1>3, <2>1, <2>2, <3>1
  <2>3. CASE ~(e.kind = "blit" /\ e.target = i)
    <3>1. blits = {}
      BY <1>1, <2>3
    <3> QED
      BY <2>1, <2>3, <3>1
  <2> QED
    BY <2>2, <2>3
<1>5. HeldAfter(encoders) = [i \in Images |-> HeldAfter(encoders)[i]]
  BY DEF HeldAfter
<1>6. HeldAfter(encoders) =
        [i \in Images |-> IF e.kind = "blit" /\ e.target = i THEN picture ELSE held[i]]
  BY <1>4, <1>5
<1>7. PictureAfter(encoders, Len(encoders)) = IF e.kind = "scene" THEN e.frame ELSE picture
  BY <1>1, <1>3
<1> QED
  BY <1>0, <1>6, <1>7, Zenon

-----------------------------------------------------------------------------
(* The pictures *)

(* A batch that draws the scene, or one that copies the picture to an image. *)
DrawsScene(b) == \E e \in Range(b.encoders) : e.kind = "scene"
Blits(b) == \E e \in Range(b.encoders) : e.kind = "blit"

(* The pictures; and a batch has one encoder, or is a present and has none. *)
PicturesOK ==
  /\ picture \in 0..MaxFrames /\ held \in [Images -> 0..MaxFrames]
  /\ presented \in Seq([image : Images, frame : 0..MaxFrames])
  /\ onScreen \in [image : Images \cup {None}, frame : 0..MaxFrames]
  /\ \A k \in DOMAIN general.submitted :
       LET b == general.submitted[k]
       IN b.encoders = <<>> \/ \E e \in Encoder : b.encoders = <<e>>

(* Scenes with the GPU are those of the frame the loop is at; when the loop   *)
(* presents, colourRT0 holds its frame.                                       *)
PictureInv ==
  /\ \A k \in DOMAIN general.submitted :
       \A e \in Range(general.submitted[k].encoders) : e.kind = "scene" => e.frame = frame
  /\ pc = "stall" => Draws(general) \/ picture = frame
  /\ pc \in {"present", "blit"} => picture = frame

(* The images on their way to the screen, each once, are the program's. *)
FlightInv ==
  LET B == general.submitted
  IN  /\ \A k \in DOMAIN B : B[k].shows # None =>
           /\ B[k].shows \in acquired
           /\ pc = "blit" => B[k].shows # image
           /\ \A j \in DOMAIN B : B[j].shows = B[k].shows => j = k
           /\ \A j \in DOMAIN presented : presented[j].image # B[k].shows
      /\ \A k \in DOMAIN presented :
           /\ presented[k].image \in acquired
           /\ pc = "blit" => presented[k].image # image
           /\ \A j \in DOMAIN presented : presented[j].image = presented[k].image => j = k
      /\ pc = "blit" => image \in acquired

(* The blit of the image acquired last waits for it, comes before its present *)
(* and after no scene; the image is not on the screen by then.                *)
BlitInv ==
  /\ \A k \in DOMAIN general.submitted :
       LET B == general.submitted
       IN  /\ "imageAvailable" \in B[k].waits => Blits(B[k])
           /\ Blits(B[k]) =>
               /\ \A e \in Range(B[k].encoders) : e.target = image
               /\ "imageAvailable" \in B[k].waits
               /\ image # None
               /\ k + 1 \in DOMAIN B /\ B[k+1].shows = image /\ B[k+1].frame = picture
               /\ \A j \in 1..k-1 : ~DrawsScene(B[j])
  /\ semaphore["imageAvailable"] = "on" => onScreen.image # image

(* An image on its way, whose blit is not, holds the frame it is shown for. *)
HeldInv ==
  LET B == general.submitted
  IN  /\ \A k \in DOMAIN B :
           B[k].shows # None /\ ~(k > 1 /\ Blits(B[k-1])) => held[B[k].shows] = B[k].frame
      /\ \A k \in DOMAIN presented : held[presented[k].image] = presented[k].frame
      /\ ShowsTheFrame

ScreenInv == PicturesOK /\ PictureInv /\ FlightInv /\ BlitInv /\ HeldInv

LEMMA ScreenInit == Init => ScreenInv
<1> SUFFICES ASSUME Init PROVE ScreenInv
  OBVIOUS
<1>1. general.submitted = <<>> /\ presented = <<>>
  BY DEF Init, NewQueue
<1>2. onScreen.image = None /\ onScreen.frame = 0 /\ pc = "top"
      /\ semaphore["imageAvailable"] = "off"
  BY DEF Init, Semaphores
<1>3. PicturesOK
  BY <1>1, FrameAssumption DEF Init, PicturesOK
<1> QED
  BY <1>1, <1>2, <1>3
  DEF ScreenInv, PictureInv, FlightInv, BlitInv, HeldInv, ShowsTheFrame

LEMMA SubmitSceneScreen ==
  ASSUME FrameInv, ScreenInv, SubmitScene
  PROVE  ScreenInv'
<1>1. /\ pc \in {"render", "loaded"} /\ pc' = "stall"
      /\ general' = Run(general, Plain("scene"))
      /\ UNCHANGED <<frame, image, semaphore, picture, held, acquired, presented, onScreen>>
  BY DEF SubmitScene, imageVars, engineVars
<1>2. PICK e \in Encoder : e = Plain("scene") /\ e.kind = "scene" /\ e.frame = frame
  <2>1. frame \in 0..MaxFrames
    BY DEF FrameInv, QueuesOK
  <2>2. Plain("scene") \in Encoder
    BY <2>1 DEF Plain, Encoder
  <2>3. Plain("scene").kind = "scene" /\ Plain("scene").frame = frame
    BY DEF Plain
  <2> QED
    BY <2>2, <2>3
<1>3. PICK b \in Batch : /\ general'.submitted = Append(general.submitted, b)
                         /\ b.encoders = <<e>> /\ b.shows = None /\ b.waits = {}
  <2>1. general \in Queue /\ frame \in 0..MaxFrames
    BY DEF FrameInv, QueuesOK
  <2>2. PICK b \in Batch :
          /\ Run(general, e) = [enqueued |-> <<>>, submitted |-> Append(general.submitted, b)]
          /\ b.encoders = <<e>> /\ b.shows = None /\ b.waits = e.begin
    BY <2>1, RunIsBatch
  <2>3. e.begin = {}
    BY <1>2 DEF Plain
  <2> QED
    BY <1>1, <1>2, <2>2, <2>3
<1>4. PICK n \in Nat :
        /\ DOMAIN general.submitted = 1..n /\ DOMAIN general'.submitted = 1..n+1
        /\ \A k \in 1..n : general'.submitted[k] = general.submitted[k]
        /\ general'.submitted[n+1] = b
  <2>1. general.submitted \in Seq(Batch)
    BY DEF FrameInv, QueuesOK, Queue
  <2> QED
    BY <1>3, <2>1
<1>5. \A x : x \in Range(b.encoders) <=> x = e
  BY <1>3 DEF Range
<1>6. \A k \in 1..n+1 : k \in 1..n \/ k = n + 1
  OBVIOUS
<1> USE DEF ScreenInv
<1>7. PicturesOK'
  <2>1. ASSUME NEW k \in 1..n+1
        PROVE  LET c == general'.submitted[k]
               IN  c.encoders = <<>> \/ \E x \in Encoder : c.encoders = <<x>>
    <3>1. CASE k \in 1..n
      BY <1>4, <3>1 DEF PicturesOK
    <3>2. CASE k = n + 1
      BY <1>3, <1>4, <3>2
    <3> QED
      BY <1>6, <3>1, <3>2
  <2> QED
    BY <1>1, <1>4, <2>1 DEF PicturesOK
<1>8. PictureInv'
  <2>1. \A k \in 1..n+1 :
          \A x \in Range(general'.submitted[k].encoders) : x.kind = "scene" => x.frame = frame
    BY <1>2, <1>4, <1>5, <1>6 DEF PictureInv
  <2>2. Draws(general)'
    BY <1>2, <1>4, <1>5 DEF Draws
  <2> QED
    BY <1>1, <1>4, <2>1, <2>2 DEF PictureInv
<1>9. FlightInv'
  <2>1. ASSUME NEW k \in 1..n+1, general'.submitted[k].shows # None
        PROVE  /\ general'.submitted[k].shows \in acquired
               /\ \A j \in 1..n+1 :
                    general'.submitted[j].shows = general'.submitted[k].shows => j = k
               /\ \A j \in DOMAIN presented : presented[j].image # general'.submitted[k].shows
    <3>1. k \in 1..n
      BY <1>3, <1>4, <1>6, <2>1
    <3>2. \A j \in 1..n+1 :
            general'.submitted[j].shows = general'.submitted[k].shows => j \in 1..n
      BY <1>3, <1>4, <1>6, <2>1
    <3> QED
      BY <1>4, <2>1, <3>1, <3>2 DEF FlightInv
  <2>2. \A k \in DOMAIN presented :
          /\ presented[k].image \in acquired
          /\ \A j \in DOMAIN presented : presented[j].image = presented[k].image => j = k
    BY DEF FlightInv
  <2> QED
    BY <1>1, <1>4, <2>1, <2>2 DEF FlightInv
<1>10. BlitInv'
  <2>1. ~Blits(b)
    BY <1>2, <1>5 DEF Blits
  <2>2. \A k \in 1..n : k + 1 \in 1..n => k + 1 \in 1..n+1
    OBVIOUS
  <2>3. \A k \in 1..n : \A j \in 1..k-1 : j \in 1..n
    OBVIOUS
  <2>4. ASSUME NEW k \in 1..n+1, Blits(general'.submitted[k])
        PROVE  /\ \A x \in Range(general'.submitted[k].encoders) : x.target = image
               /\ "imageAvailable" \in general'.submitted[k].waits
               /\ image # None
               /\ k + 1 \in 1..n+1 /\ general'.submitted[k+1].shows = image
               /\ general'.submitted[k+1].frame = picture
               /\ \A j \in 1..k-1 : ~DrawsScene(general'.submitted[j])
    <3>1. k \in 1..n /\ Blits(general.submitted[k])
      BY <1>4, <1>6, <2>1, <2>4
    <3> QED
      BY <1>4, <2>2, <2>3, <3>1 DEF BlitInv
  <2>5. \A k \in 1..n+1 : "imageAvailable" \in general'.submitted[k].waits
          => Blits(general'.submitted[k])
    BY <1>3, <1>4, <1>6 DEF BlitInv
  <2> QED
    BY <1>1, <1>4, <2>4, <2>5 DEF BlitInv
<1>11. HeldInv'
  <2>1. ASSUME NEW k \in 1..n+1, general'.submitted[k].shows # None,
               ~(k > 1 /\ Blits(general'.submitted[k-1]))
        PROVE  held[general'.submitted[k].shows] = general'.submitted[k].frame
    <3>1. k \in 1..n /\ (k > 1 => k-1 \in 1..n)
      BY <1>3, <1>4, <1>6, <2>1
    <3> QED
      BY <1>4, <2>1, <3>1 DEF HeldInv
  <2> QED
    BY <1>1, <1>4, <2>1 DEF HeldInv, ShowsTheFrame
<1> QED
  BY <1>7, <1>8, <1>9, <1>10, <1>11

LEMMA AcquireScreen ==
  ASSUME FrameInv, ScreenInv, Acquire
  PROVE  ScreenInv'
<1>1. PICK i \in Images \ acquired : image' = i /\ acquired' = acquired \cup {i}
  BY DEF Acquire
<1>2. /\ pc = "present" /\ pc' = "blit"
      /\ semaphore' = [semaphore EXCEPT !["imageAvailable"] = "pending"]
      /\ UNCHANGED <<frame, general, picture, held, presented, onScreen>>
  BY DEF Acquire, imageVars
<1>3. \A k \in DOMAIN general.submitted : ~Blits(general.submitted[k])
  BY <1>2 DEF FrameInv, UseInv, Waits, ScreenInv, BlitInv
<1>4. semaphore'["imageAvailable"] = "pending"
  BY <1>2 DEF FrameInv, QueuesOK, Semaphores
<1> USE DEF ScreenInv
<1>5. PicturesOK' /\ PictureInv'
  BY <1>2 DEF PicturesOK, PictureInv, Draws
<1>6. FlightInv'
  BY <1>1, <1>2 DEF FlightInv
<1>7. BlitInv'
  BY <1>2, <1>3, <1>4 DEF BlitInv
<1>8. HeldInv'
  BY <1>2 DEF HeldInv, ShowsTheFrame
<1> QED
  BY <1>5, <1>6, <1>7, <1>8

LEMMA BlitAndPresentScreen ==
  ASSUME FrameInv, ScreenInv, BlitAndPresent
  PROVE  ScreenInv'
<1>1. /\ pc = "blit" /\ pc' = "next"
      /\ UNCHANGED <<frame, image, semaphore, picture, held, acquired, presented, onScreen>>
  BY DEF BlitAndPresent, imageVars, engineVars
<1>2. PICK e \in Encoder :
        e = [kind |-> "blit", frame |-> frame, target |-> image,
             begin |-> {"imageAvailable"}, end |-> {"presentComplete"}]
  BY DEF Encoder, FrameInv, QueuesOK, Semaphores
<1>3. PICK p \in Batch :
        p = [encoders |-> <<>>, waits |-> {"presentComplete"}, signals |-> {},
             shows |-> image, frame |-> frame]
  <2>1. frame \in 0..MaxFrames /\ image \in Images \cup {None}
    BY DEF FrameInv, QueuesOK
  <2>2. <<>> \in Seq(Encoder) /\ {"presentComplete"} \subseteq Semaphores
    BY DEF Semaphores
  <2> QED
    BY <2>1, <2>2 DEF Batch
<1>4. general' = [Run(general, e) EXCEPT !.submitted = Append(@, p)]
  BY <1>2, <1>3 DEF BlitAndPresent
<1>5. PICK b \in Batch :
        /\ Run(general, e) = [enqueued |-> <<>>, submitted |-> Append(general.submitted, b)]
        /\ b.encoders = <<e>> /\ b.shows = None /\ b.waits = e.begin
  BY RunIsBatch DEF FrameInv, QueuesOK
<1>6. general'.submitted = Append(Append(general.submitted, b), p)
  BY <1>4, <1>5
<1>7. PICK n \in Nat :
        /\ DOMAIN general.submitted = 1..n /\ DOMAIN general'.submitted = 1..n+2
        /\ \A k \in 1..n : general'.submitted[k] = general.submitted[k]
        /\ general'.submitted[n+1] = b /\ general'.submitted[n+2] = p
  <2>1. general.submitted \in Seq(Batch)
    BY DEF FrameInv, QueuesOK, Queue
  <2>2. PICK B \in Seq(Batch) : B = Append(general.submitted, b)
    BY <2>1, AppendProperties
  <2>3. PICK n \in Nat : n = Len(general.submitted)
    BY <2>1
  <2>4. /\ DOMAIN general.submitted = 1..n /\ Len(B) = n + 1
        /\ \A k \in 1..n : B[k] = general.submitted[k]
        /\ B[n+1] = b
    BY <2>1, <2>2, <2>3
  <2>5. general'.submitted = Append(B, p)
    BY <1>6, <2>2
  <2>6. Len(general'.submitted) = n + 2 /\ DOMAIN general'.submitted = 1..n+2
    BY <2>2, <2>4, <2>5
  <2>7. \A k \in 1..n+1 : general'.submitted[k] = B[k]
    BY <2>2, <2>4, <2>5
  <2>8. general'.submitted[n+2] = p
    BY <2>2, <2>4, <2>5
  <2>9. \A k \in 1..n : general'.submitted[k] = general.submitted[k]
    BY <2>4, <2>7
  <2>10. general'.submitted[n+1] = b
    BY <2>4, <2>7
  <2> QED
    BY <2>4, <2>6, <2>8, <2>9, <2>10
<1>8. \A k \in 1..n+2 : k \in 1..n \/ k = n + 1 \/ k = n + 2
  OBVIOUS
<1>9. /\ \A x : x \in Range(b.encoders) <=> x = e
      /\ \A x : x \notin Range(p.encoders)
      /\ e.kind = "blit" /\ e.target = image /\ b.waits = {"imageAvailable"}
      /\ p.encoders = <<>> /\ p.shows = image /\ p.frame = frame
  <2>1. \A x : x \in Range(b.encoders) <=> x = e
    BY <1>5 DEF Range
  <2>2. e.kind = "blit" /\ e.target = image /\ b.waits = {"imageAvailable"}
    BY <1>2, <1>5
  <2>3. p.encoders = <<>> /\ p.shows = image /\ p.frame = frame
    BY <1>3
  <2>4. \A x : x \notin Range(p.encoders)
    BY <2>3 DEF Range
  <2> QED
    BY <2>1, <2>2, <2>3, <2>4
<1>10. ~Draws(general) /\ \A k \in 1..n : ~Blits(general.submitted[k])
  BY <1>1, <1>7 DEF FrameInv, UseInv, Waits, ScreenInv, BlitInv
<1>11. image # None
  BY <1>1, FrameAssumption DEF ScreenInv, FlightInv, FrameInv, QueuesOK
<1>12. picture = frame
  BY <1>1 DEF ScreenInv, PictureInv
<1> USE DEF ScreenInv
<1>13. PicturesOK'
  <2>1. ASSUME NEW k \in 1..n+2
        PROVE  LET c == general'.submitted[k]
               IN  c.encoders = <<>> \/ \E x \in Encoder : c.encoders = <<x>>
    <3>1. CASE k \in 1..n
      BY <1>7, <3>1 DEF PicturesOK
    <3>2. CASE k = n + 1
      BY <1>5, <1>7, <3>2
    <3>3. CASE k = n + 2
      BY <1>7, <1>9, <3>3
    <3> QED
      BY <1>8, <3>1, <3>2, <3>3
  <2> QED
    BY <1>1, <1>7, <2>1 DEF PicturesOK
<1>14. PictureInv'
  <2>1. \A k \in 1..n+2 :
          \A x \in Range(general'.submitted[k].encoders) : x.kind = "scene" => x.frame = frame
    BY <1>7, <1>8, <1>9 DEF PictureInv
  <2> QED
    BY <1>1, <1>7, <2>1 DEF PictureInv
<1>15. FlightInv'
  <2>1. /\ image \in acquired
        /\ \A k \in 1..n : general.submitted[k].shows # image
        /\ \A k \in DOMAIN presented : presented[k].image # image
    BY <1>1, <1>7, <1>11 DEF FlightInv
  <2>2. ASSUME NEW k \in 1..n+2, general'.submitted[k].shows # None
        PROVE  /\ general'.submitted[k].shows \in acquired
               /\ \A j \in 1..n+2 :
                    general'.submitted[j].shows = general'.submitted[k].shows => j = k
               /\ \A j \in DOMAIN presented : presented[j].image # general'.submitted[k].shows
    <3>1. k # n + 1
      BY <1>5, <1>7, <2>2
    <3>2. CASE k \in 1..n
      <4>1. \A j \in 1..n+2 :
              general'.submitted[j].shows = general'.submitted[k].shows => j \in 1..n
        BY <1>5, <1>7, <1>8, <1>9, <2>1, <2>2, <3>2
      <4> QED
        BY <1>7, <2>2, <3>2, <4>1 DEF FlightInv
    <3>3. CASE k = n + 2
      BY <1>5, <1>7, <1>8, <1>9, <1>11, <2>1, <3>3
    <3> QED
      BY <1>8, <3>1, <3>2, <3>3
  <2> QED
    BY <1>1, <1>7, <2>2 DEF FlightInv
<1>16. BlitInv'
  <2>1. ASSUME NEW k \in 1..n+2, Blits(general'.submitted[k]) PROVE k = n + 1
    BY <1>7, <1>8, <1>9, <1>10, <2>1 DEF Blits
  <2>2. ASSUME NEW k \in 1..n+2, k = n + 1
        PROVE  /\ \A x \in Range(general'.submitted[k].encoders) : x.target = image
               /\ "imageAvailable" \in general'.submitted[k].waits
               /\ image # None
               /\ k + 1 \in 1..n+2 /\ general'.submitted[k+1].shows = image
               /\ general'.submitted[k+1].frame = picture
               /\ \A j \in 1..k-1 : ~DrawsScene(general'.submitted[j])
    <3>1. k + 1 = n + 2 /\ k + 1 \in 1..n+2 /\ \A j \in 1..k-1 : j \in 1..n
      BY <2>2
    <3>2. \A j \in 1..n : ~DrawsScene(general'.submitted[j])
      BY <1>7, <1>10 DEF Draws, DrawsScene
    <3> QED
      BY <1>7, <1>9, <1>11, <1>12, <2>2, <3>1, <3>2
  <2>3. \A k \in 1..n+2 : "imageAvailable" \in general'.submitted[k].waits
          => Blits(general'.submitted[k])
    <3>1. Blits(b) /\ "imageAvailable" \notin p.waits
      BY <1>3, <1>9 DEF Blits
    <3> QED
      BY <1>7, <1>8, <3>1 DEF BlitInv
  <2> QED
    BY <1>1, <1>7, <2>1, <2>2, <2>3 DEF BlitInv
<1>17. HeldInv'
  <2>1. ASSUME NEW k \in 1..n+2, general'.submitted[k].shows # None,
               ~(k > 1 /\ Blits(general'.submitted[k-1]))
        PROVE  held[general'.submitted[k].shows] = general'.submitted[k].frame
    <3>1. k # n + 1
      BY <1>5, <1>7, <2>1
    <3>2. k # n + 2
      <4>1. Blits(general'.submitted[n+1])
        BY <1>7, <1>9 DEF Blits
      <4> QED
        BY <2>1, <4>1
    <3>3. k \in 1..n /\ (k > 1 => k-1 \in 1..n)
      BY <1>8, <3>1, <3>2
    <3> QED
      BY <1>7, <2>1, <3>3 DEF HeldInv
  <2> QED
    BY <1>1, <1>7, <2>1 DEF HeldInv, ShowsTheFrame
<1> QED
  BY <1>13, <1>14, <1>15, <1>16, <1>17

LEMMA ExecuteScreen ==
  ASSUME FrameInv, ScreenInv, Execute
  PROVE  ScreenInv'
<1>1. /\ general.submitted # <<>> /\ Ready(Head(general.submitted))
      /\ general' = [general EXCEPT !.submitted = Tail(@)]
      /\ UNCHANGED <<pc, frame, image, acquired, onScreen>>
  BY DEF Execute, loopVars
<1>2. PICK batch \in Batch : batch = Head(general.submitted)
  <2>1. general \in Queue
    BY DEF FrameInv, QueuesOK
  <2> QED
    BY <1>1, <2>1, TailOfQueue
<1>3. /\ picture' = PictureAfter(batch.encoders, Len(batch.encoders))
      /\ held' = HeldAfter(batch.encoders)
      /\ semaphore' = [s \in Semaphores |->
           IF s \in batch.signals THEN "on"
           ELSE IF s \in batch.waits THEN "off" ELSE semaphore[s]]
      /\ presented' = IF batch.shows = None THEN presented
                      ELSE Append(presented, [image |-> batch.shows, frame |-> batch.frame])
      /\ \A s \in batch.waits : semaphore[s] = "on"
  BY <1>1, <1>2 DEF Execute, Ready
<1>4. PICK n \in Nat :
        /\ DOMAIN general.submitted = 1..n+1 /\ DOMAIN general'.submitted = 1..n
        /\ \A k \in 1..n : general'.submitted[k] = general.submitted[k+1]
        /\ general.submitted[1] = batch
  <2>1. general.submitted \in Seq(Batch) /\ general'.submitted = Tail(general.submitted)
    BY <1>1 DEF FrameInv, QueuesOK, Queue
  <2>2. PICK m \in Nat : Len(general.submitted) = m + 1
    <3>1. Len(general.submitted) \in Nat \ {0}
      BY <1>1, <2>1, EmptySeq
    <3>2. Len(general.submitted) = (Len(general.submitted) - 1) + 1
          /\ Len(general.submitted) - 1 \in Nat
      BY <3>1
    <3> QED
      BY <3>2
  <2>3. Len(general'.submitted) = m /\ general'.submitted \in Seq(Batch)
    BY <1>1, <2>1, <2>2, HeadTailProperties
  <2>4. \A k \in 1..m : general'.submitted[k] = general.submitted[k+1]
    BY <1>1, <2>1, <2>2
  <2>5. general.submitted[1] = batch
    BY <1>2, <2>1
  <2> QED
    BY <2>1, <2>2, <2>3, <2>4, <2>5
<1>5. /\ 1 \in 1..n+1
      /\ \A k \in 1..n : k+1 \in 1..n+1 /\ (k > 1 => k-1 \in 1..n /\ k-1+1 = k)
  OBVIOUS
<1> USE DEF ScreenInv
<1>6. \/ picture' = picture /\ held' = held /\ ~Blits(batch) /\ ~DrawsScene(batch)
      \/ /\ picture' = frame /\ held' = held /\ ~Blits(batch) /\ DrawsScene(batch)
         /\ batch.encoders # <<>>
      \/ /\ picture' = picture /\ ~DrawsScene(batch) /\ batch.encoders # <<>>
         /\ held' = [i \in Images |-> IF i = image THEN picture ELSE held[i]]
         /\ Blits(batch)
  <2>1. CASE batch.encoders = <<>>
    <3>1. picture' = picture /\ held' = held
      BY <1>3, <2>1, AfterNone DEF PicturesOK
    <3>2. ~Blits(batch) /\ ~DrawsScene(batch)
      BY <2>1 DEF Blits, DrawsScene, Range
    <3> QED
      BY <3>1, <3>2
  <2>2. CASE \E e \in Encoder : batch.encoders = <<e>>
    <3>1. PICK e \in Encoder : batch.encoders = <<e>>
      BY <2>2
    <3>2. /\ picture' = IF e.kind = "scene" THEN e.frame ELSE picture
          /\ held' = [i \in Images |-> IF e.kind = "blit" /\ e.target = i THEN picture
                                       ELSE held[i]]
      <4>1. /\ PictureAfter(<<e>>, Len(<<e>>)) = IF e.kind = "scene" THEN e.frame ELSE picture
            /\ HeldAfter(<<e>>) =
                 [i \in Images |-> IF e.kind = "blit" /\ e.target = i THEN picture
                                   ELSE held[i]]
        BY AfterOne
      <4>2. /\ PictureAfter(batch.encoders, Len(batch.encoders)) =
                 PictureAfter(<<e>>, Len(<<e>>))
            /\ HeldAfter(batch.encoders) = HeldAfter(<<e>>)
        BY <3>1, Zenon
      <4>3. picture' = PictureAfter(<<e>>, Len(<<e>>)) /\ held' = HeldAfter(<<e>>)
        BY <1>3, <4>2, Zenon
      <4> QED
        BY <4>1, <4>3, Zenon
    <3>3. /\ Blits(batch) <=> e.kind = "blit"
          /\ DrawsScene(batch) <=> e.kind = "scene"
      BY <3>1 DEF Blits, DrawsScene, Range
    <3>4. held = [i \in Images |-> held[i]]
      BY DEF PicturesOK
    <3>5. e.kind = "scene" => e.frame = frame
      BY <1>4, <1>5, <3>1 DEF PictureInv, Range
    <3>6. e.kind = "blit" => e.target = image
      BY <1>4, <1>5, <3>1, <3>3 DEF BlitInv, Range
    <3>7. batch.encoders # <<>>
      BY <3>1
    <3>8. CASE e.kind = "scene"
      <4>1. held' = [i \in Images |-> held[i]]
        BY <3>2, <3>8
      <4> QED
        BY <3>2, <3>3, <3>4, <3>5, <3>7, <3>8, <4>1
    <3>9. CASE e.kind = "blit"
      <4>1. held' = [i \in Images |-> IF i = image THEN picture ELSE held[i]]
        BY <3>2, <3>6, <3>9
      <4> QED
        BY <3>2, <3>3, <3>7, <3>9, <4>1
    <3>10. CASE e.kind # "scene" /\ e.kind # "blit"
      <4>1. held' = [i \in Images |-> held[i]]
        BY <3>2, <3>10
      <4> QED
        BY <3>2, <3>3, <3>4, <3>10, <4>1
    <3> QED
      BY <3>8, <3>9, <3>10
  <2> QED
    BY <1>4, <1>5, <2>1, <2>2 DEF PicturesOK
<1>7. batch.shows # None => batch.encoders = <<>>
  BY <1>4, <1>5 DEF FrameInv, BatchesOK
<1>8. Blits(batch) => /\ image # None /\ image \in Images
                      /\ 2 \in 1..n+1 /\ general.submitted[2].shows = image
                      /\ general.submitted[2].frame = picture
                      /\ semaphore["imageAvailable"] = "on"
  <2> SUFFICES ASSUME Blits(batch) PROVE
                      /\ image # None
                      /\ 2 \in 1..n+1 /\ general.submitted[2].shows = image
                      /\ general.submitted[2].frame = picture
                      /\ semaphore["imageAvailable"] = "on"
    BY DEF FrameInv, QueuesOK
  <2>1. /\ "imageAvailable" \in batch.waits /\ image # None
        /\ 1 + 1 \in 1..n+1 /\ general.submitted[1+1].shows = image
        /\ general.submitted[1+1].frame = picture
    BY <1>4, <1>5 DEF BlitInv
  <2> QED
    BY <1>3, <2>1
<1>9. PICK m \in Nat :
         /\ DOMAIN presented = 1..m
         /\ \/ batch.shows = None /\ presented' = presented
            \/ /\ batch.shows # None /\ DOMAIN presented' = 1..m+1
               /\ presented'[m+1].image = batch.shows /\ presented'[m+1].frame = batch.frame
               /\ \A k \in 1..m : presented'[k] = presented[k]
  <2>1. presented \in Seq([image : Images, frame : 0..MaxFrames])
    BY DEF PicturesOK
  <2>2. PICK m \in Nat : m = Len(presented) /\ DOMAIN presented = 1..m
    BY <2>1
  <2>3. CASE batch.shows = None
    BY <1>3, <2>2, <2>3
  <2>4. CASE batch.shows # None
    <3>1. PICK r : r = [image |-> batch.shows, frame |-> batch.frame]
      OBVIOUS
    <3>2. r.image = batch.shows /\ r.frame = batch.frame /\ presented' = Append(presented, r)
      BY <1>3, <2>4, <3>1
    <3>3. /\ DOMAIN presented' = 1..m+1 /\ presented'[m+1] = r
          /\ \A k \in 1..m : presented'[k] = presented[k]
      BY <2>1, <2>2, <3>2
    <3> QED
      BY <2>2, <2>4, <3>2, <3>3
  <2> QED
    BY <2>3, <2>4
<1>10. \A k \in 1..m+1 : k \in 1..m \/ k = m+1
  OBVIOUS
<1>11. PicturesOK'
  <2>1. picture' \in 0..MaxFrames /\ held' \in [Images -> 0..MaxFrames]
    BY <1>6 DEF PicturesOK, FrameInv, QueuesOK
  <2>2. presented' \in Seq([image : Images, frame : 0..MaxFrames])
    <3>1. CASE batch.shows = None
      BY <1>3, <3>1 DEF PicturesOK
    <3>2. CASE batch.shows # None
      <4>1. [image |-> batch.shows, frame |-> batch.frame]
              \in [image : Images, frame : 0..MaxFrames]
        BY <1>2, <3>2 DEF Batch
      <4>2. presented' = Append(presented, [image |-> batch.shows, frame |-> batch.frame])
        BY <1>3, <3>2
      <4> QED
        BY <4>1, <4>2, AppendProperties DEF PicturesOK
    <3> QED
      BY <3>1, <3>2
  <2>3. ASSUME NEW k \in 1..n
        PROVE  LET c == general'.submitted[k]
               IN  c.encoders = <<>> \/ \E x \in Encoder : c.encoders = <<x>>
    BY <1>4, <1>5 DEF PicturesOK
  <2> QED
    BY <1>1, <1>4, <2>1, <2>2, <2>3 DEF PicturesOK
<1>12. PictureInv'
  <2>1. \A k \in 1..n :
          \A e \in Range(general'.submitted[k].encoders) : e.kind = "scene" => e.frame = frame
    BY <1>4, <1>5 DEF PictureInv
  <2>2. pc = "stall" => Draws(general)' \/ picture' = frame
    <3>1. Draws(general) => Draws(general)' \/ DrawsScene(batch)
      <4> SUFFICES ASSUME Draws(general) PROVE Draws(general)' \/ DrawsScene(batch)
        OBVIOUS
      <4>1. PICK k \in 1..n+1 : DrawsScene(general.submitted[k])
        BY <1>4 DEF Draws, DrawsScene
      <4>2. k = 1 \/ (k-1 \in 1..n /\ k-1+1 = k)
        OBVIOUS
      <4>3. CASE k = 1
        BY <1>4, <4>1, <4>3
      <4>4. CASE k-1 \in 1..n /\ k-1+1 = k
        BY <1>4, <4>1, <4>4 DEF Draws, DrawsScene
      <4> QED
        BY <4>2, <4>3, <4>4
    <3> QED
      BY <1>6, <3>1 DEF PictureInv
  <2>3. pc \in {"present", "blit"} => picture' = frame
    BY <1>6 DEF PictureInv
  <2> QED
    BY <1>1, <1>4, <2>1, <2>2, <2>3 DEF PictureInv
<1>13. FlightInv'
  <2>2. ASSUME NEW k \in 1..n, general'.submitted[k].shows # None
        PROVE  /\ general'.submitted[k].shows \in acquired
               /\ pc = "blit" => general'.submitted[k].shows # image
               /\ \A j \in 1..n :
                    general'.submitted[j].shows = general'.submitted[k].shows => j = k
               /\ general'.submitted[k].shows # batch.shows
               /\ \A j \in DOMAIN presented : presented[j].image # general'.submitted[k].shows
    <3>1. general.submitted[k+1].shows # None /\ k+1 # 1
      BY <1>4, <2>2
    <3>2. /\ general.submitted[k+1].shows \in acquired
          /\ pc = "blit" => general.submitted[k+1].shows # image
          /\ \A j \in 1..n+1 :
               general.submitted[j].shows = general.submitted[k+1].shows => j = k+1
          /\ \A j \in DOMAIN presented : presented[j].image # general.submitted[k+1].shows
      BY <1>4, <1>5, <3>1 DEF FlightInv
    <3>3. general'.submitted[k] = general.submitted[k+1]
      BY <1>4
    <3>4. \A j \in 1..n : general'.submitted[j].shows = general'.submitted[k].shows => j = k
      <4>1. ASSUME NEW j \in 1..n, general'.submitted[j].shows = general'.submitted[k].shows
            PROVE  j = k
        <5>1. j+1 \in 1..n+1 /\ general.submitted[j+1].shows = general.submitted[k+1].shows
          <6>1. j+1 \in 1..n+1
            BY <1>5
          <6>2. general'.submitted[j] = general.submitted[j+1]
            BY <1>4
          <6> QED
            BY <3>3, <4>1, <6>1, <6>2
        <5>2. j+1 = k+1
          BY <3>2, <5>1
        <5> QED
          BY <5>2
      <4> QED
        BY <4>1
    <3>5. general.submitted[k+1].shows # batch.shows
      BY <1>4, <1>5, <3>1, <3>2
    <3> QED
      BY <3>2, <3>3, <3>4, <3>5
  <2>3. batch.shows # None =>
          /\ batch.shows \in acquired
          /\ pc = "blit" => batch.shows # image
          /\ \A j \in DOMAIN presented : presented[j].image # batch.shows
    BY <1>4, <1>5 DEF FlightInv
  <2>4. \A k \in DOMAIN presented' :
          /\ presented'[k].image \in acquired
          /\ pc = "blit" => presented'[k].image # image
          /\ \A j \in DOMAIN presented' : presented'[j].image = presented'[k].image => j = k
    <3>1. \A k \in 1..m :
            /\ presented[k].image \in acquired
            /\ pc = "blit" => presented[k].image # image
            /\ \A j \in 1..m : presented[j].image = presented[k].image => j = k
      BY <1>9 DEF FlightInv
    <3>2. CASE batch.shows = None
      BY <1>9, <3>1, <3>2
    <3>3. CASE batch.shows # None
      <4>1. ASSUME NEW k \in 1..m+1, NEW j \in 1..m+1,
                   presented'[j].image = presented'[k].image
            PROVE  j = k
        BY <1>9, <1>10, <2>3, <3>1, <3>3, <4>1
      <4>2. \A k \in 1..m+1 :
              /\ presented'[k].image \in acquired
              /\ pc = "blit" => presented'[k].image # image
        BY <1>9, <1>10, <2>3, <3>1, <3>3
      <4> QED
        BY <1>9, <3>3, <4>1, <4>2
    <3> QED
      BY <3>2, <3>3
  <2>5. \A k \in 1..n : general'.submitted[k].shows # None =>
          \A j \in DOMAIN presented' : presented'[j].image # general'.submitted[k].shows
    BY <1>9, <1>10, <2>2
  <2>6. pc = "blit" => image \in acquired
    BY DEF FlightInv
  <2> QED
    BY <1>1, <1>4, <2>2, <2>4, <2>5, <2>6 DEF FlightInv
<1>14. BlitInv'
  <2>1. ASSUME NEW k \in 1..n, Blits(general'.submitted[k])
        PROVE  /\ \A x \in Range(general'.submitted[k].encoders) : x.target = image
               /\ "imageAvailable" \in general'.submitted[k].waits
               /\ image # None
               /\ k + 1 \in 1..n /\ general'.submitted[k+1].shows = image
               /\ general'.submitted[k+1].frame = picture'
               /\ \A j \in 1..k-1 : ~DrawsScene(general'.submitted[j])
    <3>1. k+1 \in 1..n+1 /\ Blits(general.submitted[k+1])
      BY <1>4, <1>5, <2>1
    <3>2. /\ \A x \in Range(general.submitted[k+1].encoders) : x.target = image
          /\ "imageAvailable" \in general.submitted[k+1].waits
          /\ image # None
          /\ k+1+1 \in 1..n+1 /\ general.submitted[k+1+1].shows = image
          /\ general.submitted[k+1+1].frame = picture
          /\ \A j \in 1..k+1-1 : ~DrawsScene(general.submitted[j])
      <4>1. PICK x \in 1..n+1 : x = k+1
        BY <3>1
      <4>2. /\ Blits(general.submitted[x]) /\ x \in DOMAIN general.submitted
        BY <1>4, <3>1, <4>1
      <4>3. /\ \A y \in Range(general.submitted[x].encoders) : y.target = image
            /\ "imageAvailable" \in general.submitted[x].waits
            /\ image # None
            /\ x+1 \in 1..n+1 /\ general.submitted[x+1].shows = image
            /\ general.submitted[x+1].frame = picture
            /\ \A j \in 1..x-1 : ~DrawsScene(general.submitted[j])
        BY <1>4, <4>2 DEF BlitInv
      <4> QED
        BY <4>1, <4>3
    <3>3. k+1 \in 1..n /\ 1 \in 1..k+1-1 /\ \A j \in 1..k-1 : j \in 1..n /\ j+1 \in 1..k+1-1
      BY <3>2
    <3>4. picture' = picture
      BY <1>4, <1>6, <3>2, <3>3
    <3> QED
      BY <1>4, <3>2, <3>3, <3>4
  <2>2. \A k \in 1..n : "imageAvailable" \in general'.submitted[k].waits
          => Blits(general'.submitted[k])
    BY <1>4, <1>5 DEF BlitInv
  <2>3. semaphore'["imageAvailable"] = "on" => onScreen.image # image
    <3>1. "imageAvailable" \notin batch.signals
      BY <1>4, <1>5 DEF FrameInv, BatchesOK
    <3>2. semaphore'["imageAvailable"] = "on" => semaphore["imageAvailable"] = "on"
      BY <1>3, <3>1 DEF Semaphores
    <3> QED
      BY <3>2 DEF BlitInv
  <2> QED
    BY <1>1, <1>4, <2>1, <2>2, <2>3 DEF BlitInv
<1>15. HeldInv'
  <2>1. ASSUME NEW i \in Images, Blits(batch) => i # image
        PROVE  held'[i] = held[i]
    BY <1>6, <2>1
  <2>2. ASSUME NEW k \in 1..n, general'.submitted[k].shows # None,
               ~(k > 1 /\ Blits(general'.submitted[k-1]))
        PROVE  held'[general'.submitted[k].shows] = general'.submitted[k].frame
    <3>1. PICK i \in Images : i = general'.submitted[k].shows
      <4>1. general'.submitted \in Seq(Batch)
        BY <1>1, TailOfQueue DEF FrameInv, QueuesOK, Queue
      <4>2. general'.submitted[k] \in Batch
        BY <1>4, <4>1
      <4> QED
        BY <2>2, <4>2 DEF Batch
    <3>2. k+1 \in 1..n+1 /\ i = general.submitted[k+1].shows /\ i # None
      BY <1>4, <1>5, <2>2, <3>1
    <3>3. CASE k = 1 /\ Blits(batch)
      <4>1. i = image /\ general'.submitted[k].frame = picture
        BY <1>4, <1>8, <3>1, <3>3
      <4>2. held'[i] = picture
        BY <1>6, <3>3, <4>1
      <4> QED
        BY <3>1, <4>1, <4>2
    <3>4. CASE ~(k = 1 /\ Blits(batch))
      <4>1. ~(k+1 > 1 /\ Blits(general.submitted[k+1-1]))
        <5>1. CASE k = 1
          BY <1>4, <3>4, <5>1
        <5>2. CASE k > 1
          <6>1. general.submitted[k+1-1] = general'.submitted[k-1]
            BY <1>4, <1>5, <5>2
          <6> QED
            BY <2>2, <5>2, <6>1
        <5> QED
          BY <5>1, <5>2
      <4>2. held[i] = general'.submitted[k].frame
        <5>1. PICK x \in 1..n+1 : x = k+1
          BY <3>2
        <5>2. /\ general.submitted[x].shows # None
              /\ ~(x > 1 /\ Blits(general.submitted[x-1]))
          BY <3>2, <4>1, <5>1
        <5>3. held[general.submitted[x].shows] = general.submitted[x].frame
          BY <1>4, <5>2 DEF HeldInv
        <5> QED
          BY <1>4, <3>2, <5>1, <5>3
      <4>3. Blits(batch) => i # image
        <5> SUFFICES ASSUME Blits(batch) PROVE general.submitted[k+1].shows # image
          BY <3>2
        <5>1. 2 \in 1..n+1 /\ general.submitted[2].shows = image /\ image # None
          BY <1>8
        <5>2. k+1 # 2
          BY <3>4
        <5> QED
          BY <1>4, <3>2, <5>1, <5>2 DEF FlightInv
      <4> QED
        BY <2>1, <3>1, <4>2, <4>3
    <3> QED
      BY <3>3, <3>4
  <2>3. ASSUME NEW k \in DOMAIN presented
        PROVE  held'[presented[k].image] = presented[k].frame
    <3>1. presented[k].image \in Images
      <4>1. presented \in Seq([image : Images, frame : 0..MaxFrames])
        BY DEF PicturesOK
      <4>2. presented[k] \in [image : Images, frame : 0..MaxFrames]
        <5>1. k \in 1..Len(presented)
          BY <4>1
        <5> QED
          BY <4>1, <5>1, ElementOfSeq
      <4> QED
        BY <4>2
    <3>2. Blits(batch) => presented[k].image # image
      BY <1>4, <1>8 DEF FlightInv
    <3> QED
      BY <2>1, <3>1, <3>2 DEF HeldInv
  <2>4. ASSUME batch.shows # None
        PROVE  held'[batch.shows] = batch.frame
    <3>1. ~(1 > 1 /\ Blits(general.submitted[1-1]))
      OBVIOUS
    <3>2. held[batch.shows] = batch.frame
      BY <1>4, <1>5, <2>4, <3>1 DEF HeldInv
    <3> QED
      BY <1>6, <1>7, <2>4, <3>2
  <2>5. \A k \in DOMAIN presented' :
          held'[presented'[k].image] = presented'[k].frame
    BY <1>9, <1>10, <2>3, <2>4
  <2>6. ShowsTheFrame'
    <3> SUFFICES ASSUME onScreen.image # None
                 PROVE  held'[onScreen.image] = onScreen.frame
      BY <1>1 DEF ShowsTheFrame
    <3>1. onScreen.image \in Images
      BY DEF PicturesOK
    <3>2. Blits(batch) => onScreen.image # image
      BY <1>8 DEF BlitInv
    <3> QED
      BY <2>1, <3>1, <3>2 DEF HeldInv, ShowsTheFrame
  <2> QED
    BY <1>4, <2>2, <2>5, <2>6 DEF HeldInv
<1> QED
  BY <1>11, <1>12, <1>13, <1>14, <1>15

LEMMA ShowScreen ==
  ASSUME FrameInv, ScreenInv, Show
  PROVE  ScreenInv'
<1>1. /\ presented # <<>> /\ onScreen' = Head(presented) /\ presented' = Tail(presented)
      /\ acquired' = acquired \ {Head(presented).image}
      /\ UNCHANGED <<pc, frame, image, general, semaphore, picture, held>>
  BY DEF Show, loopVars, imageVars
<1> USE DEF ScreenInv
<1> DEFINE Shown == [image : Images, frame : 0..MaxFrames]
<1>2. presented \in Seq(Shown)
  BY DEF PicturesOK
<1>3. /\ Head(presented) \in Shown /\ Head(presented) = presented[1] /\ 1 \in DOMAIN presented
      /\ presented' \in Seq(Shown)
      /\ \A k \in DOMAIN presented' :
           k+1 \in DOMAIN presented /\ k+1 # 1 /\ presented'[k] = presented[k+1]
      /\ \A k, j \in DOMAIN presented' : k+1 = j+1 => k = j
  <2>1. Len(presented) \in Nat \ {0}
    BY <1>1, <1>2, EmptySeq
  <2>2. /\ Head(presented) \in Shown /\ Head(presented) = presented[1] /\ 1 \in DOMAIN presented
        /\ presented' \in Seq(Shown) /\ Len(presented') = Len(presented) - 1
    <3>1. /\ Head(presented) \in Shown /\ Tail(presented) \in Seq(Shown)
          /\ Len(Tail(presented)) = Len(presented) - 1
      BY <1>1, <1>2, HeadTailProperties
    <3>2. Head(presented) = presented[1]
      BY <1>2
    <3>3. DOMAIN presented = 1..Len(presented)
      BY <1>2
    <3>4. 1 \in 1..Len(presented)
      BY <2>1
    <3> QED
      BY <1>1, <3>1, <3>2, <3>3, <3>4
  <2>3. DOMAIN presented' = 1..Len(presented)-1 /\ DOMAIN presented = 1..Len(presented)
    BY <1>2, <2>2
  <2>4. \A k \in 1..Len(presented)-1 : presented'[k] = presented[k+1]
    BY <1>1, <1>2, <2>1
  <2>5. /\ \A k \in 1..Len(presented)-1 : k+1 \in 1..Len(presented) /\ k+1 # 1
        /\ \A k, j \in 1..Len(presented)-1 : k+1 = j+1 => k = j
    BY <2>1
  <2> QED
    BY <2>2, <2>3, <2>4, <2>5
<1>4. PICK r \in Shown : r = Head(presented) /\ r = presented[1]
  BY <1>3
<1>5. PicturesOK'
  BY <1>1, <1>3 DEF PicturesOK
<1>6. PictureInv'
  BY <1>1 DEF PictureInv, Draws
<1>7. FlightInv'
  BY <1>1, <1>3, <1>4 DEF FlightInv
<1>8. BlitInv'
  <2>1. ASSUME semaphore["imageAvailable"] = "on" PROVE r.image # image
    <3>1. CASE pc = "blit"
      BY <1>3, <1>4, <3>1 DEF FlightInv
    <3>2. CASE Waits(general, "imageAvailable")
      <4>1. PICK k \in DOMAIN general.submitted : Blits(general.submitted[k])
        BY <3>2 DEF Waits, BlitInv
      <4>2. k + 1 \in DOMAIN general.submitted /\ general.submitted[k+1].shows = image
            /\ image # None
        BY <4>1 DEF BlitInv
      <4> QED
        BY <1>3, <1>4, <4>2 DEF FlightInv
    <3> QED
      BY <2>1, <3>1, <3>2 DEF FrameInv, UseInv
  <2> QED
    BY <1>1, <1>4, <2>1 DEF BlitInv
<1>9. HeldInv'
  BY <1>1, <1>3, <1>4 DEF HeldInv, ShowsTheFrame
<1> QED
  BY <1>5, <1>6, <1>7, <1>8, <1>9

(* Every step of the loop, the GPU and the engine keeps it. *)
LEMMA ScreenStep == FrameInv /\ ScreenInv /\ [Next]_vars => ScreenInv'
<1> SUFFICES ASSUME FrameInv, ScreenInv, [Next]_vars PROVE ScreenInv'
  OBVIOUS
<1>1. CASE \/ BeginFrame \/ Upload \/ Uploaded \/ StallTillIdle \/ AcquireFails \/ NextFrame
           \/ ExecuteUpload \/ ImageAvailable \/ UNCHANGED vars
  <2>1. /\ UNCHANGED <<image, general, picture, held, acquired, presented, onScreen>>
        /\ pc' = "blit" => pc = "blit"
    BY <1>1 DEF BeginFrame, Upload, Uploaded, StallTillIdle, AcquireFails, NextFrame,
                ExecuteUpload, ImageAvailable, vars, loopVars, imageVars, engineVars
  <2>2. PicturesOK' /\ FlightInv' /\ HeldInv'
    BY <2>1 DEF ScreenInv, PicturesOK, FlightInv, HeldInv, ShowsTheFrame
  <2>3. PictureInv'
    <3>1. CASE StallTillIdle
      <4>1. ~Draws(general)
        BY <3>1 DEF StallTillIdle, Idle, FrameInv, BatchesOK, Draws, Range
      <4> QED
        BY <3>1, <4>1 DEF StallTillIdle, imageVars, ScreenInv, PictureInv
    <3>2. CASE NextFrame
      <4>1. ~Draws(general)
        BY <3>2 DEF NextFrame, FrameInv, UseInv
      <4>2. pc' \notin {"stall", "present", "blit"}
        BY <3>2 DEF NextFrame
      <4> QED
        BY <2>1, <4>1, <4>2 DEF PictureInv, Draws
    <3>3. CASE BeginFrame \/ Upload \/ Uploaded \/ AcquireFails
      <4>1. pc' \notin {"stall", "present", "blit"} /\ frame' = frame
        BY <3>3 DEF BeginFrame, Upload, Uploaded, AcquireFails
      <4> QED
        BY <2>1, <4>1 DEF ScreenInv, PictureInv
    <3>4. CASE ExecuteUpload \/ ImageAvailable \/ UNCHANGED vars
      <4>1. UNCHANGED <<pc, frame>>
        BY <3>4 DEF ExecuteUpload, ImageAvailable, vars, loopVars
      <4> QED
        BY <2>1, <4>1 DEF ScreenInv, PictureInv, Draws
    <3> QED
      BY <1>1, <3>1, <3>2, <3>3, <3>4
  <2>4. BlitInv'
    <3>1. semaphore' = semaphore \/ onScreen.image # image
      BY <1>1 DEF BeginFrame, Upload, Uploaded, StallTillIdle, AcquireFails, NextFrame,
                  ExecuteUpload, ImageAvailable, vars
    <3> QED
      BY <2>1, <3>1 DEF ScreenInv, BlitInv
  <2> QED
    BY <2>2, <2>3, <2>4 DEF ScreenInv
<1> QED
  BY <1>1, SubmitSceneScreen, AcquireScreen, BlitAndPresentScreen, ExecuteScreen, ShowScreen
  DEF Next, Loop, Terminated

LEMMA ScreenInductive == Spec => [](FrameInv /\ ScreenInv)
BY FrameInit, FrameStep, ScreenInit, ScreenStep, PTL DEF Spec

(* Between the steps of the loop both queues are empty of encoders, and the *)
(* state is what its types say, for any number of images and frames.        *)
THEOREM FrameTypeCorrect == Spec => []FrameTypeOK
<1>1. FrameInv /\ ScreenInv => FrameTypeOK
  BY DEF FrameInv, QueuesOK, ScreenInv, PicturesOK, FrameTypeOK
<1> QED
  BY <1>1, ScreenInductive, PTL

(* display.cpp 99-158: for any number of images and frames, however late the *)
(* GPU and the engine are, the image on the screen holds the frame that it   *)
(* was presented for.                                                        *)
THEOREM TheFrameIsShown == Spec => []ShowsTheFrame
<1>1. ScreenInv => ShowsTheFrame
  BY DEF ScreenInv, HeldInv
<1> QED
  BY <1>1, ScreenInductive, PTL

=============================================================================
