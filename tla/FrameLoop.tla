------------------------------ MODULE FrameLoop ------------------------------
(***************************************************************************)
(* The frame loop of an application (src/apps/replay/replayapp.cpp) on the *)
(* Vulkan back end (src/libs/level4/vulkan): encoders are recorded,        *)
(* enqueued and submitted; the GPU takes the submitted batches in order,   *)
(* beside the program; the picture is copied into an image of the swap     *)
(* chain, which the presentation engine shows.                             *)
(* Fences are left out: no submit passes one.                              *)
(*                                                                         *)
(* The present queue is the general queue (device.cpp:340 takes the first  *)
(* queue that can present). Frames are counted up to MaxFrames, where the  *)
(* user quits at the latest.                                               *)
(***************************************************************************)
EXTENDS Integers, SequencesExt

CONSTANTS Images, None, MaxFrames

ASSUME FrameAssumption ==
  /\ Images # {} /\ None \notin Images
  /\ MaxFrames \in Nat \ {0}

Semaphores == {"imageAvailable", "presentComplete"}

VARIABLES
  pc,         \* where the loop is
  frame,      \* the frame it is at
  image,      \* imageIndex
  general,    \* allQueue: the encoders enqueued, the batches the GPU has not finished
  dma,        \* dmaOnlyQueue, likewise
  semaphore,  \* "pending": the presentation engine is going to signal it
  picture,    \* colourRT0: the frame it holds
  held,       \* the frame each image holds
  acquired,   \* the images the program has, and those it presented that were not shown yet
  presented,  \* what the presentation engine is going to show
  onScreen    \* what is shown: the image, and the frame that presented it

loopVars == <<pc, frame, image>>
imageVars == <<picture, held>>
engineVars == <<acquired, presented, onScreen>>
vars == <<loopVars, general, dma, semaphore, imageVars, engineVars>>

Encoder == [kind : {"scene", "upload", "blit"}, frame : 0..MaxFrames,
            begin : SUBSET Semaphores, end : SUBSET Semaphores, target : Images \cup {None}]
Batch == [encoders : Seq(Encoder), waits : SUBSET Semaphores, signals : SUBSET Semaphores,
          shows : Images \cup {None}, frame : 0..MaxFrames]
Queue == [enqueued : {<<>>}, submitted : Seq(Batch)]

(* The loop is at one of its steps, and between its steps neither queue holds *)
(* an encoder that was enqueued and not submitted: every enqueue of           *)
(* replayapp.cpp:246, display.cpp:144 and device.cpp:477 is followed by the   *)
(* submit that takes it, once.                                                *)
FrameTypeOK ==
  /\ pc \in {"top", "render", "upload", "loaded", "stall", "present", "blit", "next", "done"}
  /\ frame \in 0..MaxFrames
  /\ image \in Images \cup {None}
  /\ general \in Queue /\ dma \in Queue
  /\ semaphore \in [Semaphores -> {"off", "pending", "on"}]
  /\ picture \in 0..MaxFrames /\ held \in [Images -> 0..MaxFrames]
  /\ acquired \subseteq Images
  /\ presented \in Seq([image : Images, frame : 0..MaxFrames])
  /\ onScreen \in [image : Images \cup {None}, frame : 0..MaxFrames]

NewQueue == [enqueued |-> <<>>, submitted |-> <<>>]

Init ==
  /\ pc = "top" /\ frame = 1 /\ image = None
  /\ general = NewQueue /\ dma = NewQueue
  /\ semaphore = [s \in Semaphores |-> "off"]
  /\ picture = 0 /\ held = [i \in Images |-> 0]
  /\ acquired = {} /\ presented = <<>> /\ onScreen = [image |-> None, frame |-> 0]

-----------------------------------------------------------------------------
(* CommandQueue *)

(* enqueue *)
Enqueued(q, encoder) == [q EXCEPT !.enqueued = Append(@, encoder)]

(* Mutant: the semaphores the encoders begin with are left out. *)
BatchUnwaited(encoders) ==
  [encoders |-> encoders, shows |-> None, frame |-> frame, waits |-> {},
   signals |-> UNION {e.end : e \in Range(encoders)}]

BatchOf(encoders) ==
  [encoders |-> encoders, shows |-> None, frame |-> frame,
   waits |-> UNION {e.begin : e \in Range(encoders)},
   signals |-> UNION {e.end : e \in Range(encoders)}]

(* Mutant: the encoders stay enqueued. *)
SubmittedKept(q) ==
  IF q.enqueued = <<>> THEN q
  ELSE [q EXCEPT !.submitted = Append(@, BatchOf(q.enqueued))]

(* submit: one batch of all that is enqueued, nothing if nothing is. *)
Submitted(q) ==
  IF q.enqueued = <<>> THEN q
  ELSE [enqueued |-> <<>>, submitted |-> Append(q.submitted, BatchOf(q.enqueued))]

Run(q, encoder) == Submitted(Enqueued(q, encoder))

(* Mutant: the queue is not waited for. *)
IdleAtOnce(q) == TRUE

(* stallTillIdle: what was submitted has finished; a present is no submission. *)
Idle(q) == \A k \in DOMAIN q.submitted : q.submitted[k].shows # None

-----------------------------------------------------------------------------
(* The loop *)

(* The pool of the scene's encoder is reset, the globals are written, and the *)
(* encoder begins.                                                            *)
BeginFrame ==
  /\ pc = "top"
  /\ pc' = "render"
  /\ UNCHANGED <<frame, image, general, dma, semaphore, imageVars, engineVars>>

Plain(kind) ==
  [kind |-> kind, frame |-> frame, begin |-> {}, end |-> {}, target |-> None]

(* Device::upload, fill: what the scene draws with is loaded while it is      *)
(* recorded, at most once a frame here.                                       *)
Upload ==
  /\ pc = "render"
  /\ dma' = Run(dma, Plain("upload"))
  /\ pc' = "upload"
  /\ UNCHANGED <<frame, image, general, semaphore, imageVars, engineVars>>

Uploaded ==
  /\ pc = "upload" /\ Idle(dma)
  /\ pc' = "loaded"
  /\ UNCHANGED <<frame, image, general, dma, semaphore, imageVars, engineVars>>

SubmitScene ==
  /\ pc \in {"render", "loaded"}
  /\ general' = Run(general, Plain("scene"))
  /\ pc' = "stall"
  /\ UNCHANGED <<frame, image, dma, semaphore, imageVars, engineVars>>

(* The scene's encoder is dropped, and houseKeepTick resets the dma pool. *)
StallTillIdle ==
  /\ pc = "stall" /\ Idle(general)
  /\ pc' = "present"
  /\ UNCHANGED <<frame, image, general, dma, semaphore, imageVars, engineVars>>

(* Display::present: the engine gives an image, which it may still be showing *)
(* when the present of another one is on its way.                             *)
Acquire ==
  /\ pc = "present"
  /\ \E i \in Images \ acquired :
       /\ i = onScreen.image => acquired # {}
       /\ image' = i /\ acquired' = acquired \cup {i}
  /\ semaphore' = [semaphore EXCEPT !["imageAvailable"] = "pending"]
  /\ pc' = "blit"
  /\ UNCHANGED <<frame, general, dma, imageVars, presented, onScreen>>

(* Mutant: present goes on without an image. *)
AcquireIgnored ==
  /\ pc = "present"
  /\ image' = CHOOSE i \in Images : TRUE
  /\ pc' = "blit"
  /\ UNCHANGED <<frame, general, dma, semaphore, imageVars, engineVars>>

(* Or no image within PresentTimeOut, or an error: present returns. *)
AcquireFails ==
  /\ pc = "present"
  /\ pc' = "next"
  /\ UNCHANGED <<frame, image, general, dma, semaphore, imageVars, engineVars>>

(* The rest of present; the blitting encoder is dropped while it is pending,  *)
(* and the GPU is taken to run it nevertheless.                               *)
BlitAndPresent ==
  /\ pc = "blit"
  /\ LET blit == [kind |-> "blit", frame |-> frame, target |-> image,
                  begin |-> {"imageAvailable"}, end |-> {"presentComplete"}]
         present == [encoders |-> <<>>, waits |-> {"presentComplete"}, signals |-> {},
                     shows |-> image, frame |-> frame]
     IN general' = [Run(general, blit) EXCEPT !.submitted = Append(@, present)]
  /\ pc' = "next"
  /\ UNCHANGED <<frame, image, dma, semaphore, imageVars, engineVars>>

(* The user may quit after any frame. *)
NextFrame ==
  /\ pc = "next"
  /\ \/ frame < MaxFrames /\ frame' = frame + 1 /\ pc' = "top"
     \/ frame' = frame /\ pc' = "done"
  /\ UNCHANGED <<image, general, dma, semaphore, imageVars, engineVars>>

-----------------------------------------------------------------------------
(* The GPU and the presentation engine *)

Ready(batch) == \A s \in batch.waits : semaphore[s] = "on"

(* What colourRT0 holds after the first n of the encoders: the last scene. *)
PictureAfter(encoders, n) ==
  LET scenes == {k \in 1..n : encoders[k].kind = "scene"}
  IN  IF scenes = {} THEN picture ELSE encoders[Max(scenes)].frame

(* What the images hold after them: a blit copies what colourRT0 holds then. *)
HeldAfter(encoders) ==
  [i \in Images |->
     LET blits == {k \in DOMAIN encoders :
                     encoders[k].kind = "blit" /\ encoders[k].target = i}
     IN  IF blits = {} THEN held[i] ELSE PictureAfter(encoders, Max(blits))]

(* The next batch, or the present of an image. *)
Execute ==
  /\ general.submitted # <<>> /\ Ready(Head(general.submitted))
  /\ LET batch == Head(general.submitted)
     IN /\ picture' = PictureAfter(batch.encoders, Len(batch.encoders))
        /\ held' = HeldAfter(batch.encoders)
        /\ semaphore' = [s \in Semaphores |->
             IF s \in batch.signals THEN "on"
             ELSE IF s \in batch.waits THEN "off" ELSE semaphore[s]]
        /\ presented' = IF batch.shows = None THEN presented
                        ELSE Append(presented, [image |-> batch.shows, frame |-> batch.frame])
  /\ general' = [general EXCEPT !.submitted = Tail(@)]
  /\ UNCHANGED <<loopVars, dma, acquired, onScreen>>

ExecuteUpload ==
  /\ dma.submitted # <<>>
  /\ dma' = [dma EXCEPT !.submitted = Tail(@)]
  /\ UNCHANGED <<loopVars, general, semaphore, imageVars, engineVars>>

(* The next image is shown, and the one shown before is the engine's again. *)
Show ==
  /\ presented # <<>>
  /\ onScreen' = Head(presented)
  /\ presented' = Tail(presented)
  /\ acquired' = acquired \ {Head(presented).image}
  /\ UNCHANGED <<loopVars, general, dma, semaphore, imageVars>>

(* The engine is done with the image it gave. *)
ImageAvailable ==
  /\ semaphore["imageAvailable"] = "pending" /\ onScreen.image # image
  /\ semaphore' = [semaphore EXCEPT !["imageAvailable"] = "on"]
  /\ UNCHANGED <<loopVars, general, dma, imageVars, engineVars>>

-----------------------------------------------------------------------------
Terminated == pc = "done" /\ UNCHANGED vars

Loop ==
  \/ BeginFrame \/ Upload \/ Uploaded \/ SubmitScene \/ StallTillIdle
  \/ Acquire \/ AcquireFails \/ BlitAndPresent \/ NextFrame

Next == Loop \/ Execute \/ ExecuteUpload \/ Show \/ ImageAvailable \/ Terminated

(* The loop's thread runs; the GPU and the engine finish what they can.      *)
Spec ==
  /\ Init /\ [][Next]_vars
  /\ WF_vars(Loop)
  /\ WF_vars(Execute) /\ WF_vars(ExecuteUpload)
  /\ WF_vars(Show) /\ WF_vars(ImageAvailable)

-----------------------------------------------------------------------------
Waits(q, s) == \E k \in DOMAIN q.submitted : s \in q.submitted[k].waits
Draws(q) == \E k \in DOMAIN q.submitted :
              \E e \in Range(q.submitted[k].encoders) : e.kind = "scene"

(* What the host resets, overwrites or hands out again is not in use by the   *)
(* GPU: when the loop resets the pool of the scene's encoder and writes the   *)
(* globals (replayapp.cpp:214-230), and when it has dropped the encoder       *)
(* (253), no scene is submitted and unfinished; when houseKeepTick has reset  *)
(* the DMA pool (device.cpp:832-835), no upload is; and when present hands    *)
(* imageAvailable to the engine (display.cpp:104-108), the blit of the last   *)
(* image has consumed it: it is not signalled, nor going to be, nor waited    *)
(* for.                                                                       *)
NothingInUse ==
  /\ pc \in {"top", "present"} =>
       /\ ~Draws(general)
       /\ dma.submitted = <<>>
  /\ pc = "present" =>
       /\ semaphore["imageAvailable"] = "off"
       /\ ~Waits(general, "imageAvailable")

(* What is shown is the frame that presented it: the image on the screen holds *)
(* the picture of its frame, and is not blitted into while it is shown, though *)
(* the engine may give it again before it stopped showing it                   *)
(* (display.cpp:99-158).                                                       *)
ShowsTheFrame ==
  onScreen.image # None => held[onScreen.image] = onScreen.frame

(* No frame is the last one but the one the user quits at: neither an image   *)
(* that could not be acquired (display.cpp:115-117) nor the stalls of a frame *)
(* (replayapp.cpp:248, device.cpp:479) stop the loop.                         *)
FramesGoOn ==
  \A f \in 1..MaxFrames : frame = f ~> frame > f \/ pc = "done"

=============================================================================
