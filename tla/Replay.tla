------------------------------- MODULE Replay -------------------------------
(***************************************************************************)
(* The replay viewer (src/apps/replay): a server thread takes the packets  *)
(* of a connection and adds each to the Replay                             *)
(* (src/libs/level6/replay/replay.cpp), while the main thread runs the     *)
(* frame loop: it lets time pass, decodes the items of the last second     *)
(* (src/libs/level6/replay/gui.cpp), draws, and drives the client that     *)
(* sends the packets. At the end it takes all of this down.                *)
(*                                                                         *)
(* The connection is a queue (PacketFraming is about its bytes): sent are  *)
(* the packets written, of which the server has taken the first ones. A    *)
(* region under a mutex in which no other is acquired is one step.         *)
(***************************************************************************)
EXTENDS Integers, SequencesExt

CONSTANTS
  Meshes, Objects, \* the names of meshes and of mesh objects
  NoMesh,          \* what an object without its mesh is drawn with
  Packets,         \* what the client sends: records of a kind, a name and a mesh
  Window,          \* how far back from now the gui looks for items (1 second)
  MaxDelta,        \* the longest frame (bound)
  MaxTime,         \* time (bound)
  MaxPackets,      \* packets, the one that stops not counted (bound)
  Capacity,        \* packets the connection holds before a write blocks
  StableUpTo       \* how many items std::sort keeps in order if times are equal (16)

Kind == {"mesh", "object", "log", "stop"}
Packet == [kind : Kind, name : Meshes \cup Objects, mesh : Meshes \cup {NoMesh}]

ASSUME ReplayAssumption ==
  /\ NoMesh \notin Meshes
  /\ Packets \subseteq Packet
  /\ \A p \in Packets : /\ p.kind # "stop"
                        /\ p.kind = "mesh" => p.name \in Meshes
                        /\ p.kind = "object" => p.name \in Objects
  /\ {Window, MaxDelta, MaxTime, MaxPackets, StableUpTo} \subseteq Nat
  /\ Capacity \in Nat \ {0}

VARIABLES
  sent,         \* the packets written to the connection
  taken,        \* how many of them the server's function was given
  serverPc,     \* where the server thread is
  inHand,       \* the item it is adding
  ioStopped,    \* the io context was told to stop
  lookupMutex, lockMutex,  \* of the Replay and of the Gui: who holds them
  items,        \* the Replay's items
  currentTime,  \* its time
  meshMap,      \* the meshes the gui has
  shown,        \* for each object, the item it was last set from, and its mesh
  mainPc,       \* where the main thread is
  writing,      \* the packet it writes
  todo,         \* the items it still has to decode
  viewerTime,   \* the time looked at, -1 for now
  guiAlive,     \* the gui exists
  ranged,       \* how many items there were when it last asked for objects (history)
  everPaused    \* whether the viewer was ever paused (history)

serverVars == <<taken, serverPc, inHand>>
mutexes == <<lookupMutex, lockMutex>>
replayVars == <<items, currentTime>>
guiVars == <<meshMap, shown, viewerTime, todo>>
lifeVars == <<ioStopped, guiAlive>>
mainVars == <<mainPc, writing>>
historyVars == <<ranged, everPaused>>
vars == <<sent, serverVars, mutexes, replayVars, guiVars, lifeVars, mainVars, historyVars>>

Item == [id : Nat \ {0}, time : Nat, hidden : BOOLEAN]

ReplayTypeOK ==
  /\ sent \in Seq(Packet) /\ taken \in 0..Len(sent)
  /\ serverPc \in {"idle", "lookup", "callback", "decode", "push", "ended"}
  /\ inHand \in Item
  /\ ioStopped \in BOOLEAN /\ guiAlive \in BOOLEAN /\ everPaused \in BOOLEAN
  /\ lookupMutex \in {"none", "server"} /\ lockMutex \in {"none", "server", "main"}
  /\ items \in Seq(Item) /\ todo \in Seq(Item)
  /\ currentTime \in Nat /\ viewerTime \in Nat \cup {-1}
  /\ meshMap \subseteq Meshes
  /\ shown \in [Objects -> [id : Nat, mesh : Meshes \cup {NoMesh}]]
  /\ lookupMutex = "server" <=> serverPc \in {"callback", "decode", "push"}
  /\ lockMutex = "server" <=> serverPc = "decode"
  /\ lockMutex = "main" <=> mainPc = "draw"
  /\ mainPc \in {"frame", "ui", "meshes", "decodeMeshes", "objects", "decodeObjects",
                 "lock", "draw", "client", "write", "stopServer", "join", "gui", "done"}
  /\ writing \in Packet
  /\ ranged \in Nat

Init ==
  /\ sent = <<>> /\ taken = 0
  /\ serverPc = "idle" /\ inHand = [id |-> 1, time |-> 0, hidden |-> FALSE]
  /\ ioStopped = FALSE
  /\ lookupMutex = "none" /\ lockMutex = "none"
  /\ items = <<>> /\ currentTime = 0
  /\ meshMap = {}
  /\ shown = [o \in Objects |-> [id |-> 0, mesh |-> NoMesh]]
  /\ mainPc = "frame" /\ writing \in Packets /\ todo = <<>>
  /\ viewerTime = -1 /\ guiAlive = TRUE
  /\ ranged = 0 /\ everPaused = FALSE

-----------------------------------------------------------------------------
(* The server thread *)

(* The coroutine has a packet whole and calls Server::connection, which does  *)
(* nothing for the one that stops.                                            *)
Take ==
  /\ serverPc = "idle" /\ taken < Len(sent)
  /\ taken' = taken + 1
  /\ \/ sent[taken + 1].kind = "stop" /\ UNCHANGED serverPc
     \/ sent[taken + 1].kind # "stop" /\ serverPc' = "lookup"
  /\ UNCHANGED <<sent, inHand, mutexes, replayVars, guiVars, lifeVars, mainVars,
                 historyVars>>

(* The gui registers its callbacks before the server exists. That for tactical *)
(* maps, which takes the same mutex, is left out.                              *)
HasCallback(kind) == kind = "mesh"

(* Replay::add: the item gets the time at which the mutex was acquired. *)
AddLock ==
  /\ serverPc = "lookup" /\ lookupMutex = "none"
  /\ lookupMutex' = "server"
  /\ inHand' = [id |-> taken, time |-> currentTime, hidden |-> FALSE]
  /\ serverPc' = IF HasCallback(sent[taken].kind) THEN "callback" ELSE "push"
  /\ UNCHANGED <<sent, taken, lockMutex, replayVars, guiVars, lifeVars,
                 mainVars, historyVars>>

(* Gui::meshCallback, decodeSimpleMesh *)
CallbackLock ==
  /\ serverPc = "callback" /\ lockMutex = "none"
  /\ lockMutex' = "server"
  /\ serverPc' = "decode"
  /\ UNCHANGED <<sent, taken, inHand, lookupMutex, replayVars, guiVars,
                 lifeVars, mainVars, historyVars>>

(* Mutant: the mesh is left for the frame loop to decode. *)
CallbackDefers ==
  /\ serverPc = "decode"
  /\ lockMutex' = "none"
  /\ serverPc' = "push"
  /\ UNCHANGED <<sent, taken, inHand, lookupMutex, replayVars, guiVars,
                 lifeVars, mainVars, historyVars>>

(* The mesh is built, unless the gui has one of its name. *)
CallbackDecode ==
  /\ serverPc = "decode"
  /\ meshMap' = meshMap \cup {sent[taken].name}
  /\ inHand' = [inHand EXCEPT !.hidden = TRUE]
  /\ lockMutex' = "none"
  /\ serverPc' = "push"
  /\ UNCHANGED <<sent, taken, lookupMutex, replayVars, shown, viewerTime, todo,
                 lifeVars, mainVars, historyVars>>

(* What std::sort may make of s, a permutation f of it: long sequences do not *)
(* keep the order of elements that are equal.                                 *)
SortedBy(s, f) ==
  \A j, k \in DOMAIN s : j < k =>
    /\ s[f[j]].time <= s[f[k]].time
    /\ Len(s) <= StableUpTo /\ s[f[j]].time = s[f[k]].time => f[j] < f[k]

Sorted(s) ==
  {[k \in DOMAIN s |-> s[f[k]]] :
     f \in {g \in Bijection(DOMAIN s, DOMAIN s) : SortedBy(s, g)}}

Push ==
  /\ serverPc = "push"
  /\ items' \in Sorted(Append(items, inHand))
  /\ lookupMutex' = "none"
  /\ serverPc' = "idle"
  /\ UNCHANGED <<sent, taken, inHand, lockMutex, currentTime, guiVars, lifeVars,
                 mainVars, historyVars>>

(* io_context::run returns once the handler it is in has: no packet that was  *)
(* received is left half added.                                               *)
ServerEnds ==
  /\ serverPc = "idle" /\ ioStopped
  /\ serverPc' = "ended"
  /\ UNCHANGED <<sent, taken, inHand, mutexes, replayVars, guiVars, lifeVars,
                 mainVars, historyVars>>

-----------------------------------------------------------------------------
(* The frame loop *)

ViewTime == IF viewerTime < 0 THEN currentTime ELSE viewerTime

(* Replay::update: time stands still until there is an item. It takes no     *)
(* mutex.                                                                    *)
Update ==
  /\ mainPc = "frame"
  /\ \/ items = <<>> /\ UNCHANGED currentTime
     \/ /\ items # <<>>
        /\ \E d \in 0..MaxDelta : currentTime + d <= MaxTime /\ currentTime' = currentTime + d
  /\ mainPc' = "ui"
  /\ UNCHANGED <<sent, serverVars, mutexes, items, guiVars, lifeVars, writing,
                 historyVars>>

(* Gui::render: pause, play, the slider, or nothing of it; then the log asks *)
(* for its items.                                                            *)
UserInput ==
  /\ mainPc = "ui" /\ lookupMutex = "none"
  /\ \/ UNCHANGED <<viewerTime, everPaused>>
     \/ viewerTime' = -1 /\ UNCHANGED everPaused
     \/ viewerTime' \in 0..currentTime /\ everPaused' = TRUE
  /\ mainPc' = "meshes"
  /\ UNCHANGED <<sent, serverVars, mutexes, replayVars, meshMap, shown, todo,
                 lifeVars, writing, ranged>>

(* Mutant: an item as old as the window is long is left out. *)
WithinShort(lo, hi) ==
  /\ \A k \in 1..Len(items) : items[k].time <= ViewTime - Window <=> k < lo
  /\ \A k \in 1..Len(items) : items[k].time <= ViewTime <=> k <= hi

(* Replay::getRange: lower_bound and upper_bound in the sorted items. *)
Within(lo, hi) ==
  /\ \A k \in 1..Len(items) : items[k].time < ViewTime - Window <=> k < lo
  /\ \A k \in 1..Len(items) : items[k].time <= ViewTime <=> k <= hi

GetRange ==
  \E lo \in 1..Len(items)+1, hi \in 0..Len(items) :
    Within(lo, hi) /\ todo' = SubSeq(items, lo, hi)

(* What the type filter of getRange lets through, applied where todo is used. *)
Wanted(kind) == ~Head(todo).hidden /\ sent[Head(todo).id].kind = kind

(* Gui::processReplaySection: meshes first, then objects. *)
AskMeshes ==
  /\ mainPc = "meshes" /\ lookupMutex = "none"
  /\ GetRange
  /\ mainPc' = "decodeMeshes"
  /\ UNCHANGED <<sent, serverVars, mutexes, replayVars, meshMap, shown,
                 viewerTime, lifeVars, writing, historyVars>>

DecodeMesh ==
  /\ mainPc = "decodeMeshes"
  /\ todo # <<>> /\ lockMutex = "none"
  /\ meshMap' = IF Wanted("mesh") THEN meshMap \cup {sent[Head(todo).id].name} ELSE meshMap
  /\ todo' = Tail(todo)
  /\ UNCHANGED <<sent, serverVars, mutexes, replayVars, shown, viewerTime,
                 lifeVars, mainVars, historyVars>>

MeshesDecoded ==
  /\ mainPc = "decodeMeshes" /\ todo = <<>>
  /\ mainPc' = "objects"
  /\ UNCHANGED <<sent, serverVars, mutexes, replayVars, guiVars, lifeVars,
                 writing, historyVars>>

AskObjects ==
  /\ mainPc = "objects" /\ lookupMutex = "none"
  /\ GetRange
  /\ ranged' = Len(items)
  /\ mainPc' = "decodeObjects"
  /\ UNCHANGED <<sent, serverVars, mutexes, replayVars, meshMap, shown,
                 viewerTime, lifeVars, writing, everPaused>>

(* Gui::decodeMeshObject: an object whose mesh is not there keeps the one it  *)
(* has.                                                                       *)
DecodeObject ==
  /\ mainPc = "decodeObjects"
  /\ todo # <<>> /\ lockMutex = "none"
  /\ LET p == sent[Head(todo).id]
     IN \/ ~Wanted("object") /\ UNCHANGED shown
        \/ /\ Wanted("object")
           /\ shown' = [shown EXCEPT ![p.name] =
                          [id |-> Head(todo).id,
                           mesh |-> IF p.mesh \in meshMap THEN p.mesh ELSE @.mesh]]
  /\ todo' = Tail(todo)
  /\ UNCHANGED <<sent, serverVars, mutexes, replayVars, meshMap, viewerTime,
                 lifeVars, mainVars, historyVars>>

ObjectsDecoded ==
  /\ mainPc = "decodeObjects" /\ todo = <<>>
  /\ mainPc' = "lock"
  /\ UNCHANGED <<sent, serverVars, mutexes, replayVars, guiVars, lifeVars,
                 writing, historyVars>>

DrawLock ==
  /\ mainPc = "lock" /\ lockMutex = "none"
  /\ lockMutex' = "main"
  /\ mainPc' = "draw"
  /\ UNCHANGED <<sent, serverVars, lookupMutex, replayVars, guiVars, lifeVars,
                 writing, historyVars>>

(* Mutant: the gui's mutex is held to the end of the frame. *)
DrawHolding ==
  /\ mainPc = "draw"
  /\ mainPc' = "client"
  /\ UNCHANGED <<sent, serverVars, mutexes, replayVars, guiVars, lifeVars,
                 writing, historyVars>>

(* The views, and with them the end of render. *)
Draw ==
  /\ mainPc = "draw"
  /\ lockMutex' = "none"
  /\ mainPc' = "client"
  /\ UNCHANGED <<sent, serverVars, lookupMutex, replayVars, guiVars, lifeVars,
                 writing, historyVars>>

(* FakeClient::update: its callbacks write packets. *)
ClientSends ==
  /\ mainPc = "client" /\ Len(sent) < MaxPackets
  /\ writing' \in Packets
  /\ mainPc' = "write"
  /\ UNCHANGED <<sent, serverVars, mutexes, replayVars, guiVars, lifeVars,
                 historyVars>>

(* A write blocks while the connection is full. The one that stops is the     *)
(* last, from the client's destructor.                                        *)
Write ==
  /\ mainPc = "write"
  /\ Len(sent) - taken < Capacity
  /\ sent' = Append(sent, writing)
  /\ mainPc' = IF writing.kind = "stop" THEN "stopServer" ELSE "client"
  /\ UNCHANGED <<serverVars, mutexes, replayVars, guiVars, lifeVars, writing,
                 historyVars>>

EndFrame ==
  /\ mainPc = "client"
  /\ mainPc' = "frame"
  /\ UNCHANGED <<sent, serverVars, mutexes, replayVars, guiVars, lifeVars,
                 writing, historyVars>>

-----------------------------------------------------------------------------
(* ReplayApp::finish: the client, the server, the gui, in this order. *)

Finish ==
  /\ mainPc = "client"
  /\ writing' \in {[p EXCEPT !.kind = "stop"] : p \in Packets}
  /\ mainPc' = "write"
  /\ UNCHANGED <<sent, serverVars, mutexes, replayVars, guiVars, lifeVars,
                 historyVars>>

(* Mutant: the acceptor is closed, the io context goes on. *)
CloseAcceptor ==
  /\ mainPc = "stopServer"
  /\ mainPc' = "join"
  /\ UNCHANGED <<sent, serverVars, mutexes, replayVars, guiVars, lifeVars, writing, historyVars>>

StopServer ==
  /\ mainPc = "stopServer"
  /\ ioStopped' = TRUE
  /\ mainPc' = "join"
  /\ UNCHANGED <<sent, serverVars, mutexes, replayVars, guiVars, guiAlive,
                 writing, historyVars>>

(* Mutant: the thread is left to itself. *)
Detach ==
  /\ mainPc = "join"
  /\ mainPc' = "gui"
  /\ UNCHANGED <<sent, serverVars, mutexes, replayVars, guiVars, lifeVars,
                 writing, historyVars>>

Join ==
  /\ mainPc = "join" /\ serverPc = "ended"
  /\ mainPc' = "gui"
  /\ UNCHANGED <<sent, serverVars, mutexes, replayVars, guiVars, lifeVars,
                 writing, historyVars>>

DestroyGui ==
  /\ mainPc = "gui"
  /\ guiAlive' = FALSE
  /\ mainPc' = "done"
  /\ UNCHANGED <<sent, serverVars, mutexes, replayVars, guiVars, ioStopped,
                 writing, historyVars>>

(* The application has ended. *)
Done == mainPc = "done" /\ UNCHANGED vars

-----------------------------------------------------------------------------
ServerStep == Take \/ AddLock \/ CallbackLock \/ CallbackDecode \/ Push \/ ServerEnds

MainStep ==
  \/ Update \/ UserInput \/ AskMeshes \/ DecodeMesh \/ MeshesDecoded
  \/ AskObjects \/ DecodeObject \/ ObjectsDecoded \/ DrawLock \/ Draw
  \/ ClientSends \/ Write \/ EndFrame
  \/ Finish \/ StopServer \/ Join \/ DestroyGui

Next == ServerStep \/ MainStep \/ Done

(* Both threads run. A mutex does not pass over the server for ever: the main *)
(* thread leaves them alone for most of a frame.                              *)
Spec ==
  /\ Init /\ [][Next]_vars
  /\ WF_vars(ServerStep) /\ WF_vars(MainStep)
  /\ SF_vars(AddLock) /\ SF_vars(CallbackLock)

-----------------------------------------------------------------------------
(* Properties *)

(* gui.cpp 298-314 with replay.cpp 20-67: in a viewer that was never paused,  *)
(* whatever the two threads do at the same time, every object is drawn as the *)
(* newest of its items says that were there when the frame asked for them:    *)
(* no item falls out of the window unseen, as long as no frame is longer than *)
(* the window and the sort keeps items of one time in their order.            *)
DrawsNewest ==
  mainPc = "draw" /\ ~everPaused =>
    \A o \in Objects, k \in 1..ranged :
      sent[items[k].id].kind = "object" /\ sent[items[k].id].name = o
        => shown[o].id >= items[k].id

(* gui.cpp 298-314, 669-735, replay.cpp 22-30: an object whose mesh was sent  *)
(* before it is never drawn without it: the callback decodes a mesh before    *)
(* any later packet becomes an item.                                          *)
MeshBeforeObject ==
  \A o \in Objects :
    LET k == shown[o].id
    IN k # 0 /\ (\E j \in 1..k-1 : sent[j].kind = "mesh" /\ sent[j].name = sent[k].mesh)
         => shown[o].mesh = sent[k].mesh

(* replayapp.cpp 137-141, server.cpp 39-43: the server's callbacks into the   *)
(* gui have ended when the gui is destroyed.                                  *)
NoCallbackAfterGui == ~guiAlive => serverPc = "ended"

(* replay.cpp 20-40: every packet that was written becomes an item, unless    *)
(* the application is closed: neither the two mutexes nor the full            *)
(* connection stop the threads.                                               *)
EveryPacketAdded ==
  \A n \in 1..MaxPackets :
    (Len(sent) >= n /\ sent[n].kind # "stop")
      ~> ((\E k \in 1..Len(items) : items[k].id = n) \/ ioStopped)

(* replayapp.cpp 137-141: once asked to, the application closes, though the   *)
(* last packet may have to wait for the server, and the server for the gui.   *)
Closes == (mainPc = "write" /\ writing.kind = "stop") ~> mainPc = "done"

=============================================================================
