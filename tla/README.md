# Wyrd: a verification of its core in TLA+

Wyrd is a C++17 engine for rendering and replay. Its own code is a stack of libraries in
`src/libs`: `core`, `binify`, and `level1` to `level6`, where no library uses one above its
level (`src/libs/CMakeLists.txt:30`), and the applications in `src/apps` and
`src/unity_dlls` on top. This directory holds TLA+ models of the parts that carry logic of
their own, the TLC runs that check them, and TLAPS proofs of the results that hold for every
size of instance.

- [What the system is made of](#inventory)
- [The modules and the code they model](#the-modules)
- [What is checked](#the-runs)
- [What is proved](#the-proofs)
- [Where the code and its own words differ](#findings)
- [What comes next](#plan)

To run everything, in this directory: `tlc -workers 2 -config ResourceNames.cfg MCResourceNames`
and so on, one call per row of the table of runs; and `tlapm` on each of
`ResourceNamesProofs.tla`, `ResourceManProofs.tla`, `BundleWriterProofs.tla`,
`BundleReaderProofs.tla`, `PacketFramingProofs.tla`, `ReplayProofs.tla` and
`FrameLoopProofs.tla`.

## Inventory

Short paths are below `src/libs`. PROJECT.json lists every component with its status, and the
hazards at the line where they bite.

### Resource manager (`level2/resourcemanager`)

The centre of the engine: textures, meshes, shaders and their Vulkan counterparts all reach
the program through it.

| Part | State | Operations |
|---|---|---|
| names and handles (`resourceman.cpp`, `resourceman.h`, `resourcename.h`, `resourcehandle.h`) | `nameToResourceIndex`, `indexToResourceName`, `indexToBase` (a pool of slots), `nameCacheLock` | `getIndexFromName`, `openByName`, `openByIndex`, `removeFromStorage`, `resolveLink` |
| acquisition (`resourceman.cpp`) | the handlers of each type, by stage | `registerHandler`, `registerNextHandler`, `removeHandler`, `acquire`, `tryAcquire` |
| cache (`resourcecache.cpp`) | `cache`, `updateMutex` | `lookup`, `insert`, `reset` |
| storages (`memstorage.h`, `diskstorage.h`) | `filenameToMemory` | `read`, `addMemory`, `removeMemory` |

How the parts interact: a caller opens a name and gets a handle, a copy of a slot of
`indexToBase`. `acquire` looks the handle's index up in the cache; on a miss it asks the
storage of the name's prefix to read. The storage builds an `InMemBundle` or a `Bundle` and
calls back for every chunk and every stage of the chunk's handlers. The callback runs the
handler's `init`; after stage 0 it inserts the resource into the cache, and for a chunk with
a name it calls `getIndexFromName` to find out under which index. At the end `tryAcquire`
looks into the cache again, and `acquire` starts over when there is nothing.

Everything is called from any thread. The maps are tbb's concurrent maps, whose finds and
inserts may overlap, and whose `unsafe_erase` and assignment may not. What is hard: the
unlocked first finds against the two-step publication of entries; the map key that is a view
of a caller's text; several threads loading one resource; resources that are visible before
their last stage; names removed and placed again while indices, cache and handles stay; the
retry without end. What makes it correct: one index per name and one name per index for ever;
a handle denotes the name it was opened with; an index only ever gives its own name's current
content; lookups and acquires return.

### Binny (`level1/binny`)

`BundleWriter` collects chunks with the types they depend on, and `build` writes the directory
in dependency order and the chunks in the order they were added, through `WriteHelper` and the
assembler `binify`. `Bundle::read` walks the directory of such a file, seeks with offsets
relative to the entry before, checks, decompresses, fixes pointers up and calls handlers.
`InMemBundle` does the same for one chunk in memory. All is sequential; what is hard is the
agreement of two pieces of code about order and offsets, the flattening of dependencies on
types with several chunks each, and what a damaged file leads to.

### Network (`level1/net`) and replay (`level6/replay`, `src/apps/replay`)

| Part | State | Operations |
|---|---|---|
| client (`details/tcpconnectionimpl.cpp`) | the socket | `syncWriteBasicPayload`: size, type, payload, each a write |
| server connection (`details/tcpsimpleserverimpl.cpp`) | `receiveBuffer`, `receiveHead`, `asmBuffer`, `asmHead`, `packetSize` | the coroutine, resumed by every read that ends |
| server (`tcpsimpleserver.cpp`, `src/apps/replay/server.cpp`) | `io_context`, its thread | `start`, `stop`, join |
| `Replay` (`replay.cpp`) | `items`, `currentTime`, `lookupMutex` | `add`, `update`, `getRange`, `registerCallback` |
| `Gui` (`gui.cpp`) | `meshMap`, `meshObjectMap`, `viewerTime`, `lockMutex` | callbacks, `processReplaySection`, `render` |

The viewer's own fake client writes packets from the frame loop, in the main thread; the
server's thread receives them and adds each to the `Replay`, which calls back into the gui,
under its mutex; the frame loop asks the `Replay` for the items of the last second and
decodes and draws them. Two threads, two mutexes and a connection that can be full. What is
hard: reads that end anywhere in a packet, errors of a read, the order in which the mutexes
are taken and writes block, items that arrive between two questions of a frame, and taking it
all down. What makes it correct: what was sent is delivered, whole, once and in order; every
packet becomes an item and each item is seen by some frame; nothing hangs and nothing is used
after it is gone.

### Half-edge mesh (`level3/meshmod`, `level4/meshops`)

A `Mesh` has containers of vertices, half edges and polygons that refer to each other by
index, attributes beside them (the point reps link vertices of one position into rings, each
vertex has a list of half edges), and a set of flags that says what was edited since
`updateFromEdits`. All sequential. What is hard: everything is kept twice or three times (the
vertices of a half edge and the half edges of a vertex, `next` and `prev`, both halves of a
pair, the ring), deleted elements stay, marked, until a repack maps every index anew, and
derived data is dropped and made again according to the flags. What makes it correct: after
an update the redundant parts agree, and no operation changes a polygon it is not meant to.

### Frame loop and Vulkan back end (`level4/vulkan`, `src/apps/replay/replayapp.cpp`)

`CommandQueue` collects encoders and submits them as one batch; `Display::present` acquires
an image of the swap chain, copies the picture into it and presents it; `Device` uploads on a
queue of its own and tidies up in `houseKeepTick`. The GPU and the presentation engine run
behind. What is hard: what the host resets, overwrites or destroys may still be in use, two
semaphores serve all frames, and an image may be given while it is still shown. What makes it
correct: nothing in use is touched, and what is shown is the frame that presented it.

### The others

| Component | What it holds | Hard in it |
|---|---|---|
| `core/freelist.h` | pools of slots: explicit, intrusive, multi-threaded | exhaustion, a slot given twice |
| `core/linear_allocator.h` | a stack of bytes | does not compile, unused |
| `binify` | text to binary assembler | pure formatting |
| `level1/timing` | pulsars that call back once per period | catching up |
| `level1/input`, `level1/math`, `level2/geometry`, `level4/playfield` | device polling, floating point, hex arithmetic | nothing a model checker reaches |
| `level3/render`, the rest of `level4/vulkan` | descriptions of GPU resources, calls of the driver | object lifetimes |
| the rest of `level4/meshops`, `level5`, other applications | mesh algorithms, windows, the tactical map | callers of the above |

## The modules

| Module | Models | Role |
|---|---|---|
| `NameTable` | the promise of `getIndexFromName` | abstract specification |
| `ResourceNames` | names, handles, the index pool | implements `NameTable` |
| `ResourceCache` | `ResourceCache` | steps that `ResourceMan` composes |
| `ResourceMan` | acquisition, both storages, removal, flush; extends `ResourceNames`, instantiates `ResourceCache` | the manager as its callers use it |
| `BundleWriter` | `addChunk`, `build`, the layout | sequential algorithm as a state machine |
| `BundleReader` | `Bundle::read` on what `BundleWriter` built, and damage between | composition |
| `PacketFraming` | one connection, byte by byte: the client's writes, TCP, the server's coroutine | the transport |
| `Replay` | the replay viewer: server thread, `Replay`, `Gui`, frame loop, client, end; the transport is a queue of whole packets, which is what `PacketFraming` delivers | composition of two threads |
| `Mesh` | the half-edge mesh with welding, pairing, repacking, triangulating | sequential data structure |
| `FrameLoop` | frame loop, two command queues, GPU, display, presentation engine | composition of the host and what runs behind it |
| `MC...` | values for the constants | for TLC |
| `ResourceNamesProofs`, `ResourceManProofs`, `BundleWriterProofs`, `BundleReaderProofs`, `PacketFramingProofs`, `ReplayProofs`, `FrameLoopProofs`, `MeshProofs` | theorems | for TLAPS |

Operators named as mutants are plausible bugs of the definition that follows them. They are
not part of any specification: each shows that a property can fail when the code is wrong in
that way.

### ResourceNames

One thread's `getIndexFromName` is a program counter that moves through the lines of
`resourceman.cpp:116-138`:

| `pc` | Action | Code |
|---|---|---|
| `find` | `FindHit`, `FindMiss` | 118-119, no lock |
| `lock` | `Lock` | 121 |
| `recheck` | `Recheck` | 123-124 |
| `alloc` | `Alloc`, `AllocSpins` | 127-129 and `core/freelist.h:247-257` |
| `insert`, `assign` | `InsertNode`, `AssignIndex` | 130, the two halves of `map[name_] = id` |
| `setBase` | `SetBase` | 132 |
| `unlock` | `Unlock` | 133-135 |
| `found` | `ReturnIndex`, `OpenByIndex` | 137 and `resourceman.h:86-92` |

Three things in it deserve a word.

*Publication.* `operator[]` of the tbb map inserts a node with a value-initialised index, 0,
and the assignment follows. `InsertNode` and `AssignIndex` are two steps, and a find between
them returns 0. The base of the handle is written after that with plain stores, so a thread
that copies it meanwhile (`ReadBase`) sees each field as it was or as it will be: a data race
is a choice.

*The key.* The map stores `name_`, a view, where `indexToResourceName` stores a copy. When the
caller's text dies (`TextDies`) the key compares freed bytes, and a find of the same name may
match or not. Names every caller passes as literals are `Durable`; the uniqueness properties
are about those. A dead key is taken to give a node or nothing, never the node of another name,
and to be stable inside one call. Comparing freed bytes is undefined behaviour and nothing
stronger can be said.

*Removal.* `unsafe_erase` may not run beside any operation of the map. The code does not
enforce that and neither do its callers' locks; `Quiet` states the discipline they follow
(`imguibindings.cpp:328,342`). A removed name loses its node only.

`premature` is a history variable: some lookup returned a node that was still being published.
The code has that window and `OpenAssertion` shows what comes through it. Properties that hold
but for it say `premature \/ ...`: the window is the only way they fail.

### ResourceCache and ResourceMan

`ResourceCache` has the two finds of `lookup` and the two halves of `insert` as separate steps.
`ResourceMan` adds each thread's `loadPc` and its locals `load`: `lookup`, `lookupLocked`,
`read`, then per chunk `stage`, (`index`), `insert`, `assign`, `advance`, and `lookup` again
with `loaded` set. `RunStage` sends a disk chunk's callback through the very steps of
`ResourceNames` by calling `GetIndexFromName` with a borrowed name, the local string of
`resourceman.cpp:252`. A memory resource is one chunk and its version says which placement
its content comes from. `obj` holds the blocks of memory; a block is given back when neither
the cache, nor a callback, nor a caller refers to it, as with shared pointers.

`placeInStorage` is two steps, the empty entry and the content. A read between them is taken to
find nothing. `Owner` says which thread places a name, as in the code every name has one owner;
`RemoveFromStorage` and `FlushCache` need `ManQuiet`. Files on the disk exist and are sound here
(a missing one, like a name without sub-object, is an endless retry); `BundleReader` models
what is not.

### BundleWriter and BundleReader

The body of `build` is a machine with phases `adding`, `pop`, `scan`, `flatten`, `built`: the
stack `dirIndices`, the notes `order`, the search `dep`, `fit` for the chunks of one
dependency, the backward walk `it`, and `final`, the directory's order. `ChunkStart`, `Aligned`
and `StoredOffset` give the layout the written text comes to. Positions count from the label
`chunks`. What a chunk contains, its text, compression and fixups are left out: a chunk is its
number, its type, its dependencies and its stored size. Chunks have distinct names, as the
labels of `WriteHelper` demand (`writehelper.cpp:220`).

`BundleReader` starts when the bundle is built. `Fault` leaves the file alone, damages a chunk,
or cuts it off where a chunk starts. `Read` chooses the types with handlers and the name asked
for. Then the directory is walked: `Skip` moves nothing, `ReadChunk` seeks by `storedOffset -
lastStoredSize`, reads, checks and delivers. A seek to before the chunks lands in the names and
the directory: with `ReadCorrupt` it reads wrong bytes, with `ReadFails` it falls off the front.
The checksum is taken to be perfect.

### PacketFraming

| Action | Code |
|---|---|
| `SendPacket`, `Write` | `syncWriteBasicPayload`: the size word, the type word, the payload if there is one |
| `Close`, `Lose` | the client resets its connection after the packet that stops, or dies in between |
| `Read`, `ReadFails` | the end of `async_read_some`, with any part of what is there, or with an error (`operator()`, line 19) |
| `Assemble` | a round of the inner loop: start a packet or go on with one, copy what is there of it |
| `ReadMore`, `Deliver` | the two ways out of the inner loop |

Bytes are digits of a small base; `Word` gives the bytes of each size in memory, all that
matters being that every size below `Modulus` has bytes of its own and that all bytes are some
size's, and the arithmetic is modulo `Modulus`. The run has the lowest byte first. The receive buffer keeps what former reads left, and beyond its end lies
anything, since the code reads the size word whether or not all of it was received. That is a
defect (see the findings); `cut` remembers that it happened and the properties hold but for
it. `asmHead` starts with any value, as it is not initialised.

### Replay

| `serverPc` | Code | `mainPc` | Code |
|---|---|---|---|
| `idle` | the coroutine between packets | `frame` | `Replay::update` |
| `lookup` | `Replay::add` before its mutex | `ui` | `Gui::render`: pause, play, slider, log |
| `callback`, `decode` | `Gui::meshCallback` before and under `lockMutex` | `meshes` to `decodeObjects` | `processReplaySection` |
| `push` | `push_back`, `std::sort` | `lock`, `draw` | the views under `lockMutex` |
| `ended` | `io_context::run` has returned | `client`, `write` | `FakeClient::update` and its blocking write |
| | | `stopServer` to `done` | `ReplayApp::finish` |

A region under a mutex in which no other mutex is taken is one step. `Replay::add` is several,
since it calls the gui while it holds `lookupMutex`. `update` takes no mutex, as in the code.
`std::sort` may leave items of equal times in any order once the sequence is longer than
`StableUpTo` (16 in the usual libraries, up to which it is an insertion sort). `Window` is the
second the gui looks back, `MaxDelta` the longest frame: with a frame that is longer than the
window, items are missed, a finding; the run has `MaxDelta <= Window`, and at most
`StableUpTo` items.

### Mesh

The elements are four sequences in one record, so that operations compose as functions from
meshes to meshes: `WithPolygon` (`addPolygon` with the `HalfEdges::add` it calls),
`WithPointReps` (`createPointReps`), `WeldedTo` (`weldSimilar`), `Connected` (`breakPairs` and
`connectPairs`), `Repacked` (`cleanAndRepack`, with `WithFace` for each polygon made again and
`Ascending` for the new order of the vertices), `FannedAt` (`ngulate<3>`), `WithoutHalfEdge`
(`HalfEdges::remove` with its effect on the polygon). The actions are the operations a caller
has: `AddVertex`, `AddPolygon`, `Weld`, `Update`, `Triangulate`, `Transform`,
`UpdateEditState`, `RemovePolygon`. A sort of the vertices by x may leave equal ones in any
order. A vertex's list of half edges is a set, as the code keeps it in ascending order.

Three assumptions are named in it. `MaybeDeleted`: point reps are allocated without being
initialised, and memory may happen to read as the mark of a deletion (a finding); it is FALSE
in the run. `fanned` and `torn` are history: triangulating leaves `prev` stale, and removing a
half edge of such a polygon, or welding a mesh that still holds vertices of an earlier weld,
leaves a mesh of which nothing can be said; the properties exclude just that.

### FrameLoop

| Action | Code |
|---|---|
| `BeginFrame`, `SubmitScene`, `StallTillIdle` | `replayapp.cpp:214-253`, `CommandQueue::enqueue`, `submit`, `stallTillIdle`, `Device::houseKeepTick` |
| `Upload`, `Uploaded` | `device.cpp`, an upload on the DMA queue and the wait for it |
| `Acquire`, `AcquireFails`, `BlitAndPresent` | `Display::present` |
| `Execute`, `ExecuteUpload` | the GPU: batches of a queue in order, when what they wait for is signalled |
| `Show`, `ImageAvailable` | the presentation engine |
| `NextFrame` | the loop of the application |

A batch is the set of encoders of one submit with the union of their semaphores. The present
queue is the general queue, so a present stands in line behind the blit it waits for. The
engine gives any image that was not acquired, also the one it is showing when another
present is on its way, and signals `imageAvailable` when that image is free.

## The runs

| Run | Module, cfg | Checks | Bounds |
|---|---|---|---|
| `names` | `MCResourceNames`, `ResourceNames.cfg` | types, `OneIndexPerName`, `PoolAccounted`, `LockedResultSettled`, `HandlesRight`, `IndexKeepsName`, `LookupReturns`, `NamePromiseSpec` | 2 threads, 2 lasting and 1 borrowed name, pool of 3 |
| `mem_resources` | `MCResourceMan`, `MemResources.cfg` | types, `CurrentContent`, `IncompleteIsBeingLoaded`, `CacheSlotStable`, `AcquireReturns` | 2 threads, 1 name placed at most twice, pool of 2, stages 0 to 2 with stage 1 refused, 5 blocks |
| `disk_resources` | `MCResourceMan`, `DiskResources.cfg` | `ServesName` | 2 threads (symmetric), a bundle of 2 chunks, pool of 2, stage 0, 5 blocks |
| `bundle` | `MCBundleReader`, `Bundle.cfg` | types, `DependenciesFirst`, `EveryChunkOnce`, `DeliveredInOrder`, `GaplessReadWorks`, `OkayIsWhole`, `BundleEnds` | every bundle of at most 4 chunks of 3 types, sizes 1 to 3, alignment 2 |
| `framing` | `MCPacketFraming`, `PacketFraming.cfg` | types, `DeliveredIsSent`, `EverythingDelivered`, `ConnectionEnds` | 3 packets (one without payload), bytes of 3 values, sizes of 2 bytes, a buffer of 4 |
| `replay` | `MCReplay`, `Replay.cfg` | types, `DrawsNewest`, `MeshBeforeObject`, `NoCallbackAfterGui`, `EveryPacketAdded`, `Closes` | 1 mesh, 1 object, 3 packets and the one that stops, a connection that holds 2, window 1, time to 3 |
| `mesh` | `MCMesh`, `Mesh.cfg` | types, `PairsMatch`, `RingsAreClasses`, `LoopsClose`, `ShapeKept` | 3 points, 4 vertices, 2 polygons out of a quad and a triangle, 1 edit |
| `frames` | `MCFrameLoop`, `FrameLoop.cfg` | types, `NothingInUse`, `ShowsTheFrame`, `FramesGoOn` | 3 images, 4 frames |
| `open_assertion` | `MCResourceNames`, `OpenAssertion.cfg` | violates `OpenAssertion` | as `names` |
| `insert_assertion` | `MCResourceMan`, `InsertAssertion.cfg` | violates `InsertAgrees` | 2 threads, 1 name |
| `stage_assertion` | `MCResourceMan`, `StageAssertion.cfg` | violates `ResultComplete` | 2 threads, 1 name, stages 0 and 1 |
| `skip_unhandled` | `MCBundleReader`, `SkipUnhandled.cfg` | violates `SkipsUnhandled` | as `bundle` |

What the passing runs say:

- **`names`.** However lookups of the same and of different names interleave with removal and
  with dying text, a lasting name has one index at a time, an index carries one name for ever,
  free and named slots never overlap, a lookup that went through the lock returns something
  finished, and every lookup returns unless the pool is empty. The name side as a whole
  implements `NameTable`.
- **`mem_resources`.** A name that was removed and placed again never gives its former content
  through its present index, though cache and old index still hold it; this works only
  because the name gets a *new* index (the mutant that keeps the node breaks it). A cached
  resource that lacks a stage its handlers accept is in the hands of a thread that will run it.
- **`disk_resources`.** A read of either chunk brings in both, and the callback finds the index
  of each by a borrowed name while the other thread does the same. An index never serves
  another name's chunk.
- **`bundle`.** Writer and reader agree: dependencies first on file and in delivery, offsets
  meet when nothing is left out midway, and Okay means that all that was asked for came, whole.
- **`framing`.** Wherever reads end and however many packets one read holds, the function gets
  what was sent, each packet once, whole and in order; a packet is delivered without waiting
  for bytes behind it; and a connection that the client closed or lost ends, unless a read
  ended inside a size word.
- **`replay`.** A viewer that is never paused draws every object from the newest item there
  was, meshes are there before the objects sent after them, neither the two mutexes nor the
  full connection stop the threads, and the end finds no callback in a gui that is gone.
- **`mesh`.** In every legal order of operations: polygons stay closed loops, after an update
  pairs are mutual and none is missing, rings are the classes of equal position, and welding,
  updating and repacking change no polygon in space; triangulating makes the fan.
- **`frames`.** The stalls and the two semaphores are enough: pools, globals and the
  acquisition semaphore are free when they are used again, also after an acquisition failed;
  the screen shows the frame that was presented; the loop does not stop.

*Why the bounds are enough.* Every race in `getIndexFromName` is between the thread that holds
the lock and one that does not: two threads show each. Three names give a lasting name a rival
for slot 0, and a borrowed name that allocates twice; the pool of three runs dry after a
removal. Two placements are what it takes to tell old content from new, and three stages to
have one refused between two that are not. Four chunks over three types give two chunks of one
type with another type above and below, which is what the flattening is about. `Copies`
bounds memory only: five blocks are as many as two threads, their results and the slots of the
cache can refer to. A buffer of four bytes is shorter than the longest packet and longer than
the shortest, so a packet spans reads and a read spans packets, and two-byte sizes can be cut.
Two packets in a connection, a third to be written and a fourth that stops make the main
thread block in both its writes; three packets are a mesh, an object and a newer object. A
quad and a triangle on two of its edges, on points of which two or all may coincide, give
shared edges, welds that make polygons touch themselves, and fans; rings of up to four. Three
images are one shown, one presented and one acquired, and each is used again by the fourth
frame.

*Fairness.* `FairSpec` and `ManFairSpec` ask for weak fairness of each thread's steps inside a
call (`Step`, `ManStep`): a running thread keeps running. Nothing is asked of `std::mutex`; a
thread cannot be overtaken for ever because every passage through the lock uses up a slot or
ends. Callers are not made to call: opening, acquiring, placing, removing and flushing have no
fairness. `BundleFairSpec` asks the same of `build` and `read`, plain sequential calls.
In `PacketFraming` the coroutine is fair (the io context resumes it when a read ends, and TCP
ends a read when there is something) and so is a client in the middle of a packet; sending,
closing and losing the connection are not. In `Replay` both threads are (`WF`), and the
server's two acquisitions of a mutex strongly (`SF`): the main thread takes and gives back the
mutexes again and again, and a mutex that passes over a waiting thread for ever would be the
operating system's fault. In `FrameLoop` the loop, each queue of the GPU, and the engine's two
steps are weakly fair, as the driver promises progress; that an acquisition succeeds is not
assumed. `Mesh` has no liveness.

*Deadlock.* The configurations of the resource manager and of the bundles say
`CHECK_DEADLOCK FALSE`, as the instances do stop: a thread that spins on an empty pool holds
the lock, and a bundle that is built and read is done. So does `PacketFraming.cfg`: a client
that has sent its packets may stay silent for ever. That nothing hangs otherwise is what the
liveness properties are for. `replay`, `mesh` and `frames` are checked for deadlock; the end of
the application is an action that changes nothing (`Done`, `Terminated`).

## The proofs

They hold for every value of the constants that meets the modules' assumptions, and for those
alone: finite or infinite sets of threads and names, any pool size, any number of chunks,
packets, meshes, objects, images and frames; meshes of any size, of polygons with any number of
sides, and any number of edits.

| Module | Theorem | States |
|---|---|---|
| `ResourceNamesProofs` | `TypeCorrect` | `Spec => []TypeOK` |
| | `NamesAreUnique` | `Spec => []OneIndexPerName` |
| | `PoolIsAccounted` | `Spec => []PoolAccounted` |
| | `LockedResultIsSettled` | `Spec => []LockedResultSettled` |
| | `IndicesKeepNames` | `Spec => IndexKeepsName` |
| | `HandlesAreRight` | `Spec => []HandlesRight` |
| | `NamesImplementTable` | `Spec => NamePromiseSpec` |
| `ResourceManProofs` | `ManTypeCorrect` | `ManSpec => []ManTypeOK` |
| | `ManHandlesAreRight` | `ManSpec => []HandlesRight` |
| | `ManNamesKeepPromise` | `ManSpec => IndexKeepsName /\ NamePromiseSpec` |
| | `FirstLoadWins` | `ManSpec => CacheSlotStable` |
| | `CacheServesNames` | `ManSpec => []ServesName` |
| | `NothingStaysIncomplete` | `ManSpec => []IncompleteIsBeingLoaded` |
| | `ContentIsCurrent` | `ManSpec => []CurrentContent` |
| `BundleWriterProofs` | `WriterTypeCorrect` | `WriterSpec => []WriterTypeOK` |
| | `DependenciesComeFirst` | `WriterSpec => []DependenciesFirst` |
| | `DirectoryIsComplete` | `WriterSpec => []EveryChunkOnce` |
| `BundleReaderProofs` | `ReaderKeepsBuild` | `BundleSpec => WriterSpec` |
| | `BundleTypeCorrect` | `BundleSpec => []BundleTypeOK` |
| | `HandlersFollowDependencies` | `BundleSpec => []DeliveredInOrder` |
| | `GaplessReadsSucceed` | `BundleSpec => []GaplessReadWorks` |
| | `OkayMeansWhole` | `BundleSpec => []OkayIsWhole` |
| `PacketFramingProofs` | `FramingTypeCorrect` | `Spec => []FramingTypeOK` |
| | `PacketsArriveInOrder` | `Spec => []DeliveredIsSent` |
| `ReplayProofs` | `ReplayTypeCorrect` | `Spec => []ReplayTypeOK` |
| | `MeshesComeFirst` | `Spec => []MeshBeforeObject` |
| | `GuiOutlivesCallbacks` | `Spec => []NoCallbackAfterGui` |
| | `NewestIsDrawn` | `Spec => []DrawsNewest`, if `MaxDelta <= Window` and `MaxPackets <= StableUpTo` |
| `FrameLoopProofs` | `NothingIsInUse` | `Spec => []NothingInUse` |
| | `FrameTypeCorrect` | `Spec => []FrameTypeOK` |
| | `TheFrameIsShown` | `Spec => []ShowsTheFrame` |
| `MeshProofs` | `MeshTypes` | `Spec => []MeshTypeOK` |
| | `RingsHold` | `Spec => []RingsAreClasses`, if `MaybeDeleted = FALSE` |
| | `LoopsHold` | `Spec => []LoopsClose`, if `MaybeDeleted = FALSE` |
| | `PairsHold` | `Spec => []PairsMatch`, if `MaybeDeleted = FALSE` |

Every inductive invariant was checked by TLC on the run's instance before it was proved.

*Names.* None of the properties is inductive by itself. The invariant `IInv` joins `TypeOK`,
`OneIndexPerName`, `PoolAccounted` and `LockedResultSettled` and adds: a thread is at a locked
place exactly when it holds the lock (`LockInv`); between the failed second find and the
insertion no node with a live key has the thread's name, the index it took carries that name,
and the half-published node is in the map (`HolderInv`); keys of durable names stay alive
(`KeyInv`); and what a call knows of its arguments (`CallInv`). `HolderInv` is what makes names
unique, and where the second find is needed. `FoundInv` adds what an unlocked find gives as long
as no premature one happened, which is what `HandlesAreRight` rests on. Every action has a step
of its own. The refinement maps `AssignIndex` of a durable name to `Bind`, of another to
`Spend`, `RemoveName` to `Forget` or a stutter, and everything else to a stutter.

*The manager.* The invariant of the names is proved for `NamesSpec`, which has besides the steps
of `Spec` those with which a callback enters and leaves the lookup. Each step of the manager is
one of these for the names, or none (`NamesStep`); so what holds of the names, and the
refinement of `NameTable`, hold below the manager too. `SlotInv` says what a slot of
`indexToBase` can hold. On top of that `ShapeInv` ties the places of a call together: where a
thread is in `acquire` and where in the lookup within it (`PlaceInv`), that a block some place
refers to holds a resource (`ObjInv`), who holds the cache's mutex (`MutexInv`), that what is in
memory was placed (`PlacedInv`), and what a thread knows of the resource it builds (`LoadInv`):
it is the chunk the read has come to, of the content the storage has *now*, and it has the
stages gone by. `ManTypeOK` needs all of it. `ServesInv` adds that a thread about to insert has
an index of its resource's name, which is where the callback's lookup by name enters. Relative
to these invariants `IncompleteIsBeingLoaded` and `CurrentContent` are each inductive. For
`CurrentContent` it matters that a name placed again gets a new index, of which nothing is
cached when its node is settled (`SettledBefore`).

*Bundles.* What the property says at the end is prepared by the notes (`NoteInv` of `OrderInv`):
for every noted chunk, each chunk it depends on is noted later, or is on the stack, or is one
the search of the last note's dependencies has not reached yet. When the stack is empty it is
noted later, so the backward walk has kept it before (`WalkInv`). Nothing says that types do
not depend on each other in a circle: with one, `build` does not come to its end. For
completeness every chunk is on the stack or noted (`StackInv`), and the walk keeps every note it
passes, once.

*Reading.* `ReaderKeepsBuild` makes the writer's theorems hold beside the reader. `ChunkEnd` is
a recursive function: `ChunkEndDef` proves that one with its equation exists, by an induction
over the natural numbers, and from it `Layout` has the ends of the chunks growing and every
chunk inside the file. The invariant has three parts: what a call starts from (`CallInv`); that
what was delivered is exactly what was taken of the entries passed, undamaged and in their order
(`PassInv`); and that the stream stands behind the chunk delivered last, whose stored size is in
`lastStoredSize` (`PosInv`). With the order of the directory `PassInv` gives
`DeliveredInOrder`; with `i > Len(final)` at Okay it gives `OkayIsWhole`. For `GaplessReadWorks`
the relative seek lands on the chunk's start when the entry before was delivered, or when the
first to be read starts at 0 (`GaplessSeek`).

*Framing.* The bytes of all packets sent, one behind the other, are a stream `T`, with the
packets' ends `S`; the invariant says that they exist (`DeliveryInv`) and where everything is in
them: the packet being put together has the first bytes of the first packet that was not
delivered (`AsmInv`), what is left in the receive buffer follows these, what is on the wire
follows that, and the client's pending writes follow the wire (`UnderWay`, `PendingInv`). Every
action moves bytes between these places and leaves the stream alone, but for `SendPacket`,
which makes it longer. All holds as long as no read ended inside a size (`cut`); types hold
anyway.

*Replay.* `TypeInv` says besides the types which packet the server has in hand (`HandInv`) and
that every item, in `items` or still to be decoded, stands for a packet that was added before
(`ItemsAdded`); a sort and `getRange` keep that, being selections of what there was. On top of
it `MeshInv`: the mesh of every added packet of that kind is in `meshMap` (`MeshesThere`),
already while the server is at `push` (`PushedIsThere`), and what is shown was added
(`ShownAdded`). An object that is decoded was added after the packets before it, so its mesh is
there. It is where the place of the callback, before `push_back` and under the mutex, matters:
were the mesh left to the frame loop, `MeshesThere` would not be kept. `EndInv` is short: past
`Join` the server has ended.

`NewestIsDrawn` has two hypotheses that are the conditions its property names: without the first
items fall out of the window, without the second the sort may swap two of one time, both
findings. `ChronicleInv` says that items are in the order of their packets *and* of their times,
which a sort that keeps ties leaves alone (`SortedStays`: a permutation that never turns two
around moves nothing). `LateInv` bounds what the window can miss: an item added after the last
question is not older than that question, plus `MaxDelta` while a frame has passed since.
`SeenInv` then has every item before those still to be decoded already drawn or overtaken.

*Frame loop.* `FrameInv` leaves the pictures aside. Scenes are with the GPU only while the loop
stalls and uploads only while it waits for them; a batch that waits for `imageAvailable` is
there only between `BlitAndPresent` and the next stall, and the semaphore is not off only from
`Acquire` until that batch has run (`UseInv`). `BatchesOK`, that a present waits for nothing
but the blit, is what makes an idle queue one without scenes although a present may be left in
it. The lemmas `RunIsBatch`, `AppendBatch`, `AppendKeeps` and `TailOfQueue` say what running an
encoder and finishing a batch do to a queue.

The pictures need more (`ScreenInv`). A scene with the GPU is of the frame the loop is at, so a
stall leaves `picture = frame` (`PictureInv`). An image on its way to the screen is on it once,
in one place, and is acquired (`FlightInv`). A blit stands directly before the present of its
image, after no scene, waits for the image, and when the wait is over the image is not on the
screen (`BlitInv`). From these an image on its way, once its blit has run, holds the frame it is
shown for (`HeldInv`), although the engine may give away the image it is still showing.

*Mesh.* `MeshTypeOK` is inductive when the sizes of the containers are named
(`TypeInv`, `Meshes(v, h, p)`). Every operation is a fold over a walk or over a container, so
each operator has a lemma that says what *one* step of it does, field by field (`WeldedToIs`,
`LinkedIs`, `PairedIs`, `WithPolygonIs`, `WithoutIs`, `FannedAtIs`), and one that carries what
every step keeps to the end of the fold (`WeldedToRuns` and its like). What the properties say
of a walk is then said without it, as relations between neighbours and sets closed under them:

- `RingOK`: the ring of a live vertex leads to a live one in the same place, and no two to the
  same. `ClassesOK`: a set of vertices that the ring does not lead out of has, with a vertex, all
  in its place. While `createPointReps` runs, `RepsOK` and `RepsJoin` say so of the vertices
  linked so far; as they are sorted by x alone, others may stand between two in one place, which
  is why it is not enough that each vertex looks at the one before it. `RingInv` has `RingOK` always and `ClassesOK` after
  an update.
- `LoopsOK`: `next` stays within a polygon, leads from end to start, to no half edge twice, and
  goes around *all* of the polygon (`CyclesOK`); half edges and polygons own each other; `prev`
  leads back unless it is stale. `LoopsClose` alone is not inductive: triangulating and removing
  walk the polygon and rely on having met every half edge of it. `NotedOK`: half edges are
  between live vertices, whose lists have them as long as no vertex is welded, and have nothing
  deleted that still ends there; welding moves ends by these lists. `LoopInv` is both, and
  `RingInv`, as long as nothing is torn. In between, while the half edges around a polygon are
  removed one by one, `Thinned` says that what is left of them is still linked back and forth.
- `PairsOK` and `NoMorePairs` are what `PairsMatch` says, after an update. Pairing in order keeps
  pairs mutual, and leaves nothing behind that matches what was visited (`PairedSoFar`): that the
  visits meet every live half edge is again `LoopsOK`, that the list of the lower end has every
  match is `NotedOK`.

The last three theorems have the hypothesis `MaybeDeleted = FALSE`, as the run has. Rings and
loops need it: with TRUE in the run's configuration TLC finds `RingsAreClasses` and `LoopsClose`
violated (rings break, and a weld then moves only one of two half edges that meet), a finding.
For the pairs it comes with the loops, on which their proof rests.

*Induction.* The library's induction theorems take a predicate as a parameter, which the
provers cannot instantiate. Where an induction over the natural numbers is needed it goes
through a set: a set that has 0 and with every number the next has them all (`InductiveSet`,
and `UpTo` for the numbers up to a bound, from `WFMin`), or the least element that breaks a claim (`SortedStays`).

*Model-checked only.* Liveness (`LookupReturns`, `AcquireReturns`, `BundleEnds`,
`EverythingDelivered`, `ConnectionEnds`, `EveryPacketAdded`, `Closes`, `FramesGoOn`), which
depends on fairness and `ENABLED` and is out of TLAPS's reach. And `ShapeKept` of `Mesh`. It
compares the *sequences* of corners before and after: for a repack that needs what place a vertex
and a polygon come to when others are taken out, for a triangulation what `FlattenSeq` makes of
a sequence of fans, which is a recursion over the data, the induction the prover cannot do.

## Findings

PROJECT.json lists them with their lines. The four that a run shows: the assertion of
`openByIndex`, the assertion of the cache's `insert`, a resource returned before its stages are
set, and chunks without a handler that make an intact file corrupt. The rest were met while
reading and modelling:

- resources and bundles: a disk name without sub-object is read again for ever; the reader
  seeks backward although it says it never does; two tests contradict the code they test; stage
  pointers point past their memory; `okay |=` lets a refused stage go unnoticed;
  `Writer::write` writes every valid link as null;
- network and replay: a read that ends inside a size word cuts every later packet wrongly;
  the server's threads are joined in the loop that makes them; a frame longer than a second
  misses items; more than sixteen items of one time may be reordered; `update` and the server's
  `stop` race with the other thread;
- mesh: triangulating leaves `prev` stale; a weld of a new mesh finds point reps that hold
  nothing; point reps are used uninitialised; `MaintenanceEdits` has the bits of other edits;
  the half edges of a welded vertex are missing from the list until a repack;
- Vulkan: the blit's encoder is destroyed while it is pending; a swap chain that is out of date
  is never made again.

## Not modelled

Everything with status `not_modelled` in PROJECT.json, for the reasons given there: pure
arithmetic over floating point (math, geometry, most of meshops), formatting (binify,
WriteHelper), platform calls (shell, input, the driver calls of vulkan), and callers of the
libraries. Most of the repository's lines are vendored (`vk_mem_alloc.h`, `src/libs/thirdparty`,
the test framework) and not the system's own.

Inside the modelled parts: `resolveLink` and links in resources, more than one manager,
`removeHandler` and savers, the layout of a resource's block, compression and pointer fixups,
concurrent use of the operations tbb calls unsafe; several connections at once, `accept` and
its errors, resolving; items whose JSON does not parse, positions of objects, tactical maps and
their callback, the log window; `Vertices::clone` and `remove`, `removeEdge`,
`HalfEdges::repack` (its only call is commented out), attributes other than positions, and
turning off the maintenance of half edges, which nobody does; fences (no caller passes one),
the recording of commands, and the making of the swap chain.

## Plan

In this order.

1. **The last safety property without a proof**: `ShapeKept`, in parts: that welding and
   pairing keep the corners of a polygon in space, then that repacking keeps the sequence of corners.
2. **Resource handles inside resources.** `resolveLink` with links between chunks of one
   bundle and across bundles, in `ResourceMan`; the layout of a block with its prefix and the
   stages' memory as a module of its own (`StageMemory`), with bounds as the property.
3. **Free lists** (`FreeList`): the explicit and the intrusive list, shown to implement one
   abstract pool, which `ResourceNames` uses as well.
4. **More of the network**: accepting, several connections, start and stop with several threads.
5. **Removal in meshes**: `Vertices::remove`, `clone` and `removeEdge`.
6. **Pulsars** if time allows: the catch-up loop with callbacks that take time.
