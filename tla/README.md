# DisplayWald 2 in TLA+

This directory holds TLA+ specifications of dw2 (DisplayWald 2), a service that
shows the frames of an MPI-parallel renderer on a wall of displays, together with
the TLC configurations that check them and the TLAPS proofs about them.

## 1. The system

A *server* runs one MPI rank per display of the wall, and optionally one more, the
*head node*. A *client* is a rank of the renderer. Clients split every frame into
tiles, compress them, and send each tile to the ranks whose part of the wall it
touches (or all of them to the head node, which passes them on). A display
assembles the tiles of a frame; when all displays have the frame, all show it, and
rank 0 sends the clients a token that lets them begin one frame more.

| component | source | state | operations | what makes it correct |
|---|---|---|---|---|
| Mailbox | `common/Mailbox.*` | queue, mutex, condition variable | `put`, `get` | FIFO; nobody sleeps while there is a message |
| Time-stamped mailbox | `common/Mailbox.*` | queue, deferred messages, current frame | `put`, `get`, `startNewFrame` | only tiles of the current frame pass; a later one waits until its frame starts; none that is needed is dropped |
| Frame assembler | `service/FrameAssembler.*` | frame under assembly, its pixel count, queue of finished frames, 4 threads | thread loop, `finishFrame`, `collectAssembledFrame` | every frame whole, once, in order; never touched again |
| Server | `service/Server.*` | the above per rank, MPI communicators | start-up barriers, hand-shake, tokens, `waitForNextAssembledFrame`, `syncOnFrameReceived` | displays in lock step; at most `maxFramesInFlight` frames in flight; every frame shown, unless an assembler was set back (finding 1) |
| Dispatcher | `service/Dispatcher.*` | send thread on the head node, receive threads on displays | `MPI_Send` to every overlapping display, `put` | each display gets each of its tiles once |
| Socket group | `common/SocketGroup.*` | remotes, outbox, inbox, condition variable | connect, accept, `waitForRemotesToConnect`, `broadcast`, `sendTo`, send and receive threads | the server starts when all clients of one run are connected, and does start; each message comes once and whole, unless its client or its display has ended |
| Socket | `common/Socket.*` | file descriptor | connect, bind, accept, read, write | - |
| Client library | `client/dw2_client.cpp` | out queue, 16 compressor threads, frame number | `dw2_connect`, `dw2_begin_frame`, `dw2_send_rgba`, `dw2_end_frame`, `dw2_disconnect` | a tile goes to every display it touches, under its frame's number; no compressor thread sleeps over a tile |
| Info server and service info | `service/InfoServer.*`, `common/ServiceInfo.*` | the service's description | `getInfo`, `sendTo`, serve loop | what a client reads is what the server configured |
| Wall geometry | `service/Server.h`, `common/vec.h` | regions of displays | `regionOfDisplay`, `overlaps` | regions disjoint, inside the wall |
| Tile coding | `common/CompressedTile.*` | - | encode, decode | round trip of header and (approximately) pixels |
| MPI wrapper | `common/mpi_util.*` | communicators | barrier, send, probe, receive, broadcast | - |
| Display window | `service/glfwWindow.cpp`, `service/main.cpp` | frame buffer to draw, frame-setter thread | `setFrameBuffer`, `getFrameBuffer`, `display`, `main` | a window draws frames it was handed |

### Interaction

    renderer --dw2_send_rgba--> out queue --compressor threads--> outbox of a remote
      --send thread--> TCP --receive thread--> inbox (time-stamped mailbox)
      --assembler thread--> FrameToBe --finishFrame--> finishedFrames
      --main thread: collectAssembledFrame, barrier--> window
                                   |
              rank 0: token to every client --> dw2_begin_frame

With a head node the inbox of rank 0 feeds the dispatcher, which sends tiles over
MPI into the inboxes of the displays.

### What is hard

* Four assembler threads share the mailbox, the frame and the finished queue, under
  three different mutexes taken one after the other: between `inbox->get()` and
  `getCurrentFrame()`, and within `finishFrame()`, other threads run.
* Tiles come in any order within the window of frames in flight, from 16 compressor
  threads per client and many clients.
* The mailbox is restarted by three parties: the assembler's threads, the main
  thread of the server (`startNewFrame(0)`), and rank 0 on a head node.
* One send thread serves all remotes of a client, one receive thread all remotes of a
  display, and both block in the middle of a message when a connection is full or has
  not all of it yet. A client may leave at any time, its process exiting with tiles
  queued, half written and half read; the service finds out, or not, by `POLLHUP`. A
  display that ends then ends other clients, whose receive threads find out the same way.
* Start-up is a chain of barriers, connections and hand-shakes between processes
  that start in any order.

`PROJECT.json` lists each hazard with its line.

## 2. The modules

| module | what it is | source |
|---|---|---|
| `TimeStampedMailbox` | the mailbox as operators on a record, one operator per method | `common/Mailbox.*` |
| `MailboxService` | abstract: what threads that share a mailbox may rely on | |
| `MailboxMonitor` | the mailbox with its mutex, condition variable and sleeping threads | `common/Mailbox.*` |
| `FrameStream` | abstract: what the assembler of one display promises | |
| `FrameAssembler` | one display: assembler threads, main thread, mailbox, arriving tiles | `service/FrameAssembler.*`, `service/Server.cpp` |
| `FrameAssemblerInvariant` | the inductive invariant of `FrameAssembler` | |
| `SoftBarrier` | abstract: what `dw2_connect()` promises the renderer's ranks | |
| `ConnectionSetup` | start-up: constructors of all ranks, accepter and send threads, `dw2_connect()` of all clients | `service/Server.cpp`, `common/SocketGroup.*`, `client/dw2_client.cpp` |
| `WallService` | abstract: what dw2 as a whole promises | |
| `DisplayWall` | the wall in operation without head node: renderer, network, collecting threads, barrier, tokens, windows | `service/Server.cpp`, `service/main.cpp`, `service/glfwWindow.cpp`, `client/dw2_client.cpp` |
| `HeadNodeWall` | the wall in operation with head node: its mailbox, dispatcher, main loop, MPI channels, displays | `service/Server.cpp`, `service/Dispatcher.cpp` |
| `TileNetwork` | abstract: what lies between `dw2_send_rgba()` and the inboxes of the displays | |
| `TileTransport` | one tile's way there: the client's queue and compressor threads, outboxes, send threads, connections that fill and end, receive threads, `dw2_disconnect()` | `client/dw2_client.cpp`, `common/SocketGroup.*`, `common/Socket.cpp` |
| `TileTransportInvariant` | the inductive invariant of `TileTransport` | |
| `WallGeometry` | boxes, the regions of displays, ranks and nodes, offsets in row-by-row arrays: operators only | `common/vec.h`, `service/Server.h`, `service/FrameAssembler.cpp` |
| `TilePath` | the way of one frame's pixels from the renderer's arrays into the frame buffers of the whole wall | `client/dw2_client.cpp`, `common/CompressedTile.*`, `service/Dispatcher.cpp`, `service/FrameAssembler.cpp` |
| `ServiceDiscovery` | how renderers learn of the wall: gathering of the nodes, info server, `dw2_query_info()`, the beginning of `dw2_connect()` | `service/Server.cpp`, `service/InfoServer.cpp`, `common/ServiceInfo.*`, `common/Socket.cpp` |
| `ServiceDiscoveryInvariant` | the inductive invariant of `ServiceDiscovery` | |
| `MailboxFacts`, `FrameAssemblerProofs`, `MailboxMonitorProofs`, `TileTransportProofs`, `ConnectionSetupProofs`, `DisplayWallProofs`, `HeadNodeWallProofs`, `WallGeometryProofs` (with `TilePath` and `ServiceDiscovery`, which extend `WallGeometry`) | proofs | |
| `MCFrameAssembler`, `MCMailboxMonitor`, `MCDisplayWall`, `MCHeadNodeWall`, `MCTileTransport`, `MCTilePath`, `MCServiceDiscovery` | small instances for TLC | |

### How they compose

                      WallService                        SoftBarrier
                           ^ implements                      ^ implements
     MailboxService   DisplayWall  HeadNodeWall  <--start-- ConnectionSetup
          ^ implements   | ^   EveryDisplayIsFed |              ^ nodes, ports
     MailboxMonitor      v |                     v          ServiceDiscovery
          |         FrameStream (one per display)               | regions
          |              | ^ implements                         v
          +-- get() --> FrameAssembler <--CoverAssumption-- TilePath (WallGeometry)
                         ^
                    TileNetwork  <--implements-- TileTransport

* `FrameAssembler` takes a tile from its mailbox in one step and assumes that a thread
  in `get()` proceeds when there is a tile. `MailboxMonitor` shows both: with its mutex,
  condition variable and spurious wake-ups it implements `MailboxService`, fairness
  included.
* `FrameAssembler` implements `FrameStream`, and `DisplayWall` and `HeadNodeWall` use
  `FrameStream` in its place (`Stream(d)`, one for each display). `FrameStream` assumes
  that each tile comes once and at most `MaxFramesInFlight` frames ahead; that tokens,
  barrier and dispatcher make it so is `EveryDisplayIsFed` of both.
* `ConnectionSetup` ends where these two begin: all clients connected everywhere,
  `MaxFramesInFlight` tokens sent. Its `NoFrameTooEarly` is why `PutTile` of
  `FrameAssembler` may wait for `main` to be past the construction, and
  why a client in `DisplayWall` begins a frame per token.
* `Arrive` of `DisplayWall` and `PutTile` of `FrameAssembler` let the tiles that were sent
  come in any order, each once and whole. That is `TileNetwork`, and `TileTransport`, which
  has the threads and connections in between, implements it. What is abstract there and
  fair here is `TilesGetThrough`: no circle of blocked threads keeps a tile.
* `OnlyRewindStops` of `FrameAssembler` is what the fairness of `Collect` in the two walls
  rests on: once all tiles of the next frame are there it is handed over, unless the
  mailbox was set back. `AcceptTiles` of the walls sets it back or not, and a display that
  it has set back need not collect.
* `ServiceDiscovery` ends where `ConnectionSetup` begins: a client has the nodes in the
  order of the ranks, and their ports are open (`ClientsFindTheService`).
* `TilePath` has pixels and regions but no order, the others have order but no pixels.
  `FrameAssembler` takes it as given that the tiles of a display cover it, every pixel
  once, with at least one pixel each (`CoverAssumption`), that a tile is sent to each of
  its displays (`Reach` of `HeadNodeWall`), and that counting pixels is right.
  Theorem `TilesCoverDisplay`, `EveryScreenFills` and `EveryPixelCountsOnce` show it of the code's
  arithmetic, from a tiling of the wall alone.

### State and actions, and the code

**TimeStampedMailbox.** The record `[currentFrameID, messages, futureFrameMessages]` has
the members of the class. Every method holds the mutex from its first to its last line,
so each is an operator: `LockedPut` (drop, let through, defer), `CanGet`/`Front`/`PopFront`
(`get()`), `StartNewFrame`. The code's `startNewFrame()` puts the deferred messages
again one by one, which is `StartNewFrameLoop`; `StartNewFrame`, which the other modules
use, says what comes out, and `RePutKeepsOrder` that it is the same.

**MailboxMonitor.** `Take`, `Wait`, `Put`, `StartFrame` are the critical sections;
`WakeUp` is a spurious wake-up. A notification is part of the step that makes it,
since `locked_put()` notifies with the mutex held.

**FrameAssembler.** `worker[t].pc` is where an assembler thread is: `Get`, `FetchFrame`,
`WritePixels`, `MarkPixelsCompleted` are one round of `assemblerThreadFunction()`;
`PushFinished`, `SetNextFrame`, `StartInbox` are the three critical sections, under two
mutexes, of `finishFrame()` and `startOnNewFrame()`. The main thread goes through
`ConstructSetFrame`, `ConstructStartInbox` (the assembler's constructor), `AcceptTiles`
(the last line of `Server`'s), then `CollectAssembledFrame` for ever. `PutTile` is the
receive thread.

**ConnectionSetup.** `rank[r]` is the line of `Server`'s constructor a rank is at;
`CheckRemotes`, `FallAsleep`, `WakeUp` are the parts of `waitForRemotesToConnect()`
that the accepter thread can come between, because `Accept` and `Notify` do not take its
mutex. `backlog` is the listening socket's queue, `outbox` the send thread's queue.
`client[c]` counts the ranks that a client has connected to and been greeted by and the
frames it has begun; its `inbox` holds hand-shake and tokens alike, as the code's does.
A *stranger* connects with the magic of another run and is turned away.

**DisplayWall.** `client[c]` is `g_frameID` and whether the client is between
`dw2_begin_frame()` and `dw2_end_frame()`. What a client sends a display of one frame is
one *batch*; `Arrive` lets batches through in any order, since 16 compressor threads,
one TCP connection per pair, and the receive threads keep none. `setter[d]` is where the
thread that collects frames is: `AcceptTiles` (the late `startNewFrame(0)`), then
`Collect`, `LeaveBarrier`, `Announce` on rank 0, `SetFrameBuffer`. `AcceptTiles` may set a
display back (`setBack`) when the tiles of frame 0 are all there by then, for the assembler
may have completed it. `Draw` is the window's thread, at any time.

**HeadNodeWall.** The inbox of rank 0 is a `TimeStampedMailbox`; `TakeTile` and
`Forward` are the dispatcher's thread on rank 0, `Receive` those on the displays;
`channel[d]` is MPI's, in order. A message goes to one rank per `Forward`, in the order
of the loop (`forwarded` is how far it got, `FinishTile` its end), and a send blocks
while MPI holds `ChannelSize` messages for that rank: a slow display holds up the
others. `head` is where the head node's main loop is: `StartAccepting`, then
`LeaveBarrierHead`, `Announce`, `Restart` for ever. The displays start with
`AcceptTiles`, as in `DisplayWall`.

**TileTransport.** A message is a sequence of parts, the first its size. `Put` is
`Client::put()` with its `notify_one()`, `Take`, `Wait`, `SendTo` the critical sections of
a compressor thread and its call of `sendTo()`. `GetMessage` and `WritePart` are the send
thread: the whole message to the first rank, then to the next; a part waits until there is
room in the connection (`PipeSize`). `Poll` fixes, for one round, which remotes are readable
and which have hung up (`ready`, `hungUp`: the `revents`); `ReceiveSize` and `ReceiveData`
are the two `recv()` of the round, between which the thread waits for nobody else.
`Disconnect` is the `exit(0)` of `dw2_disconnect()`: what is written stays in the
connections, all else is gone. `LoseDisplay` is the same end of a client by its own receive
thread, once a display has stopped; of that thread's work this is all that bears on tiles,
and so all that is modelled. After either, `ReceiveTorn` is a second `recv()` that ends early,
whose result the code does not look at, and `ExitHungUp` the "socket is disconnected"
branch. `POLLHUP` needs both directions to be closed, which a token sent to nobody brings
about (`TokenToNobody`, with the reset that it is answered with); until then the first
`recv()` returns 0 and `ReceiveNothing` goes on with a size that was never read.

**WallGeometry.** `RegionOfDisplay`, `Overlaps`, `Size` are the functions of the same name;
`OffsetIn` is `tileOfs` and `localOfs` of the assembler; `Pixels` is the range of its two
loops. `RegionOfRank` and `RegionOfNode` are the two places where ranks become displays,
with and without head node. `Tiles` is what the renderer has to do.

**TilePath.** `SendRGBA`, `Compress`, `Dispatch`, `Assemble` do what the function of a
thread does with one tile. `Rendered` is the renderer's array with its pitch, `Packed` the
loop in `dw2_send_rgba()`, `Encode` and `Decode` the plain coding, `Copied` and `NumWritten`
the assembler's loops. A pixel's value is the place it was rendered for, so that a wrong
stride is seen as a pixel in the wrong place.

**ServiceDiscovery.** `rank[r]` is the line of `Server`'s constructor a rank is at, until
its info server runs; `channel` and `reading` are what is sent over MPI and what rank 0 has
read of a node. The info thread writes one value at a time (`WriteField`), a client reads
one at a time (`ReadField`). `ServiceEnds` is the `exit()` of a receive thread when a
renderer has gone: in the middle of an answer, if it comes to that. `Garbage` is what the
memory of `hasControlWindow` may hold.

## 3. What is checked

Each run states its properties in its `.cfg`; every property is stated in words where it
is defined.

| run | instance | shows |
|---|---|---|
| `assembler` | 3 threads, 3 tiles, 4 pixels, frames 0-2, 2 in flight | every frame is assembled from its own tiles, whole, once, in order, never touched afterwards; no tile lost; every queue bounded; implements `FrameStream`; a frame whose tiles are there is handed over, unless the mailbox was set back (below) |
| `assembler_rewind` | 2 threads, 2 tiles, frames 0-1 | **violation**: finding 1 |
| `mailbox_monitor` | 2 threads, 5 messages of 3 frames, frames started in any order | nobody sleeps over a message; implements `MailboxService` |
| `connect` | 2 ranks, 2 clients, 1 stranger, 2 tokens, with and without head node | nobody renders before everybody is connected; hand-shakes are not taken for tokens; `remotes` fixed once used; implements `SoftBarrier`; everybody gets together unless a notification is missed (below) |
| `connect_missed_notification` | 1 rank, 2 clients | **violation**: finding 2 |
| `wall` | 2 displays, 2 clients (one with tiles on both, one with tiles on the first only), frames 0-3, 2 in flight | lock step; frames in flight bounded; implements `WallService`; feeds every `FrameStream`; the last frame comes on every screen, or a display that was set back waits in vain |
| `head_node` | 2 displays, tiles for one, both and none of them, one MPI message per display, frames 0-2, 2 in flight | only tiles that no display needs are dropped; nothing is passed on late or early; feeds every `FrameStream`; every frame reaches every display and is announced, or a display that was set back waits in vain |
| `transport` | 2 displays, 2 clients of which one may leave, 2 compressor threads each, tiles for both displays and for none, messages of 2 parts, connections that hold 1 | each tile comes to each of its displays once and whole, unless its client or that display has ended; another client that leaves can bring that about only by ending a display; no compressor thread sleeps while a tile waits; nobody waits in a circle; implements `TileNetwork` |
| `transport_close` | the same | **violation**: finding 3 |
| `tile_path` | 3 x 2 displays of 2 x 1 pixels, bezels of 1, four tilings, arrays with and without slack, with and without head node | every pixel of a complete display is the one rendered for its place; no tile is sent in vain; the count is right; the wall gets complete |
| `service_discovery` | 2 displays, with and without head node or control window, 2 clients that query and connect | clients learn the nodes in the order of the ranks, when all ports are open; only the end of the service cuts an answer off; nobody waits for ever |
| `control_window_unset` | the same with 1 client | **violation**: finding 4 |

### Findings

1. **`Server.cpp:297`: a late `startNewFrame(0)` can stop a display for ever.** The
   assembler's constructor starts frame 0. The server sends out the tokens, and then
   calls `startNewFrame(0)` once more. Between the two a client can have sent all of
   frame 0 and the assembler threads have completed it and started frame 1. The mailbox
   is set back to 0; the tiles of frame 1 are deferred and nobody starts frame 1 again.
   `OnlyRewindStops` says that nothing else stops a display, and `OnlyRewindStopsTheWall`,
   with and without head node, that nothing else stops the wall, which one such display
   holds up at the next barrier. Safety holds all the same.
2. **`SocketGroup.cpp:176`: a missed notification.** The accepter thread adds the last
   remote and notifies without the mutex that `waitForRemotesToConnect()` holds. If both
   happen between that function's check and its wait, the rank sleeps for ever, and with
   it the service, at the next barrier. `OnlyMissedNotificationStops` says that nothing
   else keeps service and renderer apart.
3. **`SocketGroup.cpp:115`: a made up message when a client has gone.** The comment
   says "Socket is disconnected and buffer empty, we should exit", but the code does so
   only when `POLLHUP` is set, and Linux sets it when both directions are closed. A display
   sends its clients nothing, so after `dw2_disconnect()` it finds a readable socket, 0
   bytes, and no `POLLHUP`, and takes the variable that should hold the size, never
   assigned, for one. `ImplementsNetwork` and `TilesGetThrough` say what is left: this
   happens only after a client has left, and harms no tile of another client before a
   display ends. Then the receive threads of the other clients find their connections to
   that display at an end, by the same lines: a client may exit (`LoseDisplay`), and what
   it had still to send to displays that run is lost.
4. **`Server.cpp:88`: `hasControlWindow` is sent without having been set.** The constructor
   of `ServiceInfo`, "that initializes everything to default values", leaves it out, and
   the server assigns it only when there is a control window. What `dw2_query_info()`
   reports otherwise is whatever the memory held.

Noticed and harmless: `Mailbox.h:75-76` has it that the queue holds only messages of the
current frame. On the head node a tile within a bezel is not waited for, and may still be
queued when the next frame is started; `TilesPassTheHeadNode` holds all the same.

### Bounds, and why they are enough

* *Frames* (`LastFrame`): a display treats a frame that is not the first the same way as
  the next one, so what can happen to a frame happens with one before it, one after it,
  and the frame itself: three frames, one more than are in flight. One frame more is
  opened than is sent. The renderer stops after its last frame, so the bounded system
  stops too: `CHECK_DEADLOCK FALSE` in the runs of the assembler and the wall.
  `ConnectionSetup` ends when everything is running, or hangs in finding 2. The
  `MailboxMonitor` never stops (threads may always wake), and deadlock is checked.
* *Threads*: the code has four assembler threads. Three with three tiles let each hold a
  tile of one frame; a fourth would only have a tile in hand as one of three has. Their
  symmetry is not used, as it is not sound for liveness.
* *Tiles* are few, of different sizes, so that the completion count passes through values
  that are no multiple of one tile.
* *Displays and clients*: two of each, with a client that has no tiles on one display.
* *Pixels*: windows of two by one pixels make strides and rows differ; three by two
  displays tell columns from rows; the four tilings have a tile over the whole wall, tiles
  that cut a window, tiles cut off at the border, and a tile that is all bezel. `MaxSlack`
  is one unused pixel per row of the renderer's array.
* *Connections*: a message of two parts (`DataParts` is 1) can be half written and half
  read, and a connection that holds one (`PipeSize`) blocks both ends at once, which is
  the worst for `TilesGetThrough`; a larger one has more room and no other state of either
  end. One client may leave (`Leavers`), the other sees what that does to the displays.
  Of messages that a display makes up only the first is kept: the thread goes on making
  more. The system ends when all is sent or the displays have stopped:
  `CHECK_DEADLOCK FALSE`.
* *MPI's buffers* (`ChannelSize`): one message for each display, the least that lets a
  send return, blocks the dispatcher most often; with two the properties hold as well.
* *Requests*: a client queries once and connects once, which lets two requests wait for
  the info server while it serves a third, or while the service ends. `TilePath` and
  `ServiceDiscovery` end when all is shown or known: `CHECK_DEADLOCK FALSE`.

The theorems of section 5 hold for all values of these.

### Fairness, and why the code justifies it

Weak fairness of each thread: each is an OS thread that never blocks but where the
model's guard says so (`get()`, `collectAssembledFrame()`, barriers, a mutex held for a
few statements). `FrameAssembler` asks for weak fairness of a thread in `get()` although
many threads compete for one tile; that every one of them does get its turn, when tiles
keep coming, is not needed, as tiles are bounded: some thread takes the tile.
`MailboxMonitor` asks of a thread that is awake only. No fairness for spurious wake-ups,
for drawing when nobody asks for it (except in `DisplayWall`, where the window's loop
draws for ever), or for strangers. The renderer is assumed to go on while it has tokens,
the network of the walls to deliver (`TilesGetThrough`). In the walls a display collects
when all tiles are there only if it was not set back: that is `OnlyRewindStops`, and
after the late `startNewFrame(0)` the code promises no more. `FrameAssembler` itself
asks nothing of the network: its property speaks of frames whose tiles have come.
`TilePath` only asks that somebody does something: its steps are finitely many, and none
waits for another. In `TileTransport` every compressor, send and receive thread goes on
when it can, and `WF` of each is what the operating system gives a thread that is not
blocked; neither the application nor `dw2_disconnect()` nor a spurious wake-up need ever
come, no client need notice that a display has stopped, and a token to a client that has
gone may not be sent. In `ServiceDiscovery` every rank, the info thread, and a client
that has connected go on; nobody need ask, and the service may end or not.

## 4. What the models leave out

* Integers are mathematical: a frame number overflows after 2^31 frames.
* In `FrameAssembler` pixels are the number of the frame they were written for, in
  `TilePath` the place they were rendered for: colours, lossy compression and one or two
  eyes matter to neither. The server creates its assembler for one eye, whatever `--stereo`
  says; what it says is passed on to the clients (`ServiceDiscovery`).
* Two tiles of a frame never overlap and together cover the wall: so do those of the
  test renderers, and the assembler's count relies on it. A pixel covered twice would make
  the count overshoot; that is an obligation of the application, stated as `Tiles` of
  `WallGeometry`, from which `CoverAssumption` of `FrameAssembler` follows.
* `waitForRemotesToConnect()` reads `remotes.size()` while the accepter may be in
  `push_back()`: the models read the size before or after, not a torn one.
* Of the end of things, `TileTransport` has `dw2_disconnect()` and what it does to the
  connections and displays. It does not split the four bytes of a size; it has no
  connection that ends with an error instead of 0; and the other ranks go on when a
  display has exited, while MPI would abort them at some time after. A client's
  receive thread that finds a display gone without `POLLHUP` may put a made up message
  into the client's own inbox, where `dw2_begin_frame()` would take it for a token: neither
  `TileTransport`, which has no tokens, nor `DisplayWall`, which has no displays that
  end, shows that. The service's end with its frames under way and `~Client` (which
  `exit()` runs while threads are joinable, and which then terminates the process that ends
  anyway) are left out.
* A window that is closed ends `main()` with the frame-setter thread running, neither
  joined nor detached: the process terminates, whatever the interleaving.
* JPEG coding, MPI and OpenGL are libraries or thin wrappers of them. Sockets and MPI are
  reliable ordered channels; errors of the operating system below an open connection are
  not modelled (nor that `Socket.cpp:272` would not notice one); that line 292 ignores what
  `send()` returns is: a write to a display that has ended does nothing.
* The broadcast of the magic (`Server.cpp:162-163`) and the command line, with the
  placing of ranks on local screens, are values given.
  The retry of a busy info port (`InfoServer.cpp:27-32`) never takes place, as
  `sock::bind()` throws: the model ends the service there, as the code does.

## 5. What is proved

For every number of threads, tiles, pixels, displays, clients, frames and frames in
flight, from the named `ASSUME`s of the modules alone:

| theorem | states |
|---|---|
| `FrameAssemblerProofs!Bookkeeping` | `IInv` of `FrameAssemblerInvariant` |
| `...!TypeCorrect`, `ThreadSafety`, `FramesRight`, `TilesKept` | `TypeOK`; `ThreadSafe`; `FramesWholeAndInOrder`; `NoTileLost` |
| `...!FinishedStayFrozen` | `FinishedFramesFrozen` |
| `...!BacklogBounded` | `BoundedBacklog` |
| `...!Implements` | `FrameAssembler` implements `FrameStream` |
| `MailboxMonitorProofs!MonitorInvariant`, `MonitorTypeOK` | `IInv` of `MailboxMonitor`; its `TypeOK` |
| `...!NoVainWaiting`, `HandingOut` | `NothingWaitsInVain`; `HandedOutOnce` |
| `...!RePutting` | `RePutKeepsOrder` |
| `...!MonitorSimulates` | every step of `MailboxMonitor` is one of `MailboxService`, or invisible to it |
| `TileTransportProofs!TransportInvariant`, `TransportTypeOK` | `IInv` of `TileTransportInvariant`; `TypeOK` |
| `...!NoIdleCore` | `NoCoreIdles` |
| `...!TransportImplementsNetwork` | `TileTransport` implements `TileNetwork` |
| `ConnectionSetupProofs!SetupInvariant`, `SetupTypeOK` | `IInv` of `ConnectionSetup`; its `TypeOK` |
| `...!TogetherAlways`, `FramesInTime`, `RemotesStayFixed` | `ConnectedTogether`; `NoFrameTooEarly`; `RemotesFixedOnceUsed` |
| `...!SetupImplementsSoftBarrier` | `ConnectionSetup` implements `SoftBarrier` |
| `DisplayWallProofs!WallBookkeeping` | `IInv` of `DisplayWall` |
| `...!WallTypeCorrect` | `TypeOK` |
| `...!DisplaysInLockStep`, `FramesBounded`, `NobodyIsAhead` | `LockStep`; `FramesInFlightBounded`; both: `NobodyRunsAhead` |
| `...!WallImplementsService`, `DisplaysAreFed` | `DisplayWall` implements `WallService`; `EveryDisplayIsFed` |
| `HeadNodeWallProofs!HeadNodeInvariant`, `HeadNodeTypeOK` | `IInv` of `HeadNodeWall`; its `TypeOK` |
| `...!NoTileLostOnTheWay`, `HeadNodeFeedsDisplays` | `TilesPassTheHeadNode`; `EveryDisplayIsFed` |
| `WallGeometryProofs!RegionInWall`, `RegionsApart` | every display's region lies in the wall; no two share a pixel |
| `...!OverlapMeansSharing`, `TilesCoverDisplay` | `overlaps()` is sharing a pixel; the tiles that overlap a display cover it, every pixel once |
| `...!OffsetInArray`, `OffsetTellsApart`, `OffsetOnto` | row-by-row offsets stay in the array, are different for different pixels, and leave no place out |
| `...!Inductive`, `PathTypeOK` | `IInv` of `TilePath`; its `TypeOK` |
| `...!CountingIsRight`, `CompleteFrameIsImage` | `CountIsTrue`; `ScreenShowsImage` |
| `...!EveryTileWrites`, `PixelsCountOnce` | `NoTileInVain`; with `CountIsTrue`: `EveryPixelCountsOnce` |
| `...!DiscoveryInvariant`, `DiscoveryTypeCorrect` | `DiscoveryInv` of `ServiceDiscoveryInvariant`; `DiscoveryTypeOK` |
| `...!ServiceIsFound`, `NoneIsCutOff` | `ClientsFindTheService`; `OnlyAnEndDisconnects` |

**The assembler.** The comment in `assemblerThreadFunction()` argues that a thread may ask
for the current frame after it took the tile, because the frame cannot be finished while
a tile of it is in hand. To make this an induction one has to know where every tile is:
`IInv` keeps account of all messages that arrived as queued, deferred, in one thread's
hands, or done (`OnePlaceEach`), says of which frame they are (`RightPlace`), and that a
frame's pixel count is the number of pixels of its done tiles (`WorkIsDone`). The step
that matters is `MarkPixelsCompleted`: the count reaches the size of the display only
when every tile is done, by disjointness and cover of the tiles, so nothing of that frame
is queued or in hand, and the thread that finishes it is alone (`FinisherAlone`) until it
has opened the next. `MailboxFacts` has the lemmas on the mailbox's operators: what
`StartNewFrame` lets through and keeps, each message once.

That the queues are bounded (`BacklogBounded`) is `IInv` and one thing more, that no
message is of a frame for which no token was out when it came (`ArrivedInWindow`). The
deferred messages then are of the frames between the one that the mailbox is on and the
end of that window, each message once, so that there is an injection of the queue into
pairs of such a frame and a tile.

**The monitor.** What its runs check is inductive but for one thing, that a message in the
mailbox or in a thread's hands had arrived before (`OnlyWhatArrived`), so that no put
brings it a second time.

The loop of `startNewFrame()` (`RePutting`) starts with a mailbox without deferred
messages. After k rounds the mailbox is what `StartNewFrame` would make of one that had
only the first k of them deferred; the next message is due, early or stale, and
`SubseqAt` takes it accordingly. The induction over k is one over numbers with the loop's
own formula, by a least counterexample (`LeastNumber`), which needs no induction theorem.

**The transport.** That a tile comes once and whole is a matter of the order of parts in
a connection, and `IInv` says what it looks like at any time: parts of one message behind
the other (`InOrder`), at the front what follows the parts that the receive thread has
(`AtDisplay`), at the end what precedes the part that the send thread writes next
(`AtSender`). A tile that the send thread has not begun with no display has heard of
(`ClientIsFresh`), so that no part is in a connection twice. When a client leaves, only
`AtSender` stops to hold; the torn message that may follow is therefore the last one
(`TornIsLast`). The steps at one display are proved with one lemma that says what of the
invariant such a step can touch (`InsideOneDisplay`).

**Start-up.** Messages are anonymous, so `IInv` counts them: for every rank and client,
what is queued, what waits in the client's inbox and what the client has taken is no more
than the rank has sent (`Account`). A rank that has sent something is past its hand-shake,
at which all clients were there (`AllHaveCome`), once each because a client connects
to a rank once (`ComeOnce`): a client that takes a message knows that all have come. A
message of rank 0 beyond the first is a token, and tokens are sent when all ranks are past
their hand-shakes (`InStep`).

**The wall.** Lock step and the bound on frames in flight follow from where each display
is relative to the barrier (`BarrierInv`), what that says about its window (`ShownInv`),
and that rank 0's tokens count frames that *every* display has collected (`TokenInv`,
lemma `TokenWorth`): the token is sent by one rank after a barrier of all. Since a tile
is sent under a frame number below the number of tokens, it is within the window of every
display, which is all that `FrameStream` assumes.

**The head node.** Its mailbox may be set to the next frame while tiles of the old one are
queued, and `locked_put()` drops what is late; that no display needs it is the point. The
mailbox is never ahead of the frames that the head node has seen received, and these not
of what any display has collected (`InboxInStep`, `FramesInStep`): a frame is received when
*all* have it. So what is dropped is collected everywhere, and a tile that a display
lacks when it is sent is of the frame that this display waits for, which is
`PassedOnInTime`. That it comes once is `QueuedOnce` on the head node and `SentOnce` from
there; the tokens bound how early it comes.

**The service info.** A value has no name, only its place in a sequence, as in the code.
`DiscoveryInv` accounts for them twice. For each rank, what rank 0 has taken and what is
under way, one behind the other, is what this rank has sent of host, port and region
(`GatherInv`), so that the third value completes the node of the rank whose turn it is,
whatever the order in which the ranks write. For each connection, what the client has
read and what is under way is a beginning of the service info, up to what the info thread
has written (`StreamInv`), and all of it once the thread has closed it while the service
runs: the number of nodes that the client reads in the seventh value is the one that says
how many values it waits for (`AllIsEverything`). The info does not change while anybody
is written to, because the port opens after the last node (`PortInv`, `RankInv`).

**The pixels.** What is said of `WallGeometry` is arithmetic: products of strides and rows,
division with remainder to get from a display's number to its column and row, and
intervals. In `TilePath` a complete frame has as many pixels as it expects, so it is enough to know
that each write is new and right. It is right because every tile under way shows the image
(`PixelsRight`; `PackedIsGood` is the argument about pitch and width). It is new because a
tile is in one place on its way to each display (`OnePlaceEach`) and the part of the frame
buffer that it will fill is blank until then (`BufferInv`), which tiles that share no pixel
leave so. The count then is the number of places written (`PlacesCounted`), and a full
count means no place is blank. For its `TypeOK` one has to know that every place of an
array is the offset of a pixel (`OffsetOnto`), and that tiles and frame buffers are arrays
at all (`Shapes`).

The inductive invariants (`IInv`) were found with TLC and hold in the instances above; no
run repeats them, as they are proved for every instance.

**Model-checked only.** Liveness under fairness, which is out of the prover's reach:
`OnlyRewindStops`, `OnlyMissedNotificationStops`, `OnlyRewindStopsTheWall` (with and
without head node), `TilesGetThrough`, `EveryScreenFills`, `EveryRequestEnds`, and of
`ImplementsService` the fairness of `MailboxService` (the safety half is `MonitorSimulates`).
Every invariant that a passing run checks, and every other action property, is a theorem.

## 6. Plan

In this order; the first part of it is done (sections 2-5).

1. ~~`TimeStampedMailbox`, `FrameStream`, `FrameAssembler`: the heart of a display; its
   inductive invariant and the refinement, proved.~~
2. ~~`MailboxMonitor` over `MailboxService`; `ConnectionSetup` over `SoftBarrier`;
   `DisplayWall` over `WallService` with proofs; `HeadNodeWall`.~~
3. ~~`TileTransport` over `TileNetwork`: the client's queue and compressor threads, outbox,
   send and receive threads, connections that fill and end, `dw2_disconnect()`; its
   inductive invariant and the refinement, proved.~~
4. ~~Proofs for `MailboxMonitor` and `ConnectionSetup`.~~
5. ~~`WallGeometry` and `TilePath`: the arithmetic of regions and strides, and the way of
   the pixels, with proofs.~~
6. ~~`ServiceDiscovery`: what a client reads is what the server configured.~~
7. ~~Proofs for `HeadNodeWall`, `ServiceDiscovery`, `BoundedBacklog` of `FrameAssembler`,
   the loop of `startNewFrame()`.~~
8. ~~The clients' receive threads when a display ends.~~ The end of the program: the
   window is closed while the frame-setter thread runs; tokens that a client's receive
   thread makes up.
