# TSTelemetryServer in TLA+

TSTelemetryServer is a plugin for *Euro Truck Simulator 2* and *American Truck
Simulator*. The game calls it back with configurations, events and channel values;
the plugin collects them in one structure, serializes that structure at the end of a
frame in which something changed, and a thread of its own sends the result over TCP to
every application that has connected. This directory models that program in TLA+,
checks the models with TLC on small instances, and proves the central results with
TLAPS for every instance.

    game thread                                    network thread              applications
    -----------                                    --------------              ------------
    telemetry_configuration --> ConfigHandler \                                
    telemetry_pause                            > telemetryData                 
    channel_wrapper -----> StoreScs*          /        |                        
    telemetry_gameplay --------------------------> EventQueue --> checkQueue --> send --> client/main.py
    telemetry_frame_end ---- JsonTelemetrySerializer --^      newConnection (snapshot)
    scs_telemetry_init / shutdown --- jthread, stop token --> EventLoop

## 1. Inventory

Line numbers are those of `src/`; `ts_telemetry_server.cpp` is the plugin's main file.

### EventQueue (`src/event_queue.cpp`)
* State: `m_serializedEvents`, a `std::queue` of (string, type); `m_mutex`.
* Operations: `PushEvent` (game thread), `IsEmpty` and `PopEvent` (network thread), each
  locking and unlocking by hand.
* Hard: `PopEvent` has a `return {}` inside its critical section that leaves the mutex
  locked (36); its caller tests `IsEmpty` in an earlier, separate critical section.
* Correct when: no event is lost, duplicated or reordered; the mutex is always released;
  the early return is never taken; a queue that nobody pushes to is emptied.

### NetworkHandler (`src/network_handler.cpp`)
* State: `m_topSocket`, `m_subscribers` (descriptors), `m_subscriberSet` (fd_set),
  `m_maxSocket`, `m_lastSentFrame`; the singleton `m_instance`; outside it, the kernel's
  descriptors, connections and windows, and the stop token of the `jthread`.
* Operations: `EventLoop` polls with `select` and runs `newConnection` (accept, limit,
  snapshot of the last frame), `checkDeadConnections` (recv, close, remove) and
  `checkQueue` (pop, broadcast, close and remove what fails, keep the last frame);
  `Cleanup` destroys the instance after the thread has been joined.
* Interacts with the queue (pops), with the game thread (stop request, join), with any
  number of applications through the kernel.
* Hard: descriptors are closed while their numbers are still in `m_subscribers`, and
  the kernel gives the same number out again; readiness is asked for before
  connections are accepted and used after; sends are partial, block up to
  5 s each, and fail in the middle of a message; clients come, stall, are reset and go
  at any point; an exception in the thread ends the game.
* Correct when: each client receives the last frame and then every event, whole and in
  order; no descriptor leaks or is used after its close; nothing blocks without a
  time-out; the limit holds; a client that reads is kept; a dead connection is closed; a
  stop request ends the thread.

### Plugin callbacks (`src/ts_telemetry_server.cpp` 48-199)
* State: `telemetryData` (the frame), `frameChanged`, the queue.
* Operations: `telemetry_configuration`, `telemetry_pause` (for two events),
  `telemetry_frame_start`, `telemetry_gameplay`, `channel_wrapper`, `telemetry_frame_end`.
* Called by the game, on its thread, in the order the SDK headers describe.
* Hard: long legal sequences of callbacks: a flag that each change has to set, a pause
  state that is inverted and never read, a job that ends by an event and begins by a
  configuration, configurations that replace others, values by channels into entries a
  configuration has cleared.
* Correct when: what clients are shown is what the game has last said.

### ConfigHandler and the data (`src/config_handler.cpp`, `include/telemetry*.h`)
* State: none of its own; it writes into the truck, a trailer or the job.
* Operations: four `HandleXxxConfig` functions that loop over the attributes of a
  configuration and dispatch through a table of lambdas.
* Hard: the attributes come in any order, while the one for the wheel count clears wheels
  others may already have described; indices against array sizes; attributes no
  table knows; attributes that are not sent.
* Correct when: the outcome is a function of the set of attributes.

### Sample client (`client/main.py`)
* State: the buffer. Operations: receive, decode, append, cut complete frames out.
* Hard: TCP cuts anywhere; events and frames share the stream.
* Correct when: every frame that has arrived is processed once, in order, until the client
  ends; nothing the server sends ends it. The second does not hold, nor does the first when
  there are gameplay events (section 4).

### Plugin lifecycle (`src/ts_telemetry_server.cpp` 510-602, the constructor and `Cleanup` of `NetworkHandler`)
* State: the pointers `serializer` and `networkThread`, the singleton `m_instance`; the
  thread and its stop token; the objects and sockets of the process; and all the globals
  above, which outlive a session.
* Operations: `scs_telemetry_init`, `scs_telemetry_shutdown`, the unload hooks `DllMain`
  and `unload`. The game may initialize the library again without loading it again.
* Hard: an initialization returns early in eight places, each of which leaves
  something else behind; sessions that fail and succeed follow each other on the same
  globals; the unload hook shuts down once more, on Windows under a lock that the thread
  it would wait for needs; queue, data and pause flag of a session are those of the next.
* Correct when: a callback never meets what is not there; unloading has nothing to wait
  for; sessions leave nothing behind; a shutdown ends; clients see the session that runs.

### Channel registration and stores (`ts_telemetry_server.cpp` 201-508, `src/scs_variable_saver.cpp`)
* State: none; a table in the form of 1,247 calls, each a channel, a type and a `void*`.
* Hard: nothing checks a line. The game refuses what it does not know and nobody looks; a
  store writes what it takes the target for, whatever it is; a line that was forgotten leaves a
  member at 0 for ever.
* Correct when: nothing is refused but channels the game is known to be without; each store
  fits its target; no member is written by two channels; each member that no configuration
  fills is written by one. The last of these does not hold (section 4).

### JSON serializer (`src/json_telemetry_serializer.cpp`, `include/telemetry_json.h`)
* State: none. Which members of each structure are serialized is a list beside the
  structure, kept by hand; attributes of gameplay events go through a variant.
* Correct when: nothing is left out.

### Not modelled
* **The text of the JSON**: the rendering is a third-party library's. The layout a client
  depends on is stated in `TelemetryClient`; which fields there are, in `TelemetryStructs`.
* **SCS SDK headers**, beyond what the plugin relies on: channels, events, versions and the
  order of callbacks are in `ScsInterface` and in the environments of `TelemetryPlugin` and
  `TelemetryServer`; the API for input devices, which the plugin does not use, is not.
* **Logging**: `gameLog` is called, never depended on.
* **Time, and the machine**: time-outs may strike any send that finds no room; descriptors
  beyond `FD_SETSIZE`, descriptor 0, SIGPIPE and Windows' unit of `SO_SNDTIMEO` are left out
  (section 5).
* **Build files**: no behaviour.

## 2. Plan

| order | module | content | state |
|---|---|---|---|
| 1 | `FifoQueue` | abstract: an atomic FIFO queue | done |
| 2 | `EventQueue` | the mutex and the three methods; implements `FifoQueue` | done, proved |
| 3 | `TelemetryFeed` | abstract: what a client is promised | done |
| 4 | `NetworkHandler` | the network thread, the kernel, the clients; composes `FifoQueue`'s actions; implements `TelemetryFeed` | done, proved |
| 5 | `TelemetryData`, `ConfigHandler` | the frame and the configuration loops | done, proved |
| 6 | `TelemetryPlugin` | the callbacks; composes `TelemetryData` and a queue | done, proved |
| 7 | `TelemetryClient` | the sample client | done, proved for streams of frames |
| 8 | `ScsInterface`, `TelemetryStructs`, `ChannelRegistration` | the SDK's channels and events; the structures and their serialized fields; `register_channels` and the typed stores | done, proved |
| 9 | `TelemetryServer` | init, shutdown, unload, restart, several sessions; composes the registrations, the callbacks, a queue and its consumer | done, proved |

Left for later: a client in `TelemetryServer`, which would join `TelemetryFeed` to it.

## 3. The modules and the code

Each module's header says what it stands for; every definition that models code is listed
with its lines in `PROJECT.json` under `map`. Where the code has a name, the module
uses it (`m_subscribers`, `checkQueue` as `CheckQueue`, `telemetry_pause`, ...).
Definitions marked `Fault:` are not part of a specification: each is one definition with
a bug put in, and is used to see that a property notices it.

**`FifoQueue`**: two variables, `Push`, `Pop`. **`EventQueue`**: program counters for the
producers and the network thread, one step per lock, body and unlock. The early return of
`PopEvent` is an outcome of `PopBody` that goes on without the unlock. `UseEvent` stands
for everything `checkQueue` does with an event.

**`TelemetryFeed`**: a log of what is broadcast; `Join` gives a client the last frame and a
place in the log, `Deliver` moves it on, `Leave` ends it. **`NetworkHandler`**: one step
per kernel call. `pc` names the place in `EventLoop`; `todo` is what is left of
the current loop over sockets; `socket`, `msg`, `sent` are `sendMessage`'s. A message has
`MsgParts` parts and `send` may accept any number of those left, or fail. The kernel
(descriptor table, backlog, readiness) and the clients (`Connect`, `Request`, `HangUp`,
`Stall`) are actions that may come between any two steps of the thread. Loops over a
`std::list` are loops over a set, in any order. `accept` returns any free descriptor; one
connection too many is open from `AcceptRefused` to `CloseRefused`. A `setsockopt` that fails
(its result is overwritten) leaves a socket on which `send` has no time-out: `SendFails` is a
step that may be taken, so the behaviours of such a socket are among those of `Spec`; only
`FairSpec` excludes it.

**`TelemetryData`**: the structure of a frame with one member for each way members are
written, and the loop-free effect of a configuration. **`ConfigHandler`**: the loop, an
attribute a step; its property `Effect` shows that `TelemetryData` states what the loop
does, which is why **`TelemetryPlugin`** may take a configuration in one step. There, each
callback is an action, and the game's side (`phase`, `paused`, `config`, `damage`,
`ended`) makes the calls come in the order the SDK documents and remembers what it said.

**`ScsInterface`** has what the SDK's headers promise: the channels with their native types
(`Channels`, `Array`), what these convert to (`Provides`), the channels that not every game
has (`Lackable`), which registration a game accepts (`Offers`), the gameplay events and the types
of their attributes. **`TelemetryStructs`** has every structure of a frame as a set of members
with types, and apart from it every list of serialized fields, so that they can be compared. **`ChannelRegistration`** has the lines of
`register_channels` as tables of channel, type and path; `OfWheel` and `OfTrailer` are its
loops, `register_channels` is the set of all 1,247 registrations, `Target` and `Stored` are the
stores. `ChannelMembers` are the members that no configuration and no pause event fills, read
off the structures and nothing else.

**`TelemetryServer`** is the plugin as the game sees it. Each early return of `scs_telemetry_init` is an action (`InitUnsupported`, `EventsRefused`, `ConstructorThrows`
for each of its four calls, `ThreadRefused`) that leaves behind what the code leaves;
`Shutdown` and `Joined` are the two ends of `delete networkThread`; `Unload` is the hook; and
`Restart` a game that is killed, at any point, and started again. `host` is what the game is
about to do, which makes callbacks come in the order of the SDK. The values of a few
registrations (`Watched`) are followed from the game into the frames. The configuration action
has a flag: the two early returns of `telemetry_configuration` (an unknown id, a trailer
that is too many) leave `frameChanged` alone. The network thread is here the loop without the
connections, as `NetworkHandler` has the rest: the test of the stop token (`LoopTest`), then
`checkQueue` until it finds the queue empty (`TakeEvent`, `QueueEmpty`). **`PushedFrames`** is
the one notion of a last frame that `TelemetryPlugin` and `TelemetryServer` share.

**`TelemetryClient`**: the server writes messages as lists of marked bytes, `Recv` takes any
prefix of what has come, `Parse` is one pass of the inner loop.

`MC*` modules give the constants of a run: sets of model values, lists of
configurations, the symmetry of the clients.

### What is assumed of the environment
* The game calls back on one thread and in the documented order; it sends no attribute
  twice and describes only wheels it has counted, up to `MAX_WHEEL_COUNT`.
* Descriptor 0 is open (so `newSocket > 0` holds), no descriptor reaches `FD_SETSIZE`, and
  SIGPIPE is ignored in the process; the last two are listed as hazards.
* `select` reports faithfully. `accept` may fail at any time; `socket`, `setsockopt`, `bind`,
  `listen` and the creation of the thread may fail in any initialization.
* `recv` on a connection that was reset returns -1. On POSIX that clears the error and the next
  `recv` returns 0 (`RecvClears` = TRUE); on Windows it returns -1 each time (FALSE). Line 141
  looks for 0 only. The safety properties hold, and are proved, for both. `DeadConnectionsClosed`
  is claimed, and checked, for POSIX alone: on Windows such a connection stays until a `send`
  to it fails.
* For liveness: `setsockopt(SO_SNDTIMEO)` has succeeded on every accepted socket.
* The game calls `scs_telemetry_shutdown` before it unloads the library, between two frames
  and not inside of one, and calls nothing of a plugin whose initialization it saw fail. One
  that is killed runs nothing. It starts every session paused, with the configuration first (one
  the plugin uses), and PAUSED and STARTED alternate. It calls back for every value that is not
  the one it delivered last before the frame ends, and may call back for others.
* A game has every channel of the SDK's headers but some of `Lackable`: those of AdBlue
  (`scssdk_telemetry_ats.h:58`, and the comment at `ts_telemetry_server.cpp:310`) and
  `local_scale` (`scssdk_telemetry_common_channels.h:18`). Which of them is up to the game.
* A channel's name that was freed before it is read (`trailer_indexed_channel_name`) is either
  still there or names no channel.

## 4. The runs

| run | module | checked | size |
|---|---|---|---|
| `EventQueue` | `MCEventQueue` | `TypeOK`, `MutexOwner`, `NoPopOnEmpty`, `ImplementsFifo`, `MutexReleased`, `DrainsWhenQuiet` | 16 thousand states |
| `Network` | `MCNetworkHandler` | `SelectNeverFails`, `WholeMessages`, `ImplementsFeed`, `StopEndsThread`, `DeadConnectionsClosed`, `QueueServed` | 266 thousand |
| `NetworkCrowd` | `MCNetworkHandler` | `TypeOK`, `DescriptorsTracked`, `NeverBlocks`, `CapacityBound`, `HealthyClientsKept` | 868 thousand |
| `ConfigHandler` | `MCConfigHandler` | `TypeOK`, `Effect` | 803 thousand |
| `PluginVehicles` | `MCTelemetryPlugin` | `TypeOK`, `NoGhostWheels`, `ConfigShown` | 522 thousand |
| `PluginJob` | `MCTelemetryPlugin` | `NoChangeLost`, `PausedInSync`, `ConfigShown`, `JobGoneAfterEnd` | 1.3 million |
| `PluginEmpty` | `MCTelemetryPlugin` | `EmptyMeansNone`: violated | |
| `Server` | `MCTelemetryServer` | `TypeOK`, `SessionComplete`, `UnloadQuiet`, `NothingLeaks`, `PausedAsLeft`, `ClientsSeeGame`, `RegistrationsAccepted`, `StoresFit`, `OneWriter`, `AllSerialized`, `EventsComplete`, `ShutdownEnds` | 537 thousand |
| `ServerMembers` | `MCTelemetryServer` | `MembersServed`: violated | |
| `ClientFrames` | `TelemetryClient` | `FramesProcessed` | 1.6 thousand |
| `ClientWide` | `TelemetryClient` | `KeepsRunning`: violated | |
| `ClientEvents` | `TelemetryClient` | `FramesProcessed`: violated | |

What they show:

* **The queue is safe although it looks wrong.** `return {}` with the mutex locked would stop
  both threads for good. It is unreachable because only one thread pops: `NoPopOnEmpty`
  carries the answer of `IsEmpty` over the gap in which the mutex is free.
* **The feed is right**: every client gets the last frame and then everything, whole,
  in order, whatever the others do (`ImplementsFeed`), although descriptors are closed in one
  loop and removed from the list in a second, and `m_subscriberSet` is from before the
  accept (`DescriptorsTracked`, `NeverBlocks`).
* **A slow client delays the others and no more**: with two events and messages of two parts, a
  client may stall in the middle of a broadcast while another event waits, be dropped
  after the time-out, and its number given to the next one; still the queue is emptied
  (`QueueServed`) and a stop request honoured (`StopEndsThread`).
* **The limit is one more than `MAX_CLIENTS`**: `newConnection` compares with `>` before it
  counts the new client. `CapacityBound` is the bound that holds; while a connection is being
  refused there is one descriptor more.
* **`frameChanged` loses one change only**: the end of a job, which `telemetry_gameplay`
  writes without setting it. Clients see the old job until something else changes; but
  no frame that is queued behind the event shows the job (`JobGoneAfterEnd`).
* **The pause flag stays right within a session** under the SDK's rule that PAUSED and STARTED
  alternate and that the game starts paused (`PausedInSync`). **Over several sessions of one
  load it does not**: a session that ends while driving leaves the flag at false, the next
  starts paused, and from then on the clients are told the opposite, until another session ends
  while driving. `PausedAsLeft` says exactly that: the flag is right, or inverted, as the
  sessions before have left it.
* **Failures add up, sessions do not**: every initialization that fails half way leaves a
  serializer, and one in the constructor of `NetworkHandler` its socket; after `bind` that
  socket holds the port and no later initialization of the process succeeds. Nothing
  else is ever left (`NothingLeaks`), and none of it is ever used (`SessionComplete`,
  `UnloadQuiet`).
* **What is registered is right but for one line**: a game refuses only registrations of channels
  it is known to be without (`RegistrationsAccepted`), every store but that of the cargo's
  damage fits its member (`StoresFit`), and no member has two writers (`OneWriter`). **What is
  not registered is another matter**: see `ServerMembers`.
* **Frames and events are complete**: no member of a structure is missing from its list of
  fields, no attribute of a gameplay event falls through the switch (`AllSerialized`,
  `EventsComplete`).

Four runs show that code and documents disagree; `PROJECT.json` quotes the lines:
* `PluginEmpty`: an empty attribute set means "there is no job" (trailer, truck) to
  the SDK, and nothing to `HandleXxxConfig`: the frames keep the old one.
* `ServerMembers`: `README.md` sends a client's author to the `telemetry_*` headers for the
  structure of the JSON, which has three members that never show what they are named for:
  `job.cargo.damage` arrives as a float and is stored into the first half of a double; the
  substance of a wheel and the angular velocity of a trailer have channels in the SDK and
  are serialized, but no line registers them. That there are no others is the theorem
  `MembersWritten`, together with `StoresFit`.
* `ClientWide`: `recv(1024)` may end within a UTF-8 character of a name; `decode` raises, and the
  client ends, although its loop is to end only when the server disconnects.
* `ClientEvents`: after one gameplay event the sample client never processes a frame again.

### Bounds, and why they are enough
* `EventQueue`: two producers where the plugin has one, three pushes. The queue reaches
  length 3, and every interleaving around an empty, a one-element and a longer queue
  occurs. The theorems have no bound.
* `Network`: two clients, of which one may be in the middle of a broadcast while the other joins
  or leaves; messages of two parts (complete, torn, not begun); two events, one of each type, so
  that a snapshot may be of an older frame than the last event and an event may wait
  while a client stalls in the broadcast of the one before. Clients send nothing
  (`MaxUnread` = 0), `recv` clears the error. No symmetry (TLC's is not sound for liveness).
* `NetworkCrowd`: three clients and `MAX_CLIENTS` = 1, so two are served and the third is
  refused; one unread request each; `accept` may fail whenever it is called, the numbers of
  descriptors are used by several clients in turn, and a reset stays one (`RecvClears` = FALSE,
  Windows). No events: `Network` has those.
* `ConfigHandler`: two wheels (one kept, one cleared), two values, one gear inside the array
  and one beyond it, all lists in all orders on all structures.
* `PluginVehicles`: one wheel or none, one trailer and one the array has no room for, a
  queue of one (the frame on its way and the one before it). `PluginJob`: two trailers, both
  names of the first, a queue of two, which `JobGoneAfterEnd` needs; there the trailers'
  lists are never empty, and without wheels.
* `Server`: three registrations, a flag that only one of the games has, a placement (with
  angles) of a trailer, and the damage; two values, of which one changes once; one
  failed initialization, in any load, as what it leaves is counted; a queue of two, so that it
  holds a frame and an event, or two frames, of which the first may be of the session before.
  The number of sessions and of loads is not bounded. Four games: one of each kind that is new
  enough (one with a later API), one too old, one unknown. The tables are in their full size.
* `ClientFrames`: four messages, so that a buffer may hold the end of one, two whole and the
  beginning of another; text may have a character of two bytes (`Wide` = TRUE), and a piece may
  end within it. `ClientWide` needs one message, and has two; `ClientEvents` one event.

### Fairness
`EventQueue` and `NetworkHandler` have a `FairSpec`. It has weak fairness of each thread's own
steps: a thread that can run is scheduled. `std::mutex` promises no order, so no
strong fairness on `lock()` is assumed; `DrainsWhenQuiet` therefore says what happens when
pushing stops. In `NetworkHandler` weak fairness is on the network thread (`send` returns
within its time-out, so `SendFails` is a step that is always possible for a stalled client)
and on `Cleanup`, which follows the join. Nothing makes a client, or the game, act. The bound
on events stands for the game's frame rate: `checkQueue` leaves its loop only when it
sees an empty queue, and a producer that is always faster would keep it there.

`TelemetryServer` has weak fairness of `EventLoop`, the steps of the network thread, and of
`Joined`: a join of a thread that has ended returns. That the thread ends is not assumed; it has to
come through `checkQueue`, with what the queue holds, to the test of the token. A step stands
for a whole broadcast, which ends since every `send` does (`QueueServed` of `NetworkHandler`).

## 5. Hazards

`PROJECT.json` lists, line by line, 40 things that are hard to test in this code and which property
would notice each. Eight have none, with the reason: time is not modelled (a time-out of 5 ms on
Windows); a `setsockopt` whose failure nobody sees; two kinds of machine (a descriptor beyond
`FD_SETSIZE`, a process that does not ignore SIGPIPE); vehicles with more than 14 wheels; a new job in the frame in which the old one ends; a name that is read after it
was freed; and channels that have no value, of which frames show the last one.

## 6. Proofs

Eight modules hold theorems that `tlapm` checks. They assume nothing but the `ASSUME`s of the
modules they are about, which TLC evaluates in the runs: that the constants are of
their types, that special values are none of the ordinary ones, and, of the game, that
its lists are well formed (`ListsAssumption`). Sets of clients, descriptors, producers
and configurations, array sizes, limits and lengths are arbitrary.

| theorem | property | what it says for every instance |
|---|---|---|
| `EventQueueProofs!TypeCorrect` | `TypeOK` | |
| `EventQueueProofs!MutexSafe` | `MutexOwner` | no method returns with the mutex locked |
| `EventQueueProofs!NeverPopsEmpty` | `NoPopOnEmpty` | the early return of `PopEvent` is unreachable |
| `EventQueueProofs!RefinesFifo` | `ImplementsFifo` | the three methods are an atomic queue |
| `NetworkHandlerProofs!TypeCorrect` | `TypeOK` | |
| `NetworkHandlerProofs!DescriptorSafety` | `DescriptorsTracked` | no descriptor leaks or is used after its close |
| `NetworkHandlerProofs!LoopSurvives` | `SelectNeverFails` | the exception of `EventLoop` is not thrown |
| `NetworkHandlerProofs!NonBlocking` | `NeverBlocks` | `accept` and `recv` return at once |
| `NetworkHandlerProofs!Capacity` | `CapacityBound` | at most `MAX_CLIENTS` + 1 connections are served |
| `NetworkHandlerProofs!KeepsHealthyClients` | `HealthyClientsKept` | a client that reads is kept |
| `NetworkHandlerProofs!MessagesWhole` | `WholeMessages` | nothing is sent behind a message that was torn |
| `NetworkHandlerProofs!RefinesFeed` | `ImplementsFeed` | a client is sent the last frame, then every event, in order, whole |
| `ConfigHandlerProofs!TypeCorrect` | `TypeOK` | no entry of a table writes outside its array |
| `ConfigHandlerProofs!OrderIndependent` | `Effect` | the loops do what `TelemetryData` states |
| `TelemetryPluginProofs!TypeCorrect` | `TypeOK` | |
| `TelemetryPluginProofs!ChangesSent` | `NoChangeLost` | no change is forgotten, but the end of a job |
| `TelemetryPluginProofs!PauseShown` | `PausedInSync` | the inverted flag is right |
| `TelemetryPluginProofs!ConfigurationShown` | `ConfigShown` | the current frame shows the last configurations |
| `TelemetryPluginProofs!GhostsGone` | `NoGhostWheels` | the current frame has no wheel beyond a count |
| `TelemetryPluginProofs!JobEnds` | `JobGoneAfterEnd` | no frame behind the event shows the ended job |
| `TelemetryServerProofs!TypeCorrect` | `TypeOK` | |
| `TelemetryServerProofs!SessionCompleteCorrect` | `SessionComplete` | a callback finds a serializer, the thread its handler |
| `TelemetryServerProofs!UnloadQuietCorrect` | `UnloadQuiet` | unloading has no thread to join |
| `TelemetryServerProofs!NothingLeaksCorrect` | `NothingLeaks` | only failed initializations leave something behind |
| `TelemetryServerProofs!PausedAsLeftCorrect` | `PausedAsLeft` | the inverted flag over several sessions |
| `TelemetryServerProofs!RegistrationsAcceptedCorrect` | `RegistrationsAccepted` | whichever channels a game lacks, it refuses those and no other line; none is asked for twice |
| `TelemetryServerProofs!OneWriterCorrect` | `OneWriter` | no member has two lines, and none of those a configuration fills has one |
| `TelemetryServerProofs!MembersWritten` | | the members no line writes are the substance of wheels and the angular velocity of trailers, exactly |
| `TelemetryServerProofs!StoresFitCorrect` | `StoresFit` | every line of the tables writes to a member of its type |
| `TelemetryServerProofs!FramesCompleteCorrect` | `AllSerialized` | no member is left out of the serialized fields |
| `TelemetryServerProofs!ClientsSeeGameCorrect` | `ClientsSeeGame` | the clients see the last value delivered, whatever channels are followed |
| `TelemetryServerProofs!EventsCompleteCorrect` | `EventsComplete` | an event in the queue has all its attributes |
| `TelemetryClientProofs!FramesProcessedCorrect` | `FramesProcessed` | if `Kinds = {"frame"}`: each frame once, in order, wherever the stream is cut, until the client ends |

### The arguments
* **Queue.** The invariant adds to the properties that each thread is at a place of its own
  methods, that a producer on its way to the push has an event in hand, and that what is
  popped is an event. `NoPopOnEmpty` is then inductive because only the network thread
  pops, and a producer can only add.
* **Network thread.** `DescriptorsTracked` alone is not inductive: closing a descriptor that a
  loop is still to visit would break it. `Placed` puts every connection in the backlog or
  in one entry of the table; `Locals` ties the loop variables to the list of clients (what
  is to be visited is listed and not dead); `Ready` carries what `select` found over the steps
  in which `newConnection` changes the list: a client can only make a socket more
  readable, so `recv` does not block on it. A connection that is being refused (`refuse`) is the
  one entry of the table that is not served, and `AtLimit` still holds there, which
  `CapacityBound` and `HealthyClientsKept` need.
  `Capacity` and `KeepsHealthyClients` are each proved on top of that invariant.
* **Configurations.** One fact about `Given` (an attribute more decides its own member and no
  other) gives every member but the wheels. For them the point is the wheel count that
  comes late: it clears wheels, and no attribute handled before can have been for one of
  those, because the list describes no wheel beyond its count.
* **Callbacks.** `Typed` is type correctness. `DataInv` says of `telemetryData` alone that
  they show what the game has said, at any time; it has to add that no vehicle counts
  fewer wheels than the game has told of, or a channel could write to a wheel that is not
  there. `QueueInv` has the two properties of the queue and that no frame in it has ghosts.
  What the clients see follows from both (`LastFrameShows`). That a queue has a last frame
  rests on the well-foundedness of the natural numbers (`HasLast` in `PushedFramesProofs`,
  which has the facts about pushing and popping that the server's proofs share).
* **Whole messages.** What is sent to a client is a chain of messages in which only the
  last may be unfinished, and it is unfinished only while `sendMessage` is at that socket or
  when the socket is dead: `sendMessage` leaves it as dead before it goes on to another one.
* **The feed.** The mapping to `TelemetryFeed` counts what a client is owed (`Owed`: nothing
  until it is served, then the event after the last, or the last while its turn in
  the broadcast is still to come) and shows of what was sent the messages that ended (`Received`, a
  set of positions in order rather than a recursive filter, so that the provers can
  see it). `FeedInv` adds what the mapping needs: the snapshot is the last frame of the log as
  `processEvent` leaves it (`SnapshotIsLast`), it goes out before anything else
  (`SnapshotFirst`), and who is not yet accepted has been sent nothing (`NothingSent`). Then taking an
  event is `Publish`; a call of `send` that ends a message is `Join` for the snapshot and `Deliver`
  for an event; whatever leaves a client unserved (a torn message, a disconnect
  that is found, the end of the thread) is `Leave`; the rest stutter. That `Deliver` delivers the
  right event is where `Locals` is needed: a subscriber is owed the last event exactly while its
  socket is in `todo`. TLC checked `FeedInv` on the instance of `Network` before it was proved.
* **Server.** `Lifecycle` says what the library has (pointers, thread, object, sockets) by
  what the game is about to do, and counts what failed initializations left. `PauseInv` is
  the parity of the sessions that ended while driving. `Pushed` ties the last frame to
  `telemetryData` and `Mirror` ties those to what the game has delivered. `Mirror` needs that a
  store writes what `Target` names and nothing else: `RegistrationFits` shows it line by line
  of the tables, once for a wheel and a trailer of any index, so that no size is fixed.
* **Tables.** `RegisteredIs` tells a registration by its line and the unit and wheel it is for.
  Then each line is compared with the SDK's list (`TruckOffered`, `OthersOffered`), with every
  other line (`DistinctTruckRows`: seven parts of the truck's table, distinct in themselves and apart
  from each other), and with the structures in both directions (`TablesWrite`: a line leads to
  a member no configuration fills, and each such member but the missing two has a line). A line the
  SDK's list has is refused only for its name, which is then one the game lacks (`RefusedIsLacked`).
  `RegistrationsAccepted`, `OneWriter` and `MembersWritten` follow for any `MAX_TRAILERS` and
  `MAX_WHEEL_COUNT` that `SCS_U32_NIL` exceeds: an index that were equal to it would take the
  place of the channel without one.
* **Client.** What is sent and not processed is the end of the messages, from a boundary on
  (`Stream`): its letters are in order and none is missing. Positions follow from that without
  recursion: a letter of a frame implies the whole frame around it (`FrameAt`, `FrameFrom`). The
  theorem assumes what the run does, that no gameplay event is sent (the finding of `ClientEvents`
  says why it has to), and holds whether there are characters of two bytes or not.

### What is only model-checked
Liveness: `MutexReleased`, `DrainsWhenQuiet`, `StopEndsThread`, `DeadConnectionsClosed`,
`QueueServed` and `ShutdownEnds`, which rest on fairness, so on `ENABLED`, which the prover does not
reach. Every invariant and both refinements that the passing runs check are proved. The theorem
about the client has a hypothesis, `Kinds = {"frame"}`, which is the constant of its run. The four
violations need no proof: each is a behaviour TLC prints.
