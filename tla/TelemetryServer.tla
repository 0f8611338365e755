-------------------------- MODULE TelemetryServer --------------------------
(***************************************************************************)
(* src/ts_telemetry_server.cpp as the game sees it: the library is loaded, *)
(* scs_telemetry_init registers the callbacks and the channels and starts  *)
(* the network thread, the callbacks run, scs_telemetry_shutdown stops it, *)
(* and the library is unloaded or initialized again as it is.              *)
(*                                                                         *)
(* Every failure of an initialization is in, with what it leaves behind;   *)
(* TelemetryPlugin.tla has the configurations in detail and                *)
(* NetworkHandler.tla the network thread, which is here a consumer of the  *)
(* event queue.  A few registrations are followed (Watched); their tables  *)
(* are all in ChannelRegistration.tla.                                     *)
(***************************************************************************)
EXTENDS ChannelRegistration, PushedFrames

CONSTANTS
    Games,         \* games the library may be loaded by
    Watched,       \* the registrations that are followed
    Events,        \* the gameplay events that happen
    MaxValue,      \* bound of the model: channels have values 0 .. MaxValue
    MaxChanges,    \* bound of the model: changes of a channel's value
    MaxFailures,   \* bound of the model: initializations that fail half way
    MaxQueued,     \* bound of the model: events in the queue
    NoValue,       \* a channel without a value, or whose value was not delivered
    NoFrame        \* m_lastSentFrame is empty

SCS_MAKE_VERSION(major, minor) == 65536 * major + minor
SCS_TELEMETRY_VERSION_1_01 == SCS_MAKE_VERSION(1, 1)

\* A game: SCS_GAME_ID_*, its version, the minor version of the latest API it has, and
\* the channels it is without.
Game == [id : {"eut2", "ats", "other"}, version : Nat, api : Nat, lacks : SUBSET Lackable]
Value == 0 .. MaxValue

ASSUME BoundsAssumption ==
    MaxValue \in Nat /\ MaxChanges \in Nat /\ MaxFailures \in Nat /\ MaxQueued \in Nat
ASSUME GamesAssumption == Games \subseteq Game /\ Events \subseteq GameplayEvent
ASSUME NoneAssumption == NoValue \notin Value

\* No wheels: what a configuration does to them is in TelemetryPlugin.tla.
ASSUME WatchedAssumption ==
    /\ Watched \subseteq register_channels
    /\ \A r \in Watched : r.member.wheel = SCS_U32_NIL
    /\ \A r, s \in Watched : r.member = s.member => r = s

VARIABLES
    \* globals of the library
    telemetryData,    \* the members that are watched, and paused
    frameChanged,
    eventQueue,
    serializer,       \* the pointer is set
    networkThread,    \* the pointer is set
    m_instance,       \* "null", "alive", or "freed" when it points to nothing
    \* the network thread
    thread,           \* "none", where it is in its loop, or "ended"
    stop_requested,
    m_lastSentFrame,
    \* the process, whatever is loaded
    serializers,      \* JsonTelemetrySerializer objects
    sockets,          \* open listening sockets
    portHeld,         \* a socket nobody will close is bound to PORT
    failures,         \* history: initializations that failed half way
    \* the game
    game,
    host,             \* what it is about to do
    version,          \* minor version of the API it initializes next
    paused,
    value,            \* the value of each watched channel, or NoValue
    delivered,        \* the one it called back with last in this session
    accepted,         \* the registrations that succeeded
    changes,
    inverted          \* history: sessions of this load that ended while driving: odd

data == <<telemetryData, frameChanged>>
queue == <<eventQueue, m_lastSentFrame>>
pointers == <<serializer, networkThread, m_instance>>
network == <<thread, stop_requested>>
process == <<serializers, sockets, portHeld, failures>>
channels == <<value, delivered, accepted, changes>>
pause == <<paused, inverted>>
vars == <<data, queue, pointers, network, process, channels, pause, game, host, version>>

Members == {r.member : r \in Watched}
Content == [plain : Nat, angle : Nat]
Data == [paused : BOOLEAN, members : [Members -> Content]]
Fresh == [paused |-> TRUE, members |-> [m \in Members |-> Copied(0)]]

Callbacks == {"initial", "config", "changed", "events", "channels"}
Host == Callbacks \cup {"unloaded", "init", "stopping", "stopped", "refused", "hung"}
InSession == host \in Callbacks

\* The network thread is at the test of EventLoop, or in checkQueue.
Running == {"polling", "serving"}

\* What is serialized of it, and what is pushed.
Shown == {m \in Members : Serialized(Owner(m), m.path)}
Frame == [paused : BOOLEAN, members : [Shown -> Content]]
QueueEvent == [type : {"frame"}, frame : Frame]
              \cup [type : {"gameplay"}, event : Events,
                    attributes : {Payload(event) : event \in Events}]

TypeOK ==
    /\ telemetryData \in Data /\ frameChanged \in BOOLEAN
    /\ eventQueue \in Seq(QueueEvent) /\ m_lastSentFrame \in Frame \cup {NoFrame}
    /\ serializer \in BOOLEAN /\ networkThread \in BOOLEAN
    /\ m_instance \in {"null", "alive", "freed"}
    /\ thread \in {"none", "ended"} \cup Running /\ stop_requested \in BOOLEAN
    /\ serializers \in Nat /\ sockets \in Nat /\ portHeld \in BOOLEAN
    /\ failures \in 0 .. MaxFailures
    /\ game \in Games /\ host \in Host /\ version \in Nat
    /\ paused \in BOOLEAN /\ inverted \in BOOLEAN
    /\ value \in [Watched -> Value \cup {NoValue}]
    /\ delivered \in [Watched -> Value \cup {NoValue}]
    /\ accepted \subseteq Watched
    /\ changes \in 0 .. MaxChanges

\* What loading the library gives the globals.
Loaded ==
    /\ telemetryData' = Fresh /\ frameChanged' = TRUE
    /\ eventQueue' = <<>> /\ m_lastSentFrame' = NoFrame
    /\ serializer' = FALSE /\ networkThread' = FALSE /\ m_instance' = "null"
    /\ thread' = "none" /\ stop_requested' = FALSE
    /\ inverted' = FALSE

Init ==
    /\ telemetryData = Fresh /\ frameChanged = TRUE
    /\ eventQueue = <<>> /\ m_lastSentFrame = NoFrame
    /\ serializer = FALSE /\ networkThread = FALSE /\ m_instance = "null"
    /\ thread = "none" /\ stop_requested = FALSE
    /\ serializers = 0 /\ sockets = 0 /\ portHeld = FALSE /\ failures = 0
    /\ game \in Games /\ host = "unloaded" /\ version = 0
    /\ paused = TRUE /\ inverted = FALSE
    /\ value = [r \in Watched |-> 0] /\ delivered = [r \in Watched |-> NoValue]
    /\ accepted = {} /\ changes = 0

-----------------------------------------------------------------------------
(* scs_telemetry_init *)

\* The game starts the plugin, with its latest API first; a library that is still
\* loaded ("sdk reinit") has the globals the last session left.  (When the port is held
\* this cannot but fail.)
Start ==
    /\ host \in {"unloaded", "stopped", "refused"}
    /\ portHeld => failures < MaxFailures
    /\ host' = "init" /\ version' = game.api
    /\ paused' = TRUE
    /\ delivered' = [r \in Watched |-> NoValue] /\ accepted' = {}
    /\ UNCHANGED <<data, queue, pointers, network, process, value, changes, inverted, game>>

minSupportedVersion(id) ==
    IF id = "eut2" THEN SCS_MAKE_VERSION(1, 18) ELSE SCS_MAKE_VERSION(1, 5)

Supported ==
    /\ SCS_MAKE_VERSION(1, version) = SCS_TELEMETRY_VERSION_1_01
    /\ game.id \in {"eut2", "ats"}
    /\ minSupportedVersion(game.id) <= game.version

\* SCS_RESULT_unsupported: the game goes on with the API version before.
InitUnsupported ==
    /\ host = "init" /\ ~Supported
    /\ IF version = 0
       THEN host' = "refused" /\ UNCHANGED version
       ELSE version' = version - 1 /\ UNCHANGED host
    /\ UNCHANGED <<data, queue, pointers, network, process, channels, pause, game>>

\* serializer = new JsonTelemetrySerializer, whatever it pointed to.
NewSerializer == host = "init" /\ Supported /\ serializer' = TRUE
                 /\ serializers' = serializers + 1

\* SCS_RESULT_generic_error: the plugin is not used.
InitFails == host' = "refused" /\ failures < MaxFailures /\ failures' = failures + 1

\* The game does not register one of the events.
EventsRefused ==
    /\ NewSerializer /\ InitFails
    /\ UNCHANGED <<data, queue, networkThread, m_instance, network, sockets, portHeld,
                   channels, pause, game, version>>

\* The constructor of NetworkHandler throws, and does not close its socket.
ConstructorThrows(call) ==
    /\ NewSerializer /\ InitFails
    /\ m_instance = "null"
    /\ call = "listen" => ~portHeld
    /\ sockets' = IF call = "socket" THEN sockets ELSE sockets + 1
    /\ portHeld' = (portHeld \/ call = "listen")
    /\ UNCHANGED <<data, queue, networkThread, m_instance, network, channels, pause, game,
                   version>>

\* The socket listens: that of the instance there is, or of a new one.
Listening ==
    /\ m_instance = "null" => ~portHeld
    /\ sockets' = IF m_instance = "null" THEN sockets + 1 ELSE sockets
    /\ m_instance' = IF m_instance = "null" THEN "alive" ELSE m_instance
    /\ m_lastSentFrame' = IF m_instance = "null" THEN NoFrame ELSE m_lastSentFrame

\* The system has no thread left for std::jthread: the instance stays.
ThreadRefused ==
    /\ NewSerializer /\ InitFails /\ Listening
    /\ UNCHANGED <<data, eventQueue, networkThread, network, portHeld, channels, pause, game,
                   version>>

\* The name of a trailer's channel is read after it may have been freed, so that any of
\* these registrations may be refused; what a registration returns is not looked at.
Accepts(A) ==
    LET offered == {r \in Watched : Offers(game, r.channel, r.type)} IN
    A \subseteq offered /\ \A r \in offered \ A : r.channel.of = "trailer"

InitOk(A) ==
    /\ NewSerializer /\ Listening
    /\ Accepts(A) /\ accepted' = A
    /\ networkThread' = TRUE
    /\ thread' = "polling" /\ stop_requested' = FALSE
    /\ host' = "initial"
    /\ UNCHANGED <<data, eventQueue, portHeld, failures, value, delivered, changes, pause,
                   game, version>>

-----------------------------------------------------------------------------
(* The callbacks *)

callback == <<pointers, network, process, game, version>>

\* A configuration the plugin uses, or one of an id or a trailer it does not know.  The
\* initial configuration, which comes before anything else, has one it uses.
telemetry_configuration(used) ==
    /\ host \in {"initial", "config"}
    /\ IF used THEN host' = "config" /\ frameChanged' = TRUE
       ELSE UNCHANGED <<host, frameChanged>>
    /\ UNCHANGED <<telemetryData, queue, channels, pause, callback>>

\* Fault: the one callback of both events takes them for PAUSED.
PauseSet == TRUE
PauseToggled == ~telemetryData.paused

\* PAUSED and STARTED, of which the game sends the one that is news.
telemetry_pause ==
    /\ host = "config" /\ host' = "changed"
    /\ paused' = ~paused
    /\ telemetryData' = [telemetryData EXCEPT !.paused = PauseToggled]
    /\ frameChanged' = TRUE
    /\ UNCHANGED <<queue, channels, inverted, callback>>

telemetry_frame_start ==
    /\ host \in {"config", "changed"} /\ host' = "events"
    /\ UNCHANGED <<data, queue, channels, pause, callback>>

PushEvent(e) == Len(eventQueue) < MaxQueued /\ eventQueue' = Append(eventQueue, e)

JobCleared ==
    [m \in Members |-> IF m.of = "job" THEN Copied(0) ELSE telemetryData.members[m]]

\* A gameplay event: frameChanged stays as it is.
telemetry_gameplay(event) ==
    /\ host = "events"
    /\ telemetryData' = [telemetryData EXCEPT !.members = IF IsJob(event) THEN JobCleared ELSE @]
    /\ PushEvent([type |-> "gameplay", event |-> event, attributes |-> Payload(event)])
    /\ UNCHANGED <<frameChanged, m_lastSentFrame, host, channels, pause, callback>>

\* The game may call back for a channel that has a value, and must when the value is not
\* the one it delivered last.
MayCall(r) == r \in accepted /\ ~paused /\ value[r] # NoValue
Due(r) == MayCall(r) /\ value[r] # delivered[r]

\* Fault: the stores do not count as changes of the frame.
ChannelChangedNot == frameChanged
ChannelChanged == TRUE

\* A store that takes the member for something smaller writes a part of it.
Written(r) ==
    IF Target(r.type) = MemberType(r.member) THEN Stored(r.type, value[r])
    ELSE [telemetryData.members[r.member] EXCEPT !.angle = value[r]]

channel_wrapper(r) ==
    /\ host \in {"events", "channels"} /\ host' = "channels"
    /\ MayCall(r)
    /\ delivered' = [delivered EXCEPT ![r] = value[r]]
    /\ telemetryData' = [telemetryData EXCEPT !.members[r.member] = Written(r)]
    /\ frameChanged' = ChannelChanged
    /\ UNCHANGED <<queue, value, accepted, changes, pause, callback>>

SerializeFrame ==
    [paused |-> telemetryData.paused,
     members |-> [m \in Shown |-> telemetryData.members[m]]]

telemetry_frame_end ==
    /\ host \in {"events", "channels"} /\ host' = "config"
    /\ \A r \in Watched : ~Due(r)
    /\ IF frameChanged
       THEN PushEvent([type |-> "frame", frame |-> SerializeFrame])
       ELSE UNCHANGED eventQueue
    /\ frameChanged' = FALSE
    /\ UNCHANGED <<telemetryData, m_lastSentFrame, channels, pause, callback>>

\* Between two frames the world moves on; a channel may have no value for a while.
ValueChanges ==
    /\ host = "config" /\ changes < MaxChanges /\ changes' = changes + 1
    /\ \E r \in Watched, v \in Value \cup {NoValue} :
          v # value[r] /\ value' = [value EXCEPT ![r] = v]
    /\ UNCHANGED <<data, queue, delivered, accepted, pause, host, callback>>

-----------------------------------------------------------------------------
(* The network thread: NetworkHandler.tla without the connections *)

serving == <<data, pointers, stop_requested, process, channels, pause, game, host, version>>

\* EventLoop: the test of the stop token, before the connections are looked at.
LoopTest ==
    /\ thread = "polling"
    /\ thread' = IF stop_requested THEN "ended" ELSE "serving"
    /\ UNCHANGED <<queue, serving>>

\* checkQueue goes on until it finds the queue empty, whether a stop is requested or not.
TakeEvent ==
    /\ thread = "serving" /\ eventQueue # <<>>
    /\ eventQueue' = Tail(eventQueue)
    /\ m_lastSentFrame' = IF Head(eventQueue).type = "frame"
                          THEN Head(eventQueue).frame ELSE m_lastSentFrame
    /\ UNCHANGED <<thread, serving>>

QueueEmpty ==
    /\ thread = "serving" /\ eventQueue = <<>>
    /\ thread' = "polling"
    /\ UNCHANGED <<queue, serving>>

EventLoop == LoopTest \/ TakeEvent \/ QueueEmpty

-----------------------------------------------------------------------------
(* scs_telemetry_shutdown *)

\* Fault: std::thread, which does not request anything.
StopRequestedNot == stop_requested
StopRequested == TRUE

\* delete networkThread: the destructor of jthread requests the stop and waits.
Shutdown ==
    /\ host \in {"initial", "config"} /\ host' = "stopping"
    /\ stop_requested' = StopRequested
    /\ inverted' = (inverted # ~paused)
    /\ UNCHANGED <<data, queue, pointers, thread, process, channels, paused, game, version>>

\* Fault: the pointers stay as they are.
NetworkThreadKept == networkThread
NetworkThreadAfter == FALSE
InstanceKept == "freed"
InstanceAfter == "null"

\* Fault: ~NetworkHandler closes the connections only, or its socket twice.
SocketsKept == sockets
SocketsTwice == sockets - 2
SocketsAfter == sockets - 1

\* The thread has been joined: Cleanup, and the serializer.
Joined ==
    /\ host = "stopping" /\ thread = "ended" /\ host' = "stopped"
    /\ thread' = "none"
    /\ networkThread' = NetworkThreadAfter
    /\ m_instance' = InstanceAfter /\ sockets' = SocketsAfter /\ m_lastSentFrame' = NoFrame
    /\ serializer' = FALSE
    /\ serializers' = IF serializer THEN serializers - 1 ELSE serializers
    /\ UNCHANGED <<data, eventQueue, stop_requested, portHeld, failures, channels, pause, game,
                   version>>

\* DllMain, or the destructor function: shutdown again.  It must find nothing to do:
\* on Windows a thread that is joined here needs the lock that the caller holds.  What
\* is left of an instance is left for good.
Unload ==
    /\ host \in {"stopped", "refused"}
    /\ host' = IF networkThread THEN "hung" ELSE "unloaded"
    /\ Loaded
    /\ portHeld' = (portHeld \/ m_instance = "alive")
    /\ UNCHANGED <<serializers, sockets, failures, channels, paused, game, version>>

\* The game ends, or is killed, at any point, and is started again: another process, which
\* has nothing of the old one.
Restart ==
    /\ Loaded
    /\ serializers' = 0 /\ sockets' = 0 /\ portHeld' = FALSE /\ failures' = 0
    /\ host' = "unloaded" /\ version' = 0
    /\ paused' = TRUE /\ changes' = 0
    /\ value' = [r \in Watched |-> 0] /\ delivered' = [r \in Watched |-> NoValue]
    /\ accepted' = {}
    /\ UNCHANGED game

Next ==
    \/ Start \/ InitUnsupported \/ EventsRefused \/ ThreadRefused
    \/ \E call \in {"socket", "setsockopt", "bind", "listen"} : ConstructorThrows(call)
    \/ \E A \in SUBSET Watched : InitOk(A)
    \/ \E used \in BOOLEAN : telemetry_configuration(used)
    \/ telemetry_pause \/ telemetry_frame_start
    \/ \E event \in Events : telemetry_gameplay(event)
    \/ \E r \in Watched : channel_wrapper(r)
    \/ telemetry_frame_end
    \/ ValueChanges
    \/ EventLoop
    \/ Shutdown \/ Joined \/ Unload \/ Restart

Spec == Init /\ [][Next]_vars

\* The threads run; neither the game nor a client has to do anything.
Fairness == WF_vars(EventLoop) /\ WF_vars(Joined)
FairSpec == Spec /\ Fairness

-----------------------------------------------------------------------------
(* Properties *)

\* No callback, and no step of the network thread, meets a serializer, a thread or a
\* NetworkHandler that is not there, however the sessions before went.
SessionComplete ==
    /\ InSession => serializer /\ networkThread /\ thread \in Running
    /\ thread \in Running => m_instance = "alive"

\* The shutdown of the unload hook has nothing to join.
UnloadQuiet == host # "hung"

\* A session leaves no object and no socket behind, whatever came before: what is left
\* over is from initializations that failed, one serializer and at most one socket each.
NothingLeaks ==
    /\ serializers = failures + (IF host \in Callbacks \cup {"stopping"} THEN 1 ELSE 0)
    /\ sockets <= failures + (IF host \in Callbacks \cup {"stopping"} THEN 1 ELSE 0)

\* The frame the clients have, or will when they have been sent what is queued.
LastFrame == LastOf(eventQueue, m_lastSentFrame)

\* When nothing is held back, the frame of the clients is one of this session: not what
\* the queue or the handler still had from the one before.
Current == host \in Callbacks \ {"initial"} /\ ~frameChanged

\* The clients are told that the game is paused when it is, unless, in this load, an odd
\* number of sessions ended while driving: each new one starts paused, and nothing resets
\* the flag, so from then on they are told the opposite.
PausedAsLeft == Current => LastFrame.paused = (paused # inverted)

\* The clients see, in its place and its unit, the last value of every channel the game
\* has delivered in this session.  (Not of the job's channel, see MembersServed.)
ClientsSeeGame ==
    Current =>
        \A r \in accepted :
            r.channel.of # "job" /\ delivered[r] # NoValue =>
                /\ r.member \in Shown
                /\ LastFrame.members[r.member] = Stored(r.type, delivered[r])

\* A registration is only refused for a channel the running game is known to be without:
\* there is no other channel, unit, index or type it does not have.  No two registrations
\* take each other's place.
Refused == UNION {{g} \X RefusedBy(g) : g \in Games}
RegistrationsAccepted ==
    InSession =>
        /\ \A p \in Refused : p[1] = game => p[2].channel.name \in game.lacks
        /\ NoneTwice

\* A store writes to a member what the member is: all of it and nothing behind it.  The
\* one exception is the damage of the cargo.
StoresFit ==
    InSession => \A r \in Misfits : r.channel.of = "job" /\ r.type = "float"

\* No two channels are stored in one member, whose value would be that of the last one
\* delivered, and none in a member that a configuration or a pause event fills.
OneWriter == InSession => NoneShared /\ StrayMembers = {}

\* What the header files declare, and README.md points a client's author to: every member
\* of a frame that no configuration fills has the value of a channel, in the games that
\* have it.
MembersServed ==
    InSession =>
        \A m \in ChannelMembers :
            \E r \in register_channels :
                r.member = m /\ Target(r.type) = MemberType(m)

\* Every member of a structure reaches the clients.
AllSerialized ==
    \A i \in DOMAIN eventQueue : eventQueue[i].type = "frame" => Incomplete = {}

\* A gameplay event has all its attributes, of whatever type.
EventsComplete ==
    \A i \in DOMAIN eventQueue :
        eventQueue[i].type = "gameplay" =>
            eventQueue[i].attributes = Attributes(eventQueue[i].event)

\* A shutdown comes to its end, whatever the queue holds and however long the session was:
\* the game does not hang in it until it is killed.
ShutdownEnds == host = "stopping" ~> host # "stopping"
=============================================================================
