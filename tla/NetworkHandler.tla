-------------------------- MODULE NetworkHandler --------------------------
(***************************************************************************)
(* src/network_handler.cpp: the network thread of the plugin, with the two *)
(* parties it works against: the kernel's descriptors and connections, and *)
(* the applications at their other end.                                    *)
(*                                                                         *)
(* One step is one kernel call of the network thread, or one move of a     *)
(* client or of the game thread; these may come between any two kernel     *)
(* calls.  The event queue is used through the actions of FifoQueue, which *)
(* EventQueue implements.                                                  *)
(*                                                                         *)
(* Abstractions.  A message is an event with a number of parts, the units  *)
(* in which send() may accept it.  m_subscribers is a set: its order only  *)
(* decides who is served first within one broadcast, and is left open.     *)
(* The kernel hands out any free descriptor.                               *)
(***************************************************************************)
EXTENDS Integers, Sequences, FiniteSets

CONSTANTS
    Client,        \* the applications; each connects at most once
    Fds,           \* descriptors the kernel may return from accept
    m_topSocket,   \* the listening descriptor
    MAX_CLIENTS,   \* as in network_handler.h
    MsgParts,      \* parts of a serialized event
    Event,         \* bound of the model: what the game may push, by number and type
    MaxUnread,     \* bound of the model: unread requests of a client
    RecvClears,    \* recv() reports a reset once (POSIX), or whenever it is called
    NoClient       \* the owner of a descriptor that is not open

ASSUME FdsAssumption ==
    Fds \subseteq Nat \ {0} /\ m_topSocket \in Nat \ Fds   \* 0 is standard input
ASSUME SizesAssumption ==
    MAX_CLIENTS \in Nat /\ MsgParts \in Nat \ {0} /\ MaxUnread \in Nat
ASSUME ClientAssumption == NoClient \notin Client
ASSUME KernelAssumption == RecvClears \in BOOLEAN

Type == {"frame", "gameplay"}                  \* EVENT_FRAME, EVENT_GAMEPLAY
ASSUME EventAssumption == Event \subseteq [id : Nat \ {0}, type : Type]
Empty == [id |-> 0, type |-> "frame"]          \* "", the first m_lastSentFrame
Parts(m) == IF m = Empty THEN 1 ELSE MsgParts  \* "" is sent as one NUL byte

VARIABLES
    \* the game thread
    m_serializedEvents,  \* the event queue
    stop_requested,      \* the stop state of the jthread
    \* members of NetworkHandler
    m_subscribers,       \* descriptors of the clients that are served
    m_subscriberSet,     \* the fd_set: asked for, and after select, ready
    m_maxSocket,
    m_lastSentFrame,
    \* locals of the network thread
    pc,
    todo,                \* descriptors the current loop has still to visit
    deadSockets,         \* descriptors closed by the current loop
    socket, msg, sent,   \* arguments and progress of sendMessage
    \* the kernel
    fdTable,             \* the client behind each descriptor, or NoClient
    backlog,             \* connections waiting in accept's queue
    conn,                \* state of each client's connection
    unread,              \* requests of a client the server has not read
    stalled,             \* clients whose receive window is full
    wire,                \* history: the parts put on each connection
    log                  \* history: the events taken from the queue

members == <<m_subscribers, m_subscriberSet, m_maxSocket, m_lastSentFrame>>
visit == <<todo, deadSockets>>
call == <<socket, msg, sent>>
table == <<fdTable, conn>>
peers == <<backlog, unread, stalled>>
gameVars == <<m_serializedEvents, stop_requested, log>>
vars == <<members, pc, visit, call, table, peers, wire, gameVars>>

PC == {"loop", "select", "accept", "refuse", "snapshot", "recv", "queue", "next", "send",
       "exited", "cleaned", "terminated"}

\* away: not connected; up; shut: the client closed it; reset: a reset came in
\* and recv has not cleared it; dead: it has; over: the server closed it.
ConnState == {"away", "up", "shut", "reset", "dead", "over"}

Part == [of : Event \cup {Empty}, part : 1 .. MsgParts]

TypeOK ==
    /\ m_serializedEvents \in Seq(Event) /\ log \in Seq(Event)
    /\ stop_requested \in BOOLEAN
    /\ m_subscribers \subseteq Fds
    /\ m_subscriberSet \subseteq Fds \cup {m_topSocket}
    /\ m_maxSocket \in Fds \cup {m_topSocket}
    /\ m_lastSentFrame \in Event \cup {Empty}
    /\ pc \in PC
    /\ todo \subseteq Fds /\ deadSockets \subseteq Fds
    /\ socket \in Fds \cup {m_topSocket}
    /\ msg \in Event \cup {Empty}
    /\ sent \in 0 .. MsgParts - 1
    /\ fdTable \in [Fds -> Client \cup {NoClient}]
    /\ backlog \in Seq(Client)
    /\ conn \in [Client -> ConnState]
    /\ unread \in [Client -> 0 .. MaxUnread]
    /\ stalled \subseteq Client
    /\ wire \in [Client -> Seq(Part)]

\* The instance has been constructed: the socket listens, nobody is connected.
Init ==
    /\ m_serializedEvents = <<>> /\ log = <<>>
    /\ stop_requested = FALSE
    /\ m_subscribers = {} /\ m_subscriberSet = {}
    /\ m_maxSocket = m_topSocket
    /\ m_lastSentFrame = Empty
    /\ pc = "loop"
    /\ todo = {} /\ deadSockets = {}
    /\ socket = m_topSocket /\ msg = Empty /\ sent = 0
    /\ fdTable = [s \in Fds |-> NoClient]
    /\ backlog = <<>>
    /\ conn = [c \in Client |-> "away"]
    /\ unread = [c \in Client |-> 0]
    /\ stalled = {}
    /\ wire = [c \in Client |-> <<>>]

-----------------------------------------------------------------------------
(* The kernel (external) *)

IsOpen(s) == s \in Fds /\ fdTable[s] # NoClient
FreeFds == {s \in Fds : fdTable[s] = NoClient}

\* select() reports s: a read on it would not block.
Readable(s) ==
    IF s = m_topSocket THEN backlog # <<>>
    ELSE /\ IsOpen(s)
         /\ \/ unread[fdTable[s]] > 0
            \/ conn[fdTable[s]] \in {"shut", "reset", "dead"}

\* send() accepts n more parts.
SendAccepts(n) ==
    LET c == fdTable[socket] IN
    /\ conn[c] \in {"up", "shut"} /\ c \notin stalled
    /\ wire' = [wire EXCEPT ![c] =
                  @ \o [i \in 1 .. n |-> [of |-> msg, part |-> sent + i]]]

\* Fault: newConnection does not set the time-out of send.
SendFailsUntimed == conn[fdTable[socket]] \in {"reset", "dead"}

\* send() returns -1: the connection is gone, or TIMEOUT_SEND_SEC have passed
\* without room for another byte.
SendFails == conn[fdTable[socket]] \in {"reset", "dead"}
             \/ fdTable[socket] \in stalled

\* close(s); the other end sees the connection end.
Close(s) ==
    /\ fdTable' = [fdTable EXCEPT ![s] = NoClient]
    /\ conn' = [conn EXCEPT ![fdTable[s]] = "over"]

-----------------------------------------------------------------------------
(* EventLoop *)

\* Fault: m_maxSocket does not follow the subscribers.
FdResetTopOnly ==
    /\ m_subscriberSet' = m_subscribers \cup {m_topSocket}
    /\ m_maxSocket' = m_topSocket

\* fdReset: the listening socket and the subscribers; select is given the
\* largest of them.
FdReset ==
    LET asked == m_subscribers \cup {m_topSocket} IN
    /\ m_subscriberSet' = asked
    /\ m_maxSocket' \in asked
    /\ \A s \in asked : s <= m_maxSocket'

\* Fault: while(true).
LeaveLoopNever == FALSE
LeaveLoop == stop_requested

\* The test of the stop token, and fdReset when the loop goes on.
EventLoop ==
    /\ pc = "loop"
    /\ IF LeaveLoop
       THEN pc' = "exited" /\ UNCHANGED <<m_subscriberSet, m_maxSocket>>
       ELSE pc' = "select" /\ FdReset
    /\ UNCHANGED <<m_subscribers, m_lastSentFrame, visit, call, table, peers, wire, gameVars>>

\* The loop of checkDeadConnections visits the subscribers select reported.
CheckDead(subscribers, ready) ==
    /\ pc' = "recv"
    /\ todo' = subscribers \cap ready
    /\ deadSockets' = {}

\* select() looks at the descriptors up to m_maxSocket and leaves the bits above
\* as they are.  A closed descriptor makes it fail, and the exception leaves the
\* thread function.
Select ==
    /\ pc = "select"
    /\ LET looked == {s \in m_subscriberSet : s <= m_maxSocket}
           ready == {s \in m_subscriberSet : s \in looked => Readable(s)}
       IN IF \E s \in looked \ {m_topSocket} : ~IsOpen(s)
          THEN pc' = "terminated" /\ UNCHANGED <<m_subscriberSet, visit>>
          ELSE /\ m_subscriberSet' = ready
               /\ IF m_topSocket \in ready
                  THEN pc' = "accept" /\ UNCHANGED visit
                  ELSE CheckDead(m_subscribers, ready)
    /\ UNCHANGED <<m_subscribers, m_maxSocket, m_lastSentFrame, call, table, peers,
                   wire, gameVars>>

-----------------------------------------------------------------------------
(* newConnection *)

\* Fault: the number of subscribers is not limited.
AtLimitNever == FALSE
AtLimit == Cardinality(m_subscribers) > MAX_CLIENTS

\* accept() returns a descriptor that is free.
Accepted ==
    /\ pc = "accept" /\ backlog # <<>>
    /\ \E s \in FreeFds : /\ fdTable' = [fdTable EXCEPT ![s] = Head(backlog)]
                          /\ socket' = s
    /\ backlog' = Tail(backlog) /\ sent' = 0
    /\ UNCHANGED <<members, visit, conn, unread, stalled, wire, gameVars>>

\* One connection too many is about to be closed.
AcceptRefused ==
    /\ AtLimit /\ Accepted
    /\ msg' = Empty /\ pc' = "refuse"

\* The snapshot is about to be sent: m_lastSentFrame up to its NUL.  When setsockopt
\* fails, which is not looked at, send() has no time-out on this socket: SendFails does
\* not happen for a stalled client.  The model, which lets it happen or not, has those
\* behaviours too; only FairSpec takes the time-out for granted.
Accept ==
    /\ ~AtLimit /\ Accepted
    /\ msg' = m_lastSentFrame /\ pc' = "snapshot"

\* Fault: the result of accept is not looked at.
AcceptFailsPushes ==
    /\ pc = "accept" /\ backlog # <<>>
    /\ m_subscribers' = m_subscribers \cup {-1}
    /\ CheckDead(m_subscribers, m_subscriberSet)
    /\ UNCHANGED <<m_subscriberSet, m_maxSocket, m_lastSentFrame, call, table, peers,
                   wire, gameVars>>

\* accept() returns -1: the process, of which the plugin is a part only, has no
\* descriptor free.  The connection stays in the backlog and `newSocket > 0` skips
\* the rest.
AcceptFails ==
    /\ pc = "accept" /\ backlog # <<>>
    /\ CheckDead(m_subscribers, m_subscriberSet)
    /\ UNCHANGED <<members, call, table, peers, wire, gameVars>>

\* A send() of sendMessage that leaves a remainder; the loop calls send again.
SendPart ==
    /\ pc \in {"snapshot", "send"}
    /\ \E n \in 1 .. Parts(msg) - sent - 1 : SendAccepts(n) /\ sent' = sent + n
    /\ UNCHANGED <<members, pc, visit, socket, msg, table, peers, gameVars>>

\* The arguments of sendMessage, or newSocket, go out of scope.
EndSend == sent' = 0 /\ socket' = m_topSocket

SnapshotSent ==
    /\ pc = "snapshot"
    /\ SendAccepts(Parts(msg) - sent) /\ EndSend /\ msg' = Empty
    /\ m_subscribers' = m_subscribers \cup {socket}
    /\ CheckDead(m_subscribers', m_subscriberSet)
    /\ UNCHANGED <<m_subscriberSet, m_maxSocket, m_lastSentFrame, table, peers, gameVars>>

\* newConnection closes what it has accepted.
CloseNewSocket ==
    /\ Close(socket) /\ EndSend /\ msg' = Empty
    /\ CheckDead(m_subscribers, m_subscriberSet)
    /\ UNCHANGED <<members, peers, wire, gameVars>>

CloseRefused == pc = "refuse" /\ CloseNewSocket

SnapshotFails == pc = "snapshot" /\ SendFails /\ CloseNewSocket

-----------------------------------------------------------------------------
(* checkDeadConnections *)

\* Fault: the descriptor is forgotten without a close.
DropUnclosed(s) == deadSockets' = deadSockets \cup {s} /\ UNCHANGED <<fdTable, conn>>
\* Fault: the subscriber is kept.
DropNot(s) == UNCHANGED <<fdTable, conn, deadSockets>>

\* Both loops over the subscribers close one that is gone and remember it.
Drop(s) == Close(s) /\ deadSockets' = deadSockets \cup {s}

\* Fault: the closed descriptors stay on the list.
SurvivorsAll == m_subscribers
Survivors == m_subscribers \ deadSockets

\* recv() returns up to 8 bytes; they are thrown away.
RecvData(s) ==
    /\ unread[fdTable[s]] > 0
    /\ unread' = [unread EXCEPT ![fdTable[s]] = @ - 1]
    /\ UNCHANGED <<fdTable, conn, deadSockets>>

\* recv() returns -1: the return value is not 0, so the descriptor stays a
\* subscriber.
RecvError(s) ==
    /\ unread[fdTable[s]] = 0 /\ conn[fdTable[s]] = "reset"
    /\ conn' = IF RecvClears THEN [conn EXCEPT ![fdTable[s]] = "dead"] ELSE conn
    /\ UNCHANGED <<fdTable, unread, deadSockets>>

\* Fault: a client that sends anything is taken for one that has closed.
RecvClosedOnData(s) == Drop(s) /\ UNCHANGED unread

\* recv() returns 0.
RecvClosed(s) ==
    /\ unread[fdTable[s]] = 0 /\ conn[fdTable[s]] \in {"shut", "dead"}
    /\ Drop(s)
    /\ UNCHANGED unread

CheckDeadConnection ==
    /\ pc = "recv"
    /\ \E s \in todo : /\ IsOpen(s)
                       /\ RecvData(s) \/ RecvError(s) \/ RecvClosed(s)
                       /\ todo' = todo \ {s}
    /\ UNCHANGED <<members, pc, call, backlog, stalled, wire, gameVars>>

RemoveDead ==
    /\ pc = "recv" /\ todo = {}
    /\ m_subscribers' = Survivors /\ deadSockets' = {}
    /\ pc' = "queue"
    /\ UNCHANGED <<m_subscriberSet, m_maxSocket, m_lastSentFrame, todo, call, table,
                   peers, wire, gameVars>>

-----------------------------------------------------------------------------
(* checkQueue *)

Queue == INSTANCE FifoQueue WITH queue <- m_serializedEvents, taken <- log

QueueEmpty ==
    /\ pc = "queue" /\ m_serializedEvents = <<>>
    /\ pc' = "loop"
    /\ UNCHANGED <<members, visit, call, table, peers, wire, gameVars>>

PopEvent ==
    /\ pc = "queue"
    /\ Queue!Pop
    /\ msg' = Head(m_serializedEvents)
    /\ todo' = m_subscribers
    /\ pc' = "next"
    /\ UNCHANGED <<members, deadSockets, socket, sent, table, peers, wire, stop_requested>>

\* The next descriptor of the list, and the call of sendMessage.
NextSubscriber ==
    /\ pc = "next"
    /\ socket' \in todo
    /\ pc' = "send"
    /\ UNCHANGED <<members, visit, msg, sent, table, peers, wire, gameVars>>

EventSent ==
    /\ pc = "send"
    /\ SendAccepts(Parts(msg) - sent) /\ EndSend
    /\ todo' = todo \ {socket}
    /\ pc' = "next"
    /\ UNCHANGED <<members, deadSockets, msg, table, peers, gameVars>>

\* A message that was sent in part stays torn; nothing follows it.
EventFails ==
    /\ pc = "send"
    /\ SendFails /\ EndSend
    /\ Drop(socket)
    /\ todo' = todo \ {socket}
    /\ pc' = "next"
    /\ UNCHANGED <<members, msg, peers, wire, gameVars>>

\* Fault: every event becomes the snapshot.
NextSnapshotAny(m) == m
\* Only a frame does.
NextSnapshot(m) == IF m.type = "frame" THEN m ELSE m_lastSentFrame

\* The end of the loop's body.
EventBroadcast ==
    /\ pc = "next" /\ todo = {}
    /\ m_subscribers' = Survivors /\ deadSockets' = {}
    /\ m_lastSentFrame' = NextSnapshot(msg) /\ msg' = Empty
    /\ pc' = "queue"
    /\ UNCHANGED <<m_subscriberSet, m_maxSocket, todo, socket, sent, table, peers, wire,
                   gameVars>>

-----------------------------------------------------------------------------
(* The game thread *)

\* PushEvent, from telemetry_frame_end and telemetry_gameplay.  No callback
\* comes after the shutdown.
PushEvent(type) ==
    LET event == [id |-> Len(m_serializedEvents) + Len(log) + 1, type |-> type] IN
    /\ ~stop_requested /\ event \in Event
    /\ Queue!Push(event)
    /\ UNCHANGED <<members, pc, visit, call, table, peers, wire, stop_requested>>

\* shutdown(): `delete networkThread` requests the stop and joins ...
RequestStop ==
    /\ ~stop_requested /\ stop_requested' = TRUE
    /\ UNCHANGED <<members, pc, visit, call, table, peers, wire, m_serializedEvents, log>>

\* ... and then NetworkHandler::Cleanup destroys the instance.
Cleanup ==
    /\ pc = "exited"
    /\ pc' = "cleaned"
    /\ fdTable' = [s \in Fds |-> IF s \in m_subscribers THEN NoClient ELSE fdTable[s]]
    /\ conn' = [c \in Client |->
                  IF (\E s \in m_subscribers : fdTable[s] = c)
                     \/ (\E i \in DOMAIN backlog : backlog[i] = c)
                  THEN "over" ELSE conn[c]]
    /\ m_subscribers' = {} /\ backlog' = <<>>
    /\ UNCHANGED <<m_subscriberSet, m_maxSocket, m_lastSentFrame, visit, call, unread,
                   stalled, wire, gameVars>>

-----------------------------------------------------------------------------
(* The clients (external) *)

ServerIdle == UNCHANGED <<members, pc, visit, call, fdTable, wire, gameVars>>

\* The kernel completes a connection when accept's queue has room for it.
Connect(c) ==
    /\ pc # "cleaned" /\ conn[c] = "away" /\ Len(backlog) <= MAX_CLIENTS
    /\ conn' = [conn EXCEPT ![c] = "up"]
    /\ backlog' = Append(backlog, c)
    /\ UNCHANGED <<unread, stalled>> /\ ServerIdle

\* The client sends something; the protocol has no use for it.
Request(c) ==
    /\ conn[c] = "up" /\ unread[c] < MaxUnread
    /\ unread' = [unread EXCEPT ![c] = @ + 1]
    /\ UNCHANGED <<backlog, conn, stalled>> /\ ServerIdle

\* The client closes its connection, or it is reset, which is also how the
\* kernel of a client that has closed answers more data.
HangUp(c) ==
    /\ \/ /\ conn[c] = "up" /\ conn' = [conn EXCEPT ![c] = "shut"]
          /\ UNCHANGED stalled
       \/ /\ conn[c] \in {"up", "shut"} /\ conn' = [conn EXCEPT ![c] = "reset"]
          /\ stalled' = stalled \ {c}
    /\ UNCHANGED <<backlog, unread>> /\ ServerIdle

\* The client stops reading and its window fills, or it reads again.
Stall(c) ==
    /\ conn[c] \in {"up", "shut"}
    /\ stalled' = IF c \in stalled THEN stalled \ {c} ELSE stalled \cup {c}
    /\ UNCHANGED <<backlog, conn, unread>> /\ ServerIdle

-----------------------------------------------------------------------------
NetStep ==
    \/ EventLoop \/ Select
    \/ AcceptRefused \/ CloseRefused \/ Accept \/ AcceptFails
    \/ SendPart \/ SnapshotSent \/ SnapshotFails
    \/ CheckDeadConnection \/ RemoveDead
    \/ QueueEmpty \/ PopEvent \/ NextSubscriber \/ EventSent \/ EventFails \/ EventBroadcast

GameStep == RequestStop \/ Cleanup \/ \E type \in Type : PushEvent(type)

ClientMove ==
    \E c \in Client : Connect(c) \/ Request(c) \/ HangUp(c) \/ Stall(c)

\* The instance is gone and the thread with it.
Finished == pc = "cleaned" /\ UNCHANGED vars

Next == NetStep \/ GameStep \/ ClientMove \/ Finished

Spec == Init /\ [][Next]_vars

(***************************************************************************)
(* The network thread and the game thread's shutdown run on once they can: *)
(* select has a time-out, and send() has the one newConnection has set,    *)
(* provided that setsockopt did not fail.  Nothing makes a client or the   *)
(* game do anything.                                                       *)
(***************************************************************************)
FairSpec == Spec /\ WF_vars(NetStep) /\ WF_vars(Cleanup)

-----------------------------------------------------------------------------
(* Properties *)

OpenFds == Fds \ FreeFds

\* The descriptors the network thread answers for: its subscribers, less those it
\* has just closed, and newSocket.
Tracked ==
    (m_subscribers \ deadSockets) \cup (IF pc \in {"refuse", "snapshot"} THEN {socket} ELSE {})

\* Every descriptor that accept returned is tracked until it is closed, and none
\* is tracked afterwards: no descriptor leaks, none is closed twice, polled,
\* read or written after its close (when its number may be another client's),
\* and none is pushed on the list of subscribers twice.
DescriptorsTracked ==
    /\ OpenFds = Tracked
    /\ deadSockets \subseteq m_subscribers
    /\ pc \in {"refuse", "snapshot"} => socket \notin m_subscribers
    /\ \A s, t \in OpenFds : fdTable[s] = fdTable[t] => s = t

\* select never fails, so the exception of EventLoop, which nobody catches and
\* which would end the game's process, is never thrown.
SelectNeverFails == pc # "terminated"

\* The two blocking calls of the loop that have no time-out, accept and recv, are
\* only made when they return at once, although the readiness they rely on was
\* asked for before other connections were accepted and closed.
NeverBlocks ==
    /\ pc = "accept" => backlog # <<>>
    /\ pc = "recv" => \A s \in todo : Readable(s)

\* What a client receives is a sequence of whole messages.  Only the last may be
\* cut short: while it is being sent, or because the connection ended there.
WholeMessages ==
    \A c \in Client :
        /\ \A i \in DOMAIN wire[c] :
              LET p == wire[c][i] IN
              IF p.part = 1
              THEN i = 1 \/ wire[c][i - 1].part = Parts(wire[c][i - 1].of)
              ELSE i > 1 /\ wire[c][i - 1] = [of |-> p.of, part |-> p.part - 1]
        /\ LET last == wire[c][Len(wire[c])] IN
           wire[c] # <<>> /\ last.part < Parts(last.of)
           => conn[c] = "over" \/ (pc \in {"snapshot", "send"} /\ fdTable[socket] = c)

\* The server never serves more than MAX_CLIENTS + 1 connections at once; one more is
\* open while it is refused.
CapacityBound ==
    Cardinality(OpenFds) <= MAX_CLIENTS + 1 + (IF pc = "refuse" THEN 1 ELSE 0)

Healthy(c) == conn[c] = "up" /\ c \notin stalled

\* The server drops a client that is connected and reads what it is sent only to
\* enforce the limit, on having accepted it, or when the plugin shuts down.
HealthyClientsKept ==
    [][\A c \in Client :
          Healthy(c) /\ conn'[c] = "over"
          => pc = "exited" \/ (pc = "refuse" /\ c = fdTable[socket] /\ AtLimit)]_vars

\* Where a sequence of parts has the last of a message, the message the k-th of
\* these ends, and the messages that are there whole.
Ends(w) == {i \in DOMAIN w : w[i].part = Parts(w[i].of)}
Ended(w, k) ==
    LET ends == Ends(w) IN
    {w[i].of : i \in {j \in ends : Cardinality({e \in ends : e <= j}) = k}}
Whole(w) == [k \in 1 .. Cardinality(Ends(w)) |-> CHOOSE m \in Ended(w, k) : TRUE]

\* The messages of which a client has every part.
Received(c) == Whole(wire[c])

\* A subscriber whose turn in the current broadcast is still to come is owed the
\* event that was taken last.
Owed(c) ==
    IF \E s \in m_subscribers \ deadSockets : fdTable[s] = c
    THEN IF \E s \in todo : pc \in {"next", "send"} /\ fdTable[s] = c
         THEN Len(log)
         ELSE Len(log) + 1
    ELSE 0

Feed == INSTANCE TelemetryFeed WITH
    Frame <- {e \in Event : e.type = "frame"},
    NoFrame <- Empty,
    next <- [c \in Client |-> Owed(c)],
    got <- [c \in Client |-> Received(c)]

\* Every client is sent the last frame and then all events from there on, in
\* order and without a gap or a repetition, whoever else connects, disconnects,
\* stalls or is dropped meanwhile.
ImplementsFeed == Feed!Spec

\* The stop request of the jthread's destructor is honoured: the thread ends, so
\* that the join returns and the instance is destroyed.
StopEndsThread == stop_requested ~> pc = "cleaned"

\* The descriptor of a connection that has ended is given up, where recv clears the
\* error it reports.
DeadConnectionsClosed ==
    \A c \in Client :
        conn[c] \in {"shut", "reset", "dead"} /\ (\E s \in Fds : fdTable[s] = c)
        ~> \A s \in Fds : fdTable[s] # c

\* No client, however slow, keeps the events of the others in the queue for ever.
QueueServed == m_serializedEvents # <<>> ~> (m_serializedEvents = <<>> \/ pc = "cleaned")
=============================================================================
