----------------------- MODULE NetworkHandlerProofs -----------------------
(***************************************************************************)
(* Proofs about NetworkHandler for every set of clients, every set of      *)
(* descriptors, every limit and every message size: type correctness, the  *)
(* discipline of the descriptors (none leaks, none is used after its       *)
(* close, select never fails, accept and recv never block), the limit on   *)
(* connections, that a healthy client is kept, that nothing follows a      *)
(* message that was cut short, and that it implements TelemetryFeed.       *)
(***************************************************************************)
EXTENDS NetworkHandler, FiniteSetTheorems, WellFoundedInduction, TLAPS

\* A connection that is not over: it waits in the backlog or has a descriptor.
Live == {"up", "shut", "reset", "dead"}

\* Every connection is in one place, the backlog or one entry of the table, and a
\* connection that is somewhere is not over.
Placed ==
    /\ \A s \in OpenFds : conn[fdTable[s]] \in Live
    /\ \A i \in DOMAIN backlog :
          /\ conn[backlog[i]] \in Live
          /\ \A s \in Fds : fdTable[s] # backlog[i]
    /\ \A i, j \in DOMAIN backlog : backlog[i] = backlog[j] => i = j

\* What the network thread's locals hold at each of its program points.
Locals ==
    /\ pc # "terminated"
    /\ pc \in {"loop", "select", "accept", "refuse", "snapshot", "queue", "exited", "cleaned"}
       => deadSockets = {}
    /\ pc = "refuse" => AtLimit
    /\ pc \in {"recv", "next", "send"} => todo \subseteq m_subscribers \ deadSockets
    /\ pc = "send" => socket \in todo
    /\ sent < Parts(msg) /\ (pc \notin {"snapshot", "send"} => sent = 0)

\* The readiness select reported still holds when it is used.
Ready ==
    /\ pc = "select" => /\ m_subscriberSet = m_subscribers \cup {m_topSocket}
                        /\ \A s \in m_subscriberSet : s <= m_maxSocket
    /\ pc \in {"accept", "refuse", "snapshot"} =>
          /\ m_subscriberSet \subseteq m_subscribers \cup {m_topSocket}
          /\ \A s \in m_subscriberSet \ {m_topSocket} : Readable(s)
    /\ NeverBlocks

\* The inductive invariant.
IInv == TypeOK /\ Placed /\ DescriptorsTracked /\ Locals /\ Ready

-----------------------------------------------------------------------------
(* Facts about the operators *)

\* A message has between one and MsgParts parts.
LEMMA PartsBound ==
    ASSUME NEW m PROVE Parts(m) \in 1 .. MsgParts
BY SizesAssumption DEF Parts

\* A run of parts of one message is a sequence of parts.
LEMMA PartsTyped ==
    ASSUME NEW m \in Event \cup {Empty}, NEW k \in Nat, NEW n \in Nat, k + n <= MsgParts
    PROVE  [i \in 1 .. n |-> [of |-> m, part |-> k + i]] \in Seq(Part)
<1>1. \A i \in 1 .. n : [of |-> m, part |-> k + i] \in Part
  BY SizesAssumption DEF Part
<1> QED BY <1>1

\* A tracked descriptor is open, and a client is behind it.
LEMMA TrackedOpen ==
    ASSUME IInv, NEW s \in Tracked
    PROVE  s \in Fds /\ IsOpen(s) /\ fdTable[s] \in Client
BY DEF IInv, TypeOK, DescriptorsTracked, OpenFds, FreeFds, IsOpen

\* sendMessage and newConnection's close are only called for an open descriptor.
LEMMA SocketOpen ==
    ASSUME IInv, pc \in {"refuse", "snapshot", "send"}
    PROVE  socket \in Fds /\ IsOpen(socket) /\ fdTable[socket] \in Client
<1>1. socket \in Tracked
  BY DEF IInv, Locals, Tracked
<1> QED BY <1>1, TrackedOpen

\* What is left of the message goes onto the connection as parts.
LEMMA SendTyped ==
    ASSUME IInv, NEW n \in Nat, sent + n <= Parts(msg), SendAccepts(n)
    PROVE  wire' \in [Client -> Seq(Part)]
<1> DEFINE parts == [i \in 1 .. n |-> [of |-> msg, part |-> sent + i]]
<1>1. parts \in Seq(Part)
  <2>1. sent \in Nat /\ sent + n <= MsgParts
    BY PartsBound, SizesAssumption DEF IInv, TypeOK
  <2> QED BY <2>1, PartsTyped DEF IInv, TypeOK
<1>2. wire \in [Client -> Seq(Part)]
  BY DEF IInv, TypeOK
<1>3. wire' = [wire EXCEPT ![fdTable[socket]] = @ \o parts]
  BY DEF SendAccepts
<1> HIDE DEF parts
<1>4. \A w \in Seq(Part) : w \o parts \in Seq(Part)
  BY <1>1
<1> QED BY <1>2, <1>3, <1>4

\* close() leaves the tables well formed.
LEMMA CloseTyped ==
    ASSUME IInv, NEW s \in Fds, Close(s)
    PROVE  /\ fdTable' \in [Fds -> Client \cup {NoClient}]
           /\ conn' \in [Client -> ConnState]
BY DEF IInv, TypeOK, Close, ConnState

\* The head and the rest of the backlog.
LEMMA BacklogTyped ==
    ASSUME IInv, backlog # <<>>
    PROVE  Head(backlog) \in Client /\ Tail(backlog) \in Seq(Client)
BY DEF IInv, TypeOK

-----------------------------------------------------------------------------
(* Type correctness *)

\* The types survive every step.
LEMMA TypeStep == IInv /\ [Next]_vars => TypeOK'
<1> SUFFICES ASSUME IInv, [Next]_vars
             PROVE  TypeOK'
  OBVIOUS
<1> USE FdsAssumption, SizesAssumption, ClientAssumption
    DEF IInv, TypeOK, members, visit,
        call, table, peers, gameVars, PC, ConnState
<1>1. CASE EventLoop
  BY <1>1 DEF EventLoop, LeaveLoop, FdReset
<1>2. CASE Select
  BY <1>2 DEF Select, CheckDead
<1>3. ASSUME Accepted, msg' \in {Empty, m_lastSentFrame}, pc' \in {"refuse", "snapshot"}
      PROVE  TypeOK'
  <2>1. Head(backlog) \in Client /\ Tail(backlog) \in Seq(Client)
    BY <1>3, BacklogTyped DEF Accepted
  <2>2. /\ socket' \in Fds /\ backlog' \in Seq(Client)
        /\ fdTable' \in [Fds -> Client \cup {NoClient}]
    BY <1>3, <2>1 DEF Accepted, FreeFds
  <2>3. /\ sent' = 0
        /\ UNCHANGED <<members, visit, conn, unread, stalled, wire, gameVars>>
    BY <1>3 DEF Accepted
  <2>4. msg' \in Event \cup {Empty} /\ sent' \in 0 .. MsgParts - 1 /\ pc' \in PC
    BY <1>3, <2>3
  <2> QED BY <2>2, <2>3, <2>4
<1>4. CASE AcceptRefused \/ Accept
  BY <1>3, <1>4 DEF AcceptRefused, Accept
<1>5. CASE AcceptFails
  BY <1>5 DEF AcceptFails, CheckDead
<1>6. CASE SendPart
  <2> PICK n \in 1 .. Parts(msg) - sent - 1 : SendAccepts(n) /\ sent' = sent + n
    BY <1>6 DEF SendPart
  <2>1. n \in Nat /\ sent + n < Parts(msg) /\ Parts(msg) \in 1 .. MsgParts
    BY PartsBound
  <2>2. wire' \in [Client -> Seq(Part)]
    <3>1. sent + n <= Parts(msg)
      BY <2>1
    <3> HIDE DEF IInv, TypeOK
    <3> QED BY <2>1, <3>1, SendTyped
  <2>3. sent' \in 0 .. MsgParts - 1
    BY <2>1
  <2> QED BY <1>6, <2>2, <2>3 DEF SendPart
<1>7. CASE SnapshotSent
  <2>1. Parts(msg) - sent \in Nat /\ sent + (Parts(msg) - sent) <= Parts(msg)
    BY PartsBound DEF Locals
  <2>2. wire' \in [Client -> Seq(Part)]
    BY <1>7, <2>1, SendTyped DEF SnapshotSent
  <2>3. socket \in Fds
    BY <1>7, SocketOpen DEF SnapshotSent
  <2> QED BY <1>7, <2>2, <2>3 DEF SnapshotSent, CheckDead, EndSend
<1>8. CASE CloseRefused \/ SnapshotFails
  <2>0. pc \in {"refuse", "snapshot"} /\ CloseNewSocket
    BY <1>8 DEF CloseRefused, SnapshotFails
  <2>1. socket \in Fds
    BY <2>0, SocketOpen
  <2>2. /\ fdTable' \in [Fds -> Client \cup {NoClient}]
        /\ conn' \in [Client -> ConnState]
    BY <2>0, <2>1, CloseTyped DEF CloseNewSocket
  <2> QED BY <2>0, <2>1, <2>2 DEF CloseNewSocket, CheckDead, EndSend
<1>9. CASE CheckDeadConnection
  <2> PICK s \in todo : /\ IsOpen(s)
                        /\ RecvData(s) \/ RecvError(s) \/ RecvClosed(s)
    BY <1>9 DEF CheckDeadConnection
  <2>1. s \in Fds /\ fdTable[s] \in Client
    BY DEF IsOpen
  <2>2. /\ fdTable' \in [Fds -> Client \cup {NoClient}]
        /\ conn' \in [Client -> ConnState]
        /\ unread' \in [Client -> 0 .. MaxUnread]
        /\ deadSockets' \subseteq Fds
    <3>1. CASE RecvData(s)   BY <2>1, <3>1 DEF RecvData
    <3>2. CASE RecvError(s)  BY <2>1, <3>2 DEF RecvError
    <3>3. CASE RecvClosed(s) BY <2>1, <3>3, CloseTyped DEF RecvClosed, Drop
    <3> QED BY <3>1, <3>2, <3>3
  <2> QED BY <1>9, <2>2 DEF CheckDeadConnection
<1>10. CASE RemoveDead
  BY <1>10 DEF RemoveDead, Survivors
<1>11. CASE QueueEmpty
  BY <1>11 DEF QueueEmpty
<1>12. CASE PopEvent
  BY <1>12 DEF PopEvent, Queue!Pop
<1>13. CASE NextSubscriber
  BY <1>13 DEF NextSubscriber
<1>14. CASE EventSent
  <2>1. Parts(msg) - sent \in Nat /\ sent + (Parts(msg) - sent) <= Parts(msg)
    BY PartsBound DEF Locals
  <2>2. wire' \in [Client -> Seq(Part)]
    BY <1>14, <2>1, SendTyped DEF EventSent
  <2>3. socket \in Fds
    BY <1>14, SocketOpen DEF EventSent
  <2> QED BY <1>14, <2>2, <2>3 DEF EventSent, EndSend
<1>15. CASE EventFails
  <2>1. socket \in Fds
    BY <1>15, SocketOpen DEF EventFails
  <2>2. /\ fdTable' \in [Fds -> Client \cup {NoClient}]
        /\ conn' \in [Client -> ConnState]
    BY <1>15, <2>1, CloseTyped DEF EventFails, Drop
  <2> QED BY <1>15, <2>1, <2>2 DEF EventFails, Drop, EndSend
<1>16. CASE EventBroadcast
  BY <1>16 DEF EventBroadcast, Survivors, NextSnapshot
<1>17. CASE RequestStop
  BY <1>17 DEF RequestStop
<1>18. CASE Cleanup
  BY <1>18 DEF Cleanup
<1>19. ASSUME NEW type \in Type, PushEvent(type) PROVE TypeOK'
  <2> DEFINE id == Len(m_serializedEvents) + Len(log) + 1
  <2>2. [id |-> id, type |-> type] \in Event
    BY <1>19 DEF PushEvent
  <2>3. m_serializedEvents' \in Seq(Event)
    BY <1>19, <2>2 DEF PushEvent, Queue!Push
  <2> QED BY <1>19, <2>3 DEF PushEvent, Queue!Push
<1>20. ASSUME NEW c \in Client, Connect(c) PROVE TypeOK'
  BY <1>20 DEF Connect, ServerIdle
<1>21. ASSUME NEW c \in Client, Request(c) PROVE TypeOK'
  <2>1. unread[c] + 1 \in 0 .. MaxUnread
    BY <1>21 DEF Request
  <2>2. unread' \in [Client -> 0 .. MaxUnread]
    BY <1>21, <2>1 DEF Request
  <2> QED BY <1>21, <2>2 DEF Request, ServerIdle
<1>22. ASSUME NEW c \in Client, HangUp(c) PROVE TypeOK'
  BY <1>22 DEF HangUp, ServerIdle
<1>23. ASSUME NEW c \in Client, Stall(c) PROVE TypeOK'
  BY <1>23 DEF Stall, ServerIdle
<1>24. CASE UNCHANGED vars
  BY <1>24 DEF vars
<1> QED
  BY <1>1, <1>2, <1>3, <1>4, <1>5, <1>6, <1>7, <1>8, <1>9, <1>10, <1>11, 
     <1>12, <1>13, <1>14, <1>15, <1>16, <1>17, <1>18, <1>19, <1>20, <1>21, 
     <1>22, <1>23, <1>24
     DEF Next, NetStep, GameStep, ClientMove, Finished

-----------------------------------------------------------------------------
(* The locals of the network thread *)

\* A send in progress has parts left, and the loops only visit subscribers that
\* they have not closed.
LEMMA LocalsStep == IInv /\ [Next]_vars => Locals'
<1> SUFFICES ASSUME IInv, [Next]_vars
             PROVE  Locals'
  OBVIOUS
<1> USE SizesAssumption
    DEF IInv, TypeOK, Locals, AtLimit, members, visit,
        call, table, peers, gameVars
<1>1. CASE EventLoop
  BY <1>1 DEF EventLoop, LeaveLoop, FdReset
<1>2. CASE Select
  <2>1. \A s \in m_subscriberSet \ {m_topSocket} : IsOpen(s)
    <3>1. m_subscriberSet \ {m_topSocket} \subseteq Tracked
      BY <1>2 DEF Select, Ready, Tracked
    <3> QED BY <3>1, TrackedOpen
  <2> QED BY <1>2, <2>1 DEF Select, CheckDead
<1>3. CASE AcceptRefused
  <2>1. sent' < Parts(msg)'
    BY <1>3, PartsBound DEF AcceptRefused, Accepted
  <2> QED BY <1>3, <2>1 DEF AcceptRefused, Accepted
<1>4. CASE Accept
  <2>1. sent' < Parts(msg)'
    BY <1>4, PartsBound DEF Accept, Accepted
  <2> QED BY <1>4, <2>1 DEF Accept, Accepted
<1>5. CASE AcceptFails
  BY <1>5 DEF AcceptFails, CheckDead
<1>6. CASE SendPart
  <2> PICK n \in 1 .. Parts(msg) - sent - 1 : sent' = sent + n
    BY <1>6 DEF SendPart
  <2>1. sent' < Parts(msg)
    BY PartsBound
  <2> QED BY <1>6, <2>1 DEF SendPart, Parts
<1>7. CASE SnapshotSent
  <2>1. sent' < Parts(msg)'
    BY <1>7, PartsBound DEF SnapshotSent, SendAccepts, CheckDead, EndSend
  <2> QED BY <1>7, <2>1 DEF SnapshotSent, SendAccepts, CheckDead, EndSend
<1>8. CASE CloseRefused \/ SnapshotFails
  <2>1. sent' < Parts(msg)'
    BY <1>8, PartsBound DEF CloseRefused, SnapshotFails, CloseNewSocket, CheckDead, EndSend
  <2> QED BY <1>8, <2>1 DEF CloseRefused, SnapshotFails, CloseNewSocket, CheckDead, EndSend
<1>9. CASE CheckDeadConnection
  BY <1>9 DEF CheckDeadConnection, IsOpen, RecvData, RecvError, RecvClosed, Drop, Close
<1>10. CASE RemoveDead
  BY <1>10 DEF RemoveDead, Survivors
<1>11. CASE QueueEmpty
  BY <1>11 DEF QueueEmpty
<1>12. CASE PopEvent
  <2>1. sent' < Parts(msg)'
    BY <1>12, PartsBound DEF PopEvent, Queue!Pop
  <2> QED BY <1>12, <2>1 DEF PopEvent, Queue!Pop
<1>13. CASE NextSubscriber
  BY <1>13 DEF NextSubscriber
<1>14. CASE EventSent
  <2>1. sent' < Parts(msg)'
    BY <1>14, PartsBound DEF EventSent, SendAccepts, EndSend
  <2> QED BY <1>14, <2>1 DEF EventSent, SendAccepts, EndSend
<1>15. CASE EventFails
  <2>1. sent' < Parts(msg)'
    BY <1>15, PartsBound DEF EventFails, SendFails, Drop, Close, EndSend
  <2> QED BY <1>15, <2>1 DEF EventFails, SendFails, Drop, Close, EndSend
<1>16. CASE EventBroadcast
  <2>1. sent' < Parts(msg)'
    BY <1>16, PartsBound DEF EventBroadcast, Survivors, NextSnapshot
  <2> QED BY <1>16, <2>1 DEF EventBroadcast, Survivors, NextSnapshot
<1>17. CASE RequestStop
  BY <1>17 DEF RequestStop
<1>18. CASE Cleanup
  BY <1>18 DEF Cleanup
<1>19. ASSUME NEW type \in Type, PushEvent(type) PROVE Locals'
  BY <1>19 DEF PushEvent, Queue!Push
<1>20. ASSUME NEW c \in Client, Connect(c) PROVE Locals'
  BY <1>20 DEF Connect, ServerIdle
<1>21. ASSUME NEW c \in Client, Request(c) PROVE Locals'
  BY <1>21 DEF Request, ServerIdle
<1>22. ASSUME NEW c \in Client, HangUp(c) PROVE Locals'
  BY <1>22 DEF HangUp, ServerIdle
<1>23. ASSUME NEW c \in Client, Stall(c) PROVE Locals'
  BY <1>23 DEF Stall, ServerIdle
<1>24. CASE UNCHANGED vars
  BY <1>24 DEF vars
<1> QED
  BY <1>1, <1>2, <1>3, <1>4, <1>5, <1>6, <1>7, <1>8, <1>9, <1>10, <1>11, 
     <1>12, <1>13, <1>14, <1>15, <1>16, <1>17, <1>18, <1>19, <1>20, <1>21, 
     <1>22, <1>23, <1>24
     DEF Next, NetStep, GameStep, ClientMove, Finished

-----------------------------------------------------------------------------
(* The descriptors *)

\* The connections that wait are those that waited, less the first.
LEMMA BacklogTail ==
    ASSUME NEW S, NEW b \in Seq(S), b # <<>>
    PROVE  /\ 1 \in DOMAIN b /\ Head(b) = b[1] /\ DOMAIN Tail(b) \subseteq Nat \ {0}
           /\ \A i \in DOMAIN Tail(b) : i + 1 \in DOMAIN b /\ Tail(b)[i] = b[i + 1]
OBVIOUS

\* A client is at one place at a time, and what happens to its connection while
\* it is at none does not matter.
LEMMA PlacedStep == IInv /\ [Next]_vars => Placed'
<1> SUFFICES ASSUME IInv, [Next]_vars
             PROVE  Placed'
  OBVIOUS
<1> USE ClientAssumption
    DEF IInv, TypeOK, Placed, OpenFds, FreeFds, Live, members, visit,
        call, table, peers, gameVars
<1>1. CASE EventLoop
  BY <1>1 DEF EventLoop, LeaveLoop, FdReset
<1>2. CASE Select
  BY <1>2 DEF Select, CheckDead
<1>3. CASE Accepted
  <2>1. /\ 1 \in DOMAIN backlog /\ Head(backlog) = backlog[1]
        /\ DOMAIN Tail(backlog) \subseteq Nat \ {0}
        /\ \A i \in DOMAIN Tail(backlog) :
              i + 1 \in DOMAIN backlog /\ Tail(backlog)[i] = backlog[i + 1]
    BY <1>3, BacklogTail DEF Accepted
  <2>2. /\ \A i \in DOMAIN Tail(backlog) : Tail(backlog)[i] # Head(backlog)
        /\ \A i, j \in DOMAIN Tail(backlog) : Tail(backlog)[i] = Tail(backlog)[j] => i = j
    <3>1. ASSUME NEW i \in DOMAIN Tail(backlog) PROVE Tail(backlog)[i] # Head(backlog)
      <4>1. i + 1 # 1 /\ i + 1 \in DOMAIN backlog
        BY <2>1
      <4>2. backlog[i + 1] # backlog[1]
        BY <2>1, <4>1
      <4> QED BY <2>1, <4>2
    <3>2. ASSUME NEW i \in DOMAIN Tail(backlog), NEW j \in DOMAIN Tail(backlog),
                 Tail(backlog)[i] = Tail(backlog)[j]
          PROVE  i = j
      <4>1. backlog[i + 1] = backlog[j + 1]
        BY <2>1, <3>2
      <4>2. i + 1 = j + 1
        BY <2>1, <4>1
      <4> QED BY <2>1, <4>2
    <3> QED BY <3>1, <3>2
  <2>3. Head(backlog) \in Client
    BY <1>3, BacklogTyped DEF Accepted
  <2> QED BY <1>3, <2>1, <2>2, <2>3 DEF Accepted
<1>4. CASE AcceptRefused \/ Accept
  BY <1>3, <1>4 DEF AcceptRefused, Accept
<1>5. CASE AcceptFails
  BY <1>5 DEF AcceptFails, CheckDead
<1>6. CASE SendPart
  BY <1>6 DEF SendPart, SendAccepts
<1>7. CASE SnapshotSent
  BY <1>7 DEF SnapshotSent, SendAccepts, CheckDead, EndSend
<1>8. CASE CloseRefused \/ SnapshotFails
  <2>0. pc \in {"refuse", "snapshot"} /\ CloseNewSocket
    BY <1>8 DEF CloseRefused, SnapshotFails
  <2>1. socket \in OpenFds /\ fdTable[socket] \in Client
    BY <2>0, SocketOpen DEF IsOpen
  <2>2. \A s \in OpenFds : fdTable[s] = fdTable[socket] => s = socket
    BY <2>1 DEF DescriptorsTracked
  <2> QED BY <2>0, <2>1, <2>2 DEF CloseNewSocket, Close
<1>9. CASE CheckDeadConnection
  <2> PICK s \in todo : /\ IsOpen(s)
                        /\ RecvData(s) \/ RecvError(s) \/ RecvClosed(s)
    BY <1>9 DEF CheckDeadConnection
  <2>1. s \in Fds /\ fdTable[s] \in Client
    BY DEF IsOpen
  <2>2. \A t \in OpenFds : fdTable[t] = fdTable[s] => t = s
    BY DEF DescriptorsTracked, IsOpen
  <2>3. backlog' = backlog
    BY <1>9 DEF CheckDeadConnection
  <2>4. CASE RecvData(s)   BY <2>1, <2>3, <2>4 DEF RecvData
  <2>5. CASE RecvError(s)  BY <2>1, <2>3, <2>5 DEF RecvError
  <2>6. CASE RecvClosed(s) BY <2>1, <2>2, <2>3, <2>6 DEF RecvClosed, Drop, Close
  <2> QED BY <2>4, <2>5, <2>6
<1>10. CASE RemoveDead
  BY <1>10 DEF RemoveDead, Survivors
<1>11. CASE QueueEmpty
  BY <1>11 DEF QueueEmpty
<1>12. CASE PopEvent
  BY <1>12 DEF PopEvent, Queue!Pop
<1>13. CASE NextSubscriber
  BY <1>13 DEF NextSubscriber
<1>14. CASE EventSent
  BY <1>14 DEF EventSent, SendAccepts, EndSend
<1>15. CASE EventFails
  <2>1. socket \in OpenFds /\ fdTable[socket] \in Client
    BY <1>15, SocketOpen DEF EventFails, IsOpen
  <2>2. \A s \in OpenFds : fdTable[s] = fdTable[socket] => s = socket
    BY <2>1 DEF DescriptorsTracked
  <2> QED BY <1>15, <2>1, <2>2 DEF EventFails, Drop, Close
<1>16. CASE EventBroadcast
  BY <1>16 DEF EventBroadcast, Survivors, NextSnapshot
<1>17. CASE RequestStop
  BY <1>17 DEF RequestStop
<1>18. CASE Cleanup
  <2>1. OpenFds = m_subscribers
    BY <1>18 DEF Cleanup, DescriptorsTracked, Tracked, Locals
  <2> QED BY <1>18, <2>1 DEF Cleanup
<1>19. ASSUME NEW type \in Type, PushEvent(type) PROVE Placed'
  BY <1>19 DEF PushEvent, Queue!Push
<1>20. ASSUME NEW c \in Client, Connect(c) PROVE Placed'
  <2>1. \A i \in DOMAIN backlog : backlog[i] # c
    BY <1>20 DEF Connect
  <2>2. \A s \in Fds : fdTable[s] # c
    BY <1>20 DEF Connect
  <2>3. /\ DOMAIN backlog' = DOMAIN backlog \cup {Len(backlog) + 1}
        /\ \A i \in DOMAIN backlog : backlog'[i] = backlog[i]
        /\ backlog'[Len(backlog) + 1] = c
    BY <1>20 DEF Connect
  <2>4. /\ conn'[c] = "up" /\ \A d \in Client \ {c} : conn'[d] = conn[d]
        /\ fdTable' = fdTable
    BY <1>20 DEF Connect, ServerIdle
  <2>5. \A i \in DOMAIN backlog : backlog[i] \in Client
    OBVIOUS
  <2>6. \A s \in OpenFds' : conn'[fdTable'[s]] \in Live
    BY <2>2, <2>4
  <2>7. \A i \in DOMAIN backlog' : /\ conn'[backlog'[i]] \in Live
                                   /\ \A s \in Fds : fdTable'[s] # backlog'[i]
    BY <2>1, <2>2, <2>3, <2>4, <2>5
  <2>8. \A i, j \in DOMAIN backlog' : backlog'[i] = backlog'[j] => i = j
    BY <2>1, <2>3
  <2> QED BY <2>6, <2>7, <2>8
<1>21. ASSUME NEW c \in Client, Request(c) PROVE Placed'
  BY <1>21 DEF Request, ServerIdle
<1>22. ASSUME NEW c \in Client, HangUp(c) PROVE Placed'
  <2>1. /\ fdTable' = fdTable /\ backlog' = backlog
        /\ \A d \in Client : conn[d] \in Live => conn'[d] \in Live
    BY <1>22 DEF HangUp, ServerIdle
  <2>2. \A i \in DOMAIN backlog : backlog[i] \in Client
    OBVIOUS
  <2>3. \A s \in OpenFds : fdTable[s] \in Client
    OBVIOUS
  <2> HIDE DEF Live
  <2> QED BY <2>1, <2>2, <2>3
<1>23. ASSUME NEW c \in Client, Stall(c) PROVE Placed'
  BY <1>23 DEF Stall, ServerIdle
<1>24. CASE UNCHANGED vars
  BY <1>24 DEF vars
<1> QED
  BY <1>1, <1>2, <1>3, <1>4, <1>5, <1>6, <1>7, <1>8, <1>9, <1>10, <1>11, 
     <1>12, <1>13, <1>14, <1>15, <1>16, <1>17, <1>18, <1>19, <1>20, <1>21, 
     <1>22, <1>23, <1>24
     DEF Next, NetStep, GameStep, ClientMove, Finished

\* Every open is entered in the thread's books and every close struck out.
LEMMA TrackedStep == IInv /\ [Next]_vars => DescriptorsTracked'
<1> SUFFICES ASSUME IInv, [Next]_vars
             PROVE  DescriptorsTracked'
  OBVIOUS
<1> USE ClientAssumption
    DEF IInv, TypeOK, Locals, DescriptorsTracked, Tracked, OpenFds, FreeFds, members, visit,
        call, table, peers, gameVars
<1>1. CASE EventLoop
  BY <1>1 DEF EventLoop, LeaveLoop, FdReset
<1>2. CASE Select
  BY <1>2 DEF Select, CheckDead
<1>3. ASSUME Accepted, pc' \in {"refuse", "snapshot"} PROVE DescriptorsTracked'
  <2>1. Head(backlog) \in Client /\ \A s \in Fds : fdTable[s] # Head(backlog)
    BY <1>3, BacklogTyped, BacklogTail DEF Accepted, Placed
  <2> QED BY <1>3, <2>1 DEF Accepted
<1>4. CASE AcceptRefused \/ Accept
  BY <1>3, <1>4 DEF AcceptRefused, Accept
<1>5. CASE AcceptFails
  BY <1>5 DEF AcceptFails, CheckDead
<1>6. CASE SendPart
  BY <1>6 DEF SendPart, SendAccepts
<1>7. CASE SnapshotSent
  BY <1>7 DEF SnapshotSent, SendAccepts, CheckDead, EndSend
<1>8. CASE CloseRefused \/ SnapshotFails
  <2>0. pc \in {"refuse", "snapshot"} /\ CloseNewSocket
    BY <1>8 DEF CloseRefused, SnapshotFails
  <2> QED BY <2>0 DEF CloseNewSocket, Close, CheckDead, EndSend
<1>9. CASE CheckDeadConnection
  <2> PICK s \in todo : /\ IsOpen(s)
                        /\ RecvData(s) \/ RecvError(s) \/ RecvClosed(s)
                        /\ todo' = todo \ {s}
    BY <1>9 DEF CheckDeadConnection
  <2>1. s \in m_subscribers \ deadSockets
    BY <1>9 DEF CheckDeadConnection
  <2>2. CASE RecvData(s)   BY <1>9, <2>2 DEF CheckDeadConnection, RecvData
  <2>3. CASE RecvError(s)  BY <1>9, <2>3 DEF CheckDeadConnection, RecvError
  <2>4. CASE RecvClosed(s) BY <1>9, <2>1, <2>4 DEF CheckDeadConnection, RecvClosed, Drop, Close
  <2> QED BY <2>2, <2>3, <2>4
<1>10. CASE RemoveDead
  BY <1>10 DEF RemoveDead, Survivors
<1>11. CASE QueueEmpty
  BY <1>11 DEF QueueEmpty
<1>12. CASE PopEvent
  BY <1>12 DEF PopEvent, Queue!Pop
<1>13. CASE NextSubscriber
  BY <1>13 DEF NextSubscriber
<1>14. CASE EventSent
  BY <1>14 DEF EventSent, SendAccepts, EndSend
<1>15. CASE EventFails
  BY <1>15 DEF EventFails, SendFails, Drop, Close, EndSend
<1>16. CASE EventBroadcast
  BY <1>16 DEF EventBroadcast, Survivors, NextSnapshot
<1>17. CASE RequestStop
  BY <1>17 DEF RequestStop
<1>18. CASE Cleanup
  BY <1>18 DEF Cleanup
<1>19. ASSUME NEW type \in Type, PushEvent(type) PROVE DescriptorsTracked'
  BY <1>19 DEF PushEvent, Queue!Push
<1>20. ASSUME NEW c \in Client, Connect(c) PROVE DescriptorsTracked'
  BY <1>20 DEF Connect, ServerIdle
<1>21. ASSUME NEW c \in Client, Request(c) PROVE DescriptorsTracked'
  BY <1>21 DEF Request, ServerIdle
<1>22. ASSUME NEW c \in Client, HangUp(c) PROVE DescriptorsTracked'
  BY <1>22 DEF HangUp, ServerIdle
<1>23. ASSUME NEW c \in Client, Stall(c) PROVE DescriptorsTracked'
  BY <1>23 DEF Stall, ServerIdle
<1>24. CASE UNCHANGED vars
  BY <1>24 DEF vars
<1> QED
  BY <1>1, <1>2, <1>3, <1>4, <1>5, <1>6, <1>7, <1>8, <1>9, <1>10, <1>11, 
     <1>12, <1>13, <1>14, <1>15, <1>16, <1>17, <1>18, <1>19, <1>20, <1>21, 
     <1>22, <1>23, <1>24
     DEF Next, NetStep, GameStep, ClientMove, Finished

-----------------------------------------------------------------------------
(* Readiness *)

\* Nothing but the network thread's own recv and close takes readiness away.
LEMMA ReadyStep == IInv /\ [Next]_vars => Ready'
<1> SUFFICES ASSUME IInv, [Next]_vars
             PROVE  Ready'
  OBVIOUS
<1> USE FdsAssumption
    DEF IInv, TypeOK, Ready, NeverBlocks, Readable, IsOpen, members, visit,
        call, table, peers, gameVars
<1>1. CASE EventLoop
  BY <1>1 DEF EventLoop, LeaveLoop, FdReset
<1>2. CASE Select
  <2>1. \A s \in m_subscriberSet \ {m_topSocket} : IsOpen(s)
    <3>1. m_subscriberSet \ {m_topSocket} \subseteq Tracked
      BY <1>2 DEF Select, Tracked, Locals
    <3> QED BY <3>1, TrackedOpen
  <2>2. \A s \in m_subscriberSet : s <= m_maxSocket
    BY <1>2 DEF Select
  <2>3. /\ m_subscriberSet' = {s \in m_subscriberSet : Readable(s)}
        /\ m_topSocket \in m_subscriberSet' => pc' = "accept"
        /\ m_topSocket \notin m_subscriberSet' =>
              pc' = "recv" /\ todo' = m_subscribers \cap m_subscriberSet'
    <3> HIDE DEF Readable, IsOpen
    <3>1. {s \in m_subscriberSet : s <= m_maxSocket} = m_subscriberSet
      BY <2>2
    <3> QED BY <1>2, <2>1, <3>1 DEF Select, CheckDead
  <2>4. m_subscribers' = m_subscribers /\ UNCHANGED <<table, peers>>
    BY <1>2 DEF Select
  <2>5. m_topSocket \notin m_subscribers /\ m_subscriberSet = m_subscribers \cup {m_topSocket}
    BY <1>2 DEF Select
  <2>6. pc' \in {"accept", "recv"}
    BY <2>3
  <2>7. pc' = "accept" => backlog' # <<>>
    BY <2>3, <2>4, <2>5
  <2> QED BY <2>3, <2>4, <2>5, <2>6, <2>7
<1>3. ASSUME Accepted, pc' \in {"refuse", "snapshot"} PROVE Ready'
  BY <1>3 DEF Accepted, FreeFds
<1>4. CASE AcceptRefused \/ Accept
  BY <1>3, <1>4 DEF AcceptRefused, Accept
<1>5. CASE AcceptFails
  BY <1>5 DEF AcceptFails, CheckDead
<1>6. CASE SendPart
  BY <1>6 DEF SendPart, SendAccepts
<1>7. CASE SnapshotSent
  <2>1. socket \in Fds /\ socket \notin m_subscribers
    BY <1>7, SocketOpen DEF SnapshotSent, DescriptorsTracked
  <2>2. \A s \in todo' : s \in Fds /\ Readable(s)
    BY <1>7, <2>1 DEF SnapshotSent, CheckDead
  <2> QED BY <1>7, <2>2 DEF SnapshotSent, SendAccepts, CheckDead
<1>8. CASE CloseRefused \/ SnapshotFails
  <2>0. pc \in {"refuse", "snapshot"} /\ CloseNewSocket
    BY <1>8 DEF CloseRefused, SnapshotFails
  <2>1. /\ socket \in OpenFds /\ socket \in Fds /\ fdTable[socket] \in Client
        /\ socket \notin m_subscribers
    BY <2>0, SocketOpen DEF DescriptorsTracked, OpenFds, FreeFds
  <2>2. \A s \in todo' : s \in Fds /\ s # socket /\ Readable(s)
    BY <2>0, <2>1 DEF CloseNewSocket, CheckDead
  <2>3. \A s \in todo' : fdTable[s] # fdTable[socket]
    BY <2>1, <2>2 DEF DescriptorsTracked, OpenFds, FreeFds
  <2>4. \A s \in todo' : /\ fdTable'[s] = fdTable[s]
                        /\ conn'[fdTable[s]] = conn[fdTable[s]]
                        /\ unread' = unread
    BY <2>0, <2>1, <2>2, <2>3 DEF CloseNewSocket, Close
  <2> QED BY <2>0, <2>2, <2>4 DEF CloseNewSocket, CheckDead
<1>9. CASE CheckDeadConnection
  <2> PICK s \in todo : /\ IsOpen(s)
                        /\ RecvData(s) \/ RecvError(s) \/ RecvClosed(s)
                        /\ todo' = todo \ {s}
    BY <1>9 DEF CheckDeadConnection
  <2>1. /\ todo \subseteq m_subscribers \ deadSockets
        /\ \A t \in todo : t \in Fds /\ Readable(t)
        /\ pc' = "recv"
    BY <1>9 DEF CheckDeadConnection, Locals
  <2>2. \A t \in todo' : t \in Fds /\ t # s /\ fdTable[t] # NoClient
    BY <2>1
  <2>3. \A t \in todo' : fdTable[t] # fdTable[s]
    BY <2>2 DEF DescriptorsTracked, OpenFds, FreeFds
  <2>4. \A t \in todo' : /\ fdTable'[t] = fdTable[t]
                        /\ conn'[fdTable[t]] = conn[fdTable[t]]
                        /\ unread'[fdTable[t]] = unread[fdTable[t]]
    <3>1. CASE RecvData(s)   BY <2>2, <2>3, <3>1 DEF RecvData
    <3>2. CASE RecvError(s)  BY <2>2, <2>3, <3>2 DEF RecvError
    <3>3. CASE RecvClosed(s) BY <2>2, <2>3, <3>3 DEF RecvClosed, Drop, Close
    <3> QED BY <3>1, <3>2, <3>3
  <2>5. \A t \in todo' : Readable(t)'
    <3>1. backlog' = backlog /\ todo' \subseteq todo
      BY <1>9, <2>2 DEF CheckDeadConnection
    <3>2. ASSUME NEW t \in todo' PROVE Readable(t)'
      <4>1. Readable(t)
        BY <2>1, <3>1
      <4> QED BY <2>2, <2>4, <3>1, <4>1
    <3> QED BY <3>2
  <2> QED BY <2>1, <2>5
<1>10. CASE RemoveDead
  BY <1>10 DEF RemoveDead, Survivors
<1>11. CASE QueueEmpty
  BY <1>11 DEF QueueEmpty
<1>12. CASE PopEvent
  BY <1>12 DEF PopEvent, Queue!Pop
<1>13. CASE NextSubscriber
  BY <1>13 DEF NextSubscriber
<1>14. CASE EventSent
  BY <1>14 DEF EventSent, SendAccepts, EndSend
<1>15. CASE EventFails
  BY <1>15 DEF EventFails, SendFails, Drop, Close, EndSend
<1>16. CASE EventBroadcast
  BY <1>16 DEF EventBroadcast, Survivors, NextSnapshot
<1>17. CASE RequestStop
  BY <1>17 DEF RequestStop
<1>18. CASE Cleanup
  BY <1>18 DEF Cleanup
<1>19. ASSUME NEW type \in Type, PushEvent(type) PROVE Ready'
  BY <1>19 DEF PushEvent, Queue!Push
<1>20. ASSUME NEW c \in Client, Connect(c) PROVE Ready'
  <2>1. \A s \in Fds : IsOpen(s) => fdTable[s] # c
    BY <1>20 DEF Connect, Placed, Live, OpenFds, FreeFds
  <2>2. \A s \in Fds : IsOpen(s) => conn'[fdTable[s]] = conn[fdTable[s]]
    BY <1>20, <2>1 DEF Connect
  <2>3. backlog' # <<>>
    BY <1>20 DEF Connect
  <2>4. \A s \in Fds : Readable(s) => Readable(s)'
    BY <1>20, <2>2 DEF Connect, ServerIdle
  <2> QED BY <1>20, <2>3, <2>4 DEF Connect, ServerIdle
<1>21. ASSUME NEW c \in Client, Request(c) PROVE Ready'
  BY <1>21 DEF Request, ServerIdle
<1>22. ASSUME NEW c \in Client, HangUp(c) PROVE Ready'
  BY <1>22 DEF HangUp, ServerIdle
<1>23. ASSUME NEW c \in Client, Stall(c) PROVE Ready'
  BY <1>23 DEF Stall, ServerIdle
<1>24. CASE UNCHANGED vars
  BY <1>24 DEF vars
<1> QED
  BY <1>1, <1>2, <1>3, <1>4, <1>5, <1>6, <1>7, <1>8, <1>9, <1>10, <1>11, 
     <1>12, <1>13, <1>14, <1>15, <1>16, <1>17, <1>18, <1>19, <1>20, <1>21, 
     <1>22, <1>23, <1>24
     DEF Next, NetStep, GameStep, ClientMove, Finished

-----------------------------------------------------------------------------
(* The theorems *)

\* The invariant holds when the instance has just been constructed.
LEMMA InitIInv == Init => IInv
<1> SUFFICES ASSUME Init PROVE IInv
  OBVIOUS
<1> USE FdsAssumption, SizesAssumption, ClientAssumption DEF Init
<1>1. TypeOK
  <2>1. /\ m_serializedEvents \in Seq(Event) /\ log \in Seq(Event) /\ backlog \in Seq(Client)
        /\ wire \in [Client -> Seq(Part)]
    OBVIOUS
  <2>2. /\ fdTable \in [Fds -> Client \cup {NoClient}] /\ conn \in [Client -> ConnState]
        /\ unread \in [Client -> 0 .. MaxUnread]
    BY DEF ConnState
  <2>3. 0 \in 0 .. MsgParts - 1
    OBVIOUS
  <2>4. pc \in PC /\ stop_requested \in BOOLEAN
    BY DEF PC
  <2> QED BY <2>1, <2>2, <2>3, <2>4 DEF TypeOK
<1>2. OpenFds = {} /\ Tracked = {}
  BY DEF OpenFds, FreeFds, Tracked
<1>3. Placed
  BY <1>2 DEF Placed
<1>4. DescriptorsTracked
  BY <1>2 DEF DescriptorsTracked
<1>5. Locals
  BY PartsBound DEF Locals
<1>6. Ready
  BY DEF Ready, NeverBlocks
<1> QED BY <1>1, <1>3, <1>4, <1>5, <1>6 DEF IInv

\* The inductive invariant holds throughout.
THEOREM Invariance == Spec => []IInv
<1>1. IInv /\ [Next]_vars => IInv'
  BY TypeStep, PlacedStep, TrackedStep, LocalsStep, ReadyStep DEF IInv
<1> QED BY InitIInv, <1>1, PTL DEF Spec

\* Type correctness of NetworkHandler.
THEOREM TypeCorrect == Spec => []TypeOK
<1>1. IInv => TypeOK  BY DEF IInv
<1> QED BY Invariance, <1>1, PTL

\* No descriptor leaks, none is closed twice or used after its close.
THEOREM DescriptorSafety == Spec => []DescriptorsTracked
<1>1. IInv => DescriptorsTracked  BY DEF IInv
<1> QED BY Invariance, <1>1, PTL

\* The exception of EventLoop is never thrown.
THEOREM LoopSurvives == Spec => []SelectNeverFails
<1>1. IInv => SelectNeverFails  BY DEF IInv, Locals, SelectNeverFails
<1> QED BY Invariance, <1>1, PTL

\* accept and recv are only called when they return at once.
THEOREM NonBlocking == Spec => []NeverBlocks
<1>1. IInv => NeverBlocks  BY DEF IInv, Ready
<1> QED BY Invariance, <1>1, PTL

-----------------------------------------------------------------------------
(* The limit on connections *)

\* There is room for one more subscriber while a snapshot is being sent.
Room ==
    /\ IsFiniteSet(m_subscribers)
    /\ Cardinality(m_subscribers) <= MAX_CLIENTS + 1
    /\ pc = "snapshot" => Cardinality(m_subscribers) <= MAX_CLIENTS

\* Only SnapshotSent adds a subscriber, and Accept has looked at the limit.
LEMMA RoomStep == Room /\ [Next]_vars => Room'
<1> SUFFICES ASSUME Room, [Next]_vars
             PROVE  Room'
  OBVIOUS
<1> USE SizesAssumption DEF Room, members
<1>1. Cardinality(m_subscribers) \in Nat
  BY FS_CardinalityType
<1>2. ASSUME NEW dead, m_subscribers' = m_subscribers \ dead, pc' # "snapshot"
      PROVE  Room'
  <2>1. /\ IsFiniteSet(m_subscribers \ dead)
        /\ Cardinality(m_subscribers \ dead) <= Cardinality(m_subscribers)
    BY FS_Subset
  <2>2. Cardinality(m_subscribers \ dead) \in Nat
    BY <2>1, FS_CardinalityType
  <2> QED BY <1>1, <1>2, <2>1, <2>2
<1>3. ASSUME m_subscribers' = m_subscribers, pc' # "snapshot" \/ pc = "snapshot"
      PROVE  Room'
  BY <1>3
<1>4. CASE SnapshotSent
  <2>1. /\ IsFiniteSet(m_subscribers \cup {socket})
        /\ Cardinality(m_subscribers \cup {socket}) <= Cardinality(m_subscribers) + 1
    BY <1>1, FS_AddElement
  <2>2. Cardinality(m_subscribers \cup {socket}) \in Nat
    BY <2>1, FS_CardinalityType
  <2> QED BY <1>1, <1>4, <2>1, <2>2 DEF SnapshotSent, CheckDead
<1>5. CASE Accept
  BY <1>1, <1>5 DEF Accept, Accepted, AtLimit
<1>6. CASE RemoveDead \/ EventBroadcast
  BY <1>2, <1>6 DEF RemoveDead, EventBroadcast, Survivors
<1>7. CASE Cleanup
  <2>1. m_subscribers' = m_subscribers \ m_subscribers
    BY <1>7 DEF Cleanup
  <2> QED BY <1>2, <1>7, <2>1 DEF Cleanup
<1>8. CASE EventLoop \/ Select \/ AcceptRefused \/ AcceptFails
  BY <1>3, <1>8 DEF EventLoop, Select, AcceptRefused, Accepted, AcceptFails, CheckDead
<1>9. CASE SendPart \/ CloseRefused \/ SnapshotFails \/ CheckDeadConnection \/ QueueEmpty
  BY <1>3, <1>9 DEF SendPart, CloseRefused, SnapshotFails, CloseNewSocket,
                    CheckDeadConnection, QueueEmpty, CheckDead
<1>10. CASE PopEvent \/ NextSubscriber \/ EventSent \/ EventFails
  BY <1>3, <1>10 DEF PopEvent, NextSubscriber, EventSent, EventFails
<1>11. CASE RequestStop \/ \E type \in Type : PushEvent(type)
  BY <1>3, <1>11 DEF RequestStop, PushEvent
<1>12. CASE ClientMove \/ UNCHANGED vars
  BY <1>3, <1>12 DEF ClientMove, Connect, Request, HangUp, Stall,
                     ServerIdle, vars
<1> QED
  BY <1>4, <1>5, <1>6, <1>7, <1>8, <1>9, <1>10, <1>11, <1>12
     DEF Next, NetStep, GameStep, Finished

\* At most MAX_CLIENTS + 1 client connections are served at any time, and one more is
\* open while it is refused.
THEOREM Capacity == Spec => []CapacityBound
<1>1. Init => Room
  BY FS_EmptySet, SizesAssumption DEF Init, Room
<1>2. IInv /\ Room => CapacityBound
  <2> SUFFICES ASSUME IInv, Room PROVE CapacityBound
    OBVIOUS
  <2> USE SizesAssumption DEF Room
  <2>1. Cardinality(m_subscribers) \in Nat
    BY FS_CardinalityType
  <2>2. OpenFds = Tracked
    BY DEF IInv, DescriptorsTracked
  <2>3. CASE pc \in {"refuse", "snapshot"}
    <3>1. OpenFds \subseteq m_subscribers \cup {socket}
      BY <2>2 DEF Tracked
    <3>2. /\ IsFiniteSet(m_subscribers \cup {socket})
          /\ Cardinality(m_subscribers \cup {socket}) <= Cardinality(m_subscribers) + 1
      BY <2>1, FS_AddElement
    <3>3. Cardinality(m_subscribers \cup {socket}) \in Nat
      BY <3>2, FS_CardinalityType
    <3>4. /\ Cardinality(OpenFds) <= Cardinality(m_subscribers \cup {socket})
          /\ IsFiniteSet(OpenFds)
      BY <3>1, <3>2, FS_Subset
    <3>5. Cardinality(OpenFds) \in Nat
      BY <3>4, FS_CardinalityType
    <3> QED BY <2>1, <2>3, <3>2, <3>3, <3>4, <3>5 DEF CapacityBound
  <2>4. CASE pc \notin {"refuse", "snapshot"}
    <3>1. OpenFds \subseteq m_subscribers
      BY <2>2, <2>4 DEF Tracked
    <3>2. Cardinality(OpenFds) <= Cardinality(m_subscribers) /\ IsFiniteSet(OpenFds)
      BY <3>1, FS_Subset
    <3>3. Cardinality(OpenFds) \in Nat
      BY <3>2, FS_CardinalityType
    <3> QED BY <2>1, <3>2, <3>3 DEF CapacityBound
  <2> QED BY <2>3, <2>4
<1> QED BY <1>1, <1>2, RoomStep, Invariance, PTL DEF Spec

-----------------------------------------------------------------------------
(* Whose connection is closed *)

\* A step of the specification closes a healthy client's connection only to
\* refuse it, on having accepted it, or in Cleanup.
LEMMA KeepStep ==
    ASSUME IInv, [Next]_vars, NEW c \in Client, Healthy(c), conn'[c] = "over"
    PROVE  pc = "exited" \/ (pc = "refuse" /\ c = fdTable[socket] /\ AtLimit)
<1> USE DEF Healthy
<1>1. conn[c] = "up" /\ c \notin stalled /\ conn \in [Client -> ConnState]
  BY DEF IInv, TypeOK
<1>2. ASSUME UNCHANGED conn PROVE FALSE
  BY <1>1, <1>2
<1>3. CASE CloseRefused
  BY <1>1, <1>3 DEF CloseRefused, CloseNewSocket, Close, IInv, Locals
<1>4. CASE SnapshotFails \/ EventFails
  <2>1. conn' = [conn EXCEPT ![fdTable[socket]] = "over"] /\ SendFails
    BY <1>4 DEF SnapshotFails, CloseNewSocket, EventFails, Drop, Close
  <2>2. c # fdTable[socket]
    BY <1>1, <2>1 DEF SendFails
  <2> QED BY <1>1, <2>1, <2>2
<1>5. CASE CheckDeadConnection
  <2> PICK s \in todo : RecvData(s) \/ RecvError(s) \/ RecvClosed(s)
    BY <1>5 DEF CheckDeadConnection
  <2>1. CASE RecvData(s)   BY <1>2, <2>1 DEF RecvData
  <2>2. CASE RecvError(s)  BY <1>1, <2>2 DEF RecvError
  <2>3. CASE RecvClosed(s) BY <1>1, <2>3 DEF RecvClosed, Drop, Close
  <2> QED BY <2>1, <2>2, <2>3
<1>6. CASE Cleanup
  BY <1>6 DEF Cleanup
<1>7. CASE \/ EventLoop \/ Select \/ AcceptRefused \/ Accept \/ AcceptFails
           \/ SendPart \/ SnapshotSent
  BY <1>2, <1>7 DEF EventLoop, Select, AcceptRefused, Accept, Accepted, AcceptFails,
                    SendPart, SnapshotSent, table
<1>8. CASE \/ RemoveDead \/ QueueEmpty \/ PopEvent \/ NextSubscriber \/ EventSent
           \/ EventBroadcast
  BY <1>2, <1>8 DEF RemoveDead, QueueEmpty, PopEvent, NextSubscriber, EventSent,
                    EventBroadcast, table
<1>9. CASE RequestStop \/ (\E type \in Type : PushEvent(type)) \/ UNCHANGED vars
  BY <1>2, <1>9 DEF RequestStop, PushEvent, vars, table
<1>10. CASE ClientMove
  BY <1>1, <1>10 DEF ClientMove, Connect, Request, HangUp, Stall
<1> QED
  BY <1>3, <1>4, <1>5, <1>6, <1>7, <1>8, <1>9, <1>10
     DEF Next, NetStep, GameStep, Finished

\* No healthy client is dropped by a time-out, by another client's failure or by a
\* descriptor that changed hands.
THEOREM KeepsHealthyClients == Spec => HealthyClientsKept
<1>1. IInv /\ [Next]_vars
      => [\A c \in Client :
            Healthy(c) /\ conn'[c] = "over"
            => pc = "exited" \/ (pc = "refuse" /\ c = fdTable[socket] /\ AtLimit)]_vars
  BY KeepStep
<1> QED BY <1>1, Invariance, PTL DEF Spec, HealthyClientsKept

-----------------------------------------------------------------------------
(* Messages *)

\* Parts of messages one after the other: a message begins after the end of another.
Chained(w) ==
    \A i \in DOMAIN w :
        IF w[i].part = 1
        THEN i = 1 \/ w[i - 1].part = Parts(w[i - 1].of)
        ELSE i > 1 /\ w[i - 1] = [of |-> w[i].of, part |-> w[i].part - 1]

\* Nothing is missing at the end.
Complete(w) == w # <<>> => w[Len(w)].part = Parts(w[Len(w)].of)

\* k parts of m have been sent, and no part of another message since.
Begun(w, m, k) ==
    IF k = 0 THEN Complete(w) ELSE w # <<>> /\ w[Len(w)] = [of |-> m, part |-> k]

\* What is on the connections: messages, of which at most one is not complete, the one
\* that is being sent.
WireInv ==
    /\ \A c \in Client :
          /\ Chained(wire[c])
          /\ conn[c] = "over" \/ (pc \in {"snapshot", "send"} /\ fdTable[socket] = c)
             \/ Complete(wire[c])
    /\ pc \in {"snapshot", "send"} => Begun(wire[fdTable[socket]], msg, sent)

\* Two sequences that agree as far as the first goes.
Extends(v, w) ==
    /\ Len(w) \in Nat /\ Len(v) \in Nat /\ Len(w) <= Len(v)
    /\ DOMAIN w = 1 .. Len(w) /\ DOMAIN v = 1 .. Len(v)
    /\ \A i \in 1 .. Len(w) : v[i] = w[i]

\* Two sequences one after the other.
LEMMA ConcatTyped ==
    ASSUME NEW S, NEW a \in Seq(S), NEW b \in Seq(S)
    PROVE  a \o b \in Seq(S) /\ Len(a \o b) = Len(a) + Len(b) /\ Len(a) \in Nat
OBVIOUS

\* n parts of a message after a sequence of parts.
LEMMA PartsAfter ==
    ASSUME NEW w \in Seq(Part), NEW m \in Event \cup {Empty},
           NEW k \in Nat, NEW n \in Nat, k + n <= MsgParts
    PROVE  LET v == w \o [i \in 1 .. n |-> [of |-> m, part |-> k + i]]
           IN  /\ Extends(v, w) /\ Len(v) = Len(w) + n
               /\ \A i \in 1 .. n : v[Len(w) + i] = [of |-> m, part |-> k + i]
<1> DEFINE p == [i \in 1 .. n |-> [of |-> m, part |-> k + i]]
           v == w \o p
<1>1. p \in Seq(Part) /\ Len(p) = n /\ \A i \in 1 .. n : p[i] = [of |-> m, part |-> k + i]
  <2>1. p \in Seq(Part)
    BY PartsTyped
  <2>2. DOMAIN p = 1 .. n /\ \A i \in 1 .. n : p[i] = [of |-> m, part |-> k + i]
    OBVIOUS
  <2> HIDE DEF p
  <2> QED BY <2>1, <2>2
<1> HIDE DEF p
<1>2. v \in Seq(Part) /\ Len(v) = Len(w) + n /\ Len(w) \in Nat
  <2>1. v \in Seq(Part) /\ Len(v) = Len(w) + Len(p) /\ Len(w) \in Nat
    BY <1>1, ConcatTyped
  <2> QED BY <1>1, <2>1
<1>3. \A i \in 1 .. Len(w) + n : v[i] = IF i <= Len(w) THEN w[i] ELSE p[i - Len(w)]
  BY <1>1, <1>2
<1>4. \A i \in 1 .. Len(w) : v[i] = w[i]
  BY <1>2, <1>3
<1>5. ASSUME NEW i \in 1 .. n PROVE v[Len(w) + i] = p[i]
  <2> DEFINE j == Len(w) + i
  <2>1. j \in 1 .. Len(w) + n /\ ~(j <= Len(w)) /\ j - Len(w) = i
    BY <1>2
  <2> HIDE DEF j
  <2>2. v[j] = p[j - Len(w)]
    BY <1>3, <2>1
  <2> QED BY <2>1, <2>2 DEF j
<1>6. DOMAIN v = 1 .. Len(v) /\ DOMAIN w = 1 .. Len(w) /\ Len(w) <= Len(v) /\ Len(v) \in Nat
  BY <1>2
<1> HIDE DEF v
<1>7. Extends(v, w)
  BY <1>2, <1>4, <1>6 DEF Extends
<1> QED BY <1>1, <1>2, <1>5, <1>7 DEF v, p

\* The next parts of a message go on where the last ended.
LEMMA ChainGrows ==
    ASSUME NEW w \in Seq(Part), Chained(w), NEW m \in Event \cup {Empty},
           NEW k \in Nat, NEW n \in Nat \ {0}, k + n <= MsgParts, Begun(w, m, k)
    PROVE  LET v == w \o [i \in 1 .. n |-> [of |-> m, part |-> k + i]]
           IN  Chained(v) /\ Begun(v, m, k + n)
<1> DEFINE v == w \o [i \in 1 .. n |-> [of |-> m, part |-> k + i]]
<1>1. /\ Extends(v, w) /\ Len(v) = Len(w) + n
      /\ \A i \in 1 .. n : v[Len(w) + i] = [of |-> m, part |-> k + i]
  BY PartsAfter
<1> HIDE DEF v
<1>2. /\ Len(v) = Len(w) + n /\ DOMAIN v = 1 .. Len(w) + n /\ DOMAIN w = 1 .. Len(w)
      /\ Len(w) \in Nat
      /\ \A i \in 1 .. Len(w) : v[i] = w[i]
  BY <1>1 DEF Extends
<1>3. \A i \in 1 .. n : v[Len(w) + i] = [of |-> m, part |-> k + i]
  BY <1>1
<1>4. ASSUME NEW i \in DOMAIN v
      PROVE  IF v[i].part = 1
             THEN i = 1 \/ v[i - 1].part = Parts(v[i - 1].of)
             ELSE i > 1 /\ v[i - 1] = [of |-> v[i].of, part |-> v[i].part - 1]
  <2>1. CASE i <= Len(w)
    <3>1. i \in DOMAIN w /\ v[i] = w[i] /\ (i > 1 => v[i - 1] = w[i - 1])
      BY <1>2, <2>1
    <3>2. IF w[i].part = 1
          THEN i = 1 \/ w[i - 1].part = Parts(w[i - 1].of)
          ELSE i > 1 /\ w[i - 1] = [of |-> w[i].of, part |-> w[i].part - 1]
      BY <3>1 DEF Chained
    <3>3. i \in Nat \ {0}
      BY <1>2
    <3>4. CASE i = 1
      BY <3>1, <3>2, <3>4
    <3>5. CASE i > 1
      BY <3>1, <3>2, <3>5
    <3> QED BY <3>3, <3>4, <3>5
  <2>2. CASE i = Len(w) + 1
    <3>1. v[i] = [of |-> m, part |-> k + 1]
      BY <1>2, <1>3, <2>2
    <3>2. Len(w) > 0 => v[i - 1] = w[Len(w)]
      BY <1>2, <2>2
    <3>3. CASE k = 0
      BY <1>2, <2>2, <3>1, <3>2, <3>3 DEF Begun, Complete
    <3>4. CASE k # 0
      <4>1. w # <<>> /\ w[Len(w)] = [of |-> m, part |-> k]
        BY <3>4 DEF Begun
      <4> QED BY <1>2, <2>2, <3>1, <3>2, <3>4, <4>1
    <3> QED BY <3>3, <3>4
  <2>3. CASE i > Len(w) + 1
    <3> DEFINE j == i - Len(w)
    <3>1. j \in 2 .. n /\ j - 1 \in 1 .. n /\ i = Len(w) + j /\ i - 1 = Len(w) + (j - 1)
      BY <1>2, <2>3
    <3> HIDE DEF j
    <3>2. v[i] = [of |-> m, part |-> k + j] /\ v[i - 1] = [of |-> m, part |-> k + (j - 1)]
      BY <1>3, <3>1
    <3>3. v[i].of = m /\ v[i].part = k + j
      BY <3>2
    <3>4. v[i].part # 1 /\ v[i].part - 1 = k + (j - 1)
      <4>1. \A x : x = k + j => x # 1 /\ x - 1 = k + (j - 1)
        BY <3>1
      <4> QED BY <3>3, <4>1
    <3>5. i > 1
      BY <1>2, <2>3
    <3>6. v[i - 1] = [of |-> v[i].of, part |-> v[i].part - 1]
      BY <3>2, <3>3, <3>4
    <3> QED BY <3>4, <3>5, <3>6
  <2> QED BY <1>2, <2>1, <2>2, <2>3
<1>5. Chained(v)
  BY <1>4 DEF Chained
<1>6. v # <<>> /\ v[Len(v)] = [of |-> m, part |-> k + n]
  BY <1>2, <1>3
<1> QED BY <1>5, <1>6 DEF Begun, v

LEMMA InitWire == Init => WireInv
BY DEF Init, WireInv, Chained, Complete

\* n parts go onto the connection that is being served.
LEMMA WireGrows ==
    ASSUME IInv, WireInv, pc \in {"snapshot", "send"},
           NEW n \in Nat \ {0}, sent + n <= Parts(msg), SendAccepts(n)
    PROVE  /\ \A c \in Client : c # fdTable[socket] => wire'[c] = wire[c]
           /\ Chained(wire'[fdTable[socket]])
           /\ Begun(wire'[fdTable[socket]], msg, sent + n)
<1> DEFINE d == fdTable[socket]
<1>1. d \in Client /\ wire \in [Client -> Seq(Part)]
  BY SocketOpen DEF IInv, TypeOK
<1>2. /\ sent \in Nat /\ sent + n <= MsgParts /\ msg \in Event \cup {Empty}
      /\ Chained(wire[d]) /\ Begun(wire[d], msg, sent)
  BY <1>1, PartsBound, SizesAssumption DEF IInv, TypeOK, WireInv
<1>3. wire' = [wire EXCEPT ![d] = @ \o [i \in 1 .. n |-> [of |-> msg, part |-> sent + i]]]
  BY DEF SendAccepts
<1> HIDE DEF d
<1>4. /\ wire'[d] = wire[d] \o [i \in 1 .. n |-> [of |-> msg, part |-> sent + i]]
      /\ \A c \in Client : c # d => wire'[c] = wire[c]
  BY <1>1, <1>3
<1>5. wire[d] \in Seq(Part)
  BY <1>1
<1>6. Chained(wire'[d]) /\ Begun(wire'[d], msg, sent + n)
  BY <1>2, <1>4, <1>5, ChainGrows
<1> QED BY <1>4, <1>6 DEF d

\* The steps that send nothing, from which no call of sendMessage begins or ends, and
\* which leave a connection that is over as it is.
LEMMA WireKept ==
    ASSUME WireInv, UNCHANGED wire,
           \A c \in Client : conn[c] = "over" => conn'[c] = "over",
           \/ pc \notin {"snapshot", "send"} /\ pc' \notin {"snapshot", "send"}
           \/ UNCHANGED <<pc, fdTable, call>>
    PROVE  WireInv'
BY DEF WireInv, call

LEMMA WireStep == IInv /\ WireInv /\ [Next]_vars => WireInv'
<1> SUFFICES ASSUME IInv, WireInv, [Next]_vars
             PROVE  WireInv'
  OBVIOUS
<1>0. /\ conn \in [Client -> ConnState] /\ sent \in Nat /\ Parts(msg) \in Nat
      /\ fdTable \in [Fds -> Client \cup {NoClient}] /\ sent < Parts(msg)
  BY SizesAssumption DEF IInv, TypeOK, Locals, Parts
<1>1. CASE \/ EventLoop \/ Select \/ AcceptFails \/ RemoveDead \/ QueueEmpty
           \/ PopEvent \/ EventBroadcast
  <2>1. UNCHANGED <<wire, conn>>
    BY <1>1 DEF EventLoop, Select, AcceptFails, RemoveDead, QueueEmpty, PopEvent,
                EventBroadcast, table
  <2>2. pc \notin {"snapshot", "send"} /\ pc' \notin {"snapshot", "send"}
    BY <1>1 DEF EventLoop, Select, CheckDead, AcceptFails, RemoveDead, QueueEmpty, PopEvent,
                EventBroadcast
  <2> QED BY <2>1, <2>2, WireKept
<1>2. CASE AcceptRefused \/ CloseRefused
  <2>1. UNCHANGED wire /\ \A c \in Client : conn[c] = "over" => conn'[c] = "over"
    BY <1>0, <1>2 DEF AcceptRefused, CloseRefused, Accepted, CloseNewSocket, Close
  <2>2. pc \notin {"snapshot", "send"} /\ pc' \notin {"snapshot", "send"}
    BY <1>2 DEF AcceptRefused, CloseRefused, Accepted, CloseNewSocket, CheckDead
  <2> QED BY <2>1, <2>2, WireKept
<1>3. CASE Accept
  <2>1. PICK s \in Fds : fdTable' = [fdTable EXCEPT ![s] = Head(backlog)] /\ socket' = s
    BY <1>3 DEF Accept, Accepted, FreeFds
  <2>2. /\ fdTable'[socket'] = Head(backlog) /\ Head(backlog) \in Client
        /\ conn[Head(backlog)] # "over"
    <3>1. backlog # <<>> /\ backlog \in Seq(Client) /\ Head(backlog) \in Client
      BY <1>3, BacklogTyped DEF Accept, Accepted, IInv, TypeOK
    <3>2. 1 \in DOMAIN backlog /\ Head(backlog) = backlog[1]
      BY <3>1
    <3>3. conn[backlog[1]] # "over"
      BY <3>2 DEF IInv, Placed, Live
    <3> QED BY <1>0, <2>1, <3>1, <3>2, <3>3
  <2>3. UNCHANGED <<wire, conn>> /\ sent' = 0 /\ pc = "accept" /\ pc' = "snapshot"
    BY <1>3 DEF Accept, Accepted
  <2> QED BY <2>2, <2>3 DEF WireInv, Begun
<1>4. CASE NextSubscriber
  <2>1. /\ socket' \in todo /\ pc = "next" /\ pc' = "send" /\ sent = 0
        /\ UNCHANGED <<wire, conn, fdTable, sent>>
    BY <1>4 DEF NextSubscriber, IInv, Locals, table
  <2>2. fdTable[socket'] \in Client /\ conn[fdTable[socket']] # "over"
    <3>1. socket' \in Tracked
      BY <2>1 DEF IInv, Locals, Tracked
    <3> QED BY <3>1, TrackedOpen DEF IInv, Placed, DescriptorsTracked, Live
  <2> QED BY <2>1, <2>2 DEF WireInv, Begun
<1>5. CASE SendPart
  <2>1. PICK n \in 1 .. Parts(msg) - sent - 1 : SendAccepts(n) /\ sent' = sent + n
    BY <1>5 DEF SendPart
  <2>2. n \in Nat \ {0} /\ sent + n <= Parts(msg)
    BY <1>0, <2>1
  <2>3. pc \in {"snapshot", "send"} /\ UNCHANGED <<pc, fdTable, conn, socket, msg>>
    BY <1>5 DEF SendPart, table
  <2>4. /\ \A c \in Client : c # fdTable[socket] => wire'[c] = wire[c]
        /\ Chained(wire'[fdTable[socket]])
        /\ Begun(wire'[fdTable[socket]], msg, sent + n)
    BY <2>1, <2>2, <2>3, WireGrows
  <2> QED BY <2>1, <2>3, <2>4 DEF WireInv
<1>6. CASE SnapshotSent \/ EventSent
  <2> DEFINE n == Parts(msg) - sent
  <2>1. n \in Nat \ {0} /\ sent + n = Parts(msg)
    BY <1>0
  <2>2. /\ pc \in {"snapshot", "send"} /\ pc' \notin {"snapshot", "send"}
        /\ SendAccepts(n) /\ UNCHANGED conn
    BY <1>6 DEF SnapshotSent, EventSent, CheckDead, table
  <2>3. /\ \A c \in Client : c # fdTable[socket] => wire'[c] = wire[c]
        /\ Chained(wire'[fdTable[socket]])
        /\ Begun(wire'[fdTable[socket]], msg, Parts(msg))
    <3> HIDE DEF n
    <3>1. sent + n <= Parts(msg)
      BY <1>0, <2>1
    <3> QED BY <2>1, <2>2, <3>1, WireGrows
  <2>4. Complete(wire'[fdTable[socket]])
    BY <1>0, <2>3 DEF Begun, Complete
  <2> QED BY <2>2, <2>3, <2>4 DEF WireInv
<1>7. CASE SnapshotFails \/ EventFails
  <2>1. /\ pc \in {"snapshot", "send"} /\ pc' \notin {"snapshot", "send"} /\ UNCHANGED wire
        /\ conn' = [conn EXCEPT ![fdTable[socket]] = "over"]
    BY <1>7 DEF SnapshotFails, CloseNewSocket, EventFails, Drop, Close, CheckDead
  <2>2. /\ \A c \in Client : conn[c] = "over" => conn'[c] = "over"
        /\ fdTable[socket] \in Client => conn'[fdTable[socket]] = "over"
    BY <1>0, <2>1
  <2> QED BY <2>1, <2>2 DEF WireInv
<1>8. CASE CheckDeadConnection
  <2>1. UNCHANGED <<wire, pc>> /\ pc = "recv"
    BY <1>8 DEF CheckDeadConnection
  <2>2. \A c \in Client : conn[c] = "over" => conn'[c] = "over"
    BY <1>0, <1>8 DEF CheckDeadConnection, RecvData, RecvError, RecvClosed, Drop, Close
  <2> QED BY <2>1, <2>2, WireKept
<1>9. CASE Cleanup
  <2>1. UNCHANGED wire /\ pc = "exited" /\ pc' = "cleaned"
        /\ \A c \in Client : conn[c] = "over" => conn'[c] = "over"
    BY <1>9 DEF Cleanup
  <2> QED BY <2>1, WireKept
<1>10. CASE RequestStop \/ (\E type \in Type : PushEvent(type)) \/ UNCHANGED vars
  BY <1>10, WireKept DEF RequestStop, PushEvent, vars, call, table
<1>11. ASSUME NEW c \in Client, Connect(c) \/ Request(c) \/ HangUp(c) \/ Stall(c)
       PROVE  WireInv'
  <2>1. UNCHANGED <<wire, pc, fdTable, call>>
    BY <1>11 DEF Connect, Request, HangUp, Stall, ServerIdle
  <2>2. \A e \in Client : conn[e] = "over" => conn'[e] = "over"
    BY <1>0, <1>11 DEF Connect, Request, HangUp, Stall
  <2> QED BY <2>1, <2>2, WireKept
<1> QED
  BY <1>1, <1>2, <1>3, <1>4, <1>5, <1>6, <1>7, <1>8, <1>9, <1>10, <1>11
     DEF Next, NetStep, GameStep, ClientMove, Finished

\* WholeMessages: what a client receives is whole messages; only the last may be cut
\* short, while it is being sent or because the connection ended there (sendMessage,
\* and who calls it with what).
THEOREM MessagesWhole == Spec => []WholeMessages
<1>1. IInv /\ WireInv => WholeMessages
  <2> SUFFICES ASSUME IInv, WireInv, NEW c \in Client
               PROVE  /\ Chained(wire[c])
                      /\ LET last == wire[c][Len(wire[c])] IN
                         wire[c] # <<>> /\ last.part < Parts(last.of)
                         => conn[c] = "over"
                            \/ (pc \in {"snapshot", "send"} /\ fdTable[socket] = c)
    BY DEF WholeMessages, Chained
  <2>1. Chained(wire[c])
    BY DEF WireInv
  <2>2. CASE Complete(wire[c])
    BY <2>1, <2>2, PartsBound DEF Complete
  <2>3. CASE conn[c] = "over" \/ (pc \in {"snapshot", "send"} /\ fdTable[socket] = c)
    BY <2>1, <2>3
  <2> QED BY <2>2, <2>3 DEF WireInv
<1> QED BY <1>1, InitWire, WireStep, Invariance, PTL DEF Spec

-----------------------------------------------------------------------------
(* The feed *)

\* A set of positions that is not empty has a last.
LEMMA HasMaximum ==
    ASSUME NEW n \in Nat, NEW S \in SUBSET (1 .. n), S # {}
    PROVE  \E i \in S : \A j \in S : j <= i
<1> DEFINE T == {n - i : i \in S}
<1>1. T \subseteq Nat /\ T # {}
  <2>1. \A i \in S : n - i \in Nat
    OBVIOUS
  <2> QED BY <2>1
<1> HIDE DEF T
<1>2. PICK x \in T : \A y \in T : ~(<<y, x>> \in OpToRel(<, Nat))
  BY <1>1, NatLessThanWellFounded, WFMin, Zenon
<1>3. \A y \in T : ~(y < x)
  BY <1>1, <1>2 DEF OpToRel
<1>4. PICK i \in S : x = n - i
  BY DEF T
<1>5. ASSUME NEW j \in S PROVE j <= i
  <2>1. n - j \in T
    BY DEF T
  <2> QED BY <1>3, <1>4, <2>1
<1> QED BY <1>5

\* What Append leaves where it was.
LEMMA AppendPlaces ==
    ASSUME NEW S, NEW q \in Seq(S), NEW e \in S
    PROVE  /\ Append(q, e) \in Seq(S) /\ Len(Append(q, e)) = Len(q) + 1 /\ Len(q) \in Nat
           /\ DOMAIN q = 1 .. Len(q) /\ DOMAIN Append(q, e) = 1 .. Len(q) + 1
           /\ Append(q, e)[Len(q) + 1] = e
           /\ \A i \in 1 .. Len(q) : Append(q, e)[i] = q[i]
OBVIOUS

\* The event that is broadcast is the next snapshot if it is a frame.
LEMMA LastFrameGrows ==
    ASSUME log \in Seq(Event), NEW e \in Event, log' = Append(log, e)
    PROVE  Feed!LastFrame' = IF e.type = "frame" THEN e ELSE Feed!LastFrame
<1> DEFINE Frame == {x \in Event : x.type = "frame"}
           F == {i \in DOMAIN log : log[i] \in Frame}
           G == {i \in DOMAIN log' : log'[i] \in Frame}
           n == Len(log)
<1>1. /\ n \in Nat /\ DOMAIN log = 1 .. n /\ DOMAIN log' = 1 .. n + 1
      /\ log'[n + 1] = e /\ \A i \in 1 .. n : log'[i] = log[i]
  BY AppendPlaces
<1>2. /\ Feed!LastFrame = IF F = {} THEN Empty
                          ELSE log[CHOOSE i \in F : \A j \in F : j <= i]
      /\ Feed!LastFrame' = IF G = {} THEN Empty
                           ELSE log'[CHOOSE i \in G : \A j \in G : j <= i]
  BY DEF Feed!LastFrame
<1>3. e \in Frame <=> e.type = "frame"
  OBVIOUS
<1> HIDE DEF n, Frame
<1>4. F \subseteq 1 .. n /\ G = F \cup (IF e \in Frame THEN {n + 1} ELSE {})
  BY <1>1
<1> HIDE DEF F, G
<1>5. CASE e \in Frame
  <2>1. n + 1 \in G /\ \A j \in G : j <= n + 1
    BY <1>1, <1>4, <1>5
  <2>2. (CHOOSE i \in G : \A j \in G : j <= i) = n + 1
    <3> DEFINE m == CHOOSE i \in G : \A j \in G : j <= i
    <3>1. m \in G /\ \A j \in G : j <= m
      BY <2>1
    <3> HIDE DEF m
    <3>2. m \in Nat /\ m <= n + 1 /\ n + 1 <= m
      <4>1. G \subseteq 1 .. n + 1
        BY <1>1, <1>4
      <4>2. m \in 1 .. n + 1 /\ n + 1 <= m
        BY <2>1, <3>1, <4>1
      <4> QED BY <1>1, <4>2
    <3>3. m = n + 1
      BY <1>1, <3>2
    <3> QED BY <3>3 DEF m
  <2> QED BY <1>1, <1>2, <1>3, <1>5, <2>1, <2>2
<1>6. CASE e \notin Frame
  <2>1. G = F
    BY <1>4, <1>6
  <2>2. CASE F = {}
    BY <1>2, <1>3, <1>6, <2>1, <2>2
  <2>3. CASE F # {}
    <3>1. \E i \in F : \A j \in F : j <= i
      BY <1>1, <1>4, <2>3, HasMaximum
    <3>2. (CHOOSE i \in F : \A j \in F : j <= i) \in 1 .. n
      BY <1>4, <3>1
    <3> QED BY <1>1, <1>2, <1>3, <1>6, <2>1, <2>3, <3>2
  <2> QED BY <2>2, <2>3
<1> QED BY <1>5, <1>6

\* Parts that end no message add none to the whole ones.
LEMMA WholeKept ==
    ASSUME NEW v, NEW w, Extends(v, w), Ends(v) = Ends(w)
    PROVE  Whole(v) = Whole(w)
<1>1. \A i \in Ends(w) : v[i] = w[i]
  BY DEF Ends, Extends
<1>2. ASSUME NEW k PROVE Ended(v, k) = Ended(w, k)
  BY <1>1 DEF Ended
<1> QED BY <1>2 DEF Whole

\* Parts of which the last ends a message add that message.
LEMMA WholeGrows ==
    ASSUME NEW v, NEW w, Extends(v, w), Len(v) > Len(w),
           Ends(v) = Ends(w) \cup {Len(v)}
    PROVE  Whole(v) = Append(Whole(w), v[Len(v)].of)
<1> DEFINE E == Ends(w)
           D == Ends(v)
           n == Cardinality(E)
           l == Len(v)
           Rank(S, j) == {e \in S : e <= j}
<1>1. /\ E \subseteq 1 .. Len(w) /\ D = E \cup {l} /\ l \in Nat /\ l > Len(w)
      /\ Len(w) \in Nat /\ \A i \in E : v[i] = w[i]
  BY DEF Ends, Extends
<1>2. IsFiniteSet(E)
  <2>1. IsFiniteSet(1 .. Len(w))
    BY <1>1, FS_Interval
  <2> HIDE DEF E
  <2> QED BY <1>1, <2>1, FS_Subset
<1>3. n \in Nat
  BY <1>2, FS_CardinalityType
<1>4. l \notin E /\ \A j \in E : j \in Nat /\ j < l
  BY <1>1
<1>5. Cardinality(D) = n + 1
  BY <1>1, <1>2, <1>4, FS_AddElement
<1>6. /\ \A k : Ended(v, k) = {v[i].of : i \in {j \in D : Cardinality(Rank(D, j)) = k}}
      /\ \A k : Ended(w, k) = {w[i].of : i \in {j \in E : Cardinality(Rank(E, j)) = k}}
      /\ Whole(v) = [k \in 1 .. n + 1 |-> CHOOSE m \in Ended(v, k) : TRUE]
      /\ Whole(w) = [k \in 1 .. n |-> CHOOSE m \in Ended(w, k) : TRUE]
  BY <1>5 DEF Ended, Whole
<1>7. Rank(D, l) = D /\ \A j \in E : Rank(D, j) = Rank(E, j)
  BY <1>1, <1>4
<1>8. ASSUME NEW j \in E PROVE Cardinality(Rank(E, j)) \in 0 .. n
  <2>1. Rank(E, j) \in SUBSET E
    OBVIOUS
  <2> HIDE DEF Rank, E
  <2>2. IsFiniteSet(Rank(E, j)) /\ Cardinality(Rank(E, j)) <= n
    BY <1>2, <2>1, FS_Subset
  <2>3. Cardinality(Rank(E, j)) \in Nat
    BY <2>2, FS_CardinalityType
  <2> QED BY <1>3, <2>2, <2>3
<1> HIDE DEF E, D, n, l, Rank
<1>9. ASSUME NEW k \in 1 .. n PROVE Ended(v, k) = Ended(w, k)
  <2>1. k # n + 1
    BY <1>3
  <2>2. {j \in D : Cardinality(Rank(D, j)) = k} = {j \in E : Cardinality(Rank(E, j)) = k}
    BY <1>1, <1>5, <1>7, <2>1
  <2> DEFINE S == {j \in E : Cardinality(Rank(E, j)) = k}
  <2>3. \A i \in S : v[i].of = w[i].of
    BY <1>1
  <2>4. Ended(v, k) = {v[i].of : i \in S} /\ Ended(w, k) = {w[i].of : i \in S}
    BY <1>6, <2>2
  <2> HIDE DEF S
  <2> QED BY <2>3, <2>4
<1>10. Ended(v, n + 1) = {v[l].of}
  <2>1. \A j \in E : Cardinality(Rank(D, j)) # n + 1
    BY <1>3, <1>7, <1>8
  <2>2. {j \in D : Cardinality(Rank(D, j)) = n + 1} = {l}
    BY <1>1, <1>5, <1>7, <2>1
  <2> QED BY <1>6, <2>2
<1>11. \A k \in 1 .. n : Whole(v)[k] = Whole(w)[k]
  BY <1>3, <1>6, <1>9
<1>12. Whole(v)[n + 1] = v[l].of
  <2>1. Whole(v)[n + 1] = CHOOSE m \in Ended(v, n + 1) : TRUE
    BY <1>3, <1>6
  <2>2. \A x : (CHOOSE m \in {x} : TRUE) = x
    OBVIOUS
  <2> QED BY <1>10, <2>1, <2>2
<1>13. DOMAIN Whole(v) = 1 .. n + 1 /\ DOMAIN Whole(w) = 1 .. n
  BY <1>6
<1>14. Len(Whole(w)) = n
  BY <1>3, <1>6
<1>15. Append(Whole(w), v[l].of) = [k \in 1 .. n + 1 |-> IF k = n + 1 THEN v[l].of ELSE Whole(w)[k]]
  BY <1>3, <1>6, <1>14
<1>16. Whole(v) = [k \in 1 .. n + 1 |-> Whole(v)[k]]
  BY <1>6
<1>17. ASSUME NEW k \in 1 .. n + 1
       PROVE  Whole(v)[k] = IF k = n + 1 THEN v[l].of ELSE Whole(w)[k]
  BY <1>3, <1>11, <1>12
<1>18. Whole(v) = Append(Whole(w), v[l].of)
  BY <1>15, <1>16, <1>17
<1> QED BY <1>18 DEF l

\* The places in a longer sequence.
LEMMA Beyond ==
    ASSUME NEW a \in Nat, NEW n \in Nat, NEW i \in 1 .. a + n, ~(i <= a)
    PROVE  i - a \in 1 .. n /\ i = a + (i - a)
OBVIOUS

\* Of the parts of a message only the last ends it.
LEMMA EndsAfter ==
    ASSUME NEW w \in Seq(Part), NEW m \in Event \cup {Empty},
           NEW k \in Nat, NEW n \in Nat \ {0}, k + n <= Parts(m)
    PROVE  LET v == w \o [i \in 1 .. n |-> [of |-> m, part |-> k + i]]
           IN  Ends(v) = IF k + n = Parts(m) THEN Ends(w) \cup {Len(v)} ELSE Ends(w)
<1> DEFINE v == w \o [i \in 1 .. n |-> [of |-> m, part |-> k + i]]
<1>1. Parts(m) \in Nat /\ k + n <= MsgParts
  BY PartsBound, SizesAssumption
<1>2. /\ Extends(v, w) /\ Len(v) = Len(w) + n
      /\ \A i \in 1 .. n : v[Len(w) + i] = [of |-> m, part |-> k + i]
  BY <1>1, PartsAfter
<1> HIDE DEF v
<1>3. /\ Len(w) \in Nat /\ DOMAIN w = 1 .. Len(w) /\ DOMAIN v = 1 .. Len(w) + n
      /\ \A i \in 1 .. Len(w) : v[i] = w[i]
  BY <1>2 DEF Extends
<1>4. ASSUME NEW i \in 1 .. n
      PROVE  Len(w) + i \in Ends(v) <=> k + n = Parts(m) /\ i = n
  <2>1. Len(w) + i \in DOMAIN v
    BY <1>3
  <2>2. v[Len(w) + i].part = k + i /\ v[Len(w) + i].of = m
    <3>1. v[Len(w) + i] = [of |-> m, part |-> k + i]
      BY <1>2
    <3> QED BY <3>1
  <2>3. Len(w) + i \in Ends(v) <=> k + i = Parts(m)
    BY <2>1, <2>2 DEF Ends
  <2> QED BY <1>1, <2>3
<1>5. \A i \in 1 .. Len(w) : i \in Ends(v) <=> i \in Ends(w)
  BY <1>3 DEF Ends
<1>6. Ends(v) \subseteq 1 .. Len(w) + n /\ Ends(w) \subseteq 1 .. Len(w)
  BY <1>3 DEF Ends
<1>7. ASSUME NEW j \in 1 .. Len(w) + n
      PROVE  j \in Ends(v) <=> j \in Ends(w) \/ (k + n = Parts(m) /\ j = Len(v))
  <2>1. CASE j <= Len(w)
    BY <1>2, <1>3, <1>5, <2>1
  <2>2. CASE ~(j <= Len(w))
    <3> DEFINE i == j - Len(w)
    <3>1. i \in 1 .. n /\ j = Len(w) + i
      BY <1>3, <2>2, Beyond
    <3> HIDE DEF i
    <3>2. j \notin Ends(w) /\ (i = n <=> j = Len(v))
      BY <1>2, <1>3, <1>6, <2>2, <3>1
    <3> QED BY <1>4, <3>1, <3>2
  <2> QED BY <2>1, <2>2
<1>8. Len(v) \in 1 .. Len(w) + n
  BY <1>2, <1>3
<1>9. Ends(v) = IF k + n = Parts(m) THEN Ends(w) \cup {Len(v)} ELSE Ends(w)
  <2>1. Ends(w) \subseteq 1 .. Len(w) + n
    BY <1>3, <1>6
  <2> QED BY <1>6, <1>7, <1>8, <2>1
<1> QED BY <1>9 DEF v

\* What a call of send puts on the connection that is being served.
LEMMA PartsAdded ==
    ASSUME IInv, pc \in {"snapshot", "send"},
           NEW n \in Nat \ {0}, sent + n <= Parts(msg), SendAccepts(n)
    PROVE  LET d == fdTable[socket] IN
           /\ d \in Client /\ \A c \in Client \ {d} : wire'[c] = wire[c]
           /\ Ends(wire'[d]) = IF sent + n = Parts(msg)
                               THEN Ends(wire[d]) \cup {Len(wire'[d])} ELSE Ends(wire[d])
           /\ Whole(wire'[d]) = IF sent + n = Parts(msg)
                                THEN Append(Whole(wire[d]), msg) ELSE Whole(wire[d])
<1> DEFINE d == fdTable[socket]
           v == wire[d] \o [i \in 1 .. n |-> [of |-> msg, part |-> sent + i]]
<1>1. d \in Client /\ wire \in [Client -> Seq(Part)]
  BY SocketOpen DEF IInv, TypeOK
<1>2. sent \in Nat /\ sent + n <= MsgParts /\ msg \in Event \cup {Empty}
  BY PartsBound, SizesAssumption DEF IInv, TypeOK
<1>3. wire'[d] = v /\ \A c \in Client \ {d} : wire'[c] = wire[c]
  BY <1>1 DEF SendAccepts
<1>4. wire[d] \in Seq(Part)
  BY <1>1
<1> HIDE DEF d
<1>5. /\ Extends(v, wire[d]) /\ Len(v) = Len(wire[d]) + n
      /\ \A i \in 1 .. n : v[Len(wire[d]) + i] = [of |-> msg, part |-> sent + i]
  BY <1>2, <1>4, PartsAfter
<1>6. Ends(v) = IF sent + n = Parts(msg) THEN Ends(wire[d]) \cup {Len(v)} ELSE Ends(wire[d])
  BY <1>2, <1>4, EndsAfter
<1> HIDE DEF v
<1>7. v[Len(v)].of = msg /\ Len(v) > Len(wire[d])
  <2>1. v[Len(wire[d]) + n] = [of |-> msg, part |-> sent + n]
    BY <1>5
  <2>2. Len(wire[d]) \in Nat
    BY <1>5 DEF Extends
  <2> QED BY <1>5, <2>1, <2>2
<1>8. CASE sent + n = Parts(msg)
  <2>1. Whole(v) = Append(Whole(wire[d]), msg)
    BY <1>5, <1>6, <1>7, <1>8, WholeGrows
  <2> QED BY <1>1, <1>3, <1>6, <1>8, <2>1 DEF d
<1>9. CASE sent + n # Parts(msg)
  <2>1. Whole(v) = Whole(wire[d])
    BY <1>5, <1>6, <1>9, WholeKept
  <2> QED BY <1>1, <1>3, <1>6, <1>9, <2>1 DEF d
<1> QED BY <1>8, <1>9

\* The snapshot is the last frame that was broadcast before; during a broadcast, the
\* last event of the log is the one that is being sent.
SnapshotIsLast ==
    IF pc \in {"next", "send"}
    THEN log # <<>> /\ msg = log[Len(log)] /\ Feed!LastFrame = NextSnapshot(msg)
    ELSE Feed!LastFrame = m_lastSentFrame

\* The snapshot is the first message of its client.
SnapshotFirst ==
    pc = "snapshot" => msg = m_lastSentFrame /\ Ends(wire[fdTable[socket]]) = {}

\* A client that is not connected yet, or waits in the backlog, has been sent nothing.
NothingSent ==
    \A c \in Client :
        conn[c] = "away" \/ (\E i \in DOMAIN backlog : backlog[i] = c) => wire[c] = <<>>

FeedInv == SnapshotIsLast /\ SnapshotFirst /\ NothingSent

LEMMA InitFeed == Init => FeedInv
<1> SUFFICES ASSUME Init PROVE FeedInv
  OBVIOUS
<1>1. SnapshotIsLast
  BY DEF Init, SnapshotIsLast, Feed!LastFrame
<1>2. SnapshotFirst /\ NothingSent
  BY DEF Init, SnapshotFirst, NothingSent
<1> QED BY <1>1, <1>2 DEF FeedInv

\* The calls of send that a step makes.
LEMMA SendStep ==
    ASSUME IInv, [Next]_vars
    PROVE  \/ UNCHANGED wire
           \/ /\ SendPart
              /\ \E n \in Nat \ {0} : sent + n < Parts(msg) /\ SendAccepts(n)
           \/ /\ SnapshotSent \/ EventSent
              /\ \E n \in Nat \ {0} : sent + n = Parts(msg) /\ SendAccepts(n)
<1> USE DEF IInv
<1>0. sent \in Nat /\ Parts(msg) \in Nat /\ sent < Parts(msg)
  BY PartsBound, SizesAssumption DEF TypeOK, Locals
<1>1. CASE SendPart
  <2>1. PICK n \in 1 .. Parts(msg) - sent - 1 : SendAccepts(n)
    BY <1>1 DEF SendPart
  <2>2. n \in Nat \ {0} /\ sent + n < Parts(msg)
    BY <1>0, <2>1
  <2> QED BY <1>1, <2>1, <2>2
<1>2. CASE SnapshotSent \/ EventSent
  <2> DEFINE n == Parts(msg) - sent
  <2>1. n \in Nat \ {0} /\ sent + n = Parts(msg)
    BY <1>0
  <2>2. SendAccepts(n)
    BY <1>2 DEF SnapshotSent, EventSent
  <2> HIDE DEF n
  <2> QED BY <1>2, <2>1, <2>2
<1>3. CASE \/ EventLoop \/ Select \/ AcceptRefused \/ Accept \/ AcceptFails
           \/ CloseRefused \/ SnapshotFails \/ CheckDeadConnection \/ RemoveDead
           \/ QueueEmpty \/ PopEvent \/ NextSubscriber \/ EventFails \/ EventBroadcast
  BY <1>3 DEF EventLoop, Select, AcceptRefused, Accept, Accepted, AcceptFails, CloseRefused,
              SnapshotFails, CloseNewSocket, CheckDeadConnection, RemoveDead, QueueEmpty, PopEvent, NextSubscriber,
              EventFails, EventBroadcast
<1>4. CASE GameStep \/ ClientMove \/ Finished \/ UNCHANGED vars
  BY <1>4 DEF GameStep, RequestStop, Cleanup, PushEvent, ClientMove, Connect, Request,
              HangUp, Stall, ServerIdle, Finished, vars
<1> QED BY <1>1, <1>2, <1>3, <1>4 DEF Next, NetStep

\* What is sent goes to a client that is connected and has left the backlog.
LEMMA NothingSentStep ==
    ASSUME IInv, FeedInv, [Next]_vars
    PROVE  NothingSent'
<1> USE DEF IInv
<1>1. /\ conn \in [Client -> ConnState] /\ backlog \in Seq(Client)
      /\ fdTable \in [Fds -> Client \cup {NoClient}]
  BY DEF TypeOK
<1>2. \A c \in Client : conn'[c] = "away" => conn[c] = "away"
  <2>1. CASE \/ CloseRefused \/ SnapshotFails \/ CheckDeadConnection \/ EventFails \/ Cleanup
    BY <1>1, <2>1 DEF CloseRefused, SnapshotFails, CloseNewSocket, CheckDeadConnection,
                      RecvData, RecvError, RecvClosed, EventFails, Cleanup, Drop, Close
  <2>2. CASE \/ EventLoop \/ Select \/ AcceptRefused \/ Accept \/ AcceptFails
             \/ SendPart \/ SnapshotSent \/ RemoveDead \/ QueueEmpty \/ PopEvent \/ NextSubscriber \/ EventSent
             \/ EventBroadcast \/ RequestStop \/ (\E type \in Type : PushEvent(type))
             \/ Finished \/ UNCHANGED vars
    BY <2>2 DEF EventLoop, Select, AcceptRefused, Accept, Accepted, AcceptFails, SendPart,
                SnapshotSent, RemoveDead, QueueEmpty, PopEvent, NextSubscriber, EventSent, EventBroadcast, RequestStop,
                PushEvent, Finished, vars, table
  <2>3. CASE ClientMove
    BY <1>1, <2>3 DEF ClientMove, Connect, Request, HangUp, Stall
  <2> QED BY <2>1, <2>2, <2>3 DEF Next, NetStep, GameStep
<1>3. \A i \in DOMAIN backlog' :
         \/ \E j \in DOMAIN backlog : backlog'[i] = backlog[j]
         \/ conn[backlog'[i]] = "away"
  <2>1. CASE AcceptRefused \/ Accept
    <3>1. backlog # <<>> /\ backlog' = Tail(backlog)
      BY <2>1 DEF AcceptRefused, Accept, Accepted
    <3> QED BY <1>1, <3>1, BacklogTail
  <2>2. CASE Cleanup
    BY <2>2 DEF Cleanup
  <2>3. ASSUME NEW c \in Client, Connect(c)
        PROVE  \A i \in DOMAIN backlog' :
                  \/ \E j \in DOMAIN backlog : backlog'[i] = backlog[j]
                  \/ conn[backlog'[i]] = "away"
    <3>1. backlog' = Append(backlog, c) /\ conn[c] = "away"
      BY <2>3 DEF Connect
    <3>2. /\ DOMAIN backlog = 1 .. Len(backlog) /\ DOMAIN backlog' = 1 .. Len(backlog) + 1
          /\ backlog'[Len(backlog) + 1] = c /\ Len(backlog) \in Nat
          /\ \A i \in 1 .. Len(backlog) : backlog'[i] = backlog[i]
      BY <1>1, <3>1, AppendPlaces
    <3> QED BY <3>1, <3>2
  <2>4. ASSUME NEW c \in Client, Request(c) \/ HangUp(c) \/ Stall(c)
        PROVE  UNCHANGED backlog
    BY <2>4 DEF Request, HangUp, Stall
  <2>5. CASE \/ EventLoop \/ Select \/ AcceptFails \/ SendPart \/ SnapshotSent
             \/ CloseRefused \/ SnapshotFails \/ CheckDeadConnection
             \/ RemoveDead \/ QueueEmpty \/ PopEvent \/ NextSubscriber \/ EventSent
             \/ EventFails \/ EventBroadcast \/ RequestStop
             \/ (\E type \in Type : PushEvent(type)) \/ Finished \/ UNCHANGED vars
    BY <2>5 DEF EventLoop, Select, AcceptFails, SendPart, SnapshotSent, CloseRefused,
                SnapshotFails, CloseNewSocket, CheckDeadConnection, RemoveDead, QueueEmpty, PopEvent, NextSubscriber,
                EventSent, EventFails, EventBroadcast, RequestStop, PushEvent, Finished,
                vars, peers
  <2> QED BY <2>1, <2>2, <2>3, <2>4, <2>5 DEF Next, NetStep, GameStep, ClientMove
<1>4. \A c \in Client :
         conn[c] = "away" \/ (\E i \in DOMAIN backlog : backlog[i] = c)
         => wire'[c] = wire[c]
  <2> SUFFICES ASSUME ~ UNCHANGED wire,
                      NEW c \in Client,
                      conn[c] = "away" \/ (\E i \in DOMAIN backlog : backlog[i] = c)
               PROVE  wire'[c] = wire[c]
    OBVIOUS
  <2>1. PICK n \in Nat \ {0} : sent + n <= Parts(msg) /\ SendAccepts(n)
    <3>1. sent \in Nat /\ Parts(msg) \in Nat
      BY PartsBound, SizesAssumption DEF TypeOK
    <3>2. CASE \E n \in Nat \ {0} : sent + n < Parts(msg) /\ SendAccepts(n)
      BY <3>1, <3>2
    <3>3. CASE \E n \in Nat \ {0} : sent + n = Parts(msg) /\ SendAccepts(n)
      BY <3>1, <3>3
    <3> QED BY <3>2, <3>3, SendStep
  <2>2. pc \in {"snapshot", "send"}
    BY SendStep DEF SendPart, SnapshotSent, EventSent
  <2>3. fdTable[socket] # c
    <3>1. socket \in OpenFds
      BY <2>2, SocketOpen DEF OpenFds, FreeFds, IsOpen
    <3>2. conn[fdTable[socket]] # "away"
      BY <3>1 DEF Placed, Live
    <3> QED BY <3>1, <3>2 DEF Placed, OpenFds
  <2> QED BY <2>1, <2>2, <2>3, PartsAdded
<1> QED BY <1>2, <1>3, <1>4 DEF FeedInv, NothingSent

\* The snapshot follows the log.
LEMMA SnapshotIsLastStep ==
    ASSUME IInv, FeedInv, [Next]_vars
    PROVE  SnapshotIsLast'
<1>1. SnapshotIsLast
  BY DEF FeedInv
<1>2. UNCHANGED log => Feed!LastFrame' = Feed!LastFrame
  BY DEF Feed!LastFrame
<1>3. CASE \/ EventLoop \/ Select \/ AcceptRefused \/ Accept \/ AcceptFails \/ SnapshotSent
           \/ CloseRefused \/ SnapshotFails \/ CheckDeadConnection \/ RemoveDead
           \/ QueueEmpty \/ Cleanup
  <2>1. UNCHANGED <<log, m_lastSentFrame>>
    BY <1>3 DEF EventLoop, Select, AcceptRefused, Accept, Accepted, AcceptFails,
                SnapshotSent, CloseRefused, SnapshotFails, CloseNewSocket, CheckDeadConnection, RemoveDead, QueueEmpty, Cleanup,
                members, gameVars
  <2>2. pc \notin {"next", "send"} /\ pc' \notin {"next", "send"}
    BY <1>3 DEF EventLoop, Select, CheckDead, AcceptRefused, Accept, Accepted, AcceptFails,
                SnapshotSent, CloseRefused, SnapshotFails, CloseNewSocket, CheckDeadConnection, RemoveDead, QueueEmpty,
                Cleanup
  <2> QED BY <1>1, <1>2, <2>1, <2>2 DEF SnapshotIsLast
<1>4. CASE NextSubscriber \/ EventSent \/ EventFails
  <2>1. UNCHANGED <<log, m_lastSentFrame, msg>>
    BY <1>4 DEF NextSubscriber, EventSent, EventFails, members, gameVars
  <2>2. pc \in {"next", "send"} /\ pc' \in {"next", "send"}
    BY <1>4 DEF NextSubscriber, EventSent, EventFails
  <2> QED BY <1>1, <1>2, <2>1, <2>2 DEF SnapshotIsLast, NextSnapshot
<1>5. CASE \/ SendPart \/ RequestStop \/ (\E type \in Type : PushEvent(type)) \/ ClientMove
           \/ Finished \/ UNCHANGED vars
  <2>1. UNCHANGED <<log, m_lastSentFrame, msg, pc>>
    BY <1>5 DEF SendPart, RequestStop, PushEvent, Queue!Push, ClientMove, Connect, Request,
                HangUp, Stall, ServerIdle, Finished, vars, members, call, gameVars
  <2> QED BY <1>1, <1>2, <2>1 DEF SnapshotIsLast, NextSnapshot
<1>6. CASE PopEvent
  <2> DEFINE e == Head(m_serializedEvents)
  <2>1. /\ pc = "queue" /\ pc' = "next" /\ UNCHANGED m_lastSentFrame
        /\ m_serializedEvents # <<>> /\ log' = Append(log, e) /\ msg' = e
    BY <1>6 DEF PopEvent, Queue!Pop, members
  <2>2. e \in Event /\ log \in Seq(Event)
    BY <2>1 DEF IInv, TypeOK
  <2> HIDE DEF e
  <2>3. log' # <<>> /\ log'[Len(log')] = e
    BY <2>1, <2>2, AppendPlaces
  <2>4. Feed!LastFrame' = IF e.type = "frame" THEN e ELSE m_lastSentFrame
    BY <1>1, <2>1, <2>2, LastFrameGrows DEF SnapshotIsLast
  <2> QED BY <2>1, <2>3, <2>4 DEF SnapshotIsLast, NextSnapshot
<1>7. CASE EventBroadcast
  <2>1. /\ pc = "next" /\ pc' = "queue" /\ UNCHANGED log
        /\ m_lastSentFrame' = NextSnapshot(msg)
    BY <1>7 DEF EventBroadcast, gameVars
  <2> QED BY <1>1, <1>2, <2>1 DEF SnapshotIsLast
<1> QED BY <1>3, <1>4, <1>5, <1>6, <1>7 DEF Next, NetStep, GameStep

\* No message reaches the client of the snapshot before it.
LEMMA SnapshotFirstStep ==
    ASSUME IInv, FeedInv, [Next]_vars
    PROVE  SnapshotFirst'
<1>1. SnapshotFirst /\ NothingSent
  BY DEF FeedInv
<1>2. CASE Accept
  <2>1. PICK s \in Fds : fdTable' = [fdTable EXCEPT ![s] = Head(backlog)] /\ socket' = s
    BY <1>2 DEF Accept, Accepted, FreeFds
  <2>2. UNCHANGED <<wire, m_lastSentFrame>> /\ msg' = m_lastSentFrame /\ backlog # <<>>
    BY <1>2 DEF Accept, Accepted, members
  <2>3. fdTable'[socket'] = Head(backlog)
    BY <2>1 DEF IInv, TypeOK
  <2>4. Head(backlog) \in Client /\ 1 \in DOMAIN backlog /\ backlog[1] = Head(backlog)
    BY <2>2, BacklogTyped, BacklogTail DEF IInv, TypeOK
  <2>5. wire[Head(backlog)] = <<>>
    BY <1>1, <2>4 DEF NothingSent
  <2>6. Ends(<<>>) = {}
    BY DEF Ends
  <2> QED BY <2>2, <2>3, <2>5, <2>6 DEF SnapshotFirst
<1>3. CASE SendPart
  <2>1. UNCHANGED <<pc, fdTable, socket, msg, m_lastSentFrame>> /\ pc \in {"snapshot", "send"}
    BY <1>3 DEF SendPart, members, table
  <2>2. CASE UNCHANGED wire
    BY <1>1, <2>1, <2>2 DEF SnapshotFirst
  <2>3. ASSUME NEW n \in Nat \ {0}, sent + n < Parts(msg), SendAccepts(n)
        PROVE  SnapshotFirst'
    <3>1. sent + n <= Parts(msg) /\ sent + n # Parts(msg)
      BY <2>3, PartsBound, SizesAssumption DEF IInv, TypeOK
    <3>2. Ends(wire'[fdTable[socket]]) = Ends(wire[fdTable[socket]])
      BY <2>1, <2>3, <3>1, PartsAdded
    <3> QED BY <1>1, <2>1, <3>2 DEF SnapshotFirst
  <2>4. ~(SnapshotSent \/ EventSent)
    BY <2>1 DEF SnapshotSent, EventSent, CheckDead
  <2> QED BY <2>2, <2>3, <2>4, SendStep
<1>4. CASE \/ RequestStop \/ (\E type \in Type : PushEvent(type)) \/ ClientMove
           \/ Finished \/ UNCHANGED vars
  <2>1. UNCHANGED <<pc, fdTable, socket, msg, m_lastSentFrame, wire>>
    BY <1>4 DEF RequestStop, PushEvent, ClientMove, Connect, Request,
                HangUp, Stall, ServerIdle, Finished, vars, members, call, table
  <2> QED BY <1>1, <2>1 DEF SnapshotFirst
<1>5. CASE \/ EventLoop \/ Select \/ AcceptRefused \/ AcceptFails \/ SnapshotSent
           \/ CloseRefused \/ SnapshotFails \/ CheckDeadConnection \/ RemoveDead
           \/ QueueEmpty \/ PopEvent
           \/ NextSubscriber \/ EventSent \/ EventFails \/ EventBroadcast \/ Cleanup
  <2>1. pc' # "snapshot"
    BY <1>5 DEF EventLoop, Select, CheckDead, AcceptRefused, AcceptFails, SnapshotSent,
                CloseRefused, SnapshotFails, CloseNewSocket, CheckDeadConnection, RemoveDead,
                QueueEmpty, PopEvent, NextSubscriber, EventSent, EventFails, EventBroadcast,
                Cleanup
  <2> QED BY <2>1 DEF SnapshotFirst
<1> QED BY <1>2, <1>3, <1>4, <1>5 DEF Next, NetStep, GameStep

LEMMA FeedInvStep == IInv /\ FeedInv /\ [Next]_vars => FeedInv'
BY SnapshotIsLastStep, SnapshotFirstStep, NothingSentStep DEF FeedInv

\* The subscribers that are still connected, and those whose turn is still to come.
Served == m_subscribers \ deadSockets
Turn == IF pc \in {"next", "send"} THEN todo ELSE {}

\* The same for the clients behind them.
ServedClient(c) == \E s \in Served : fdTable[s] = c
TurnOf(c) == \E s \in Turn : fdTable[s] = c

LEMMA OwedIs ==
    \A c : Owed(c) = IF ServedClient(c)
                     THEN IF TurnOf(c) THEN Len(log) ELSE Len(log) + 1
                     ELSE 0
BY DEF Owed, Served, Turn, ServedClient, TurnOf

\* A client is behind one descriptor at most.
LEMMA OneDescriptor ==
    ASSUME IInv
    PROVE  /\ Served \subseteq OpenFds /\ Turn \subseteq Served
           /\ \A s, t \in OpenFds : fdTable[s] = fdTable[t] => s = t
           /\ \A s \in OpenFds : s \in Fds /\ fdTable[s] \in Client
BY TrackedOpen DEF IInv, TypeOK, Locals, DescriptorsTracked, Tracked, Served, Turn, OpenFds,
                   FreeFds

\* What the clients are owed does not depend on the other descriptors.
LEMMA OwedKept ==
    ASSUME IInv, UNCHANGED <<log, Served, Turn>>,
           \A s \in Served : fdTable'[s] = fdTable[s]
    PROVE  \A c : Owed(c)' = Owed(c)
<1>1. ASSUME NEW c PROVE ServedClient(c)' <=> ServedClient(c)
  BY DEF ServedClient
<1>2. ASSUME NEW c PROVE TurnOf(c)' <=> TurnOf(c)
  BY OneDescriptor DEF TurnOf
<1>3. ASSUME NEW c
      PROVE  Owed(c)' = IF ServedClient(c)'
                        THEN IF TurnOf(c)' THEN Len(log') ELSE Len(log') + 1 ELSE 0
  BY DEF Owed, Served, Turn, ServedClient, TurnOf
<1> QED BY <1>1, <1>2, <1>3, OwedIs

LEMMA FeedStutters ==
    ASSUME UNCHANGED <<log, wire>>, \A c \in Client : Owed(c)' = Owed(c)
    PROVE  UNCHANGED Feed!vars
BY DEF Feed!vars, Received

\* One descriptor is dropped, or all of them.
LEMMA FeedLeaves ==
    ASSUME IInv, UNCHANGED <<log, wire>>, NEW C \in SUBSET Client,
           \A c \in Client : Owed(c)' = IF c \in C THEN 0 ELSE Owed(c)
    PROVE  Feed!Next
<1>1. Feed!Leave(C)
  BY DEF Feed!Leave, Received
<1> QED BY <1>1 DEF Feed!Next

\* A subscriber that is dropped is owed nothing any more, the others what they were.
LEMMA DropLeaves ==
    ASSUME IInv, NEW s \in Served, Drop(s), UNCHANGED <<log, wire, m_subscribers>>,
           \/ UNCHANGED pc /\ pc = "recv"
           \/ pc = "send" /\ pc' = "next" /\ todo' = todo \ {s}
    PROVE  Feed!Next
<1> DEFINE d == fdTable[s]
<1>1. /\ s \in Fds /\ d \in Client /\ Served \subseteq OpenFds /\ Turn \subseteq Served
      /\ fdTable \in [Fds -> Client \cup {NoClient}] /\ OpenFds \subseteq Fds
      /\ \A t \in OpenFds : fdTable[t] = d => t = s
  BY OneDescriptor DEF IInv, TypeOK
<1>2. Served' = Served \ {s} /\ Turn' = Turn \ {s}
  BY DEF Served, Turn, Drop
<1>3. \A t \in Served \ {s} : fdTable'[t] = fdTable[t]
  BY <1>1 DEF Drop, Close
<1> HIDE DEF d
<1>4. ASSUME NEW c \in Client PROVE Owed(c)' = IF c \in {d} THEN 0 ELSE Owed(c)
  <2>1. ServedClient(c)' <=> ServedClient(c) /\ c # d
    BY <1>1, <1>2, <1>3 DEF ServedClient, d
  <2>2. c # d => (TurnOf(c)' <=> TurnOf(c))
    BY <1>1, <1>2, <1>3 DEF TurnOf, d
  <2>3. Owed(c)' = IF ServedClient(c)'
                   THEN IF TurnOf(c)' THEN Len(log') ELSE Len(log') + 1 ELSE 0
    BY DEF Owed, Served, Turn, ServedClient, TurnOf
  <2> QED BY <2>1, <2>2, <2>3, OwedIs
<1> QED BY <1>1, <1>4, FeedLeaves

\* Every step is one of TelemetryFeed, or none.
LEMMA FeedStep == IInv /\ FeedInv /\ [Next]_vars => [Feed!Next]_(Feed!vars)
<1> SUFFICES ASSUME IInv, FeedInv, [Next]_vars
             PROVE  Feed!Next \/ UNCHANGED Feed!vars
  OBVIOUS
<1>1. CASE \/ EventLoop \/ SendPart \/ NextSubscriber \/ QueueEmpty \/ RequestStop
           \/ (\E type \in Type : PushEvent(type)) \/ ClientMove \/ Finished \/ UNCHANGED vars
  <2>1. UNCHANGED <<log, Served, Turn, fdTable>>
    BY <1>1 DEF EventLoop, SendPart, NextSubscriber, QueueEmpty, RequestStop, PushEvent,
                Queue!Push, ClientMove, Connect, Request, HangUp, Stall, ServerIdle, Finished,
                vars, members, visit, call, table, gameVars, Served, Turn
  <2>2. \A c \in Client : Received(c)' = Received(c)
    <3>1. CASE UNCHANGED wire
      BY <3>1 DEF Received
    <3>2. ASSUME NEW n \in Nat \ {0}, sent + n < Parts(msg), SendAccepts(n), SendPart
          PROVE  \A c \in Client : Received(c)' = Received(c)
      <4>1. sent + n <= Parts(msg) /\ sent + n # Parts(msg)
        BY <3>2, PartsBound, SizesAssumption DEF IInv, TypeOK
      <4>2. pc \in {"snapshot", "send"}
        BY <3>2 DEF SendPart
      <4>3. /\ \A c \in Client \ {fdTable[socket]} : wire'[c] = wire[c]
            /\ Whole(wire'[fdTable[socket]]) = Whole(wire[fdTable[socket]])
        BY <3>2, <4>1, <4>2, PartsAdded
      <4> QED BY <4>3 DEF Received
    <3>3. ~(SnapshotSent \/ EventSent)
      BY <1>1 DEF SnapshotSent, EventSent, CheckDead, EventLoop, SendPart, NextSubscriber,
                  QueueEmpty, RequestStop, PushEvent, ClientMove, Connect, Request, HangUp,
                  Stall, ServerIdle, Finished, vars
    <3> QED BY <3>1, <3>2, <3>3, SendStep
  <2>3. \A c \in Client : Owed(c)' = Owed(c)
    BY <2>1, OwedKept
  <2> QED BY <2>1, <2>2, <2>3 DEF Feed!vars
<1>2. CASE \/ Select \/ AcceptRefused \/ CloseRefused \/ Accept \/ AcceptFails
           \/ SnapshotFails \/ RemoveDead \/ EventBroadcast
  <2>1. UNCHANGED <<log, wire>>
    BY <1>2 DEF Select, AcceptRefused, CloseRefused, Accept, Accepted, AcceptFails,
                SnapshotFails, CloseNewSocket, CheckDead, RemoveDead,
                EventBroadcast, gameVars
  <2>2. Turn' = Turn
    BY <1>2 DEF Select, CheckDead, AcceptRefused, CloseRefused, Accept, Accepted,
                AcceptFails, SnapshotFails, CloseNewSocket,
                RemoveDead, EventBroadcast, Turn
  <2>3. Served' = Served
    BY <1>2 DEF Select, CheckDead, AcceptRefused, CloseRefused, Accept, Accepted,
                AcceptFails, SnapshotFails, CloseNewSocket,
                RemoveDead, EventBroadcast, Survivors, members, visit, Served, IInv, Locals
  <2>4. \A s \in Served : fdTable'[s] = fdTable[s]
    <3>1. CASE Select \/ AcceptFails \/ RemoveDead \/ EventBroadcast
      BY <3>1 DEF Select, AcceptFails, RemoveDead, EventBroadcast, table
    <3>2. ASSUME NEW t \in Fds \ Served, NEW x, fdTable' = [fdTable EXCEPT ![t] = x]
          PROVE  \A s \in Served : fdTable'[s] = fdTable[s]
      BY <3>2, OneDescriptor DEF IInv, TypeOK
    <3>3. CASE AcceptRefused \/ Accept
      BY <3>2, <3>3, OneDescriptor DEF AcceptRefused, Accept, Accepted, FreeFds, OpenFds
    <3>4. CASE CloseRefused \/ SnapshotFails
      <4>1. /\ pc \in {"refuse", "snapshot"}
            /\ fdTable' = [fdTable EXCEPT ![socket] = NoClient]
        BY <3>4 DEF CloseRefused, SnapshotFails, CloseNewSocket, Close
      <4>2. socket \in Fds \ Served
        BY <4>1, SocketOpen DEF IInv, DescriptorsTracked, Served
      <4> QED BY <3>2, <4>1, <4>2
    <3> QED BY <1>2, <3>1, <3>3, <3>4
  <2> QED BY <2>1, <2>2, <2>3, <2>4, OwedKept, FeedStutters
<1>3. CASE CheckDeadConnection
  <2>1. PICK s \in todo : RecvData(s) \/ RecvError(s) \/ RecvClosed(s)
    BY <1>3 DEF CheckDeadConnection
  <2>2. /\ UNCHANGED <<log, wire, m_subscribers, pc>> /\ pc = "recv"
    BY <1>3 DEF CheckDeadConnection, members, gameVars
  <2>3. s \in Served
    BY <2>2 DEF IInv, Locals, Served
  <2>4. CASE RecvData(s) \/ RecvError(s)
    <3>1. UNCHANGED <<log, Served, Turn, fdTable>>
      BY <2>2, <2>4 DEF RecvData, RecvError, Served, Turn
    <3> QED BY <2>2, <3>1, OwedKept, FeedStutters
  <2>5. CASE RecvClosed(s)
    BY <2>2, <2>3, <2>5, DropLeaves DEF RecvClosed
  <2> QED BY <2>1, <2>4, <2>5
<1>4. CASE EventFails
  <2>1. /\ UNCHANGED <<log, wire, m_subscribers>> /\ Drop(socket)
        /\ pc = "send" /\ pc' = "next" /\ todo' = todo \ {socket}
    BY <1>4 DEF EventFails, members, gameVars
  <2>2. socket \in Served
    BY <2>1 DEF IInv, Locals, Served
  <2> QED BY <2>1, <2>2, DropLeaves
<1>5. CASE PopEvent
  <2> DEFINE e == Head(m_serializedEvents)
  <2>1. /\ pc = "queue" /\ pc' = "next" /\ todo' = m_subscribers
        /\ UNCHANGED <<wire, fdTable, m_subscribers, deadSockets>>
        /\ m_serializedEvents # <<>> /\ log' = Append(log, e)
    BY <1>5 DEF PopEvent, Queue!Pop, members, table
  <2>2. e \in Event /\ log \in Seq(Event)
    BY <2>1 DEF IInv, TypeOK
  <2> HIDE DEF e
  <2>3. Len(log') = Len(log) + 1
    BY <2>1, <2>2, AppendPlaces
  <2>4. Served' = Served /\ Turn = {} /\ Turn' = Served
    BY <2>1 DEF IInv, Locals, Served, Turn
  <2>5. ASSUME NEW c \in Client PROVE Owed(c)' = Owed(c)
    <3>1. /\ ServedClient(c)' <=> ServedClient(c)
          /\ TurnOf(c)' <=> ServedClient(c)
          /\ ~TurnOf(c)
      BY <2>1, <2>4 DEF ServedClient, TurnOf
    <3>2. Owed(c)' = IF ServedClient(c)'
                     THEN IF TurnOf(c)' THEN Len(log') ELSE Len(log') + 1 ELSE 0
      BY DEF Owed, Served, Turn, ServedClient, TurnOf
    <3> QED BY <2>3, <3>1, <3>2, OwedIs
  <2>6. Feed!Publish(e)
    BY <2>1, <2>5 DEF Feed!Publish, Received
  <2> QED BY <2>2, <2>6 DEF Feed!Next
<1>6. CASE SnapshotSent
  <2> DEFINE d == fdTable[socket]
  <2>1. /\ pc = "snapshot" /\ pc' = "recv" /\ UNCHANGED <<log, fdTable>>
        /\ m_subscribers' = m_subscribers \cup {socket} /\ deadSockets' = {}
    BY <1>6 DEF SnapshotSent, CheckDead, table, gameVars
  <2>2. PICK n \in Nat \ {0} : sent + n = Parts(msg) /\ SendAccepts(n)
    <3> DEFINE n == Parts(msg) - sent
    <3>1. n \in Nat \ {0} /\ sent + n = Parts(msg)
      BY PartsBound, SizesAssumption DEF IInv, TypeOK, Locals
    <3>2. SendAccepts(n)
      BY <1>6 DEF SnapshotSent
    <3> HIDE DEF n
    <3> QED BY <3>1, <3>2
  <2>3. sent + n <= Parts(msg)
    BY <2>2, PartsBound, SizesAssumption
  <2>4. /\ d \in Client /\ \A c \in Client \ {d} : wire'[c] = wire[c]
        /\ Whole(wire'[d]) = Append(Whole(wire[d]), msg)
    BY <2>1, <2>2, <2>3, PartsAdded
  <2>5. msg = Feed!LastFrame /\ Ends(wire[d]) = {}
    BY <2>1 DEF FeedInv, SnapshotFirst, SnapshotIsLast
  <2>6. Whole(wire[d]) = <<>>
    BY <2>5, FS_EmptySet DEF Whole
  <2>7. /\ socket \in OpenFds /\ socket \notin Served
        /\ Served' = Served \cup {socket} /\ Turn = {} /\ Turn' = {}
    BY <2>1, SocketOpen DEF IInv, Locals, DescriptorsTracked, Served, Turn, OpenFds, FreeFds,
                            IsOpen
  <2> HIDE DEF d
  <2>8. ~ServedClient(d)
    BY <2>7, OneDescriptor DEF ServedClient, d
  <2>9. ASSUME NEW c \in Client
        PROVE  Owed(c)' = IF c = d THEN Len(log) + 1 ELSE Owed(c)
    <3>1. /\ ServedClient(c)' <=> ServedClient(c) \/ c = d
          /\ ~TurnOf(c) /\ ~TurnOf(c)'
      BY <2>1, <2>7 DEF ServedClient, TurnOf, d
    <3>2. Owed(c)' = IF ServedClient(c)'
                     THEN IF TurnOf(c)' THEN Len(log') ELSE Len(log') + 1 ELSE 0
      BY DEF Owed, Served, Turn, ServedClient, TurnOf
    <3> QED BY <2>1, <3>1, <3>2, OwedIs
  <2>10. Owed(d) = 0
    BY <2>8, OwedIs
  <2>11. Whole(wire'[d]) = <<Feed!LastFrame>> /\ Received(d) = <<>>
    <3>1. \A x : Append(<<>>, x) = <<x>>
      OBVIOUS
    <3> QED BY <2>4, <2>5, <2>6, <3>1 DEF Received
  <2>12. Feed!Join(d)
    BY <2>1, <2>4, <2>9, <2>10, <2>11 DEF Feed!Join, Received
  <2> QED BY <2>4, <2>12 DEF Feed!Next
<1>7. CASE EventSent
  <2> DEFINE d == fdTable[socket]
  <2>1. /\ pc = "send" /\ pc' = "next" /\ UNCHANGED <<log, fdTable, m_subscribers, deadSockets>>
        /\ todo' = todo \ {socket}
    BY <1>7 DEF EventSent, members, table, gameVars
  <2>2. PICK n \in Nat \ {0} : sent + n = Parts(msg) /\ SendAccepts(n)
    <3> DEFINE n == Parts(msg) - sent
    <3>1. n \in Nat \ {0} /\ sent + n = Parts(msg)
      BY PartsBound, SizesAssumption DEF IInv, TypeOK, Locals
    <3>2. SendAccepts(n)
      BY <1>7 DEF EventSent
    <3> HIDE DEF n
    <3> QED BY <3>1, <3>2
  <2>3. sent + n <= Parts(msg)
    BY <2>2, PartsBound, SizesAssumption
  <2>4. /\ d \in Client /\ \A c \in Client \ {d} : wire'[c] = wire[c]
        /\ Whole(wire'[d]) = Append(Whole(wire[d]), msg)
    BY <2>1, <2>2, <2>3, PartsAdded
  <2>5. log # <<>> /\ msg = log[Len(log)] /\ log \in Seq(Event)
    BY <2>1 DEF FeedInv, SnapshotIsLast, IInv, TypeOK
  <2>6. /\ socket \in Served /\ socket \in Turn /\ Served' = Served /\ Turn' = Turn \ {socket}
    BY <2>1 DEF IInv, Locals, Served, Turn
  <2> HIDE DEF d
  <2>7. ASSUME NEW c \in Client
        PROVE  Owed(c)' = IF c = d THEN Len(log) + 1 ELSE Owed(c)
    <3>1. /\ ServedClient(c)' <=> ServedClient(c)
          /\ TurnOf(c)' <=> TurnOf(c) /\ c # d
      BY <2>1, <2>6, OneDescriptor DEF ServedClient, TurnOf, d
    <3>2. ServedClient(d)
      BY <2>6 DEF ServedClient, d
    <3>3. Owed(c)' = IF ServedClient(c)'
                     THEN IF TurnOf(c)' THEN Len(log') ELSE Len(log') + 1 ELSE 0
      BY DEF Owed, Served, Turn, ServedClient, TurnOf
    <3> QED BY <2>1, <3>1, <3>2, <3>3, OwedIs
  <2>8. Owed(d) = Len(log)
    <3>1. ServedClient(d) /\ TurnOf(d)
      BY <2>6 DEF ServedClient, TurnOf, d
    <3> QED BY <3>1, OwedIs
  <2>9. Len(log) \in 1 .. Len(log)
    BY <2>5
  <2>10. Feed!Deliver(d)
    BY <2>1, <2>4, <2>5, <2>7, <2>8, <2>9 DEF Feed!Deliver, Received
  <2> QED BY <2>4, <2>10 DEF Feed!Next
<1>8. CASE Cleanup
  <2>1. UNCHANGED <<log, wire>> /\ m_subscribers' = {}
    BY <1>8 DEF Cleanup, gameVars
  <2>2. ASSUME NEW c \in Client PROVE Owed(c)' = IF c \in Client THEN 0 ELSE Owed(c)
    BY <2>1 DEF Owed
  <2> QED BY <2>1, <2>2, FeedLeaves
<1> QED BY <1>1, <1>2, <1>3, <1>4, <1>5, <1>6, <1>7, <1>8 DEF Next, NetStep, GameStep

\* ImplementsFeed: every client is sent the last frame of the past and then every event,
\* whole, in order and without a gap or a repetition, whoever else connects, stalls or is
\* dropped meanwhile (newConnection, checkQueue, sendMessage and checkDeadConnections).
THEOREM RefinesFeed == Spec => ImplementsFeed
<1>1. Init => Feed!Init
  <2> SUFFICES ASSUME Init PROVE Feed!Init
    OBVIOUS
  <2>1. \A c \in Client : Owed(c) = 0
    BY DEF Init, Owed
  <2>2. Ends(<<>>) = {}
    BY DEF Ends
  <2>3. Whole(<<>>) = <<>>
    BY <2>2, FS_EmptySet DEF Whole
  <2>4. \A c \in Client : Received(c) = <<>>
    BY <2>3 DEF Init, Received
  <2> QED BY <2>1, <2>4 DEF Init, Feed!Init
<1> QED BY <1>1, InitFeed, FeedInvStep, FeedStep, Invariance, PTL
        DEF Spec, ImplementsFeed, Feed!Spec
=============================================================================
