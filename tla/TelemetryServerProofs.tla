----------------------- MODULE TelemetryServerProofs -----------------------
(***************************************************************************)
(* Proofs about TelemetryServer for every set of games, of registrations   *)
(* that are followed and of gameplay events, every range of values, every  *)
(* number of failed initializations and every length of the queue.         *)
(*                                                                         *)
(* The invariant has four parts beside the types.  Lifecycle relates what  *)
(* the library has (pointers, thread, objects, sockets) to what the game   *)
(* is about to do.  PauseInv and Mirror relate telemetryData to what the   *)
(* game has told in this session, and Pushed the last frame to             *)
(* telemetryData.                                                          *)
(*                                                                         *)
(* The tables are constants, and what holds of them needs no invariant:    *)
(* every line is one the game accepts, unless it is without that channel,  *)
(* and leads to the member its store takes it for, no two lines share a    *)
(* channel or a member, and together they lead to all the members but two, *)
(* for arrays of any size.                                                 *)
(***************************************************************************)
EXTENDS TelemetryServer, PushedFramesProofs

\* The game has initialized the plugin, and has not finished with it.
Using == Callbacks \cup {"stopping"}

\* What the library has, between any two steps.
Lifecycle ==
    /\ InSession => thread \in Running /\ ~stop_requested
    /\ host = "stopping" => thread \in Running \cup {"ended"}
    /\ host \in Using => serializer /\ networkThread /\ m_instance = "alive"
    /\ host \notin Using => ~networkThread /\ thread = "none"
    /\ m_instance # "freed" /\ host # "hung"
    /\ m_instance = "alive" => sockets > 0
    /\ serializers = failures + (IF host \in Using THEN 1 ELSE 0)
    /\ sockets <= failures + (IF host \in Using THEN 1 ELSE 0)

-----------------------------------------------------------------------------
(* The actions, sorted by what they may disturb *)

\* A callback: the game stays in the session, and the library keeps what it has.
CallbackStep ==
    \/ \E used \in BOOLEAN : telemetry_configuration(used)
    \/ telemetry_pause \/ telemetry_frame_start
    \/ \E event \in Events : telemetry_gameplay(event)
    \/ \E r \in Watched : channel_wrapper(r)
    \/ telemetry_frame_end

\* An initialization that does not succeed.
FailStep ==
    \/ EventsRefused \/ ThreadRefused
    \/ \E call \in {"socket", "setsockopt", "bind", "listen"} : ConstructorThrows(call)

LEMMA CallbackKeeps ==
    ASSUME CallbackStep \/ ValueChanges
    PROVE  /\ InSession /\ InSession'
           /\ UNCHANGED <<pointers, network, process, game, version>>
<1>1. CASE \E used \in BOOLEAN : telemetry_configuration(used)
  BY <1>1 DEF telemetry_configuration, InSession, Callbacks, callback
<1>2. CASE telemetry_pause
  BY <1>2 DEF telemetry_pause, InSession, Callbacks, callback
<1>3. CASE telemetry_frame_start
  BY <1>3 DEF telemetry_frame_start, InSession, Callbacks, callback
<1>4. CASE \E event \in Events : telemetry_gameplay(event)
  BY <1>4 DEF telemetry_gameplay, InSession, Callbacks, callback
<1>5. CASE \E r \in Watched : channel_wrapper(r)
  BY <1>5 DEF channel_wrapper, InSession, Callbacks, callback
<1>6. CASE telemetry_frame_end
  BY <1>6 DEF telemetry_frame_end, InSession, Callbacks, callback
<1>7. CASE ValueChanges
  BY <1>7 DEF ValueChanges, InSession, Callbacks, callback
<1> QED BY <1>1, <1>2, <1>3, <1>4, <1>5, <1>6, <1>7 DEF CallbackStep

-----------------------------------------------------------------------------
(* Lifecycle *)

LEMMA InitLifecycle == Init => Lifecycle
BY DEF Init, Lifecycle, Using, InSession, Callbacks

LEMMA StepLifecycle ==
    ASSUME TypeOK, Lifecycle, [Next]_vars
    PROVE  Lifecycle'
<1> USE DEF Lifecycle, Using, Running, InSession, Callbacks
<1>0. failures \in Nat /\ sockets \in Nat /\ serializers \in Nat /\ serializer \in BOOLEAN
      /\ m_instance \in {"null", "alive", "freed"}
  BY BoundsAssumption DEF TypeOK
<1>1. CASE UNCHANGED vars \/ TakeEvent \/ QueueEmpty
  BY <1>1 DEF vars, TakeEvent, QueueEmpty, serving, pointers, network, process
<1>2. CASE Start
  BY <1>2 DEF Start, pointers, network, process
<1>3. CASE InitUnsupported
  BY <1>3 DEF InitUnsupported, pointers, network, process
<1>4. CASE EventsRefused
  BY <1>0, <1>4 DEF EventsRefused, NewSerializer, InitFails, network
<1>5. CASE ThreadRefused
  BY <1>0, <1>5 DEF ThreadRefused, NewSerializer, InitFails, Listening, network
<1>6. ASSUME NEW call \in {"socket", "setsockopt", "bind", "listen"}, ConstructorThrows(call)
      PROVE  Lifecycle'
  BY <1>0, <1>6 DEF ConstructorThrows, NewSerializer, InitFails, network
<1>7. ASSUME NEW A \in SUBSET Watched, InitOk(A)
      PROVE  Lifecycle'
  BY <1>0, <1>7 DEF InitOk, NewSerializer, Listening
<1>8. CASE CallbackStep \/ ValueChanges
  BY <1>8, CallbackKeeps DEF pointers, network, process
<1>9. CASE LoopTest
  BY <1>9 DEF LoopTest, serving, pointers, process
<1>10. CASE Shutdown
  BY <1>10 DEF Shutdown, pointers, process
<1>11. CASE Joined
  BY <1>0, <1>11 DEF Joined, NetworkThreadAfter, InstanceAfter, SocketsAfter
<1>12. CASE Unload
  BY <1>0, <1>12 DEF Unload, Loaded
<1>13. CASE Restart
  BY <1>13 DEF Restart, Loaded
<1> QED
  BY <1>1, <1>2, <1>3, <1>4, <1>5, <1>6, <1>7, <1>8, <1>9, <1>10, <1>11, <1>12, <1>13
  DEF Next, EventLoop, CallbackStep

-----------------------------------------------------------------------------
(* Types *)

LEMMA StoredTyped ==
    ASSUME NEW type, NEW v \in Nat
    PROVE  Stored(type, v) \in Content
BY DEF Stored, Copied, Content

LEMMA WrittenTyped ==
    ASSUME TypeOK, NEW r \in Watched, value[r] # NoValue
    PROVE  Written(r) \in Content
<1>1. value[r] \in Nat
  BY BoundsAssumption DEF TypeOK, Value
<1>2. telemetryData.members[r.member] \in Content
  BY DEF TypeOK, Data, Members
<1>3. Stored(r.type, value[r]) \in Content
  BY <1>1, StoredTyped
<1> QED BY <1>1, <1>2, <1>3 DEF Written, Content

LEMMA FreshTyped ==
    /\ Fresh \in Data
    /\ <<>> \in Seq(QueueEvent)
    /\ [r \in Watched |-> 0] \in [Watched -> Value \cup {NoValue}]
    /\ [r \in Watched |-> NoValue] \in [Watched -> Value \cup {NoValue}]
<1>1. 0 \in Value
  BY BoundsAssumption DEF Value
<1> QED BY <1>1 DEF Fresh, Data, Copied, Content

\* What may happen to telemetryData keeps its type.
LEMMA DataTyped ==
    ASSUME TypeOK
    PROVE  /\ [telemetryData EXCEPT !.paused = PauseToggled] \in Data
           /\ [telemetryData EXCEPT !.members = JobCleared] \in Data
           /\ \A r \in Watched : value[r] # NoValue =>
                 [telemetryData EXCEPT !.members[r.member] = Written(r)] \in Data
           /\ SerializeFrame \in Frame
<1>1. telemetryData \in Data
  BY DEF TypeOK
<1>2. [telemetryData EXCEPT !.paused = PauseToggled] \in Data
  BY <1>1 DEF Data, PauseToggled
<1>3. JobCleared \in [Members -> Content]
  BY <1>1 DEF JobCleared, Data, Copied, Content
<1>4. [telemetryData EXCEPT !.members = JobCleared] \in Data
  BY <1>1, <1>3 DEF Data
<1>5. ASSUME NEW r \in Watched, value[r] # NoValue
      PROVE  [telemetryData EXCEPT !.members[r.member] = Written(r)] \in Data
  <2>1. Written(r) \in Content
    BY <1>5, WrittenTyped
  <2> QED BY <1>1, <2>1 DEF Data
<1>6. SerializeFrame \in Frame
  BY <1>1 DEF SerializeFrame, Frame, Shown, Data
<1> QED BY <1>2, <1>4, <1>5, <1>6

\* What is pushed is an event.
LEMMA PushTyped ==
    ASSUME TypeOK, NEW e \in QueueEvent, PushEvent(e)
    PROVE  eventQueue' \in Seq(QueueEvent)
BY DEF TypeOK, PushEvent

LEMMA GameplayTyped ==
    ASSUME NEW event \in Events
    PROVE  [type |-> "gameplay", event |-> event, attributes |-> Payload(event)] \in QueueEvent
BY DEF QueueEvent

LEMMA FrameTyped ==
    ASSUME TypeOK
    PROVE  [type |-> "frame", frame |-> SerializeFrame] \in QueueEvent
BY DataTyped DEF QueueEvent

LEMMA InitTyped == Init => TypeOK
<1> SUFFICES ASSUME Init PROVE TypeOK
  OBVIOUS
<1>1. telemetryData \in Data /\ eventQueue \in Seq(QueueEvent)
  BY FreshTyped DEF Init
<1>2. /\ value \in [Watched -> Value \cup {NoValue}]
      /\ delivered \in [Watched -> Value \cup {NoValue}]
  BY FreshTyped DEF Init
<1>3. failures \in 0 .. MaxFailures /\ changes \in 0 .. MaxChanges
  BY BoundsAssumption DEF Init
<1>4. serializers \in Nat /\ sockets \in Nat /\ version \in Nat
  BY DEF Init
<1>5. host \in Host /\ accepted \subseteq Watched
  BY DEF Init, Host
<1> QED
  BY <1>1, <1>2, <1>3, <1>4, <1>5 DEF Init, TypeOK

\* A step of the game's callbacks, of the network thread or of the lifecycle.
LEMMA StepTyped ==
    ASSUME TypeOK, Lifecycle, [Next]_vars
    PROVE  TypeOK'
<1> USE BoundsAssumption
<1> DEFINE Rest == <<pointers, network, process, game, version>>
<1>0. /\ \A g \in Games : g.api \in Nat
      /\ failures \in Nat
  BY GamesAssumption DEF Game, TypeOK
<1>1. CASE UNCHANGED vars
  BY <1>1 DEF vars, TypeOK, data, queue, pointers, network, process, channels, pause
<1>2. CASE Start
  BY <1>0, <1>2 DEF Start, TypeOK, Host, data, queue, pointers, network, process
<1>3. CASE InitUnsupported
  BY <1>3 DEF InitUnsupported, TypeOK, Host, data, queue, pointers, network, process, channels,
              pause
<1>4. CASE EventsRefused
  BY <1>4 DEF EventsRefused, NewSerializer, InitFails, TypeOK, Host, data, queue, network,
              channels, pause
<1>5. CASE ThreadRefused
  BY <1>5 DEF ThreadRefused, NewSerializer, InitFails, Listening, TypeOK, Host, data, network,
              channels, pause
<1>6. ASSUME NEW call \in {"socket", "setsockopt", "bind", "listen"}, ConstructorThrows(call)
      PROVE  TypeOK'
  BY <1>6 DEF ConstructorThrows, NewSerializer, InitFails, TypeOK, Host, data, queue, network,
              channels, pause
<1>7. ASSUME NEW A \in SUBSET Watched, InitOk(A)
      PROVE  TypeOK'
  <2>1. /\ m_instance' \in {"null", "alive", "freed"} /\ sockets' \in Nat
        /\ m_lastSentFrame' \in Frame \cup {NoFrame} /\ serializers' \in Nat
        /\ serializer' \in BOOLEAN
    BY <1>7 DEF InitOk, NewSerializer, Listening, TypeOK
  <2>2. /\ networkThread' = TRUE /\ thread' = "polling" /\ stop_requested' = FALSE
        /\ host' = "initial" /\ accepted' \subseteq Watched
        /\ UNCHANGED <<telemetryData, frameChanged, eventQueue, portHeld, failures, value,
                       delivered, changes, paused, inverted, game, version>>
    BY <1>7 DEF InitOk, data, pause
  <2> QED BY <2>1, <2>2 DEF TypeOK, Host, Callbacks, Running
<1>8. ASSUME NEW used \in BOOLEAN, telemetry_configuration(used)
      PROVE  TypeOK'
  <2>1. host' \in Host /\ frameChanged' \in BOOLEAN
    BY <1>8 DEF telemetry_configuration, TypeOK, Host, Callbacks
  <2>2. UNCHANGED <<telemetryData, queue, channels, pause, callback>>
    BY <1>8 DEF telemetry_configuration
  <2> QED BY <2>1, <2>2 DEF TypeOK, queue, pointers, network, process, channels, pause, callback
<1>9. CASE telemetry_pause
  <2>1. telemetryData' \in Data
    BY <1>9, DataTyped DEF telemetry_pause
  <2> QED BY <1>9, <2>1 DEF telemetry_pause, TypeOK, Host, Callbacks, queue, pointers, network,
                            process, channels, callback
<1>10. CASE telemetry_frame_start
  BY <1>10 DEF telemetry_frame_start, TypeOK, Host, Callbacks, data, queue, pointers, network,
               process, channels, pause, callback
<1>11. ASSUME NEW event \in Events, telemetry_gameplay(event)
       PROVE  TypeOK'
  <2>1. telemetryData' \in Data
    BY <1>11, DataTyped DEF telemetry_gameplay, TypeOK, Data
  <2>2. eventQueue' \in Seq(QueueEvent)
    BY <1>11, GameplayTyped, PushTyped DEF telemetry_gameplay
  <2> QED BY <1>11, <2>1, <2>2 DEF telemetry_gameplay, TypeOK, Host, Callbacks, pointers,
                                   network, process, channels, pause, callback
<1>12. ASSUME NEW r \in Watched, channel_wrapper(r)
       PROVE  TypeOK'
  <2>1. value[r] # NoValue
    BY <1>12 DEF channel_wrapper, MayCall
  <2>2. telemetryData' \in Data
    BY <1>12, <2>1, DataTyped DEF channel_wrapper
  <2>3. delivered' \in [Watched -> Value \cup {NoValue}]
    BY <1>12 DEF channel_wrapper, TypeOK
  <2> QED BY <1>12, <2>2, <2>3 DEF channel_wrapper, ChannelChanged, TypeOK, Host, Callbacks,
                                   queue, pointers, network, process, pause, callback
<1>13. CASE telemetry_frame_end
  <2>1. eventQueue' \in Seq(QueueEvent)
    BY <1>13, FrameTyped, PushTyped DEF telemetry_frame_end, TypeOK
  <2> QED BY <1>13, <2>1 DEF telemetry_frame_end, TypeOK, Host, Callbacks, pointers, network,
                             process, channels, pause, callback
<1>14. CASE ValueChanges
  <2>1. value' \in [Watched -> Value \cup {NoValue}]
    BY <1>14 DEF ValueChanges, TypeOK
  <2> QED BY <1>14, <2>1 DEF ValueChanges, TypeOK, data, queue, pointers, network, process,
                             pause, callback
<1>15. CASE TakeEvent
  <2>1. Head(eventQueue) \in QueueEvent /\ eventQueue' \in Seq(QueueEvent)
    BY <1>15 DEF TakeEvent, TypeOK
  <2>2. m_lastSentFrame' \in Frame \cup {NoFrame}
    BY <1>15, <2>1 DEF TakeEvent, TypeOK, QueueEvent
  <2> QED BY <1>15, <2>1, <2>2 DEF TakeEvent, serving, TypeOK, data, pointers, process,
                                   channels, pause
<1>16. CASE LoopTest \/ QueueEmpty
  BY <1>16 DEF LoopTest, QueueEmpty, serving, TypeOK, Running, data, queue, pointers, process,
               channels, pause
<1>17. CASE Shutdown
  BY <1>17 DEF Shutdown, StopRequested, TypeOK, Host, data, queue, pointers, process, channels
<1>18. CASE Joined
  <2>1. sockets' \in Nat /\ serializers' \in Nat
    BY <1>0, <1>18 DEF Joined, SocketsAfter, TypeOK, Lifecycle, Using
  <2> QED BY <1>18, <2>1 DEF Joined, NetworkThreadAfter, InstanceAfter, TypeOK, Host, data,
                             channels, pause
<1>19. CASE Unload
  <2>1. telemetryData' \in Data /\ eventQueue' \in Seq(QueueEvent)
    BY <1>19, FreshTyped DEF Unload, Loaded
  <2> QED BY <1>19, <2>1 DEF Unload, Loaded, TypeOK, Host, channels
<1>20. CASE Restart
  <2>1. telemetryData' \in Data /\ eventQueue' \in Seq(QueueEvent)
    BY <1>20, FreshTyped DEF Restart, Loaded
  <2>2. /\ value' \in [Watched -> Value \cup {NoValue}]
        /\ delivered' \in [Watched -> Value \cup {NoValue}]
    BY <1>20, FreshTyped DEF Restart
  <2>3. failures' \in 0 .. MaxFailures /\ changes' \in 0 .. MaxChanges
    BY <1>20 DEF Restart
  <2>4. serializers' \in Nat /\ sockets' \in Nat /\ version' \in Nat
    BY <1>20 DEF Restart
  <2>5. host' \in Host /\ accepted' \subseteq Watched
    BY <1>20 DEF Restart, Host
  <2> QED BY <1>20, <2>1, <2>2, <2>3, <2>4, <2>5 DEF Restart, Loaded, TypeOK
<1> QED
  BY <1>1, <1>2, <1>3, <1>4, <1>5, <1>6, <1>7, <1>8, <1>9, <1>10, <1>11, <1>12, <1>13, <1>14,
     <1>15, <1>16, <1>17, <1>18, <1>19, <1>20
  DEF Next, EventLoop

\* TypeOK, of TelemetryServer: every global keeps its type, whichever step of an
\* initialization fails and however often the library is initialized.
THEOREM TypeCorrect == Spec => []TypeOK
<1>1. Init => TypeOK /\ Lifecycle
  BY InitTyped, InitLifecycle
<1>2. TypeOK /\ Lifecycle /\ [Next]_vars => (TypeOK /\ Lifecycle)'
  BY StepTyped, StepLifecycle
<1> QED BY <1>1, <1>2, PTL DEF Spec

\* SessionComplete: in a session nothing that a callback or the network thread uses is
\* missing (scs_telemetry_init, NetworkHandler::GetEventThread, scs_telemetry_shutdown).
THEOREM SessionCompleteCorrect == Spec => []SessionComplete
<1>1. Init => TypeOK /\ Lifecycle
  BY InitTyped, InitLifecycle
<1>2. TypeOK /\ Lifecycle /\ [Next]_vars => (TypeOK /\ Lifecycle)'
  BY StepTyped, StepLifecycle
<1>3. Lifecycle => SessionComplete
  BY DEF Lifecycle, SessionComplete, Using, Running, InSession
<1> QED BY <1>1, <1>2, <1>3, PTL DEF Spec

\* UnloadQuiet: the shutdown of the unload hook (DllMain) never joins a thread.
THEOREM UnloadQuietCorrect == Spec => []UnloadQuiet
<1>1. Init => TypeOK /\ Lifecycle
  BY InitTyped, InitLifecycle
<1>2. TypeOK /\ Lifecycle /\ [Next]_vars => (TypeOK /\ Lifecycle)'
  BY StepTyped, StepLifecycle
<1>3. Lifecycle => UnloadQuiet
  BY DEF Lifecycle, UnloadQuiet
<1> QED BY <1>1, <1>2, <1>3, PTL DEF Spec

\* NothingLeaks: serializers and listening sockets are those of the session and what
\* failed initializations have left, in any number of sessions and loads.
THEOREM NothingLeaksCorrect == Spec => []NothingLeaks
<1>1. Init => TypeOK /\ Lifecycle
  BY InitTyped, InitLifecycle
<1>2. TypeOK /\ Lifecycle /\ [Next]_vars => (TypeOK /\ Lifecycle)'
  BY StepTyped, StepLifecycle
<1>3. Lifecycle => NothingLeaks
  BY DEF Lifecycle, NothingLeaks, Using
<1> QED BY <1>1, <1>2, <1>3, PTL DEF Spec

-----------------------------------------------------------------------------
(* The pause *)

\* In a session telemetryData says what the game says, or the opposite; between two
\* sessions it says what the next one starts with, or the opposite.
PauseInv ==
    /\ InSession => telemetryData.paused = (paused # inverted)
    /\ ~InSession => telemetryData.paused = ~inverted
    /\ host = "init" => paused

LEMMA InitPause == Init => PauseInv
<1> SUFFICES ASSUME Init PROVE PauseInv
  OBVIOUS
<1>1. telemetryData.paused = TRUE
  BY DEF Init, Fresh
<1>2. ~InSession /\ host # "init" /\ inverted = FALSE
  BY DEF Init, InSession, Callbacks
<1> QED BY <1>1, <1>2 DEF PauseInv

LEMMA StepPause ==
    ASSUME TypeOK, Lifecycle, PauseInv, [Next]_vars
    PROVE  PauseInv'
<1>0. /\ paused \in BOOLEAN /\ inverted \in BOOLEAN /\ telemetryData.paused \in BOOLEAN
      /\ telemetryData \in Data
  BY DEF TypeOK, Data
<1>1. ASSUME UNCHANGED <<telemetryData, pause>>, InSession' <=> InSession,
             host' = "init" => host = "init"
      PROVE  PauseInv'
  BY <1>1 DEF PauseInv, pause
<1>2. CASE UNCHANGED vars \/ EventLoop
  BY <1>1, <1>2 DEF vars, EventLoop, LoopTest, TakeEvent, QueueEmpty, serving, InSession, data
<1>3. CASE Start
  BY <1>0, <1>3 DEF Start, PauseInv, InSession, Callbacks, data
<1>4. CASE InitUnsupported
  BY <1>1, <1>4 DEF InitUnsupported, InSession, Callbacks, data
<1>5. CASE FailStep
  BY <1>1, <1>5 DEF FailStep, EventsRefused, ThreadRefused, ConstructorThrows, NewSerializer,
                    InitFails, InSession, Callbacks, data
<1>6. ASSUME NEW A \in SUBSET Watched, InitOk(A)
      PROVE  PauseInv'
  <2>1. host = "init" /\ host' = "initial" /\ UNCHANGED <<telemetryData, paused, inverted>>
    BY <1>6 DEF InitOk, NewSerializer, data, pause
  <2> QED BY <1>0, <2>1 DEF PauseInv, InSession, Callbacks
<1>7. CASE telemetry_pause
  <2>1. /\ paused' = ~paused /\ inverted' = inverted
        /\ telemetryData'.paused = ~telemetryData.paused
        /\ InSession /\ InSession' /\ host' # "init"
    BY <1>0, <1>7 DEF telemetry_pause, PauseToggled, InSession, Callbacks, Data, callback
  <2> QED BY <1>0, <2>1 DEF PauseInv
<1>8. CASE \/ \E used \in BOOLEAN : telemetry_configuration(used)
           \/ telemetry_frame_start \/ telemetry_frame_end \/ ValueChanges
  BY <1>1, <1>8 DEF telemetry_configuration, telemetry_frame_start, telemetry_frame_end,
                    ValueChanges, InSession, Callbacks, data
<1>9. ASSUME telemetryData'.paused = telemetryData.paused, UNCHANGED pause,
             InSession, InSession'
      PROVE  PauseInv'
  BY <1>9 DEF PauseInv, pause, InSession, Callbacks
<1>10. ASSUME NEW event \in Events, telemetry_gameplay(event)
       PROVE  PauseInv'
  <2>1. telemetryData'.paused = telemetryData.paused
    BY <1>0, <1>10 DEF telemetry_gameplay, Data
  <2> QED BY <1>9, <1>10, <2>1 DEF telemetry_gameplay, InSession, Callbacks
<1>11. ASSUME NEW r \in Watched, channel_wrapper(r)
       PROVE  PauseInv'
  <2>1. telemetryData'.paused = telemetryData.paused
    BY <1>0, <1>11 DEF channel_wrapper, Data
  <2> QED BY <1>9, <1>11, <2>1 DEF channel_wrapper, InSession, Callbacks
<1>12. CASE Shutdown
  <2>1. /\ InSession /\ ~InSession' /\ host' # "init"
        /\ inverted' = (inverted # ~paused) /\ telemetryData' = telemetryData
    BY <1>12 DEF Shutdown, InSession, Callbacks, data
  <2>2. telemetryData.paused = (paused # inverted)
    BY <2>1 DEF PauseInv
  <2>3. (paused # inverted) = ~(inverted # ~paused)
    BY <1>0
  <2> QED BY <2>1, <2>2, <2>3 DEF PauseInv
<1>13. CASE Joined
  BY <1>1, <1>13 DEF Joined, InSession, Callbacks, data
<1>14. CASE Unload \/ Restart
  <2>1. telemetryData'.paused = TRUE
    BY <1>14 DEF Unload, Restart, Loaded, Fresh
  <2>2. ~InSession' /\ host' # "init" /\ inverted' = FALSE
    BY <1>14 DEF Unload, Restart, Loaded, InSession, Callbacks
  <2> QED BY <2>1, <2>2 DEF PauseInv
<1> QED
  BY <1>2, <1>3, <1>4, <1>5, <1>6, <1>7, <1>8, <1>10, <1>11, <1>12, <1>13, <1>14
  DEF Next, FailStep

-----------------------------------------------------------------------------
(* What has been pushed *)

\* The last frame shows telemetryData, unless frameChanged says that it does not, or
\* an event has ended the job.
Pushed ==
    Current =>
        /\ LastFrame.paused = telemetryData.paused
        /\ \A m \in Shown :
              m.of # "job" => LastFrame.members[m] = telemetryData.members[m]

LEMMA InitPushed == Init => Pushed
BY DEF Init, Pushed, Current, Callbacks

LEMMA StepPushed ==
    ASSUME TypeOK, Pushed, [Next]_vars
    PROVE  Pushed'
<1>0. /\ eventQueue \in Seq(QueueEvent) /\ telemetryData \in Data /\ frameChanged \in BOOLEAN
      /\ Shown \subseteq Members
  BY DEF TypeOK, Shown
<1>1. ASSUME host' \notin Callbacks \ {"initial"} \/ frameChanged' PROVE Pushed'
  BY <1>1 DEF Pushed, Current
<1>2. ASSUME Current' => Current, UNCHANGED <<telemetryData, queue>> PROVE Pushed'
  BY <1>2 DEF Pushed, LastFrame, queue
<1>3. CASE UNCHANGED vars \/ LoopTest \/ QueueEmpty \/ telemetry_frame_start \/ ValueChanges
  BY <1>2, <1>3 DEF vars, LoopTest, QueueEmpty, serving, telemetry_frame_start, ValueChanges,
                    Current, Callbacks, data
<1>4. CASE Start \/ InitUnsupported \/ FailStep \/ (\E A \in SUBSET Watched : InitOk(A))
           \/ Shutdown \/ Joined \/ Unload \/ Restart
  <2>1. host' \notin Callbacks \ {"initial"}
    BY <1>4 DEF Start, InitUnsupported, FailStep, EventsRefused, ThreadRefused,
                ConstructorThrows, InitFails, InitOk, Shutdown, Joined, Unload, Restart,
                Callbacks
  <2> QED BY <1>1, <2>1
<1>5. CASE telemetry_pause \/ (\E r \in Watched : channel_wrapper(r))
  BY <1>1, <1>5 DEF telemetry_pause, channel_wrapper, ChannelChanged
<1>10. ASSUME NEW used \in BOOLEAN, telemetry_configuration(used)
       PROVE  Pushed'
  <2>1. CASE used
    BY <1>1, <1>10, <2>1 DEF telemetry_configuration
  <2>2. CASE ~used
    BY <1>2, <1>10, <2>2 DEF telemetry_configuration, Current
  <2> QED BY <1>10, <2>1, <2>2
<1>6. ASSUME NEW event \in Events, telemetry_gameplay(event)
      PROVE  Pushed'
  <2> DEFINE e == [type |-> "gameplay", event |-> event, attributes |-> Payload(event)]
  <2>1. /\ eventQueue' = Append(eventQueue, e) /\ m_lastSentFrame' = m_lastSentFrame
        /\ host' = host /\ frameChanged' = frameChanged
    BY <1>6 DEF telemetry_gameplay, PushEvent
  <2>2. e \in QueueEvent /\ e.type # "frame"
    BY GameplayTyped
  <2> HIDE DEF e
  <2>3. LastFrame' = LastFrame
    BY <1>0, <2>1, <2>2, LastAppend DEF LastFrame
  <2>4. /\ telemetryData'.paused = telemetryData.paused
        /\ \A m \in Members : m.of # "job" =>
              telemetryData'.members[m] = telemetryData.members[m]
    BY <1>0, <1>6 DEF telemetry_gameplay, JobCleared, Data
  <2> QED BY <1>0, <2>1, <2>3, <2>4 DEF Pushed, Current
<1>7. CASE telemetry_frame_end /\ ~frameChanged
  BY <1>2, <1>7 DEF telemetry_frame_end, Current, Callbacks, queue
<1>8. CASE telemetry_frame_end /\ frameChanged
  <2> DEFINE e == [type |-> "frame", frame |-> SerializeFrame]
  <2>1. /\ eventQueue' = Append(eventQueue, e) /\ m_lastSentFrame' = m_lastSentFrame
        /\ telemetryData' = telemetryData
    BY <1>8 DEF telemetry_frame_end, PushEvent
  <2>2. e \in QueueEvent /\ e.type = "frame" /\ e.frame = SerializeFrame
    BY FrameTyped
  <2> HIDE DEF e
  <2>3. LastFrame' = SerializeFrame
    BY <1>0, <2>1, <2>2, LastAppend DEF LastFrame
  <2>4. /\ SerializeFrame.paused = telemetryData.paused
        /\ \A m \in Shown : SerializeFrame.members[m] = telemetryData.members[m]
    BY DEF SerializeFrame
  <2> QED BY <2>1, <2>3, <2>4 DEF Pushed
<1>9. CASE TakeEvent
  <2>1. LastFrame' = LastFrame
    BY <1>0, <1>9, LastTail DEF TakeEvent, LastFrame
  <2>2. UNCHANGED <<telemetryData, frameChanged, host>>
    BY <1>9 DEF TakeEvent, serving, data
  <2> QED BY <2>1, <2>2 DEF Pushed, Current
<1> QED
  BY <1>0, <1>3, <1>4, <1>5, <1>6, <1>7, <1>8, <1>9, <1>10 DEF Next, EventLoop, FailStep

\* PausedAsLeft: the pause flag of the clients' frame is that of the game, but for the
\* sessions that ended while driving (telemetry_pause, scs_telemetry_shutdown).
THEOREM PausedAsLeftCorrect == Spec => []PausedAsLeft
<1> DEFINE Inv == TypeOK /\ Lifecycle /\ PauseInv /\ Pushed
<1>1. Init => Inv
  BY InitTyped, InitLifecycle, InitPause, InitPushed
<1>2. Inv /\ [Next]_vars => Inv'
  BY StepTyped, StepLifecycle, StepPause, StepPushed
<1>3. Inv => PausedAsLeft
  BY DEF PausedAsLeft, PauseInv, Pushed, Current, InSession
<1> QED BY <1>1, <1>2, <1>3, PTL DEF Spec

-----------------------------------------------------------------------------
(* The registrations, told by their lines *)

\* A registration, told by the line it comes from and where it is registered.
Registration(of, unit, index, row) ==
    [channel |-> [of |-> of, unit |-> unit, name |-> row[1], index |-> index],
     type |-> row[2],
     member |-> [of |-> of, unit |-> unit, wheel |-> index, path |-> row[3]]]

\* The lines that are not of a wheel.
Lines(of) == CASE of = "game" -> GeneralTable [] of = "truck" -> TruckTable
               [] of = "trailer" -> TrailerTable [] of = "job" -> JobTable

\* Of what, and of which element of its array, a line is registered.
Registered(r, of, unit, index, row) ==
    /\ r = Registration(of, unit, index, row)
    /\ of \in {"game", "truck", "trailer", "job"}
    /\ IF of = "trailer" THEN unit \in 0 .. MAX_TRAILERS - 1 ELSE unit = SCS_U32_NIL
    /\ \/ index = SCS_U32_NIL /\ row \in Lines(of)
       \/ index \in Wheel /\ of \in {"truck", "trailer"} /\ row \in WheelTable

\* The three forms of a registration in register_channels.
LEMMA PlainRegistration ==
    ASSUME NEW of, NEW row
    PROVE  Plain(of, row) = Registration(of, SCS_U32_NIL, SCS_U32_NIL, row)
BY DEF Plain, Registration

LEMMA WheelRegistration ==
    ASSUME NEW of, NEW u, NEW row, NEW j
    PROVE  OfWheel(Registration(of, u, SCS_U32_NIL, row), j) = Registration(of, u, j, row)
<1> DEFINE r == Registration(of, u, SCS_U32_NIL, row)
           c == [of |-> of, unit |-> u, name |-> row[1], index |-> SCS_U32_NIL]
           m == [of |-> of, unit |-> u, wheel |-> SCS_U32_NIL, path |-> row[3]]
<1>1. r = [channel |-> c, type |-> row[2], member |-> m]
  BY DEF Registration
<1>2. /\ [c EXCEPT !.index = j] = [of |-> of, unit |-> u, name |-> row[1], index |-> j]
      /\ [m EXCEPT !.wheel = j] = [of |-> of, unit |-> u, wheel |-> j, path |-> row[3]]
  OBVIOUS
<1> HIDE DEF c, m, r
<1>3. OfWheel(r, j) = [channel |-> [c EXCEPT !.index = j], type |-> row[2],
                       member |-> [m EXCEPT !.wheel = j]]
  <2>1. OfWheel(r, j) = [[r EXCEPT !.channel.index = j] EXCEPT !.member.wheel = j]
    BY DEF OfWheel
  <2>2. [r EXCEPT !.channel.index = j]
          = [channel |-> [c EXCEPT !.index = j], type |-> row[2], member |-> m]
    BY <1>1
  <2>3. \A x : [[channel |-> x, type |-> row[2], member |-> m] EXCEPT !.member.wheel = j]
                 = [channel |-> x, type |-> row[2], member |-> [m EXCEPT !.wheel = j]]
    OBVIOUS
  <2> QED BY <2>1, <2>2, <2>3
<1> QED BY <1>2, <1>3 DEF r, Registration

LEMMA TrailerRegistration ==
    ASSUME NEW row, NEW x, NEW i
    PROVE  OfTrailer(Registration("trailer", SCS_U32_NIL, x, row), i)
             = Registration("trailer", i, x, row)
<1> DEFINE r == Registration("trailer", SCS_U32_NIL, x, row)
           c == [of |-> "trailer", unit |-> SCS_U32_NIL, name |-> row[1], index |-> x]
           m == [of |-> "trailer", unit |-> SCS_U32_NIL, wheel |-> x, path |-> row[3]]
<1>1. r = [channel |-> c, type |-> row[2], member |-> m]
  BY DEF Registration
<1>2. /\ [[c EXCEPT !.unit = i] EXCEPT !.name = c.name]
           = [of |-> "trailer", unit |-> i, name |-> row[1], index |-> x]
      /\ [m EXCEPT !.unit = i] = [of |-> "trailer", unit |-> i, wheel |-> x, path |-> row[3]]
  <2>1. [c EXCEPT !.unit = i] = [of |-> "trailer", unit |-> i, name |-> row[1], index |-> x]
    OBVIOUS
  <2>2. [m EXCEPT !.unit = i] = [of |-> "trailer", unit |-> i, wheel |-> x, path |-> row[3]]
    OBVIOUS
  <2>3. c.name = row[1]
    OBVIOUS
  <2>4. [[of |-> "trailer", unit |-> i, name |-> row[1], index |-> x] EXCEPT !.name = row[1]]
          = [of |-> "trailer", unit |-> i, name |-> row[1], index |-> x]
    OBVIOUS
  <2> HIDE DEF c, m
  <2> QED BY <2>1, <2>2, <2>3, <2>4
<1> HIDE DEF c, m, r
<1>3. OfTrailer(r, i)
        = [channel |-> [[c EXCEPT !.unit = i] EXCEPT !.name = c.name], type |-> row[2],
           member |-> [m EXCEPT !.unit = i]]
  <2>1. OfTrailer(r, i) = [[[r EXCEPT !.channel.unit = i] EXCEPT !.channel.name = c.name]
                             EXCEPT !.member.unit = i]
    BY <1>1 DEF OfTrailer, trailer_indexed_channel_name
  <2>2. [r EXCEPT !.channel.unit = i]
          = [channel |-> [c EXCEPT !.unit = i], type |-> row[2], member |-> m]
    BY <1>1
  <2>3. \A y, z : [[channel |-> y, type |-> row[2], member |-> m] EXCEPT !.channel.name = z]
                 = [channel |-> [y EXCEPT !.name = z], type |-> row[2], member |-> m]
    OBVIOUS
  <2>4. \A y : [[channel |-> y, type |-> row[2], member |-> m] EXCEPT !.member.unit = i]
                 = [channel |-> y, type |-> row[2], member |-> [m EXCEPT !.unit = i]]
    OBVIOUS
  <2> QED BY <2>1, <2>2, <2>3, <2>4
<1> QED BY <1>2, <1>3 DEF r, Registration

\* What register_channels registers.
LEMMA RegisteredIs ==
    ASSUME NEW r
    PROVE  r \in register_channels
              <=> \E of, unit, index, row : Registered(r, of, unit, index, row)
<1> DEFINE Is == \E of, unit, index, row : Registered(r, of, unit, index, row)
<1>1. \A of, unit, index, row : Registered(r, of, unit, index, row) => Is
  OBVIOUS
<1> HIDE DEF Is
<1>2. ASSUME NEW row \in GeneralTable, r = Plain("game", row)
      PROVE  Is
  <2>1. Registered(r, "game", SCS_U32_NIL, SCS_U32_NIL, row)
    BY <1>2, PlainRegistration DEF Registered, Lines
  <2> QED BY <1>1, <2>1
<1>3. ASSUME NEW row \in TruckTable, r = Plain("truck", row)
      PROVE  Is
  <2>1. Registered(r, "truck", SCS_U32_NIL, SCS_U32_NIL, row)
    BY <1>3, PlainRegistration DEF Registered, Lines
  <2> QED BY <1>1, <2>1
<1>4. ASSUME NEW row \in WheelTable, NEW j \in Wheel, r = OfWheel(Plain("truck", row), j)
      PROVE  Is
  <2>1. Registered(r, "truck", SCS_U32_NIL, j, row)
    BY <1>4, PlainRegistration, WheelRegistration DEF Registered, Lines
  <2> QED BY <1>1, <2>1
<1>5. ASSUME NEW row \in TrailerTable, NEW i \in 0 .. MAX_TRAILERS - 1,
             r = OfTrailer(Plain("trailer", row), i)
      PROVE  Is
  <2>1. Registered(r, "trailer", i, SCS_U32_NIL, row)
    BY <1>5, PlainRegistration, TrailerRegistration DEF Registered, Lines
  <2> QED BY <1>1, <2>1
<1>6. ASSUME NEW row \in WheelTable, NEW j \in Wheel, NEW i \in 0 .. MAX_TRAILERS - 1,
             r = OfTrailer(OfWheel(Plain("trailer", row), j), i)
      PROVE  Is
  <2>1. Registered(r, "trailer", i, j, row)
    BY <1>6, PlainRegistration, WheelRegistration, TrailerRegistration DEF Registered, Lines
  <2> QED BY <1>1, <2>1
<1>7. ASSUME NEW row \in JobTable, r = Plain("job", row)
      PROVE  Is
  <2>1. Registered(r, "job", SCS_U32_NIL, SCS_U32_NIL, row)
    BY <1>7, PlainRegistration DEF Registered, Lines
  <2> QED BY <1>1, <2>1
<1>8. r \in register_channels => Is
  BY <1>2, <1>3, <1>4, <1>5, <1>6, <1>7 DEF register_channels
<1>9. ASSUME NEW of, NEW unit, NEW index, NEW row, Registered(r, of, unit, index, row)
      PROVE  r \in register_channels
  <2>1. CASE of = "game"
    <3>1. index = SCS_U32_NIL /\ unit = SCS_U32_NIL /\ row \in GeneralTable
      BY <1>9, <2>1 DEF Registered, Lines
    <3>2. r = Plain("game", row)
      BY <1>9, <2>1, <3>1, PlainRegistration DEF Registered
    <3> QED BY <3>1, <3>2 DEF register_channels
  <2>2. CASE of = "job"
    <3>1. index = SCS_U32_NIL /\ unit = SCS_U32_NIL /\ row \in JobTable
      BY <1>9, <2>2 DEF Registered, Lines
    <3>2. r = Plain("job", row)
      BY <1>9, <2>2, <3>1, PlainRegistration DEF Registered
    <3> QED BY <3>1, <3>2 DEF register_channels
  <2>3. CASE of = "truck" /\ index = SCS_U32_NIL /\ row \in Lines(of)
    <3>1. unit = SCS_U32_NIL /\ row \in TruckTable
      BY <1>9, <2>3 DEF Registered, Lines
    <3>2. r = Plain("truck", row)
      BY <1>9, <2>3, <3>1, PlainRegistration DEF Registered
    <3> QED BY <3>1, <3>2 DEF register_channels
  <2>4. CASE of = "truck" /\ index \in Wheel /\ row \in WheelTable
    <3>1. unit = SCS_U32_NIL
      BY <1>9, <2>4 DEF Registered
    <3>2. r = OfWheel(Plain("truck", row), index)
      BY <1>9, <2>4, <3>1, PlainRegistration, WheelRegistration DEF Registered
    <3> QED BY <2>4, <3>2 DEF register_channels
  <2>5. CASE of = "trailer" /\ index = SCS_U32_NIL /\ row \in Lines(of)
    <3>1. unit \in 0 .. MAX_TRAILERS - 1 /\ row \in TrailerTable
      BY <1>9, <2>5 DEF Registered, Lines
    <3>2. r = OfTrailer(Plain("trailer", row), unit)
      BY <1>9, <2>5, PlainRegistration, TrailerRegistration DEF Registered
    <3> QED BY <3>1, <3>2 DEF register_channels
  <2>6. CASE of = "trailer" /\ index \in Wheel /\ row \in WheelTable
    <3>1. unit \in 0 .. MAX_TRAILERS - 1
      BY <1>9, <2>6 DEF Registered
    <3>2. r = OfTrailer(OfWheel(Plain("trailer", row), index), unit)
      BY <1>9, <2>6, PlainRegistration, WheelRegistration, TrailerRegistration DEF Registered
    <3> QED BY <2>6, <3>1, <3>2 DEF register_channels
  <2>7. \/ of \in {"game", "job"}
        \/ /\ of \in {"truck", "trailer"}
           /\ \/ index = SCS_U32_NIL /\ row \in Lines(of)
              \/ index \in Wheel /\ row \in WheelTable
    BY <1>9 DEF Registered
  <2> QED BY <2>1, <2>2, <2>3, <2>4, <2>5, <2>6, <2>7
<1> QED BY <1>8, <1>9 DEF Is

-----------------------------------------------------------------------------
(* The tables of ChannelRegistration and TelemetryStructs *)

Parts == {"TelemetryTruckCabin", "TelemetryTruckInput", "TelemetryTruckBrake",
          "TelemetryTruckFuel", "TelemetryTruckEngine", "TelemetryTruckOil",
          "TelemetryTruckAdblue", "TelemetryTruckLight", "TelemetryTruckWear",
          "TelemetryTruckNavigation", "TelemetryTrailerWear"}
Targets == {"TelemetryFrame", "TelemetryTruck", "TelemetryTrailer", "TelemetryWheel"}

\* A line is right for a structure when its path leads to a member, which is what the
\* store takes it for, and is serialized all the way.
MemberLine(type, row) ==
    /\ row[3] = <<row[3][1]>>
    /\ <<row[3][1], Target(row[2])>> \in Struct(type)
    /\ Target(row[2]) \in Whole
    /\ row[3][1] \in Fields(type)
PartLine(type, part, row) ==
    /\ row[3] = <<row[3][1], row[3][2]>>
    /\ <<row[3][1], part>> \in Struct(type)
    /\ <<row[3][2], Target(row[2])>> \in Struct(part)
    /\ row[3][1] \in Fields(type) /\ row[3][2] \in Fields(part)
Line(type, row) ==
    MemberLine(type, row) \/ \E part \in Parts : PartLine(type, part, row)

LEMMA TruckLines == \A row \in TruckTable : Line("TelemetryTruck", row)
<1> USE DEF Line, MemberLine, PartLine, Parts, Whole, As, Are, Target, Struct, Fields,
            TelemetryTruck, Moving, TruckPart, TruckFields, TruckPartFields
<1>1. \A row \in MovementTable : Line("TelemetryTruck", row)
  BY DEF MovementTable
<1>2. \A row \in DrivingTable : Line("TelemetryTruck", row)
  BY DEF DrivingTable
<1>3. \A row \in BrakeTable : Line("TelemetryTruck", row)
  BY DEF BrakeTable, Retarder, BrakeFields
<1>4. \A row \in SupplyTable : Line("TelemetryTruck", row)
  BY DEF SupplyTable
<1>5. \A row \in BlinkerTable : Line("TelemetryTruck", row)
  BY DEF BlinkerTable
<1>6. \A row \in LightTable : Line("TelemetryTruck", row)
  BY DEF LightTable
<1>7. \A row \in ConditionTable : Line("TelemetryTruck", row)
  BY DEF ConditionTable
<1> HIDE DEF Line
<1> QED BY <1>1, <1>2, <1>3, <1>4, <1>5, <1>6, <1>7 DEF TruckTable

LEMMA TrailerLines == \A row \in TrailerTable : Line("TelemetryTrailer", row)
BY DEF Line, MemberLine, PartLine, Parts, Whole, As, Are, Target, Struct, Fields,
       TrailerTable, TrailerStruct, Moving, TrailerFields

LEMMA WheelLines == \A row \in WheelTable : Line("TelemetryWheel", row)
BY DEF Line, MemberLine, PartLine, Parts, Whole, As, Are, Target, Struct, Fields,
       WheelTable, CommonStruct, CommonFields

LEMMA GeneralLines == \A row \in GeneralTable : Line("TelemetryFrame", row)
BY DEF Line, MemberLine, PartLine, Parts, Whole, As, Are, Target, Struct, Fields,
       GeneralTable, TelemetryFrame, FrameFields

\* A structure has one type for each name.
LEMMA OneType ==
    \A type \in Targets \cup Parts :
        \A p, q \in Struct(type) : p[1] = q[1] => p[2] = q[2]
BY SMTT(60) DEF Targets, Parts, Struct, TelemetryTruck, Moving, TrailerStruct, TruckPart,
                TelemetryFrame, CommonStruct, Are

\* A right line leads to a leaf.
LEMMA LineLeaf ==
    ASSUME NEW type, NEW row, Line(type, row)
    PROVE  <<row[3], Target(row[2])>> \in Leaves(type)
<1> DEFINE path == row[3]
           t == Target(row[2])
<1>1. CASE MemberLine(type, row)
  <2>1. path = <<path[1]>> /\ <<path[1], t>> \in Struct(type) /\ t \in Whole
    BY <1>1 DEF MemberLine
  <2> HIDE DEF path, t
  <2>2. <<path, t>> \in Leaves(type)
    BY <2>1 DEF Leaves
  <2> QED BY <2>2 DEF path, t
<1>2. ASSUME NEW part \in Parts, PartLine(type, part, row)
      PROVE  <<row[3], Target(row[2])>> \in Leaves(type)
  <2>1. /\ path = <<path[1], path[2]>> /\ <<path[1], part>> \in Struct(type)
        /\ <<path[2], t>> \in Struct(part)
    BY <1>2 DEF PartLine
  <2>2. part \in Structs \ Whole
    BY DEF Parts, Structs, Whole
  <2> HIDE DEF path, t
  <2>3. <<path, t>> \in Leaves(type)
    BY <2>1, <2>2 DEF Leaves
  <2> QED BY <2>3 DEF path, t
<1> QED BY <1>1, <1>2 DEF Line

\* So a right line has the member of its path for what its store does, and a client
\* finds it.
LEMMA LineFits ==
    ASSUME NEW type \in Targets, NEW row, Line(type, row),
           NEW member, member.path = row[3], Owner(member) = type
    PROVE  Target(row[2]) = MemberType(member) /\ Serialized(Owner(member), member.path)
<1> DEFINE path == row[3]
           t == Target(row[2])
<1>1. ASSUME \A l \in Leaves(type) : l[1] = path => l[2] = t
      PROVE  MemberType(member) = t
  <2>1. <<path, t>>[1] = path
    OBVIOUS
  <2> QED BY <1>1, <2>1, LineLeaf DEF MemberType
<1>2. CASE MemberLine(type, row)
  <2> DEFINE n == path[1]
  <2>1. path = <<n>> /\ Len(path) = 1 /\ <<n, t>> \in Struct(type) /\ t \in Whole
        /\ n \in Fields(type)
    BY <1>2 DEF MemberLine
  <2> HIDE DEF t, n, path
  <2>2. ASSUME NEW l \in Leaves(type), l[1] = path PROVE l[2] = t
    <3>1. PICK p \in Struct(type) : l = <<<<p[1]>>, p[2]>>
      BY <2>1, <2>2 DEF Leaves
    <3>2. p[1] = n
      BY <2>1, <2>2, <3>1
    <3> QED BY <2>1, <3>1, <3>2, OneType
  <2>3. Serialized(type, path)
    BY <2>1 DEF Serialized
  <2> QED BY <1>1, <2>2, <2>3 DEF path, t
<1>3. ASSUME NEW part \in Parts, PartLine(type, part, row)
      PROVE  Target(row[2]) = MemberType(member) /\ Serialized(Owner(member), member.path)
  <2> DEFINE n == path[1]
             k == path[2]
  <2>1. path = <<n, k>> /\ <<n, part>> \in Struct(type) /\ <<k, t>> \in Struct(part)
        /\ n \in Fields(type) /\ k \in Fields(part)
    BY <1>3 DEF PartLine
  <2> HIDE DEF t, n, k, path
  <2>2. ASSUME NEW l \in Leaves(type), l[1] = path PROVE l[2] = t
    <3>0. PICK p \in Struct(type) : \E q \in Struct(p[2]) : l = <<<<p[1], q[1]>>, q[2]>>
      BY <2>1, <2>2 DEF Leaves
    <3>1. PICK q \in Struct(p[2]) : l = <<<<p[1], q[1]>>, q[2]>>
      BY <3>0
    <3>2. p[1] = n /\ q[1] = k
      BY <2>1, <2>2, <3>1
    <3>3. p[2] = part
      BY <2>1, <3>2, OneType
    <3> QED BY <2>1, <3>1, <3>2, <3>3, OneType
  <2>3. Serialized(type, path)
    BY <2>1 DEF Serialized
  <2> QED BY <1>1, <2>2, <2>3 DEF path, t
<1> QED BY <1>2, <1>3 DEF Line

\* Of the registrations, all but that of the job are right.
LEMMA RegistrationFits ==
    ASSUME NEW r \in register_channels
    PROVE  \/ r.channel.of = "job" /\ r.type = "float"
           \/ /\ Target(r.type) = MemberType(r.member)
              /\ Serialized(Owner(r.member), r.member.path)
<1>1. PICK of, unit, index, row : Registered(r, of, unit, index, row)
  BY RegisteredIs
<1>2. /\ r.type = row[2] /\ r.channel.of = of
      /\ r.member.of = of /\ r.member.wheel = index /\ r.member.path = row[3]
  BY <1>1 DEF Registered, Registration
<1>3. CASE of = "job"
  <2>1. row \in JobTable
    BY <1>1, <1>3 DEF Registered, Lines
  <2>2. row[2] = "float"
    BY <2>1 DEF JobTable, As
  <2> QED BY <1>2, <1>3, <2>2
<1>4. CASE of # "job"
  <2>1. Owner(r.member) \in Targets /\ Line(Owner(r.member), row)
    <3>1. \A j \in Wheel : j # SCS_U32_NIL
      BY CountsAssumption DEF Wheel
    <3> QED BY <1>1, <1>2, <1>4, <3>1, GeneralLines, TruckLines, TrailerLines, WheelLines
            DEF Registered, Lines, Owner, Root, Targets
  <2> QED BY <1>2, <2>1, LineFits
<1> QED BY <1>3, <1>4

\* A structure and its list of fields have the same names.
HasName(S, n) == \E type : <<n, type>> \in S
Complete(type) ==
    /\ \A p \in Struct(type) : p[1] \in Fields(type)
    /\ \A n \in Fields(type) : HasName(Struct(type), n)

LEMMA NothingIncomplete == Incomplete = {}
<1>1. Complete("TelemetryTruck")
  <2>1. Struct("TelemetryTruck") = TelemetryTruck /\ Fields("TelemetryTruck") = TruckFields
    BY DEF Struct, Fields
  <2>2. \A p \in TelemetryTruck : p[1] \in TruckFields
    BY DEF TelemetryTruck, Moving, Are, TruckFields
  <2>3. ASSUME NEW n \in TruckFields PROVE HasName(TelemetryTruck, n)
    <3>1. \/ <<n, "TelemetryPlacement">> \in TelemetryTruck
          \/ <<n, "TelemetryVec3D">> \in TelemetryTruck
          \/ <<n, "array">> \in TelemetryTruck
          \/ <<n, "TelemetryTruckConfig">> \in TelemetryTruck
          \/ <<n, "TelemetryTruckCabin">> \in TelemetryTruck
          \/ <<n, "double">> \in TelemetryTruck
          \/ <<n, "s32">> \in TelemetryTruck
          \/ <<n, "TelemetryTruckEngine">> \in TelemetryTruck
          \/ <<n, "TelemetryTruckInput">> \in TelemetryTruck
          \/ <<n, "TelemetryTruckBrake">> \in TelemetryTruck
          \/ <<n, "TelemetryTruckFuel">> \in TelemetryTruck
          \/ <<n, "TelemetryTruckAdblue">> \in TelemetryTruck
          \/ <<n, "TelemetryTruckOil">> \in TelemetryTruck
          \/ <<n, "bool">> \in TelemetryTruck
          \/ <<n, "TelemetryTruckLight">> \in TelemetryTruck
          \/ <<n, "TelemetryTruckWear">> \in TelemetryTruck
          \/ <<n, "TelemetryTruckNavigation">> \in TelemetryTruck
      BY DEF TelemetryTruck, Moving, TruckFields, Are
    <3> QED BY <3>1 DEF HasName
  <2> QED BY <2>1, <2>2, <2>3 DEF Complete
<1>2. Complete("TelemetryTruckConfig")
  <2>1. /\ Struct("TelemetryTruckConfig") = TelemetryTruckConfig
        /\ Fields("TelemetryTruckConfig") = TruckConfigFields
    BY DEF Struct, Fields
  <2>2. \A p \in TelemetryTruckConfig : p[1] \in TruckConfigFields
    BY DEF TelemetryTruckConfig, Are, TruckConfigFields
  <2>3. ASSUME NEW n \in TruckConfigFields PROVE HasName(TelemetryTruckConfig, n)
    <3>1. \/ <<n, "string">> \in TelemetryTruckConfig
          \/ <<n, "double">> \in TelemetryTruckConfig
          \/ <<n, "u32">> \in TelemetryTruckConfig
          \/ <<n, "TelemetryVec3D">> \in TelemetryTruckConfig
          \/ <<n, "ratios">> \in TelemetryTruckConfig
      BY DEF TelemetryTruckConfig, TruckConfigFields, Are
    <3> QED BY <3>1 DEF HasName
  <2> QED BY <2>1, <2>2, <2>3 DEF Complete
<1>3. Complete("TelemetryJob")
  <2>1. Struct("TelemetryJob") = TelemetryJob /\ Fields("TelemetryJob") = JobFields
    BY DEF Struct, Fields
  <2>2. \A p \in TelemetryJob : p[1] \in JobFields
    BY DEF TelemetryJob, Are, JobFields
  <2>3. ASSUME NEW n \in JobFields PROVE HasName(TelemetryJob, n)
    <3>1. \/ <<n, "string">> \in TelemetryJob
          \/ <<n, "u32">> \in TelemetryJob
          \/ <<n, "double">> \in TelemetryJob
          \/ <<n, "u64">> \in TelemetryJob
          \/ <<n, "bool">> \in TelemetryJob
      BY DEF TelemetryJob, JobFields, Are
    <3> QED BY <3>1 DEF HasName
  <2> QED BY <2>1, <2>2, <2>3 DEF Complete
<1>4. Complete("TelemetryFrame")
  <2>1. Struct("TelemetryFrame") = TelemetryFrame /\ Fields("TelemetryFrame") = FrameFields
    BY DEF Struct, Fields
  <2>2. \A p \in TelemetryFrame : p[1] \in FrameFields
    BY DEF TelemetryFrame, Are, FrameFields
  <2>3. ASSUME NEW n \in FrameFields PROVE HasName(TelemetryFrame, n)
    <3>1. \/ <<n, "u32">> \in TelemetryFrame
          \/ <<n, "double">> \in TelemetryFrame
          \/ <<n, "bool">> \in TelemetryFrame
          \/ <<n, "s32">> \in TelemetryFrame
          \/ <<n, "root">> \in TelemetryFrame
          \/ <<n, "array">> \in TelemetryFrame
      BY DEF TelemetryFrame, FrameFields, Are
    <3> QED BY <3>1 DEF HasName
  <2> QED BY <2>1, <2>2, <2>3 DEF Complete
<1>5. ASSUME NEW type \in {"TelemetryTrailer", "TelemetryTrailerConfig", "TelemetryTrailerWear"}
      PROVE  Complete(type)
  <2>1. Struct(type) = TrailerStruct(type) /\ Fields(type) = TrailerFields(type)
    BY DEF Struct, Fields
  <2>2. \A p \in TrailerStruct(type) : p[1] \in TrailerFields(type)
    BY DEF TrailerStruct, Moving, Are, TrailerFields
  <2>3. ASSUME NEW n \in TrailerFields(type) PROVE HasName(TrailerStruct(type), n)
    <3>1. \/ <<n, "string">> \in TrailerStruct(type)
          \/ <<n, "TelemetryVec3D">> \in TrailerStruct(type)
          \/ <<n, "u32">> \in TrailerStruct(type)
          \/ <<n, "double">> \in TrailerStruct(type)
          \/ <<n, "TelemetryPlacement">> \in TrailerStruct(type)
          \/ <<n, "array">> \in TrailerStruct(type)
          \/ <<n, "TelemetryTrailerConfig">> \in TrailerStruct(type)
          \/ <<n, "TelemetryTrailerWear">> \in TrailerStruct(type)
          \/ <<n, "bool">> \in TrailerStruct(type)
      BY DEF TrailerStruct, Moving, TrailerFields, Are
    <3> QED BY <3>1 DEF HasName
  <2> QED BY <2>1, <2>2, <2>3 DEF Complete
<1>6. ASSUME NEW type \in {"TelemetryVec3D", "TelemetryOrientation", "TelemetryPlacement",
                           "TelemetryWheelConfig", "TelemetryWheel"}
      PROVE  Complete(type)
  <2>1. Struct(type) = CommonStruct(type) /\ Fields(type) = CommonFields(type)
    BY DEF Struct, Fields
  <2>2. \A p \in CommonStruct(type) : p[1] \in CommonFields(type)
    BY DEF CommonStruct, Are, CommonFields
  <2>3. ASSUME NEW n \in CommonFields(type) PROVE HasName(CommonStruct(type), n)
    <3>1. \/ <<n, "double">> \in CommonStruct(type)
          \/ <<n, "bool">> \in CommonStruct(type)
          \/ <<n, "u32">> \in CommonStruct(type)
          \/ <<n, "TelemetryVec3D">> \in CommonStruct(type)
          \/ <<n, "TelemetryOrientation">> \in CommonStruct(type)
          \/ <<n, "TelemetryWheelConfig">> \in CommonStruct(type)
      BY DEF CommonStruct, CommonFields, Are
    <3> QED BY <3>1 DEF HasName
  <2> QED BY <2>1, <2>2, <2>3 DEF Complete
<1>7. ASSUME NEW type \in Parts \ {"TelemetryTrailerWear"}
      PROVE  Complete(type)
  <2>1. Struct(type) = TruckPart(type) /\ Fields(type) = TruckPartFields(type)
    BY DEF Struct, Fields, Parts
  <2>2. \A p \in TruckPart(type) : p[1] \in TruckPartFields(type)
    BY DEF Parts, TruckPart, Are, TruckPartFields, BrakeFields
  <2>3. ASSUME NEW n \in TruckPartFields(type) PROVE HasName(TruckPart(type), n)
    <3>1. \/ <<n, "TelemetryPlacement">> \in TruckPart(type)
          \/ <<n, "TelemetryVec3D">> \in TruckPart(type)
          \/ <<n, "double">> \in TruckPart(type)
          \/ <<n, "u32">> \in TruckPart(type)
          \/ <<n, "bool">> \in TruckPart(type)
          \/ <<n, "s32">> \in TruckPart(type)
      BY DEF Parts, TruckPart, TruckPartFields, BrakeFields, Are
    <3> QED BY <3>1 DEF HasName
  <2> QED BY <2>1, <2>2, <2>3 DEF Complete
<1>8. ASSUME NEW type \in Structs PROVE Complete(type)
  BY <1>1, <1>2, <1>3, <1>4, <1>5, <1>6, <1>7 DEF Structs, Parts
<1>9. ASSUME NEW type, Complete(type) PROVE {p[1] : p \in Struct(type)} = Fields(type)
  <2>1. ASSUME NEW n \in Fields(type) PROVE \E p \in Struct(type) : n = p[1]
    <3>1. PICK t : <<n, t>> \in Struct(type)
      BY <1>9, <2>1 DEF Complete, HasName
    <3>2. n = <<n, t>>[1]
      OBVIOUS
    <3> QED BY <3>1, <3>2
  <2>2. \A p \in Struct(type) : p[1] \in Fields(type)
    BY <1>9 DEF Complete
  <2> QED BY <2>1, <2>2
<1> QED BY <1>8, <1>9 DEF Incomplete

\* StoresFit: whatever the sizes of the arrays, every store but the one of the cargo's
\* damage writes what the member is (register_channels, the stores).
THEOREM StoresFitCorrect == Spec => []StoresFit
<1>1. StoresFit
  BY RegistrationFits DEF StoresFit, Misfits
<1> QED BY <1>1, PTL

\* AllSerialized: a frame on the queue has every member of every structure
\* (telemetry_json.h).
THEOREM FramesCompleteCorrect == Spec => []AllSerialized
<1>1. AllSerialized
  BY NothingIncomplete DEF AllSerialized
<1> QED BY <1>1, PTL

-----------------------------------------------------------------------------
(* What the game accepts *)

\* A line asks for what the game has: a channel of the line's own type, or of one that the
\* game converts to it.
OfferedLine(S, row) ==
    \/ <<row[1], row[2]>> \in S /\ row[2] \in {"bool", "s32", "u32", "float", "dplacement"}
    \/ <<row[1], "float">> \in S /\ row[2] = "double"
    \/ <<row[1], "fvector">> \in S /\ row[2] = "dvector"
    \/ <<row[1], "fplacement">> \in S /\ row[2] = "dplacement"

LEMMA OfferedIsProvided ==
    ASSUME NEW S, NEW row, OfferedLine(S, row)
    PROVE  \E c \in S : c[1] = row[1] /\ row[2] \in Provides(c[2])
<1>1. ASSUME NEW n, <<row[1], n>> \in S, row[2] \in Provides(n)
      PROVE  \E c \in S : c[1] = row[1] /\ row[2] \in Provides(c[2])
  <2>1. <<row[1], n>>[1] = row[1] /\ <<row[1], n>>[2] = n
    OBVIOUS
  <2> QED BY <1>1, <2>1
<1>2. /\ \A t \in {"bool", "s32", "u32", "float", "dplacement"} : t \in Provides(t)
      /\ "double" \in Provides("float") /\ "dvector" \in Provides("fvector")
      /\ "dplacement" \in Provides("fplacement")
  BY DEF Provides
<1> QED BY <1>1, <1>2 DEF OfferedLine

LEMMA TruckOffered == \A row \in TruckTable : OfferedLine(Channels("truck"), row)
<1> USE DEF OfferedLine, As, Are
<1> DEFINE Offered(S, T) == \A row \in T : OfferedLine(S, row)
<1>1. Offered(Movement \cup Lights, MovementTable)
  BY DEF Movement, Lights, MovementTable
<1>2. Offered(Driving, DrivingTable)
  BY DEF Driving, DrivingTable
<1>3. Offered(Brakes, BrakeTable)
  BY DEF Brakes, BrakeTable, Retarder
<1>4. Offered(Supplies, SupplyTable)
  BY DEF Supplies, SupplyTable
<1>5. Offered(Lights, BlinkerTable)
  BY DEF Lights, BlinkerTable
<1>6. Offered(Lights, LightTable)
  BY DEF Lights, LightTable
<1>7. Offered(Condition, ConditionTable)
  BY DEF Condition, ConditionTable
<1>8. Channels("truck") = Movement \cup Driving \cup Brakes \cup Supplies \cup Lights
                          \cup Condition
  BY DEF Channels
<1>9. ASSUME NEW S, NEW T, Offered(S, T), S \subseteq Channels("truck")
      PROVE  Offered(Channels("truck"), T)
  BY <1>9
<1> HIDE DEF Offered
<1>10. /\ Offered(Channels("truck"), MovementTable) /\ Offered(Channels("truck"), DrivingTable)
       /\ Offered(Channels("truck"), BrakeTable) /\ Offered(Channels("truck"), SupplyTable)
       /\ Offered(Channels("truck"), BlinkerTable) /\ Offered(Channels("truck"), LightTable)
       /\ Offered(Channels("truck"), ConditionTable)
  <2>1. /\ Movement \cup Lights \subseteq Channels("truck")
        /\ Driving \subseteq Channels("truck")
        /\ Brakes \subseteq Channels("truck") /\ Supplies \subseteq Channels("truck")
        /\ Lights \subseteq Channels("truck") /\ Condition \subseteq Channels("truck")
    BY <1>8
  <2> QED BY <1>1, <1>2, <1>3, <1>4, <1>5, <1>6, <1>7, <1>9, <2>1
<1> HIDE DEF OfferedLine
<1> QED BY <1>10 DEF TruckTable, Offered

LEMMA OthersOffered ==
    /\ \A row \in GeneralTable : OfferedLine(Channels("game"), row)
    /\ \A row \in TrailerTable : OfferedLine(Channels("trailer"), row)
    /\ \A row \in JobTable : OfferedLine(Channels("job"), row)
    /\ \A row \in WheelTable : /\ OfferedLine(Array("truck"), row)
                               /\ OfferedLine(Array("trailer"), row)
<1> USE DEF OfferedLine, As, Are
<1>1. \A row \in GeneralTable : OfferedLine(Channels("game"), row)
  BY DEF GeneralTable, Channels, CommonChannels
<1>2. \A row \in TrailerTable : OfferedLine(Channels("trailer"), row)
  BY DEF TrailerTable, Channels, TrailerChannels
<1>3. \A row \in JobTable : OfferedLine(Channels("job"), row)
  BY DEF JobTable, Channels, JobChannels
<1>4. \A row \in WheelTable : OfferedLine(WheelChannels, row)
  BY DEF WheelTable, WheelChannels
<1>5. WheelChannels \subseteq Array("truck") /\ WheelChannels \subseteq Array("trailer")
  BY DEF Array
<1> QED BY <1>1, <1>2, <1>3, <1>4, <1>5

\* A game accepts every registration but those of the channels it is without.
LEMMA RefusedIsLacked ==
    ASSUME NEW g, NEW r \in register_channels
    PROVE  r \in RefusedBy(g) <=> r.channel.name \in g.lacks
<1> SUFFICES ASSUME r.channel.name \notin g.lacks
             PROVE  Offers(g, r.channel, r.type)
  BY DEF RefusedBy, Offers
<1>1. PICK of, unit, index, row : Registered(r, of, unit, index, row)
  BY RegisteredIs
<1>2. /\ r.type = row[2] /\ r.channel.name = row[1]
      /\ r.channel.of = of /\ r.channel.unit = unit /\ r.channel.index = index
  BY <1>1 DEF Registered, Registration
<1>3. unit \in Unit(of)
  BY <1>1 DEF Registered, Unit
<1>4. \/ index = SCS_U32_NIL /\ OfferedLine(Channels(of), row)
      \/ index \in Wheel /\ OfferedLine(Array(of), row)
  BY <1>1, TruckOffered, OthersOffered DEF Registered, Lines
<1>5. \A j \in Wheel : j # SCS_U32_NIL
  BY CountsAssumption DEF Wheel
<1> QED BY <1>2, <1>3, <1>4, <1>5, OfferedIsProvided DEF Offers

\* In a table no two lines have a name, or a path, in common.
Distinct(T) == \A p, q \in T : p[1] = q[1] \/ p[3] = q[3] => p = q
\* Nor have two tables.
Apart(S, T) == \A p \in S, q \in T : p[1] # q[1] /\ p[3] # q[3]

LEMMA DistinctRows ==
    /\ Distinct(GeneralTable) /\ Distinct(WheelTable) /\ Distinct(TrailerTable)
    /\ Distinct(JobTable)
<1> USE DEF Distinct, As
<1>1. Distinct(GeneralTable)  BY DEF GeneralTable
<1>2. Distinct(WheelTable)  BY DEF WheelTable
<1>3. Distinct(TrailerTable)  BY DEF TrailerTable
<1>4. Distinct(JobTable)  BY DEF JobTable
<1> QED BY <1>1, <1>2, <1>3, <1>4

LEMMA DistinctTruck ==
    /\ Distinct(MovementTable) /\ Distinct(DrivingTable) /\ Distinct(BrakeTable)
    /\ Distinct(SupplyTable) /\ Distinct(BlinkerTable) /\ Distinct(LightTable)
    /\ Distinct(ConditionTable)
<1> USE DEF Distinct, As
<1>1. Distinct(MovementTable)  BY DEF MovementTable
<1>2. Distinct(DrivingTable)  BY DEF DrivingTable
<1>3. Distinct(BrakeTable)  BY DEF BrakeTable, Retarder
<1>4. Distinct(SupplyTable)  BY DEF SupplyTable
<1>5. Distinct(BlinkerTable)  BY DEF BlinkerTable
<1>6. Distinct(LightTable)  BY DEF LightTable
<1>7. Distinct(ConditionTable)  BY DEF ConditionTable
<1> QED BY <1>1, <1>2, <1>3, <1>4, <1>5, <1>6, <1>7

LEMMA ApartTables ==
    /\ Apart(MovementTable, DrivingTable) /\ Apart(MovementTable, BrakeTable)
    /\ Apart(MovementTable, SupplyTable) /\ Apart(MovementTable, BlinkerTable)
    /\ Apart(MovementTable, LightTable) /\ Apart(MovementTable, ConditionTable)
    /\ Apart(DrivingTable, BrakeTable) /\ Apart(DrivingTable, SupplyTable)
    /\ Apart(DrivingTable, BlinkerTable) /\ Apart(DrivingTable, LightTable)
    /\ Apart(DrivingTable, ConditionTable)
    /\ Apart(BrakeTable, SupplyTable) /\ Apart(BrakeTable, BlinkerTable)
    /\ Apart(BrakeTable, LightTable) /\ Apart(BrakeTable, ConditionTable)
    /\ Apart(SupplyTable, BlinkerTable) /\ Apart(SupplyTable, LightTable)
    /\ Apart(SupplyTable, ConditionTable)
    /\ Apart(BlinkerTable, LightTable) /\ Apart(BlinkerTable, ConditionTable)
    /\ Apart(LightTable, ConditionTable)
<1> USE DEF Apart, As
<1>1. Apart(MovementTable, DrivingTable) /\ Apart(MovementTable, BrakeTable)
  BY DEF MovementTable, DrivingTable, BrakeTable, Retarder
<1>2. Apart(MovementTable, SupplyTable) /\ Apart(MovementTable, BlinkerTable)
  BY DEF MovementTable, SupplyTable, BlinkerTable
<1>3. Apart(MovementTable, LightTable) /\ Apart(MovementTable, ConditionTable)
  BY DEF MovementTable, LightTable, ConditionTable
<1>4. Apart(DrivingTable, BrakeTable) /\ Apart(DrivingTable, SupplyTable)
  BY DEF DrivingTable, BrakeTable, Retarder, SupplyTable
<1>5. Apart(DrivingTable, BlinkerTable) /\ Apart(DrivingTable, LightTable)
  BY DEF DrivingTable, BlinkerTable, LightTable
<1>6. Apart(DrivingTable, ConditionTable) /\ Apart(BrakeTable, ConditionTable)
  BY DEF DrivingTable, BrakeTable, Retarder, ConditionTable
<1>7. Apart(BrakeTable, SupplyTable) /\ Apart(BrakeTable, BlinkerTable)
  BY DEF BrakeTable, Retarder, SupplyTable, BlinkerTable
<1>8. Apart(BrakeTable, LightTable) /\ Apart(SupplyTable, LightTable)
  BY DEF BrakeTable, Retarder, LightTable, SupplyTable
<1>9. Apart(SupplyTable, BlinkerTable) /\ Apart(SupplyTable, ConditionTable)
  BY DEF SupplyTable, BlinkerTable, ConditionTable
<1>10. Apart(BlinkerTable, LightTable) /\ Apart(BlinkerTable, ConditionTable)
  BY DEF BlinkerTable, LightTable, ConditionTable
<1>11. Apart(LightTable, ConditionTable)
  BY DEF LightTable, ConditionTable
<1> HIDE DEF Apart
<1> QED BY <1>1, <1>2, <1>3, <1>4, <1>5, <1>6, <1>7, <1>8, <1>9, <1>10, <1>11

LEMMA DistinctTruckRows == Distinct(TruckTable)
<1> DEFINE Ts == {MovementTable, DrivingTable, BrakeTable, SupplyTable, BlinkerTable,
                  LightTable, ConditionTable}
<1>1. \A T \in Ts : Distinct(T)
  BY DistinctTruck
<1>2. \A S, T \in Ts : S = T \/ Apart(S, T) \/ Apart(T, S)
  BY ApartTables
<1>3. TruckTable = UNION Ts
  BY DEF TruckTable
<1> HIDE DEF Ts
<1> SUFFICES ASSUME NEW p \in TruckTable, NEW q \in TruckTable, p[1] = q[1] \/ p[3] = q[3]
             PROVE  p = q
  BY DEF Distinct
<1>4. PICK S \in Ts, T \in Ts : p \in S /\ q \in T
  BY <1>3
<1>5. ~Apart(S, T) /\ ~Apart(T, S)
  BY <1>4 DEF Apart
<1>6. S = T
  BY <1>2, <1>5
<1> QED BY <1>1, <1>4, <1>6 DEF Distinct

\* A channel, or a member, is that of one registration.
LEMMA NothingTwice ==
    ASSUME NEW r \in register_channels, NEW s \in register_channels,
           r.channel = s.channel \/ r.member = s.member
    PROVE  r = s
<1>1. PICK of, unit, index, row : Registered(r, of, unit, index, row)
  BY RegisteredIs
<1>2. PICK of2, unit2, index2, row2 : Registered(s, of2, unit2, index2, row2)
  BY RegisteredIs
<1>3. /\ r.channel.of = of /\ r.channel.unit = unit /\ r.channel.index = index
      /\ r.channel.name = row[1]
      /\ r.member.of = of /\ r.member.unit = unit /\ r.member.wheel = index
      /\ r.member.path = row[3]
  BY <1>1 DEF Registered, Registration
<1>4. /\ s.channel.of = of2 /\ s.channel.unit = unit2 /\ s.channel.index = index2
      /\ s.channel.name = row2[1]
      /\ s.member.of = of2 /\ s.member.unit = unit2 /\ s.member.wheel = index2
      /\ s.member.path = row2[3]
  BY <1>2 DEF Registered, Registration
<1>5. of = of2 /\ unit = unit2 /\ index = index2 /\ (row[1] = row2[1] \/ row[3] = row2[3])
  BY <1>3, <1>4
<1>6. PICK T \in {GeneralTable, TruckTable, TrailerTable, JobTable, WheelTable} :
         row \in T /\ row2 \in T
  <2>1. SCS_U32_NIL \notin Wheel
    BY CountsAssumption DEF Wheel
  <2> QED BY <1>1, <1>2, <1>5, <2>1 DEF Registered, Lines
<1>7. row = row2
  BY <1>5, <1>6, DistinctRows, DistinctTruckRows DEF Distinct
<1> QED BY <1>1, <1>2, <1>5, <1>7 DEF Registered

LEMMA RegistrationsRight == NoneTwice /\ NoneShared
BY NothingTwice DEF NoneTwice, NoneShared

\* RegistrationsAccepted: whatever the sizes of the arrays, a game refuses nothing that
\* register_channels asks for but the channels it is without: all the others exist, for
\* that unit and index and in that type.  No two registrations are of the same one.
THEOREM RegistrationsAcceptedCorrect == Spec => []RegistrationsAccepted
<1>1. ASSUME NEW p \in Refused, p[1] = game PROVE p[2].channel.name \in game.lacks
  <2>1. PICK g \in Games : p \in {g} \X RefusedBy(g)
    BY <1>1 DEF Refused
  <2>2. p[1] = g /\ p[2] \in RefusedBy(g) /\ p[2] \in register_channels
    BY <2>1 DEF RefusedBy
  <2> QED BY <1>1, <2>2, RefusedIsLacked
<1>2. RegistrationsAccepted
  BY <1>1, RegistrationsRight DEF RegistrationsAccepted
<1> QED BY <1>2, PTL

-----------------------------------------------------------------------------
(* What is written *)

\* No line leads to what the configuration fills.
LEMMA NoConfigLine ==
    \A row \in TruckTable \cup TrailerTable \cup WheelTable \cup GeneralTable :
        row[3][1] # "config"
<1> USE DEF As
<1>1. \A row \in MovementTable \cup DrivingTable : row[3][1] # "config"
  BY DEF MovementTable, DrivingTable
<1>2. \A row \in BrakeTable \cup SupplyTable : row[3][1] # "config"
  BY DEF BrakeTable, Retarder, SupplyTable
<1>3. \A row \in BlinkerTable \cup LightTable \cup ConditionTable : row[3][1] # "config"
  BY DEF BlinkerTable, LightTable, ConditionTable
<1>4. \A row \in TrailerTable \cup WheelTable \cup GeneralTable : row[3][1] # "config"
  BY DEF TrailerTable, WheelTable, GeneralTable
<1>5. \A row \in TruckTable : row[3][1] # "config"
  BY <1>1, <1>2, <1>3 DEF TruckTable
<1> QED BY <1>4, <1>5

\* The other way: that a table has a line for a path.
HasPath(T, path) == \E c, t : <<c, t, path>> \in T

LEMMA HasPathIs ==
    ASSUME NEW T, NEW path, HasPath(T, path)
    PROVE  \E row \in T : row[3] = path
<1>1. PICK c, t : <<c, t, path>> \in T
  BY DEF HasPath
<1>2. <<c, t, path>>[3] = path
  OBVIOUS
<1> QED BY <1>1, <1>2

LEMMA HasPathMore ==
    ASSUME NEW S, NEW T, NEW path, HasPath(S, path), S \subseteq T
    PROVE  HasPath(T, path)
BY DEF HasPath

LEMMA NamesAreFields ==
    ASSUME NEW type \in Structs, NEW p \in Struct(type)
    PROVE  p[1] \in Fields(type)
BY NothingIncomplete DEF Incomplete

LEMMA PartsCovered ==
    /\ \A n \in Fields("TelemetryTruckCabin") : HasPath(MovementTable, <<"cabin", n>>)
    /\ \A n \in Fields("TelemetryTruckEngine") : HasPath(MovementTable, <<"engine", n>>)
    /\ \A n \in Fields("TelemetryTruckInput") : /\ HasPath(DrivingTable, <<"input", n>>)
                                                /\ HasPath(DrivingTable, <<"effective", n>>)
    /\ \A n \in Fields("TelemetryTruckBrake") : HasPath(BrakeTable, <<"brake", n>>)
    /\ \A n \in Fields("TelemetryTruckFuel") : HasPath(SupplyTable, <<"fuel", n>>)
    /\ \A n \in Fields("TelemetryTruckAdblue") : HasPath(SupplyTable, <<"adblue", n>>)
    /\ \A n \in Fields("TelemetryTruckOil") : HasPath(SupplyTable, <<"oil", n>>)
    /\ \A n \in Fields("TelemetryTruckLight") : \/ HasPath(BlinkerTable, <<"light", n>>)
                                                \/ HasPath(LightTable, <<"light", n>>)
    /\ \A n \in Fields("TelemetryTruckWear") : HasPath(ConditionTable, <<"wear", n>>)
    /\ \A n \in Fields("TelemetryTruckNavigation") :
          HasPath(ConditionTable, <<"navigation", n>>)
    /\ \A n \in Fields("TelemetryTrailerWear") : HasPath(TrailerTable, <<"wear", n>>)
<1> USE DEF Fields, TruckPartFields, HasPath, As
<1>1. /\ \A n \in Fields("TelemetryTruckCabin") : HasPath(MovementTable, <<"cabin", n>>)
      /\ \A n \in Fields("TelemetryTruckEngine") : HasPath(MovementTable, <<"engine", n>>)
  BY DEF MovementTable
<1>2. \A n \in Fields("TelemetryTruckInput") : /\ HasPath(DrivingTable, <<"input", n>>)
                                               /\ HasPath(DrivingTable, <<"effective", n>>)
  BY DEF DrivingTable
<1>3. \A n \in Fields("TelemetryTruckBrake") : HasPath(BrakeTable, <<"brake", n>>)
  BY DEF BrakeFields, BrakeTable, Retarder
<1>4. /\ \A n \in Fields("TelemetryTruckFuel") : HasPath(SupplyTable, <<"fuel", n>>)
      /\ \A n \in Fields("TelemetryTruckAdblue") : HasPath(SupplyTable, <<"adblue", n>>)
      /\ \A n \in Fields("TelemetryTruckOil") : HasPath(SupplyTable, <<"oil", n>>)
  BY DEF SupplyTable
<1>5. \A n \in Fields("TelemetryTruckLight") : \/ HasPath(BlinkerTable, <<"light", n>>)
                                               \/ HasPath(LightTable, <<"light", n>>)
  BY DEF BlinkerTable, LightTable
<1>6. /\ \A n \in Fields("TelemetryTruckWear") : HasPath(ConditionTable, <<"wear", n>>)
      /\ \A n \in Fields("TelemetryTruckNavigation") :
            HasPath(ConditionTable, <<"navigation", n>>)
  BY DEF ConditionTable
<1>7. \A n \in Fields("TelemetryTrailerWear") : HasPath(TrailerTable, <<"wear", n>>)
  BY DEF TrailerFields, TrailerTable
<1> HIDE DEF Fields, HasPath
<1> QED BY <1>1, <1>2, <1>3, <1>4, <1>5, <1>6, <1>7

LEMMA TruckCovered ==
    ASSUME NEW l \in Leaves("TelemetryTruck"), l[1][1] # "config"
    PROVE  HasPath(TruckTable, l[1])
<1>1. /\ MovementTable \subseteq TruckTable /\ DrivingTable \subseteq TruckTable
      /\ BrakeTable \subseteq TruckTable /\ SupplyTable \subseteq TruckTable
      /\ BlinkerTable \subseteq TruckTable /\ LightTable \subseteq TruckTable
      /\ ConditionTable \subseteq TruckTable
  BY DEF TruckTable
<1>2. Struct("TelemetryTruck") = TelemetryTruck
  BY DEF Struct
<1>3. ASSUME NEW p \in TelemetryTruck, p[2] \in Whole, l = <<<<p[1]>>, p[2]>>
      PROVE  HasPath(TruckTable, l[1])
  <2>1. /\ p[1] \in TruckFields
        /\ p[1] \notin {"wheels", "config", "cabin", "engine", "input", "effective", "brake",
                        "fuel", "adblue", "oil", "light", "wear", "navigation"}
    BY <1>3 DEF TelemetryTruck, Moving, Are, Whole, TruckFields
  <2>2. \/ HasPath(MovementTable, <<p[1]>>) \/ HasPath(DrivingTable, <<p[1]>>)
        \/ HasPath(SupplyTable, <<p[1]>>) \/ HasPath(BlinkerTable, <<p[1]>>)
        \/ HasPath(LightTable, <<p[1]>>) \/ HasPath(ConditionTable, <<p[1]>>)
    BY <2>1 DEF TruckFields, HasPath, As, MovementTable, DrivingTable, SupplyTable,
                BlinkerTable, LightTable, ConditionTable
  <2>3. HasPath(TruckTable, <<p[1]>>)
    BY <1>1, <2>2, HasPathMore
  <2>4. l[1] = <<p[1]>>
    BY <1>3
  <2> QED BY <2>3, <2>4
<1>4. ASSUME NEW p \in TelemetryTruck, p[2] \in Structs \ Whole, NEW q \in Struct(p[2]),
             l = <<<<p[1], q[1]>>, q[2]>>
      PROVE  HasPath(TruckTable, l[1])
  <2> DEFINE n == q[1]
  <2>1. l[1] = <<p[1], n>> /\ p[1] # "config"
    BY <1>4
  <2>2. n \in Fields(p[2])
    BY <1>4, NamesAreFields
  <2>3. \/ p[1] = "cabin" /\ p[2] = "TelemetryTruckCabin"
        \/ p[1] = "engine" /\ p[2] = "TelemetryTruckEngine"
        \/ p[1] \in {"input", "effective"} /\ p[2] = "TelemetryTruckInput"
        \/ p[1] = "brake" /\ p[2] = "TelemetryTruckBrake"
        \/ p[1] = "fuel" /\ p[2] = "TelemetryTruckFuel"
        \/ p[1] = "adblue" /\ p[2] = "TelemetryTruckAdblue"
        \/ p[1] = "oil" /\ p[2] = "TelemetryTruckOil"
        \/ p[1] = "light" /\ p[2] = "TelemetryTruckLight"
        \/ p[1] = "wear" /\ p[2] = "TelemetryTruckWear"
        \/ p[1] = "navigation" /\ p[2] = "TelemetryTruckNavigation"
    BY <1>4, <2>1 DEF TelemetryTruck, Moving, Are, Structs, Whole
  <2> HIDE DEF n
  <2>4. \/ HasPath(MovementTable, <<p[1], n>>) \/ HasPath(DrivingTable, <<p[1], n>>)
        \/ HasPath(BrakeTable, <<p[1], n>>) \/ HasPath(SupplyTable, <<p[1], n>>)
        \/ HasPath(BlinkerTable, <<p[1], n>>) \/ HasPath(LightTable, <<p[1], n>>)
        \/ HasPath(ConditionTable, <<p[1], n>>)
    BY <2>2, <2>3, PartsCovered
  <2> QED BY <1>1, <2>1, <2>4, HasPathMore
<1> QED BY <1>2, <1>3, <1>4 DEF Leaves

\* Only the members that nothing writes to are without a line.
LEMMA OthersCovered ==
    /\ \A l \in Leaves("TelemetryTrailer") :
          \/ l[1][1] = "config" \/ l[1] = <<"localAngularVelocity">>
          \/ HasPath(TrailerTable, l[1])
    /\ \A l \in Leaves("TelemetryWheel") :
          l[1][1] = "config" \/ l[1] = <<"substance">> \/ HasPath(WheelTable, l[1])
    /\ \A l \in Leaves("TelemetryFrame") :
          l[1] = <<"paused">> \/ HasPath(GeneralTable, l[1])
<1>1. ASSUME NEW l \in Leaves("TelemetryTrailer"),
             l[1][1] # "config", l[1] # <<"localAngularVelocity">>
      PROVE  HasPath(TrailerTable, l[1])
  <2>1. Struct("TelemetryTrailer") = TrailerStruct("TelemetryTrailer")
    BY DEF Struct
  <2>2. ASSUME NEW p \in Struct("TelemetryTrailer"), p[2] \in Whole, l = <<<<p[1]>>, p[2]>>
        PROVE  HasPath(TrailerTable, l[1])
    <3>1. /\ p[1] \in TrailerFields("TelemetryTrailer")
          /\ p[1] \notin {"wheels", "config", "wear", "localAngularVelocity"}
      BY <1>1, <2>1, <2>2 DEF TrailerStruct, Moving, Are, Whole, TrailerFields
    <3>2. HasPath(TrailerTable, <<p[1]>>)
      BY <3>1 DEF TrailerFields, HasPath, As, TrailerTable
    <3> QED BY <2>2, <3>2
  <2>3. ASSUME NEW p \in Struct("TelemetryTrailer"), p[2] \in Structs \ Whole,
               NEW q \in Struct(p[2]), l = <<<<p[1], q[1]>>, q[2]>>
        PROVE  HasPath(TrailerTable, l[1])
    <3>1. l[1] = <<p[1], q[1]>> /\ p[1] # "config"
      BY <1>1, <2>3
    <3>2. p[1] = "wear" /\ p[2] = "TelemetryTrailerWear"
      BY <2>1, <2>3, <3>1 DEF TrailerStruct, Moving, Are, Structs, Whole
    <3> QED BY <2>3, <3>1, <3>2, NamesAreFields, PartsCovered
  <2> QED BY <1>1, <2>2, <2>3 DEF Leaves
<1>2. ASSUME NEW l \in Leaves("TelemetryWheel"), l[1][1] # "config",
             l[1] # <<"substance">>
      PROVE  HasPath(WheelTable, l[1])
  <2>1. Struct("TelemetryWheel") = CommonStruct("TelemetryWheel")
    BY DEF Struct
  <2>2. ASSUME NEW p \in Struct("TelemetryWheel"), l = <<<<p[1]>>, p[2]>>
        PROVE  HasPath(WheelTable, l[1])
    <3>1. p[1] \in CommonFields("TelemetryWheel") /\ p[1] \notin {"config", "substance"}
      BY <1>2, <2>1, <2>2 DEF CommonStruct, Are, CommonFields
    <3>2. HasPath(WheelTable, <<p[1]>>)
      BY <3>1 DEF CommonFields, HasPath, As, WheelTable
    <3> QED BY <2>2, <3>2
  <2>3. ASSUME NEW p \in Struct("TelemetryWheel"), p[2] \in Structs \ Whole,
               NEW q \in Struct(p[2]), l = <<<<p[1], q[1]>>, q[2]>>
        PROVE  HasPath(WheelTable, l[1])
    <3>1. p[1] = "config"
      BY <2>1, <2>3 DEF CommonStruct, Are, Structs, Whole
    <3> QED BY <1>2, <2>3, <3>1
  <2> QED BY <1>2, <2>2, <2>3 DEF Leaves
<1>3. ASSUME NEW l \in Leaves("TelemetryFrame"), l[1] # <<"paused">>
      PROVE  HasPath(GeneralTable, l[1])
  <2>1. Struct("TelemetryFrame") = TelemetryFrame
    BY DEF Struct
  <2>2. \A p \in TelemetryFrame : p[2] \notin Structs \ Whole
    BY DEF TelemetryFrame, Are, Structs, Whole
  <2>3. PICK p \in TelemetryFrame : p[2] \in Whole /\ l = <<<<p[1]>>, p[2]>>
    BY <2>1, <2>2 DEF Leaves
  <2>4. p[1] \in FrameFields /\ p[1] \notin {"paused", "truck", "job", "trailer"}
    BY <1>3, <2>3 DEF TelemetryFrame, Are, Whole, FrameFields
  <2>5. HasPath(GeneralTable, <<p[1]>>)
    BY <2>4 DEF FrameFields, HasPath, As, GeneralTable
  <2> QED BY <2>3, <2>5
<1> QED BY <1>1, <1>2, <1>3

\* The members that no configuration fills and no line leads to.
Missing(type) ==
    CASE type = "TelemetryWheel" -> {<<"substance">>}
      [] type = "TelemetryTrailer" -> {<<"localAngularVelocity">>}
      [] OTHER -> {}

\* But for these, the lines of a table lead to all the members of a structure that channels
\* are for, and to no other.
Writes(T, type) ==
    \A path : path \in Channelled(type) \ Missing(type) <=> \E row \in T : row[3] = path

LEMMA TablesWrite ==
    /\ Writes(GeneralTable, "TelemetryFrame") /\ Writes(TruckTable, "TelemetryTruck")
    /\ Writes(TrailerTable, "TelemetryTrailer") /\ Writes(JobTable, "TelemetryJob")
    /\ Writes(WheelTable, "TelemetryWheel")
<1>1. ASSUME NEW T, NEW type, \A row \in T : Line(type, row),
             \A row \in T : row[3] \notin Configured(type) \cup Missing(type),
             \A l \in Leaves(type) :
                l[1] \in Configured(type) \cup Missing(type) \/ HasPath(T, l[1])
      PROVE  Writes(T, type)
  <2>1. ASSUME NEW path \in Channelled(type) \ Missing(type)
        PROVE  \E row \in T : row[3] = path
    BY <1>1, <2>1, HasPathIs DEF Channelled
  <2>2. ASSUME NEW row \in T
        PROVE  row[3] \in Channelled(type) \ Missing(type)
    <3>1. <<row[3], Target(row[2])>> \in Leaves(type)
      BY <1>1, LineLeaf
    <3>2. <<row[3], Target(row[2])>>[1] = row[3]
      OBVIOUS
    <3> QED BY <1>1, <3>1, <3>2 DEF Channelled
  <2> QED BY <2>1, <2>2 DEF Writes
<1>2. ASSUME NEW type \in {"TelemetryTruck", "TelemetryTrailer", "TelemetryWheel"},
             NEW l \in Leaves(type), l[1][1] = "config"
      PROVE  l[1] \in Configured(type)
  BY <1>2 DEF Configured
<1>3. ASSUME NEW type \in {"TelemetryTruck", "TelemetryTrailer", "TelemetryWheel"},
             NEW path, path[1] # "config"
      PROVE  path \notin Configured(type)
  BY <1>3 DEF Configured
<1>4. Writes(GeneralTable, "TelemetryFrame")
  <2>1. Configured("TelemetryFrame") = {<<"paused">>} /\ Missing("TelemetryFrame") = {}
    BY DEF Configured, Missing
  <2>2. \A row \in GeneralTable : row[3] # <<"paused">>
    BY DEF GeneralTable, As
  <2> QED BY <1>1, <2>1, <2>2, GeneralLines, OthersCovered
<1>5. Writes(TruckTable, "TelemetryTruck")
  <2>1. Missing("TelemetryTruck") = {}
    BY DEF Missing
  <2>2. \A row \in TruckTable : row[3] \notin Configured("TelemetryTruck")
    BY <1>3, NoConfigLine
  <2>3. \A l \in Leaves("TelemetryTruck") :
           l[1] \in Configured("TelemetryTruck") \/ HasPath(TruckTable, l[1])
    BY <1>2, TruckCovered
  <2> QED BY <1>1, <2>1, <2>2, <2>3, TruckLines
<1>6. Writes(TrailerTable, "TelemetryTrailer")
  <2>1. Missing("TelemetryTrailer") = {<<"localAngularVelocity">>}
    BY DEF Missing
  <2>2. \A row \in TrailerTable : row[3] \notin Configured("TelemetryTrailer")
    BY <1>3, NoConfigLine
  <2>3. \A l \in Leaves("TelemetryTrailer") :
           \/ l[1] \in Configured("TelemetryTrailer") \/ l[1] = <<"localAngularVelocity">>
           \/ HasPath(TrailerTable, l[1])
    BY <1>2, OthersCovered
  <2>4. \A row \in TrailerTable : row[3] # <<"localAngularVelocity">>
    BY DEF TrailerTable, As
  <2> QED BY <1>1, <2>1, <2>2, <2>3, <2>4, TrailerLines
<1>7. Writes(WheelTable, "TelemetryWheel")
  <2>1. Missing("TelemetryWheel") = {<<"substance">>}
    BY DEF Missing
  <2>2. \A row \in WheelTable : row[3] \notin Configured("TelemetryWheel")
    BY <1>3, NoConfigLine
  <2>3. \A l \in Leaves("TelemetryWheel") :
           \/ l[1] \in Configured("TelemetryWheel") \/ l[1] = <<"substance">>
           \/ HasPath(WheelTable, l[1])
    BY <1>2, OthersCovered
  <2>4. \A row \in WheelTable : row[3] # <<"substance">>
    BY DEF WheelTable, As
  <2> QED BY <1>1, <2>1, <2>2, <2>3, <2>4, WheelLines
<1>8. Writes(JobTable, "TelemetryJob")
  <2> DEFINE damage == <<"cargoDamage">>
  <2>1. <<damage, "double">> \in Leaves("TelemetryJob")
    <3>1. <<"cargoDamage", "double">> \in Struct("TelemetryJob") /\ "double" \in Whole
      BY DEF Struct, TelemetryJob, Are, Whole
    <3> QED BY <3>1 DEF Leaves
  <2>2. /\ Configured("TelemetryJob") = {l[1] : l \in Leaves("TelemetryJob")} \ {damage}
        /\ Missing("TelemetryJob") = {}
    BY DEF Configured, Missing
  <2>3. <<damage, "double">>[1] = damage
    OBVIOUS
  <2>4. /\ <<"cargo_damage", "float", damage>> \in JobTable
        /\ \A row \in JobTable : row[3] = damage
    BY DEF JobTable, As
  <2>5. <<"cargo_damage", "float", damage>>[3] = damage
    OBVIOUS
  <2> HIDE DEF damage
  <2>6. \A path : path \in Channelled("TelemetryJob") <=> path = damage
    BY <2>1, <2>2, <2>3 DEF Channelled
  <2>7. \A path : path \in Channelled("TelemetryJob") \ Missing("TelemetryJob")
                    <=> path = damage
    BY <2>2, <2>6
  <2> QED BY <2>4, <2>5, <2>7 DEF Writes
<1> QED BY <1>4, <1>5, <1>6, <1>7, <1>8

\* What register_channels writes, for arrays of any size: every member that no
\* configuration fills, but the substance of the wheels and the angular velocity of the
\* trailers, which no line is for (TelemetryWheel, TelemetryTrailer), and nothing else.
THEOREM MembersWritten ==
    WrittenMembers = {m \in ChannelMembers : m.path \notin Missing(Owner(m))}
<1> DEFINE In(of, unit, index, path) ==
              [of |-> of, unit |-> unit, wheel |-> index, path |-> path]
           trailers == 0 .. MAX_TRAILERS - 1
           Is(m) == \E of, unit, index, path :
                       /\ m = In(of, unit, index, path)
                       /\ of \in {"game", "truck", "trailer", "job"}
                       /\ IF of = "trailer" THEN unit \in trailers ELSE unit = SCS_U32_NIL
                       /\ \/ index = SCS_U32_NIL /\ path \in Channelled(Root(of))
                          \/ /\ index \in Wheel /\ of \in {"truck", "trailer"}
                             /\ path \in Channelled("TelemetryWheel")
<1>0. SCS_U32_NIL \notin Wheel
  BY CountsAssumption DEF Wheel
<1>1. \A of \in {"game", "truck", "trailer", "job"} : Writes(Lines(of), Root(of))
  BY TablesWrite DEF Lines, Root
<1>2. ASSUME NEW m \in WrittenMembers PROVE Is(m) /\ m.path \notin Missing(Owner(m))
  <2>1. PICK r \in register_channels : m = r.member
    BY DEF WrittenMembers
  <2>2. PICK of, unit, index, row : Registered(r, of, unit, index, row)
    BY <2>1, RegisteredIs
  <2>3. m = In(of, unit, index, row[3])
    BY <2>1, <2>2 DEF Registered, Registration
  <2>4. \/ index = SCS_U32_NIL /\ row[3] \in Channelled(Root(of))
        \/ /\ index \in Wheel /\ of \in {"truck", "trailer"}
           /\ row[3] \in Channelled("TelemetryWheel")
    BY <1>1, <2>2, TablesWrite DEF Registered, Writes
  <2>5. m.path = row[3] /\ m.path \notin Missing(Owner(m))
    <3>1. m.of = of /\ m.wheel = index /\ m.path = row[3]
      BY <2>3
    <3>2. /\ index = SCS_U32_NIL => row[3] \notin Missing(Root(of))
          /\ index \in Wheel => row[3] \notin Missing("TelemetryWheel")
      BY <1>0, <1>1, <2>2, TablesWrite DEF Registered, Writes
    <3> QED BY <1>0, <2>4, <3>1, <3>2 DEF Owner
  <2> HIDE DEF In, trailers
  <2> QED BY <2>2, <2>3, <2>4, <2>5 DEF Registered, trailers
<1>3. ASSUME NEW m, Is(m), m.path \notin Missing(Owner(m)) PROVE m \in WrittenMembers
  <2>1. PICK of, unit, index, path :
           /\ m = In(of, unit, index, path)
           /\ of \in {"game", "truck", "trailer", "job"}
           /\ IF of = "trailer" THEN unit \in trailers ELSE unit = SCS_U32_NIL
           /\ \/ index = SCS_U32_NIL /\ path \in Channelled(Root(of))
              \/ /\ index \in Wheel /\ of \in {"truck", "trailer"}
                 /\ path \in Channelled("TelemetryWheel")
    BY <1>3
  <2>0. /\ index = SCS_U32_NIL => path \notin Missing(Root(of))
        /\ index \in Wheel => path \notin Missing("TelemetryWheel")
    <3>1. m.of = of /\ m.wheel = index /\ m.path = path
      BY <2>1
    <3> QED BY <1>0, <1>3, <3>1 DEF Owner
  <2>2. PICK row : /\ row[3] = path
                   /\ \/ index = SCS_U32_NIL /\ row \in Lines(of)
                      \/ index \in Wheel /\ of \in {"truck", "trailer"} /\ row \in WheelTable
    BY <1>1, <2>0, <2>1, TablesWrite DEF Writes
  <2> DEFINE r == Registration(of, unit, index, row)
  <2>3. Registered(r, of, unit, index, row)
    BY <2>1, <2>2 DEF Registered
  <2>4. r \in register_channels
    BY <2>3, RegisteredIs
  <2>5. r.member = m
    BY <2>1, <2>2 DEF Registration
  <2> QED BY <2>4, <2>5 DEF WrittenMembers
<1>4. ASSUME NEW m
      PROVE  m \in ChannelMembers <=>
                \/ \E of \in {"game", "truck", "job"} :
                      m \in Member(of, {SCS_U32_NIL}, {SCS_U32_NIL}, Channelled(Root(of)))
                \/ m \in Member("trailer", trailers, {SCS_U32_NIL},
                                Channelled("TelemetryTrailer"))
                \/ m \in Member("truck", {SCS_U32_NIL}, Wheel, Channelled("TelemetryWheel"))
                \/ m \in Member("trailer", trailers, Wheel, Channelled("TelemetryWheel"))
  <2> HIDE DEF trailers
  <2> DEFINE f(of) == Member(of, {SCS_U32_NIL}, {SCS_U32_NIL}, Channelled(Root(of)))
             A == Member("trailer", trailers, {SCS_U32_NIL}, Channelled("TelemetryTrailer"))
             B == Member("truck", {SCS_U32_NIL}, Wheel, Channelled("TelemetryWheel"))
             C == Member("trailer", trailers, Wheel, Channelled("TelemetryWheel"))
  <2>1. ChannelMembers = (UNION {f(of) : of \in {"game", "truck", "job"}}) \cup A \cup B \cup C
    BY Zenon DEF ChannelMembers, trailers
  <2> HIDE DEF f, A, B, C
  <2>2. m \in ChannelMembers <=> \/ \E of \in {"game", "truck", "job"} : m \in f(of)
                                \/ m \in A \/ m \in B \/ m \in C
    <3> DEFINE F == UNION {f(of) : of \in {"game", "truck", "job"}}
    <3>1. m \in F <=> \E of \in {"game", "truck", "job"} : m \in f(of)
      BY Zenon
    <3>2. ChannelMembers = F \cup A \cup B \cup C
      BY <2>1, Zenon
    <3> HIDE DEF F
    <3> QED BY <3>1, <3>2, Zenon
  <2> QED BY <2>2 DEF f, A, B, C
<1>5. ASSUME NEW m, NEW of, NEW U, NEW W, NEW P
      PROVE  m \in Member(of, U, W, P)
                <=> \E unit \in U, index \in W, path \in P : m = In(of, unit, index, path)
  BY DEF Member
<1>6. Root("trailer") = "TelemetryTrailer"
  BY DEF Root
<1> HIDE DEF In, trailers
<1>7. ASSUME NEW m \in ChannelMembers PROVE Is(m)
  <2>1. ASSUME NEW of \in {"game", "truck", "job"},
               m \in Member(of, {SCS_U32_NIL}, {SCS_U32_NIL}, Channelled(Root(of)))
        PROVE  Is(m)
    BY <2>1, <1>5
  <2>2. CASE m \in Member("trailer", trailers, {SCS_U32_NIL}, Channelled("TelemetryTrailer"))
    BY <2>2, <1>5, <1>6
  <2>3. CASE m \in Member("truck", {SCS_U32_NIL}, Wheel, Channelled("TelemetryWheel"))
    BY <2>3, <1>5
  <2>4. CASE m \in Member("trailer", trailers, Wheel, Channelled("TelemetryWheel"))
    BY <2>4, <1>5
  <2> QED BY <1>4, <2>1, <2>2, <2>3, <2>4
<1>8. ASSUME NEW m, Is(m) PROVE m \in ChannelMembers
  <2>1. PICK of, unit, index, path :
           /\ m = In(of, unit, index, path)
           /\ of \in {"game", "truck", "trailer", "job"}
           /\ IF of = "trailer" THEN unit \in trailers ELSE unit = SCS_U32_NIL
           /\ \/ index = SCS_U32_NIL /\ path \in Channelled(Root(of))
              \/ /\ index \in Wheel /\ of \in {"truck", "trailer"}
                 /\ path \in Channelled("TelemetryWheel")
    BY <1>8
  <2>2. CASE of = "trailer" /\ index = SCS_U32_NIL /\ path \in Channelled(Root(of))
    <3>1. m \in Member("trailer", trailers, {SCS_U32_NIL}, Channelled("TelemetryTrailer"))
      BY <1>5, <1>6, <2>1, <2>2
    <3> QED BY <1>4, <3>1
  <2>3. CASE of # "trailer" /\ index = SCS_U32_NIL /\ path \in Channelled(Root(of))
    <3>1. m \in Member(of, {SCS_U32_NIL}, {SCS_U32_NIL}, Channelled(Root(of)))
      BY <1>5, <2>1, <2>3
    <3> QED BY <1>4, <2>1, <2>3, <3>1
  <2>4. CASE of = "truck" /\ index \in Wheel /\ path \in Channelled("TelemetryWheel")
    <3>1. m \in Member("truck", {SCS_U32_NIL}, Wheel, Channelled("TelemetryWheel"))
      BY <1>5, <2>1, <2>4
    <3> QED BY <1>4, <3>1
  <2>5. CASE of = "trailer" /\ index \in Wheel /\ path \in Channelled("TelemetryWheel")
    <3>1. m \in Member("trailer", trailers, Wheel, Channelled("TelemetryWheel"))
      BY <1>5, <2>1, <2>5
    <3> QED BY <1>4, <3>1
  <2> QED BY <2>1, <2>2, <2>3, <2>4, <2>5
<1> HIDE DEF Is
<1> QED BY <1>2, <1>3, <1>7, <1>8

\* OneWriter: whatever the sizes of the arrays, no two registrations write to one member,
\* and none to a member that a configuration or telemetry_pause sets (register_channels).
THEOREM OneWriterCorrect == Spec => []OneWriter
<1>1. StrayMembers = {}
  BY MembersWritten DEF StrayMembers
<1>2. OneWriter
  BY <1>1, RegistrationsRight DEF OneWriter
<1> QED BY <1>2, PTL

-----------------------------------------------------------------------------
(* The channels *)

\* A channel is registered with a member of the structure it is about.
LEMMA SameKind ==
    ASSUME NEW r \in register_channels
    PROVE  r.member.of = r.channel.of
<1> PICK of, unit, index, row : Registered(r, of, unit, index, row)
  BY RegisteredIs
<1>1. r = Registration(of, unit, index, row)
  BY DEF Registered
<1> QED BY <1>1 DEF Registration

\* telemetryData has the last value of every channel that was delivered in the session;
\* a session begins with none.
Mirror ==
    /\ host = "init" => \A r \in Watched : delivered[r] = NoValue
    /\ InSession =>
          \A r \in accepted :
              r.channel.of # "job" /\ delivered[r] # NoValue =>
                  telemetryData.members[r.member] = Stored(r.type, delivered[r])

LEMMA InitMirror == Init => Mirror
BY DEF Init, Mirror, InSession, Callbacks

LEMMA StepMirror ==
    ASSUME TypeOK, Mirror, [Next]_vars
    PROVE  Mirror'
<1>0. /\ telemetryData \in Data /\ accepted \subseteq Watched
      /\ \A r \in Watched : r.member \in Members
  BY DEF TypeOK, Members
<1>1. ASSUME UNCHANGED <<telemetryData, delivered, accepted>>, InSession' => InSession,
             host' = "init" => host = "init"
      PROVE  Mirror'
  BY <1>1 DEF Mirror
<1>2. CASE UNCHANGED vars \/ EventLoop \/ Shutdown \/ Joined \/ ValueChanges
  BY <1>1, <1>2 DEF vars, EventLoop, LoopTest, TakeEvent, QueueEmpty, serving, Shutdown, Joined,
                    ValueChanges, InSession, Callbacks, data, channels
<1>3. CASE \/ \E used \in BOOLEAN : telemetry_configuration(used)
           \/ telemetry_frame_start \/ telemetry_frame_end
  BY <1>1, <1>3 DEF telemetry_configuration, telemetry_frame_start, telemetry_frame_end,
                    InSession, Callbacks, data, channels
<1>4. CASE InitUnsupported \/ FailStep
  BY <1>1, <1>4 DEF InitUnsupported, FailStep, EventsRefused, ThreadRefused, ConstructorThrows,
                    NewSerializer, InitFails, InSession, Callbacks, data, channels
<1>5. CASE Start
  <2>1. host' = "init" /\ \A r \in Watched : delivered'[r] = NoValue
    BY <1>5 DEF Start
  <2> QED BY <2>1 DEF Mirror, InSession, Callbacks
<1>6. ASSUME NEW A \in SUBSET Watched, InitOk(A)
      PROVE  Mirror'
  <2>1. host = "init" /\ host' = "initial" /\ delivered' = delivered /\ accepted' = A
    BY <1>6 DEF InitOk, NewSerializer
  <2> QED BY <2>1 DEF Mirror
<1>7. CASE Unload \/ Restart
  <2>1. ~InSession' /\ host' # "init"
    BY <1>7 DEF Unload, Restart, InSession, Callbacks
  <2> QED BY <2>1 DEF Mirror
<1>8. ASSUME UNCHANGED <<delivered, accepted>>, InSession, host' # "init",
             \A m \in Members : m.of # "job" =>
                telemetryData'.members[m] = telemetryData.members[m]
      PROVE  Mirror'
  <2> SUFFICES ASSUME NEW r \in accepted, r.channel.of # "job", delivered[r] # NoValue
               PROVE  telemetryData'.members[r.member] = Stored(r.type, delivered[r])
    BY <1>8 DEF Mirror
  <2>1. r.member \in Members /\ r.member.of # "job"
    BY <1>0, SameKind, WatchedAssumption
  <2> QED BY <1>8, <2>1 DEF Mirror
<1>9. CASE telemetry_pause
  <2>1. telemetryData'.members = telemetryData.members
    BY <1>0, <1>9 DEF telemetry_pause, Data
  <2> QED BY <1>8, <1>9, <2>1 DEF telemetry_pause, InSession, Callbacks, channels
<1>10. ASSUME NEW event \in Events, telemetry_gameplay(event)
       PROVE  Mirror'
  <2>1. \A m \in Members : m.of # "job" =>
           telemetryData'.members[m] = telemetryData.members[m]
    BY <1>0, <1>10 DEF telemetry_gameplay, JobCleared, Data
  <2> QED BY <1>8, <1>10, <2>1 DEF telemetry_gameplay, InSession, Callbacks, channels
<1>11. ASSUME NEW s \in Watched, channel_wrapper(s)
       PROVE  Mirror'
  <2>1. /\ InSession /\ host' # "init" /\ accepted' = accepted
        /\ delivered' = [delivered EXCEPT ![s] = value[s]]
    BY <1>11 DEF channel_wrapper, InSession, Callbacks
  <2>2. telemetryData'.members = [telemetryData.members EXCEPT ![s.member] = Written(s)]
    BY <1>0, <1>11 DEF channel_wrapper, Data
  <2> SUFFICES ASSUME NEW r \in accepted, r.channel.of # "job", delivered'[r] # NoValue
               PROVE  telemetryData'.members[r.member] = Stored(r.type, delivered'[r])
    BY <2>1 DEF Mirror
  <2>3. /\ r \in Watched /\ r.member \in Members /\ s.member \in Members
        /\ telemetryData.members \in [Members -> Content]
        /\ delivered \in [Watched -> Value \cup {NoValue}]
    BY <1>0 DEF Data, TypeOK
  <2>4. CASE r = s
    <3>1. telemetryData'.members[r.member] = Written(r)
      BY <2>2, <2>3, <2>4
    <3>2. delivered'[r] = value[r]
      BY <2>1, <2>3, <2>4
    <3>3. Target(r.type) = MemberType(r.member)
      BY <2>3, RegistrationFits, WatchedAssumption
    <3> QED BY <3>1, <3>2, <3>3 DEF Written
  <2>5. CASE r # s
    <3>1. r.member # s.member
      BY <2>3, <2>5, WatchedAssumption
    <3>2. telemetryData'.members[r.member] = telemetryData.members[r.member]
      BY <2>2, <2>3, <3>1
    <3>3. delivered'[r] = delivered[r]
      BY <2>1, <2>3, <2>5
    <3> QED BY <2>1, <3>2, <3>3 DEF Mirror
  <2> QED BY <2>4, <2>5
<1> QED
  BY <1>2, <1>3, <1>4, <1>5, <1>6, <1>7, <1>9, <1>10, <1>11 DEF Next, FailStep

\* ClientsSeeGame: the last frame has, where it belongs and in its unit, the last value
\* of every channel the game has delivered in this session (register_channels,
\* channel_wrapper, the stores, telemetry_frame_end).
THEOREM ClientsSeeGameCorrect == Spec => []ClientsSeeGame
<1> DEFINE Inv == TypeOK /\ Lifecycle /\ Mirror /\ Pushed
<1>1. Init => Inv
  BY InitTyped, InitLifecycle, InitMirror, InitPushed
<1>2. Inv /\ [Next]_vars => Inv'
  BY StepTyped, StepLifecycle, StepMirror, StepPushed
<1>3. Inv => ClientsSeeGame
  <2> SUFFICES ASSUME Inv, Current, NEW r \in accepted, r.channel.of # "job",
                      delivered[r] # NoValue
               PROVE  /\ r.member \in Shown
                      /\ LastFrame.members[r.member] = Stored(r.type, delivered[r])
    BY DEF ClientsSeeGame
  <2>1. r \in Watched /\ r.member.of # "job"
    BY SameKind, WatchedAssumption DEF TypeOK
  <2>2. r.member \in Shown
    BY <2>1, RegistrationFits, WatchedAssumption DEF Shown, Members
  <2>3. telemetryData.members[r.member] = Stored(r.type, delivered[r])
    BY DEF Mirror, Current, InSession
  <2> QED BY <2>1, <2>2, <2>3 DEF Pushed
<1> QED BY <1>1, <1>2, <1>3, PTL DEF Spec

-----------------------------------------------------------------------------
(* The gameplay events *)

\* The switch of telemetry_gameplay knows the type of every attribute there is.
LEMMA AttributesHandled ==
    ASSUME NEW event \in GameplayEvent
    PROVE  Payload(event) = Attributes(event)
<1>1. ASSUME NEW type \in Handled, NEW names, NEW a \in Are(type, names)
      PROVE  a[2] \in Handled
  BY <1>1 DEF Are
<1>2. {"string", "float", "s32", "s64", "u32", "bool"} \subseteq Handled
  BY DEF Handled
<1>3. ASSUME NEW a \in Attributes(event) PROVE a[2] \in Handled
  BY <1>1, <1>2, <1>3 DEF Attributes, Route, GameplayEvent
<1> QED BY <1>3 DEF Payload

\* The events on the queue, and their attributes.
LEMMA PushedEvents ==
    ASSUME TypeOK, NEW i \in DOMAIN eventQueue, eventQueue[i].type = "gameplay"
    PROVE  eventQueue[i].event \in GameplayEvent
BY GamesAssumption DEF TypeOK, QueueEvent

\* An event on the queue has what the switch has read of its attributes.
Payloads ==
    \A i \in DOMAIN eventQueue :
        eventQueue[i].type = "gameplay" =>
            eventQueue[i].attributes = Payload(eventQueue[i].event)

LEMMA StepPayloads ==
    ASSUME TypeOK, Payloads, [Next]_vars
    PROVE  Payloads'
<1>0. eventQueue \in Seq(QueueEvent)
  BY DEF TypeOK
<1>1. ASSUME eventQueue' = eventQueue PROVE Payloads'
  BY <1>1 DEF Payloads
<1>2. ASSUME eventQueue' = <<>> PROVE Payloads'
  BY <1>2 DEF Payloads
<1>3. ASSUME NEW e \in QueueEvent, eventQueue' = Append(eventQueue, e),
             e.type = "gameplay" => e.attributes = Payload(e.event)
      PROVE  Payloads'
  <2> DEFINE q == eventQueue'
  <2>1. /\ DOMAIN q = 1 .. Len(eventQueue) + 1 /\ q[Len(eventQueue) + 1] = e
        /\ \A i \in 1 .. Len(eventQueue) : q[i] = eventQueue[i]
        /\ DOMAIN eventQueue = 1 .. Len(eventQueue) /\ Len(eventQueue) \in Nat
    BY <1>0, <1>3
  <2> SUFFICES ASSUME NEW i \in DOMAIN q, q[i].type = "gameplay"
               PROVE  q[i].attributes = Payload(q[i].event)
    BY DEF Payloads
  <2> HIDE DEF q
  <2>2. CASE i = Len(eventQueue) + 1
    <3>1. q[i] = e
      BY <2>1, <2>2
    <3> QED BY <1>3, <3>1
  <2>3. CASE i # Len(eventQueue) + 1
    <3>1. i \in DOMAIN eventQueue /\ q[i] = eventQueue[i]
      BY <2>1, <2>3
    <3> QED BY <3>1 DEF Payloads
  <2> QED BY <2>2, <2>3
<1>4. CASE TakeEvent
  <2> DEFINE q == eventQueue'
  <2>1. /\ DOMAIN q = 1 .. Len(eventQueue) - 1
        /\ \A i \in DOMAIN q : i + 1 \in DOMAIN eventQueue /\ q[i] = eventQueue[i + 1]
    BY <1>0, <1>4 DEF TakeEvent
  <2> HIDE DEF q
  <2>2. \A i \in DOMAIN q : q[i].type = "gameplay" => q[i].attributes = Payload(q[i].event)
    BY <2>1 DEF Payloads
  <2> QED BY <2>2 DEF Payloads, q
<1>5. ASSUME NEW event \in Events, telemetry_gameplay(event)
      PROVE  Payloads'
  <2> DEFINE e == [type |-> "gameplay", event |-> event, attributes |-> Payload(event)]
  <2>1. eventQueue' = Append(eventQueue, e)
    BY <1>5 DEF telemetry_gameplay, PushEvent
  <2>2. e \in QueueEvent /\ e.attributes = Payload(e.event)
    BY GameplayTyped
  <2> HIDE DEF e
  <2> QED BY <1>3, <2>1, <2>2
<1>6. CASE telemetry_frame_end /\ frameChanged
  <2> DEFINE e == [type |-> "frame", frame |-> SerializeFrame]
  <2>1. eventQueue' = Append(eventQueue, e)
    BY <1>6 DEF telemetry_frame_end, PushEvent
  <2>2. e \in QueueEvent /\ e.type # "gameplay"
    BY FrameTyped
  <2> HIDE DEF e
  <2> QED BY <1>3, <2>1, <2>2
<1>7. CASE telemetry_frame_end /\ ~frameChanged
  BY <1>1, <1>7 DEF telemetry_frame_end
<1>8. CASE Unload \/ Restart
  BY <1>2, <1>8 DEF Unload, Restart, Loaded
<1>9. CASE UNCHANGED vars \/ Start \/ InitUnsupported \/ FailStep \/ LoopTest \/ QueueEmpty
           \/ Shutdown \/ Joined \/ ValueChanges \/ (\E A \in SUBSET Watched : InitOk(A))
           \/ (\E used \in BOOLEAN : telemetry_configuration(used))
           \/ telemetry_pause \/ telemetry_frame_start
           \/ (\E r \in Watched : channel_wrapper(r))
  BY <1>1, <1>9 DEF vars, Start, InitUnsupported, FailStep, EventsRefused, ThreadRefused,
     ConstructorThrows, LoopTest, QueueEmpty, serving, Shutdown, Joined, ValueChanges, InitOk,
     telemetry_configuration, telemetry_pause, telemetry_frame_start, channel_wrapper, queue
<1> QED
  BY <1>4, <1>5, <1>6, <1>7, <1>8, <1>9 DEF Next, EventLoop, FailStep

\* EventsComplete: a gameplay event reaches the queue with all its attributes, whatever
\* their types (telemetry_gameplay, to_json of TelemetryGameplayEvent).
THEOREM EventsCompleteCorrect == Spec => []EventsComplete
<1> DEFINE Inv == TypeOK /\ Lifecycle /\ Payloads
<1>1. Init => Inv
  <2>1. Init => Payloads
    BY DEF Init, Payloads
  <2> QED BY <2>1, InitTyped, InitLifecycle
<1>2. Inv /\ [Next]_vars => Inv'
  BY StepTyped, StepLifecycle, StepPayloads
<1>3. Inv => EventsComplete
  BY PushedEvents, AttributesHandled DEF EventsComplete, Payloads
<1> QED BY <1>1, <1>2, <1>3, PTL DEF Spec
=============================================================================
