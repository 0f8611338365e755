-------------------------- MODULE TelemetryPlugin --------------------------
(***************************************************************************)
(* src/ts_telemetry_server.cpp: the callbacks of the plugin, from the end  *)
(* of scs_telemetry_init to scs_telemetry_shutdown.  All of them run on    *)
(* the game's thread, one after the other; the data they collect becomes   *)
(* visible to anybody else only in what they push on the event queue, from *)
(* where the network thread takes it (NetworkHandler.tla).                 *)
(*                                                                         *)
(* The game (external) calls them in the order the SDK documents: first    *)
(* the configuration, then frame by frame: configurations, one of PAUSED   *)
(* and STARTED if that changed, FRAME_START, gameplay events, channels     *)
(* (none while it is paused), FRAME_END.                                   *)
(***************************************************************************)
EXTENDS TelemetryData, PushedFrames

CONSTANTS
    Ids,          \* the configurations the game has
    Lists(_),     \* per kind of configuration, the lists the game may send
    MaxQueued,    \* bound of the model: events in the queue
    NoFrame       \* there has been no frame yet

\* info->id: <<"truck">>, <<"controls">>, <<"job">>, <<"trailer">>, <<"trailer", n>>
\* or one the plugin has no use for, <<"substances">>.
Kind(id) == id[1]

ASSUME IdsAssumption ==
    Ids \subseteq {<<"truck">>, <<"controls">>, <<"job">>, <<"trailer">>, <<"substances">>}
                  \cup ({"trailer"} \X Nat)
ASSUME ListsAssumption ==
    \A id \in Ids \ {<<"substances">>} : \A A \in Lists(Kind(id)) :
        A \subseteq Attribute(Kind(id)) /\ WellFormed(A)
ASSUME NoFrameAssumption == NoFrame \notin TelemetryFrame /\ MaxQueued \in Nat

VARIABLES
    telemetryData,
    frameChanged,
    eventQueue,
    m_lastSentFrame,  \* of the network thread: the frame it took last, or NoFrame
    \* the game
    phase,          \* how far it is in the sequence of a frame
    paused,
    config,         \* the list it sent last for each subject the data have room for
    damage,         \* the cargo damage it reported last
    ended           \* history: a job has ended since the last job configuration

plugin == <<telemetryData, frameChanged>>
queue == <<eventQueue, m_lastSentFrame>>
game == <<phase, paused, config, damage, ended>>
vars == <<plugin, queue, game>>

\* What the configurations describe; "trailer" is another name of trailer 0.
Subject(id) == IF id = <<"trailer">> THEN <<"trailer", 0>> ELSE id

\* The entries of the array, and the early returns: an id that is not looked for,
\* or a trailer the array has no entry for.
Trailers == 0 .. MAX_TRAILERS - 1
Ignored(id) ==
    \/ Kind(id) \notin {"truck", "job", "controls", "trailer"}
    \/ Kind(id) = "trailer" /\ Subject(id)[2] \notin Trailers

Subjects == {Subject(id) : id \in {i \in Ids : ~Ignored(i)}}
ListsOf(id) == IF Kind(id) = "substances" THEN {{}} ELSE Lists(Kind(id))

\* What is pushed: a frame, or a gameplay event, which may be one of a job.
QueueEvent == [type : {"frame"}, frame : TelemetryFrame]
              \cup [type : {"gameplay"}, job : BOOLEAN]

TypeOK ==
    /\ telemetryData \in TelemetryFrame
    /\ frameChanged \in BOOLEAN
    /\ eventQueue \in Seq(QueueEvent)
    /\ m_lastSentFrame \in TelemetryFrame \cup {NoFrame}
    /\ phase \in {"config", "changed", "events", "channels"}
    /\ paused \in BOOLEAN
    /\ \A s \in Subjects : config[s] \in ListsOf(s) \cup {{}}
    /\ damage \in Value
    /\ ended \in BOOLEAN

\* The plugin has been loaded and registered; the game is paused.
Init ==
    /\ telemetryData = InitialFrame
    /\ frameChanged = TRUE
    /\ eventQueue = <<>> /\ m_lastSentFrame = NoFrame
    /\ phase = "config" /\ paused = TRUE
    /\ config = [s \in Subjects |-> {}]
    /\ damage = 0
    /\ ended = FALSE

-----------------------------------------------------------------------------
(* telemetry_configuration *)

\* Fault: every trailer is the first.
StoredConfigFirst(id, A) ==
    CASE id = <<"truck">> -> [telemetryData EXCEPT !.truck = HandleTruckConfig(A, @)]
      [] id = <<"job">> -> [telemetryData EXCEPT !.job = HandleJobConfig(A, @)]
      [] id = <<"controls">> -> [telemetryData EXCEPT !.truck = HandleControlConfig(A, @)]
      [] Kind(id) = "trailer" ->
            [telemetryData EXCEPT !.trailer[0] = HandleTrailerConfig(A, @)]

\* What a configuration that is recognised writes.
StoredConfig(id, A) ==
    CASE id = <<"truck">> -> [telemetryData EXCEPT !.truck = HandleTruckConfig(A, @)]
      [] id = <<"job">> -> [telemetryData EXCEPT !.job = HandleJobConfig(A, @)]
      [] id = <<"controls">> -> [telemetryData EXCEPT !.truck = HandleControlConfig(A, @)]
      [] Kind(id) = "trailer" ->
            [telemetryData EXCEPT !.trailer[Subject(id)[2]] = HandleTrailerConfig(A, @)]

telemetry_configuration(id, A) ==
    /\ phase = "config"
    /\ IF Ignored(id)
       THEN UNCHANGED <<telemetryData, frameChanged, config>>
       ELSE /\ telemetryData' = StoredConfig(id, A)
            /\ frameChanged' = TRUE
            /\ config' = [config EXCEPT ![Subject(id)] = A]
    /\ ended' = (ended /\ id # <<"job">>)
    /\ UNCHANGED <<queue, phase, paused, damage>>

-----------------------------------------------------------------------------
\* Fault: the one callback of both events takes them for PAUSED.
PauseSet == [telemetryData EXCEPT !.paused = TRUE]
PauseToggled == [telemetryData EXCEPT !.paused = ~@]

\* PAUSED and STARTED, of which the game sends the one that is news.
telemetry_pause ==
    /\ phase = "config" /\ phase' = "changed"
    /\ paused' = ~paused
    /\ telemetryData' = PauseToggled
    /\ frameChanged' = TRUE
    /\ UNCHANGED <<queue, config, damage, ended>>

telemetry_frame_start ==
    /\ phase \in {"config", "changed"} /\ phase' = "events"
    /\ UNCHANGED <<plugin, queue, paused, config, damage, ended>>

PushEvent(e) == Len(eventQueue) < MaxQueued /\ eventQueue' = Append(eventQueue, e)

\* Fault: the job is kept.
AfterEventKept(job) == telemetryData
\* An event whose id contains "job" is the end of the job.
AfterEvent(job) == IF job THEN [telemetryData EXCEPT !.job = NoJob] ELSE telemetryData

\* A gameplay event: frameChanged stays as it is.
telemetry_gameplay(job) ==
    /\ phase = "events"
    /\ telemetryData' = AfterEvent(job)
    /\ PushEvent([type |-> "gameplay", job |-> job])
    /\ ended' = (ended \/ job)
    /\ UNCHANGED <<frameChanged, m_lastSentFrame, phase, paused, config, damage>>

-----------------------------------------------------------------------------
(* channel_wrapper *)

\* The number of wheels the game has told.
WheelCount(s) ==
    IF \E a \in config[s] : a.name = "wheelCount"
    THEN (CHOOSE a \in config[s] : a.name = "wheelCount").value ELSE 0

\* Fault: a value that comes through a channel does not count as a change.
ChannelChangedNot == frameChanged
ChannelChanged == TRUE

\* StoreScsFloat and the other stores: the target becomes `data`.
channel_wrapper(data) ==
    /\ phase \in {"events", "channels"} /\ phase' = "channels"
    /\ ~paused
    /\ telemetryData' = data
    /\ frameChanged' = ChannelChanged
    /\ UNCHANGED <<queue, paused, config, ended>>

\* A channel of a wheel the game has; only a wheel the array has was registered.
WheelChannel ==
    /\ \E s \in Subjects, j \in Wheels, v \in Value :
          /\ j < WheelCount(s)
          /\ \/ /\ s = <<"truck">>
                /\ channel_wrapper([telemetryData EXCEPT !.truck.wheels[j].rotation = v])
             \/ /\ Kind(s) = "trailer"
                /\ channel_wrapper([telemetryData EXCEPT !.trailer[s[2]].wheels[j].rotation = v])
    /\ UNCHANGED damage

\* job.cargo.damage is registered as a float for a member that is a double: the
\* store writes the lower one of its two words.
DamageChannel ==
    /\ <<"job">> \in Ids
    /\ \E v \in Value \ {damage} :
          /\ damage' = v
          /\ channel_wrapper([telemetryData EXCEPT !.job.cargoDamage.low = v])

-----------------------------------------------------------------------------
telemetry_frame_end ==
    /\ phase \in {"events", "channels"} /\ phase' = "config"
    /\ IF frameChanged
       THEN PushEvent([type |-> "frame", frame |-> telemetryData])
       ELSE UNCHANGED eventQueue
    /\ frameChanged' = FALSE
    /\ UNCHANGED <<telemetryData, m_lastSentFrame, paused, config, damage, ended>>

\* The network thread broadcasts the next event.
PopEvent ==
    /\ eventQueue # <<>>
    /\ eventQueue' = Tail(eventQueue)
    /\ m_lastSentFrame' = IF Head(eventQueue).type = "frame"
                          THEN Head(eventQueue).frame ELSE m_lastSentFrame
    /\ UNCHANGED <<plugin, game>>

Next ==
    \/ \E id \in Ids : \E A \in ListsOf(id) : telemetry_configuration(id, A)
    \/ telemetry_pause
    \/ telemetry_frame_start
    \/ \E job \in BOOLEAN : telemetry_gameplay(job)
    \/ WheelChannel \/ DamageChannel
    \/ telemetry_frame_end
    \/ PopEvent

Spec == Init /\ [][Next]_vars

-----------------------------------------------------------------------------
(* Properties *)

\* The frame the clients have, or will when they have been sent what is queued.
LastFrame == LastOf(eventQueue, m_lastSentFrame)

\* frameChanged is never FALSE while there are data nobody has been sent, but for
\* one case: a job that a gameplay event has ended stays in the last frame.
NoChangeLost ==
    ~frameChanged =>
        /\ LastFrame # NoFrame
        /\ \/ LastFrame = telemetryData
           \/ ended /\ telemetryData.job = NoJob
                    /\ LastFrame = [telemetryData EXCEPT !.job = LastFrame.job]

\* The frame that is current for the clients says whether the game is paused,
\* although the plugin is told only that this has changed.
PausedInSync == ~frameChanged => LastFrame.paused = paused

Shows(structure, A) ==
    \A a \in A :
        CASE a.name = "ratio" -> a.index \in Gears => structure.ratio[a.index] = a.value
          [] a.name = "radius" -> structure.wheels[a.index].radius = a.value
          [] a.name = "other" -> TRUE
          [] OTHER -> structure[a.name] = a.value

\* The current frame shows every attribute the game has sent last for the truck,
\* each of the trailers it has room for and the job, unless the job has ended.
ConfigShown ==
    ~frameChanged =>
        \A s \in Subjects :
            CASE Kind(s) \in {"truck", "controls"} -> Shows(LastFrame.truck, config[s])
              [] Kind(s) = "job" -> ended \/ Shows(LastFrame.job, config[s])
              [] Kind(s) = "trailer" -> Shows(LastFrame.trailer[s[2]], config[s])

NoGhosts(vehicle) ==
    \A j \in Wheels : vehicle.wheelCount <= j => vehicle.wheels[j] = NoWheel

\* No frame shows wheels of a truck or trailer that had more of them.
NoGhostWheels ==
    LastFrame # NoFrame =>
        NoGhosts(LastFrame.truck) /\ \A n \in Trailers : NoGhosts(LastFrame.trailer[n])

\* When a client is told that the job has ended, the frames it is sent after that
\* do not show the job, until the game sends another.
JobGoneAfterEnd ==
    \A i, j \in DOMAIN eventQueue :
        /\ ended /\ i < j
        /\ eventQueue[i].type = "gameplay" /\ eventQueue[i].job
        /\ \A k \in i + 1 .. Len(eventQueue) :
              eventQueue[k].type = "gameplay" => ~eventQueue[k].job
        /\ eventQueue[j].type = "frame"
        => eventQueue[j].frame.job.cargo = 0 /\ eventQueue[j].frame.job.source = 0

\* scssdk_telemetry_common_configs.h:125 and its likes of the truck and the
\* trailers: an empty set of attributes means that there is none.
EmptyMeansNone ==
    ~frameChanged =>
        \A s \in Subjects : config[s] = {} =>
            CASE s = <<"job">> -> LastFrame.job.cargo = 0 /\ LastFrame.job.source = 0
              [] s = <<"truck">> -> LastFrame.truck.name = 0
              [] Kind(s) = "trailer" -> LastFrame.trailer[s[2]].name = 0
              [] OTHER -> TRUE
=============================================================================
