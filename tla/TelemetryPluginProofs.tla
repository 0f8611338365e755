----------------------- MODULE TelemetryPluginProofs -----------------------
(***************************************************************************)
(* Proofs about TelemetryPlugin for every set of configurations, all       *)
(* well-formed lists, every size of the arrays and every length of the     *)
(* queue.                                                                  *)
(*                                                                         *)
(* The invariant comes in three layers.  Typed is type correctness.        *)
(* DataInv is about telemetryData alone: it shows what the game has told   *)
(* last, at any time.  QueueInv is about what has been pushed: the last    *)
(* frame is telemetryData unless frameChanged says that it is not.  What   *)
(* the clients see follows from the two.                                   *)
(***************************************************************************)
EXTENDS TelemetryPlugin, TelemetryDataProofs, PushedFramesProofs, TLAPS

-----------------------------------------------------------------------------
(* The configurations *)

\* A configuration that is not ignored is one of those the plugin looks for, and
\* has well-formed lists.
LEMMA Recognised ==
    ASSUME NEW id \in Ids, ~Ignored(id)
    PROVE  /\ \/ id \in {<<"truck">>, <<"controls">>, <<"job">>} /\ Subject(id) = id
              \/ /\ Kind(id) = "trailer" /\ Subject(id)[2] \in Trailers
                 /\ Subject(id) = <<"trailer", Subject(id)[2]>>
           /\ Subject(id) \in Subjects
           /\ Kind(Subject(id)) = Kind(id)
           /\ ListsOf(Subject(id)) = ListsOf(id)
           /\ \A A \in ListsOf(id) : A \subseteq Attribute(Kind(id)) /\ WellFormed(A)
<1>1. \/ id \in {<<"truck">>, <<"controls">>, <<"job">>}
      \/ id = <<"trailer">>
      \/ \E n \in Nat : id = <<"trailer", n>>
  BY IdsAssumption DEF Ignored, Kind
<1>2. Subject(id) \in Subjects
  BY DEF Subjects
<1>3. /\ \/ id \in {<<"truck">>, <<"controls">>, <<"job">>} /\ Subject(id) = id
         \/ /\ Kind(id) = "trailer" /\ Subject(id)[2] \in Trailers
            /\ Subject(id) = <<"trailer", Subject(id)[2]>>
      /\ Kind(Subject(id)) = Kind(id)
  <2>1. CASE id \in {<<"truck">>, <<"controls">>, <<"job">>}
    BY <2>1 DEF Subject
  <2>2. CASE id = <<"trailer">>
    BY <2>2 DEF Ignored, Kind, Subject
  <2>3. CASE \E n \in Nat : id = <<"trailer", n>>
    BY <2>3 DEF Ignored, Kind, Subject
  <2> QED BY <1>1, <2>1, <2>2, <2>3
<1>4. Kind(id) # "substances" /\ id # <<"substances">>
  BY DEF Ignored, Kind
<1>5. ListsOf(Subject(id)) = ListsOf(id) /\ ListsOf(id) = Lists(Kind(id))
  BY <1>3, <1>4 DEF ListsOf
<1>6. \A A \in ListsOf(id) : A \subseteq Attribute(Kind(id)) /\ WellFormed(A)
  BY <1>4, <1>5, ListsAssumption
<1> QED BY <1>2, <1>3, <1>5, <1>6

\* The subjects, and what the game may have sent for them.
LEMMA SubjectCases ==
    ASSUME NEW s \in Subjects
    PROVE  /\ \/ s \in {<<"truck">>, <<"controls">>, <<"job">>}
              \/ Kind(s) = "trailer" /\ s[2] \in Trailers /\ s = <<"trailer", s[2]>>
           /\ \A A \in ListsOf(s) \cup {{}} : A \subseteq Attribute(Kind(s)) /\ WellFormed(A)
<1>1. PICK id \in Ids : ~Ignored(id) /\ s = Subject(id)
  BY DEF Subjects
<1>2. WellFormed({})
  BY DEF WellFormed
<1> QED BY <1>1, <1>2, Recognised

-----------------------------------------------------------------------------
(* The frame *)

WithTruck(f, t) == [f EXCEPT !.truck = t]
WithTrailer(f, n, t) == [f EXCEPT !.trailer[n] = t]
WithJob(f, j) == [f EXCEPT !.job = j]
WithPaused(f, b) == [f EXCEPT !.paused = b]

\* The parts of a frame.
LEMMA FrameParts ==
    ASSUME NEW f \in TelemetryFrame
    PROVE  /\ f.paused \in BOOLEAN /\ f.truck \in Truck /\ f.job \in Job
           /\ f.trailer \in [Trailers -> Trailer]
           /\ f.truck.wheels \in [Wheels -> Wheel]
           /\ \A n \in Trailers : /\ f.trailer[n] \in Trailer
                                  /\ f.trailer[n].wheels \in [Wheels -> Wheel]
<1>1. /\ f.paused \in BOOLEAN /\ f.truck \in Truck /\ f.job \in Job
      /\ f.trailer \in [Trailers -> Trailer]
  BY DEF TelemetryFrame, Trailers
<1>2. f.truck.wheels \in [Wheels -> Wheel]
  BY <1>1 DEF Truck
<1>3. \A n \in Trailers : f.trailer[n] \in Trailer
  BY <1>1
<1>4. \A t \in Trailer : t.wheels \in [Wheels -> Wheel]
  BY DEF Trailer
<1> QED BY <1>1, <1>2, <1>3, <1>4

\* Each part of a frame can be replaced without a change of the others.
LEMMA TruckReplaced ==
    ASSUME NEW f \in TelemetryFrame, NEW t \in Truck
    PROVE  /\ WithTruck(f, t) \in TelemetryFrame
           /\ WithTruck(f, t).paused = f.paused
           /\ WithTruck(f, t).truck = t
           /\ WithTruck(f, t).job = f.job
           /\ WithTruck(f, t).trailer = f.trailer
BY DEF TelemetryFrame, WithTruck

\* The same of one of the trailers.
LEMMA TrailerReplaced ==
    ASSUME NEW f \in TelemetryFrame, NEW n \in Trailers, NEW t \in Trailer
    PROVE  /\ WithTrailer(f, n, t) \in TelemetryFrame
           /\ WithTrailer(f, n, t).paused = f.paused
           /\ WithTrailer(f, n, t).truck = f.truck
           /\ WithTrailer(f, n, t).job = f.job
           /\ WithTrailer(f, n, t).trailer[n] = t
           /\ \A m \in Trailers \ {n} : WithTrailer(f, n, t).trailer[m] = f.trailer[m]
BY DEF TelemetryFrame, Trailers, WithTrailer

\* The same of the job.
LEMMA JobReplaced ==
    ASSUME NEW f \in TelemetryFrame, NEW j \in Job
    PROVE  /\ WithJob(f, j) \in TelemetryFrame
           /\ WithJob(f, j).paused = f.paused
           /\ WithJob(f, j).truck = f.truck
           /\ WithJob(f, j).job = j
           /\ WithJob(f, j).trailer = f.trailer
BY DEF TelemetryFrame, WithJob

\* The same of the pause.
LEMMA PausedReplaced ==
    ASSUME NEW f \in TelemetryFrame, NEW b \in BOOLEAN
    PROVE  /\ WithPaused(f, b) \in TelemetryFrame
           /\ WithPaused(f, b).paused = b
           /\ WithPaused(f, b).truck = f.truck
           /\ WithPaused(f, b).job = f.job
           /\ WithPaused(f, b).trailer = f.trailer
BY DEF TelemetryFrame, WithPaused

\* `= {}` gives values of every type.
LEMMA EmptyTyped ==
    /\ NoTruck \in Truck /\ NoTrailer \in Trailer /\ NoJob \in Job
    /\ InitialFrame \in TelemetryFrame
<1>1. 0 \in Value /\ 0 \in 0 .. MAX_WHEEL_COUNT
  BY SizesAssumption DEF Value
<1>2. [j \in Wheels |-> NoWheel] \in [Wheels -> Wheel]
  BY <1>1 DEF Wheel, NoWheel
<1>3. NoTruck \in Truck
  BY <1>1, <1>2 DEF NoTruck, Truck
<1>4. NoTrailer \in Trailer
  BY <1>1, <1>2 DEF NoTrailer, Trailer
<1>5. NoJob \in Job
  BY <1>1 DEF NoJob, Job, Double
<1> QED BY <1>3, <1>4, <1>5 DEF InitialFrame, TelemetryFrame

\* The wheels when wheel j has another rotation.
Turned(w, j, x) == [w EXCEPT ![j].rotation = x]

\* A channel of a wheel changes nothing but the rotation of that wheel.
LEMMA TurnedWheels ==
    ASSUME NEW w \in [Wheels -> Wheel], NEW j \in Wheels, NEW x \in Value
    PROVE  /\ Turned(w, j, x) \in [Wheels -> Wheel]
           /\ \A i \in Wheels : Turned(w, j, x)[i].radius = w[i].radius
           /\ \A i \in Wheels \ {j} : Turned(w, j, x)[i] = w[i]
BY DEF Turned, Wheel

\* What the channel of wheel j writes to a frame.
TruckTurned(f, j, x) == WithTruck(f, [f.truck EXCEPT !.wheels = Turned(f.truck.wheels, j, x)])
TrailerTurned(f, n, j, x) ==
    WithTrailer(f, n, [f.trailer[n] EXCEPT !.wheels = Turned(f.trailer[n].wheels, j, x)])
Damaged(f, x) == WithJob(f, [f.job EXCEPT !.cargoDamage.low = x])

\* The writes of the channels as replacements of parts of the frame.
LEMMA ChannelWrites ==
    ASSUME NEW f \in TelemetryFrame, NEW x \in Value
    PROVE  /\ \A j \in Wheels :
                [f EXCEPT !.truck.wheels[j].rotation = x] = TruckTurned(f, j, x)
           /\ \A n \in Trailers, j \in Wheels :
                [f EXCEPT !.trailer[n].wheels[j].rotation = x] = TrailerTurned(f, n, j, x)
           /\ [f EXCEPT !.job.cargoDamage.low = x] = Damaged(f, x)
BY DEF TruckTurned, TrailerTurned, Damaged, Turned, WithTruck, WithTrailer, WithJob

\* A truck or a trailer with other rotations is the same in everything the game
\* configures.
LEMMA TurnedVehicles ==
    ASSUME NEW w \in [Wheels -> Wheel]
    PROVE  /\ \A t \in Truck :
                /\ [t EXCEPT !.wheels = w] \in Truck
                /\ [t EXCEPT !.wheels = w].name = t.name
                /\ [t EXCEPT !.wheels = w].wheelCount = t.wheelCount
                /\ [t EXCEPT !.wheels = w].wheels = w
                /\ [t EXCEPT !.wheels = w].shifterType = t.shifterType
                /\ [t EXCEPT !.wheels = w].ratio = t.ratio
           /\ \A t \in Trailer :
                /\ [t EXCEPT !.wheels = w] \in Trailer
                /\ [t EXCEPT !.wheels = w].name = t.name
                /\ [t EXCEPT !.wheels = w].wheelCount = t.wheelCount
                /\ [t EXCEPT !.wheels = w].wheels = w
BY DEF Truck, Trailer

\* A job whose damage has been reported keeps everything else.
LEMMA DamagedJob ==
    ASSUME NEW j \in Job, NEW x \in Value
    PROVE  /\ [j EXCEPT !.cargoDamage.low = x] \in Job
           /\ [j EXCEPT !.cargoDamage.low = x].cargo = j.cargo
           /\ [j EXCEPT !.cargoDamage.low = x].source = j.source
BY DEF Job, Double

-----------------------------------------------------------------------------
(* Types *)

\* config is a function: what is stored for one subject is not read for another.
Typed == TypeOK /\ config = [s \in Subjects |-> config[s]]

\* What a configuration stores is a frame.
LEMMA StoredTyped ==
    ASSUME Typed, NEW id \in Ids, ~Ignored(id), NEW A \in ListsOf(id)
    PROVE  StoredConfig(id, A) \in TelemetryFrame
<1>1. telemetryData \in TelemetryFrame
  BY DEF Typed, TypeOK
<1>2. /\ A \subseteq Attribute(Kind(id)) /\ WellFormed(A)
      /\ \/ id \in {<<"truck">>, <<"controls">>, <<"job">>}
         \/ Kind(id) = "trailer" /\ Subject(id)[2] \in Trailers
  BY Recognised
<1>3. CASE id = <<"truck">>
  <2>1. StoredConfig(id, A)
          = WithTruck(telemetryData, HandleTruckConfig(A, telemetryData.truck))
    BY <1>3 DEF StoredConfig, WithTruck, Kind
  <2>2. HandleTruckConfig(A, telemetryData.truck) \in Truck
    BY <1>1, <1>2, <1>3, FrameParts, TruckConfigured DEF Kind
  <2> QED BY <1>1, <2>1, <2>2, TruckReplaced
<1>4. CASE id = <<"controls">>
  <2>1. StoredConfig(id, A)
          = WithTruck(telemetryData, HandleControlConfig(A, telemetryData.truck))
    BY <1>4 DEF StoredConfig, WithTruck, Kind
  <2>2. HandleControlConfig(A, telemetryData.truck) \in Truck
    BY <1>1, <1>2, <1>4, FrameParts, ControlConfigured DEF Kind
  <2> QED BY <1>1, <2>1, <2>2, TruckReplaced
<1>5. CASE id = <<"job">>
  <2>1. StoredConfig(id, A)
          = WithJob(telemetryData, HandleJobConfig(A, telemetryData.job))
    BY <1>5 DEF StoredConfig, WithJob, Kind
  <2>2. HandleJobConfig(A, telemetryData.job) \in Job
    BY <1>1, <1>2, <1>5, FrameParts, JobConfigured DEF Kind
  <2> QED BY <1>1, <2>1, <2>2, JobReplaced
<1>6. CASE Kind(id) = "trailer" /\ Subject(id)[2] \in Trailers
  <2> DEFINE n == Subject(id)[2]
  <2>1. StoredConfig(id, A)
          = WithTrailer(telemetryData, n, HandleTrailerConfig(A, telemetryData.trailer[n]))
    BY <1>6 DEF StoredConfig, WithTrailer, Kind
  <2>2. telemetryData.trailer[n] \in Trailer
    BY <1>1, <1>6, FrameParts
  <2>3. HandleTrailerConfig(A, telemetryData.trailer[n]) \in Trailer
    BY <1>2, <1>6, <2>2, TrailerConfigured
  <2> QED BY <1>1, <1>6, <2>1, <2>3, TrailerReplaced
<1> QED BY <1>2, <1>3, <1>4, <1>5, <1>6

\* What a channel writes is a frame.
LEMMA ChannelTyped ==
    ASSUME NEW f \in TelemetryFrame, NEW x \in Value
    PROVE  /\ \A j \in Wheels : TruckTurned(f, j, x) \in TelemetryFrame
           /\ \A n \in Trailers, j \in Wheels : TrailerTurned(f, n, j, x) \in TelemetryFrame
           /\ Damaged(f, x) \in TelemetryFrame
<1>1. f.truck \in Truck /\ f.truck.wheels \in [Wheels -> Wheel] /\ f.job \in Job
  BY FrameParts
<1>2. ASSUME NEW j \in Wheels
      PROVE  TruckTurned(f, j, x) \in TelemetryFrame
  <2>1. Turned(f.truck.wheels, j, x) \in [Wheels -> Wheel]
    BY <1>1, TurnedWheels
  <2>2. [f.truck EXCEPT !.wheels = Turned(f.truck.wheels, j, x)] \in Truck
    BY <1>1, <2>1, TurnedVehicles
  <2> QED BY <2>2, TruckReplaced DEF TruckTurned
<1>3. ASSUME NEW n \in Trailers, NEW j \in Wheels
      PROVE  TrailerTurned(f, n, j, x) \in TelemetryFrame
  <2>1. f.trailer[n] \in Trailer /\ f.trailer[n].wheels \in [Wheels -> Wheel]
    BY FrameParts
  <2>2. Turned(f.trailer[n].wheels, j, x) \in [Wheels -> Wheel]
    BY <2>1, TurnedWheels
  <2>3. [f.trailer[n] EXCEPT !.wheels = Turned(f.trailer[n].wheels, j, x)] \in Trailer
    BY <2>1, <2>2, TurnedVehicles
  <2> QED BY <2>3, TrailerReplaced DEF TrailerTurned
<1>4. Damaged(f, x) \in TelemetryFrame
  BY <1>1, JobReplaced, DamagedJob DEF Damaged
<1> QED BY <1>2, <1>3, <1>4

\* The channels in terms of the frames they write.
LEMMA WheelChannelIs ==
    ASSUME Typed, WheelChannel
    PROVE  \E s \in Subjects, j \in Wheels, x \in Value :
              /\ j < WheelCount(s)
              /\ \/ s = <<"truck">> /\ telemetryData' = TruckTurned(telemetryData, j, x)
                 \/ /\ Kind(s) = "trailer" /\ s[2] \in Trailers
                    /\ telemetryData' = TrailerTurned(telemetryData, s[2], j, x)
<1>1. telemetryData \in TelemetryFrame
  BY DEF Typed, TypeOK
<1>2. PICK s \in Subjects, j \in Wheels, x \in Value :
         /\ j < WheelCount(s)
         /\ \/ /\ s = <<"truck">>
               /\ telemetryData' = [telemetryData EXCEPT !.truck.wheels[j].rotation = x]
            \/ /\ Kind(s) = "trailer"
               /\ telemetryData' = [telemetryData EXCEPT !.trailer[s[2]].wheels[j].rotation = x]
  BY DEF WheelChannel, channel_wrapper
<1>3. CASE s = <<"truck">> /\ telemetryData' = [telemetryData EXCEPT !.truck.wheels[j].rotation = x]
  <2>1. telemetryData' = TruckTurned(telemetryData, j, x)
    BY <1>1, <1>3, ChannelWrites
  <2> QED BY <1>2, <1>3, <2>1
<1>4. CASE /\ Kind(s) = "trailer"
           /\ telemetryData' = [telemetryData EXCEPT !.trailer[s[2]].wheels[j].rotation = x]
  <2>1. s[2] \in Trailers
    BY <1>4, SubjectCases DEF Kind
  <2>2. telemetryData' = TrailerTurned(telemetryData, s[2], j, x)
    BY <1>1, <1>4, <2>1, ChannelWrites
  <2> QED BY <1>2, <1>4, <2>1, <2>2
<1> QED BY <1>2, <1>3, <1>4

\* What is on the queue.
LEMMA EventTyped ==
    /\ \A e \in QueueEvent : /\ e.type \in {"frame", "gameplay"}
                             /\ e.type = "frame" => e.frame \in TelemetryFrame
    /\ \A f \in TelemetryFrame : [type |-> "frame", frame |-> f] \in QueueEvent
    /\ \A job \in BOOLEAN : [type |-> "gameplay", job |-> job] \in QueueEvent
BY DEF QueueEvent

\* Nothing has been configured yet.
LEMMA InitTyped == Init => Typed
<1> SUFFICES ASSUME Init
             PROVE  Typed
  OBVIOUS
<1>1. telemetryData \in TelemetryFrame
  BY EmptyTyped DEF Init
<1>2. damage \in Value
  BY SizesAssumption DEF Init, Value
<1>3. eventQueue \in Seq(QueueEvent)
  BY DEF Init
<1>4. config = [s \in Subjects |-> config[s]] /\ \A s \in Subjects : config[s] = {}
  BY DEF Init
<1> QED BY <1>1, <1>2, <1>3, <1>4 DEF Init, Typed, TypeOK

\* Every callback, and the network thread, keep the types.
LEMMA NextTyped == Typed /\ [Next]_vars => Typed'
<1> SUFFICES ASSUME Typed, [Next]_vars
             PROVE  Typed'
  OBVIOUS
<1>1. telemetryData \in TelemetryFrame /\ eventQueue \in Seq(QueueEvent)
  BY DEF Typed, TypeOK
<1>2. ASSUME NEW id \in Ids, NEW A \in ListsOf(id), telemetry_configuration(id, A)
      PROVE  Typed'
  <2>1. CASE Ignored(id)
    BY <1>2, <2>1 DEF telemetry_configuration, queue, Typed, TypeOK
  <2>2. CASE ~Ignored(id)
    <3>1. telemetryData' \in TelemetryFrame
      BY <1>2, <2>2, StoredTyped DEF telemetry_configuration
    <3>2. config' = [config EXCEPT ![Subject(id)] = A]
      BY <1>2, <2>2 DEF telemetry_configuration
    <3>3. Subject(id) \in Subjects /\ A \in ListsOf(Subject(id))
      BY <2>2, Recognised
    <3>4. \A s \in Subjects : config'[s] \in ListsOf(s) \cup {{}}
      BY <3>2, <3>3 DEF Typed, TypeOK
    <3>5. config' = [s \in Subjects |-> config'[s]]
      BY <3>2 DEF Typed
    <3>6. /\ frameChanged' \in BOOLEAN /\ ended' \in BOOLEAN
          /\ UNCHANGED <<eventQueue, m_lastSentFrame, phase, paused, damage>>
      BY <1>2, <2>2 DEF telemetry_configuration, queue, Typed, TypeOK
    <3> QED BY <3>1, <3>4, <3>5, <3>6 DEF Typed, TypeOK
  <2> QED BY <2>1, <2>2
<1>3. CASE telemetry_pause
  <2>1. telemetryData.paused \in BOOLEAN
    BY <1>1, FrameParts
  <2>2. telemetryData' = WithPaused(telemetryData, ~telemetryData.paused)
    BY <1>3 DEF telemetry_pause, PauseToggled, WithPaused
  <2>3. telemetryData' \in TelemetryFrame
    BY <1>1, <2>1, <2>2, PausedReplaced
  <2> QED BY <1>3, <2>3 DEF telemetry_pause, queue, Typed, TypeOK
<1>4. CASE telemetry_frame_start
  BY <1>4 DEF telemetry_frame_start, plugin, queue, Typed, TypeOK
<1>5. ASSUME NEW job \in BOOLEAN, telemetry_gameplay(job)
      PROVE  Typed'
  <2>1. telemetryData' \in TelemetryFrame
    <3>1. telemetryData' = IF job THEN WithJob(telemetryData, NoJob) ELSE telemetryData
      BY <1>5 DEF telemetry_gameplay, AfterEvent, WithJob
    <3> QED BY <1>1, <3>1, EmptyTyped, JobReplaced
  <2>2. eventQueue' \in Seq(QueueEvent)
    BY <1>1, <1>5, EventTyped DEF telemetry_gameplay, PushEvent
  <2> QED BY <1>5, <2>1, <2>2 DEF telemetry_gameplay, Typed, TypeOK
<1>6. CASE WheelChannel
  <2>1. telemetryData' \in TelemetryFrame
    BY <1>1, <1>6, WheelChannelIs, ChannelTyped
  <2>2. /\ phase' = "channels" /\ frameChanged' = TRUE
        /\ UNCHANGED <<eventQueue, m_lastSentFrame, paused, config, ended, damage>>
    BY <1>6 DEF WheelChannel, channel_wrapper, ChannelChanged, queue
  <2> QED BY <2>1, <2>2 DEF Typed, TypeOK
<1>7. CASE DamageChannel
  <2>1. PICK x \in Value \ {damage} :
           damage' = x /\ channel_wrapper([telemetryData EXCEPT !.job.cargoDamage.low = x])
    BY <1>7 DEF DamageChannel
  <2>2. telemetryData' = Damaged(telemetryData, x)
    BY <1>1, <2>1, ChannelWrites DEF channel_wrapper
  <2>3. telemetryData' \in TelemetryFrame
    BY <1>1, <2>2, ChannelTyped
  <2>4. /\ phase' = "channels" /\ frameChanged' = TRUE
        /\ UNCHANGED <<eventQueue, m_lastSentFrame, paused, config, ended>>
    BY <2>1 DEF channel_wrapper, ChannelChanged, queue
  <2> QED BY <2>1, <2>3, <2>4 DEF Typed, TypeOK
<1>8. CASE telemetry_frame_end
  <2>1. eventQueue' \in Seq(QueueEvent)
    BY <1>1, <1>8, EventTyped DEF telemetry_frame_end, PushEvent
  <2> QED BY <1>8, <2>1 DEF telemetry_frame_end, Typed, TypeOK
<1>9. CASE PopEvent
  <2>1. Head(eventQueue) \in QueueEvent /\ Tail(eventQueue) \in Seq(QueueEvent)
    BY <1>1, <1>9 DEF PopEvent
  <2>2. m_lastSentFrame' \in TelemetryFrame \cup {NoFrame}
    BY <1>9, <2>1, EventTyped DEF PopEvent, Typed, TypeOK
  <2> QED BY <1>9, <2>1, <2>2 DEF PopEvent, plugin, game, Typed, TypeOK
<1>10. CASE UNCHANGED vars
  BY <1>10 DEF vars, plugin, queue, game, Typed, TypeOK
<1> QED BY <1>2, <1>3, <1>4, <1>5, <1>6, <1>7, <1>8, <1>9, <1>10 DEF Next

\* No callback leaves its types: an attribute index stays in the arrays, a frame
\* on the queue is a whole frame.
THEOREM TypeCorrect == Spec => []TypeOK
<1>1. Typed => TypeOK
  BY DEF Typed
<1> QED BY InitTyped, NextTyped, <1>1, PTL DEF Spec

-----------------------------------------------------------------------------
(* What a structure shows *)

\* The number of wheels a list tells.
Told(A) == IF \E a \in A : a.name = "wheelCount"
           THEN (CHOOSE a \in A : a.name = "wheelCount").value ELSE 0

\* A vehicle shows a list as long as the members the list is about stay.
LEMMA TrailerShows ==
    ASSUME NEW A, A \subseteq Attribute("trailer"), NEW v, NEW u, Shows(v, A),
           u.name = v.name, u.wheelCount = v.wheelCount,
           \A j \in Wheels : u.wheels[j].radius = v.wheels[j].radius
    PROVE  Shows(u, A)
<1> SUFFICES ASSUME NEW a \in A
             PROVE  CASE a.name = "ratio" -> a.index \in Gears => u.ratio[a.index] = a.value
                      [] a.name = "radius" -> u.wheels[a.index].radius = a.value
                      [] a.name = "other" -> TRUE
                      [] OTHER -> u[a.name] = a.value
  BY DEF Shows
<1>1. /\ a.name \in {"name", "wheelCount", "radius", "other"}
      /\ a.name = "radius" => a.index \in Wheels
  BY AttributeTyped
<1>2. /\ a.name = "radius" => v.wheels[a.index].radius = a.value
      /\ a.name = "name" => v.name = a.value
      /\ a.name = "wheelCount" => v.wheelCount = a.value
  BY DEF Shows
<1> QED BY <1>1, <1>2

\* The same of a truck, which has ratios besides.
LEMMA TruckShows ==
    ASSUME NEW A, A \subseteq Attribute("truck"), NEW v, NEW u, Shows(v, A),
           u.name = v.name, u.wheelCount = v.wheelCount,
           \A j \in Wheels : u.wheels[j].radius = v.wheels[j].radius,
           \A i \in Gears : u.ratio[i] = v.ratio[i]
    PROVE  Shows(u, A)
<1> SUFFICES ASSUME NEW a \in A
             PROVE  CASE a.name = "ratio" -> a.index \in Gears => u.ratio[a.index] = a.value
                      [] a.name = "radius" -> u.wheels[a.index].radius = a.value
                      [] a.name = "other" -> TRUE
                      [] OTHER -> u[a.name] = a.value
  BY DEF Shows
<1>1. /\ a.name \in {"name", "ratio", "wheelCount", "radius", "other"}
      /\ a.name = "radius" => a.index \in Wheels
  BY AttributeTyped
<1>2. /\ a.name = "radius" => v.wheels[a.index].radius = a.value
      /\ a.name = "ratio" => (a.index \in Gears => v.ratio[a.index] = a.value)
      /\ a.name = "name" => v.name = a.value
      /\ a.name = "wheelCount" => v.wheelCount = a.value
  BY DEF Shows
<1> QED BY <1>1, <1>2

\* The same of the controls of a truck.
LEMMA ControlShows ==
    ASSUME NEW A, A \subseteq Attribute("controls"), NEW v, NEW u, Shows(v, A),
           u.shifterType = v.shifterType
    PROVE  Shows(u, A)
<1>1. \A a \in A : a.name \in {"shifterType", "other"}
  BY AttributeTyped
<1> QED BY <1>1 DEF Shows

\* The same of a job.
LEMMA JobShows ==
    ASSUME NEW A, A \subseteq Attribute("job"), NEW v, NEW u, Shows(v, A),
           u.cargo = v.cargo, u.source = v.source
    PROVE  Shows(u, A)
<1>1. \A a \in A : a.name \in {"cargo", "source", "other"}
  BY AttributeTyped
<1> QED BY <1>1 DEF Shows

\* After a call a truck or a trailer shows the members they share as the list
\* has them, has no wheels beyond its count, and counts at least the wheels it
\* has been told of.
LEMMA VehicleSet ==
    ASSUME NEW k \in {"truck", "trailer"}, NEW A, A \subseteq Attribute(k), WellFormed(A),
           NEW v, v.wheelCount \in 0 .. MAX_WHEEL_COUNT, v.wheels \in [Wheels -> Wheel],
           NEW u, u.name = Given(A, "name", SCS_U32_NIL, v.name),
           u.wheelCount = Given(A, "wheelCount", SCS_U32_NIL, v.wheelCount),
           u.wheels = ConfiguredWheels(A, v.wheels)
    PROVE  /\ \A a \in A : /\ a.name = "name" => u.name = a.value
                           /\ a.name = "wheelCount" => u.wheelCount = a.value
                           /\ a.name = "radius" => u.wheels[a.index].radius = a.value
           /\ NoGhosts(v) => NoGhosts(u)
           /\ Told(A) <= u.wheelCount
<1>1. Unique(A)
  BY DEF WellFormed, Unique
<1>2. \A a \in A :
        /\ a.name \in {"name", "wheelCount"} => a.index = SCS_U32_NIL
        /\ a.name = "wheelCount" => a.value \in 0 .. MAX_WHEEL_COUNT
  BY AttributeTyped
<1>3. /\ \A a \in A : a.name = "radius" => u.wheels[a.index].radius = a.value
      /\ \A a \in A : a.name = "wheelCount"
                      => \A j \in Wheels : a.value <= j => u.wheels[j] = NoWheel
      /\ (\A a \in A : a.name # "wheelCount") => u.wheels = v.wheels
  BY WheelsConfigured
<1>4. ASSUME NEW a \in A
      PROVE  /\ a.name = "name" => u.name = a.value
             /\ a.name = "wheelCount" => u.wheelCount = a.value
  <2>1. /\ Given(A, a.name, a.index, v.name) = a.value
        /\ Given(A, a.name, a.index, v.wheelCount) = a.value
    BY <1>1, GivenValue
  <2> QED BY <1>2, <2>1
<1>5. CASE \E a \in A : a.name = "wheelCount"
  <2> DEFINE a == CHOOSE a \in A : a.name = "wheelCount"
  <2>1. a \in A /\ a.name = "wheelCount" /\ Told(A) = a.value
    BY <1>5 DEF Told
  <2> HIDE DEF a
  <2>2. u.wheelCount = a.value /\ a.value \in 0 .. MAX_WHEEL_COUNT
    BY <1>2, <1>4, <2>1
  <2>3. NoGhosts(u)
    BY <1>3, <2>1, <2>2 DEF NoGhosts
  <2>4. Told(A) <= u.wheelCount
    BY <2>1, <2>2, SizesAssumption
  <2> QED BY <1>3, <1>4, <2>3, <2>4
<1>6. CASE \A a \in A : a.name # "wheelCount"
  <2>1. u.wheelCount = v.wheelCount
    BY <1>6, GivenOld
  <2>2. u.wheels = v.wheels
    BY <1>3, <1>6
  <2>3. Told(A) <= u.wheelCount
    BY <1>6, <2>1, SizesAssumption DEF Told
  <2>4. NoGhosts(v) => NoGhosts(u)
    BY <2>1, <2>2 DEF NoGhosts
  <2> QED BY <1>3, <1>4, <2>3, <2>4
<1> QED BY <1>5, <1>6

\* A trailer after a call.
LEMMA TrailerSet ==
    ASSUME NEW A, A \subseteq Attribute("trailer"), WellFormed(A), NEW v \in Trailer
    PROVE  /\ Shows(HandleTrailerConfig(A, v), A)
           /\ NoGhosts(v) => NoGhosts(HandleTrailerConfig(A, v))
           /\ Told(A) <= HandleTrailerConfig(A, v).wheelCount
<1> DEFINE u == HandleTrailerConfig(A, v)
<1>1. v.wheelCount \in 0 .. MAX_WHEEL_COUNT /\ v.wheels \in [Wheels -> Wheel]
  BY DEF Trailer
<1>2. /\ u.name = Given(A, "name", SCS_U32_NIL, v.name)
      /\ u.wheelCount = Given(A, "wheelCount", SCS_U32_NIL, v.wheelCount)
      /\ u.wheels = ConfiguredWheels(A, v.wheels)
  BY TrailerConfigured
<1>3. \A a \in A : a.name \in {"name", "wheelCount", "radius", "other"}
  BY AttributeTyped
<1> HIDE DEF u
<1>4. /\ \A a \in A : /\ a.name = "name" => u.name = a.value
                      /\ a.name = "wheelCount" => u.wheelCount = a.value
                      /\ a.name = "radius" => u.wheels[a.index].radius = a.value
      /\ NoGhosts(v) => NoGhosts(u)
      /\ Told(A) <= u.wheelCount
  BY <1>1, <1>2, VehicleSet
<1>5. Shows(u, A)
  BY <1>3, <1>4 DEF Shows
<1> QED BY <1>4, <1>5 DEF u

\* A truck after a call for it.
LEMMA TruckSet ==
    ASSUME NEW A, A \subseteq Attribute("truck"), WellFormed(A), NEW v \in Truck
    PROVE  /\ Shows(HandleTruckConfig(A, v), A)
           /\ NoGhosts(v) => NoGhosts(HandleTruckConfig(A, v))
           /\ Told(A) <= HandleTruckConfig(A, v).wheelCount
<1> DEFINE u == HandleTruckConfig(A, v)
<1>1. v.wheelCount \in 0 .. MAX_WHEEL_COUNT /\ v.wheels \in [Wheels -> Wheel]
  BY DEF Truck
<1>2. /\ u.name = Given(A, "name", SCS_U32_NIL, v.name)
      /\ u.wheelCount = Given(A, "wheelCount", SCS_U32_NIL, v.wheelCount)
      /\ u.wheels = ConfiguredWheels(A, v.wheels)
      /\ \A i \in Gears : u.ratio[i] = Given(A, "ratio", i, v.ratio[i])
  BY TruckConfigured
<1>3. \A a \in A : a.name \in {"name", "ratio", "wheelCount", "radius", "other"}
  BY AttributeTyped
<1> HIDE DEF u
<1>4. /\ \A a \in A : /\ a.name = "name" => u.name = a.value
                      /\ a.name = "wheelCount" => u.wheelCount = a.value
                      /\ a.name = "radius" => u.wheels[a.index].radius = a.value
      /\ NoGhosts(v) => NoGhosts(u)
      /\ Told(A) <= u.wheelCount
  BY <1>1, <1>2, VehicleSet
<1>5. ASSUME NEW a \in A, a.name = "ratio", a.index \in Gears
      PROVE  u.ratio[a.index] = a.value
  <2>1. Unique(A)
    BY DEF WellFormed, Unique
  <2>2. Given(A, a.name, a.index, v.ratio[a.index]) = a.value
    BY <2>1, GivenValue
  <2> QED BY <1>2, <1>5, <2>2
<1>6. Shows(u, A)
  BY <1>3, <1>4, <1>5 DEF Shows
<1> QED BY <1>4, <1>6 DEF u

\* A truck after a call for its controls.
LEMMA ControlSet ==
    ASSUME NEW A, A \subseteq Attribute("controls"), WellFormed(A), NEW v \in Truck
    PROVE  Shows(HandleControlConfig(A, v), A)
<1> DEFINE u == HandleControlConfig(A, v)
<1>1. u.shifterType = Given(A, "shifterType", SCS_U32_NIL, v.shifterType)
  BY ControlConfigured
<1>2. \A a \in A : /\ a.name \in {"shifterType", "other"}
                   /\ a.name = "shifterType" => a.index = SCS_U32_NIL
  BY AttributeTyped
<1> HIDE DEF u
<1>3. ASSUME NEW a \in A, a.name = "shifterType"
      PROVE  u.shifterType = a.value
  <2>1. Unique(A)
    BY DEF WellFormed, Unique
  <2>2. Given(A, a.name, a.index, v.shifterType) = a.value
    BY <2>1, GivenValue
  <2> QED BY <1>1, <1>2, <1>3, <2>2
<1>4. Shows(u, A)
  BY <1>2, <1>3 DEF Shows
<1> QED BY <1>4 DEF u

\* A job after a call.
LEMMA JobSet ==
    ASSUME NEW A, A \subseteq Attribute("job"), WellFormed(A), NEW v \in Job
    PROVE  Shows(HandleJobConfig(A, v), A)
<1> DEFINE u == HandleJobConfig(A, v)
<1>1. /\ u.cargo = Given(A, "cargo", SCS_U32_NIL, v.cargo)
      /\ u.source = Given(A, "source", SCS_U32_NIL, v.source)
  BY JobConfigured
<1>2. \A a \in A : /\ a.name \in {"cargo", "source", "other"}
                   /\ a.name \in {"cargo", "source"} => a.index = SCS_U32_NIL
  BY AttributeTyped
<1> HIDE DEF u
<1>3. ASSUME NEW a \in A
      PROVE  /\ a.name = "cargo" => u.cargo = a.value
             /\ a.name = "source" => u.source = a.value
  <2>1. Unique(A)
    BY DEF WellFormed, Unique
  <2>2. /\ Given(A, a.name, a.index, v.cargo) = a.value
        /\ Given(A, a.name, a.index, v.source) = a.value
    BY <2>1, GivenValue
  <2> QED BY <1>1, <1>2, <2>2
<1>4. Shows(u, A)
  BY <1>2, <1>3 DEF Shows
<1> QED BY <1>4 DEF u

-----------------------------------------------------------------------------
(* The data *)

\* Frame f shows the list A, which the game has sent for subject s.  Unless a job
\* is meant and it has ended, that is.
Represented(s, A, f, over) ==
    /\ s = <<"truck">> => Shows(f.truck, A) /\ Told(A) <= f.truck.wheelCount
    /\ s = <<"controls">> => Shows(f.truck, A)
    /\ s = <<"job">> => over \/ Shows(f.job, A)
    /\ Kind(s) = "trailer" => /\ Shows(f.trailer[s[2]], A)
                              /\ Told(A) <= f.trailer[s[2]].wheelCount

\* No vehicle of frame f has a wheel beyond its count.
Ghostless(f) == NoGhosts(f.truck) /\ \A n \in Trailers : NoGhosts(f.trailer[n])

\* What telemetryData show at any time, between any two callbacks.
DataInv ==
    /\ telemetryData.paused = paused
    /\ ended => telemetryData.job.cargo = 0 /\ telemetryData.job.source = 0
    /\ Ghostless(telemetryData)
    /\ \A s \in Subjects : Represented(s, config[s], telemetryData, ended)

\* A frame goes on showing a list when the members the list is about stay.
LEMMA StillRepresented ==
    ASSUME NEW s \in Subjects, NEW A, A \subseteq Attribute(Kind(s)),
           NEW f, NEW over, Represented(s, A, f, over), NEW g, NEW now,
           s = <<"truck">> => /\ g.truck.name = f.truck.name
                              /\ g.truck.wheelCount = f.truck.wheelCount
                              /\ \A j \in Wheels : g.truck.wheels[j].radius
                                                   = f.truck.wheels[j].radius
                              /\ \A i \in Gears : g.truck.ratio[i] = f.truck.ratio[i],
           s = <<"controls">> => g.truck.shifterType = f.truck.shifterType,
           s = <<"job">> => \/ now
                            \/ /\ ~over
                               /\ g.job.cargo = f.job.cargo /\ g.job.source = f.job.source,
           Kind(s) = "trailer" =>
              /\ g.trailer[s[2]].name = f.trailer[s[2]].name
              /\ g.trailer[s[2]].wheelCount = f.trailer[s[2]].wheelCount
              /\ \A j \in Wheels : g.trailer[s[2]].wheels[j].radius
                                   = f.trailer[s[2]].wheels[j].radius
    PROVE  Represented(s, A, g, now)
<1>1. CASE s = <<"truck">>
  <2>1. Kind(s) = "truck"
    BY <1>1 DEF Kind
  <2>2. Shows(f.truck, A) /\ Told(A) <= f.truck.wheelCount
    BY <1>1 DEF Represented
  <2>3. Shows(g.truck, A)
    BY <1>1, <2>1, <2>2, TruckShows
  <2> QED BY <1>1, <2>1, <2>2, <2>3 DEF Represented
<1>2. CASE s = <<"controls">>
  <2>1. Kind(s) = "controls"
    BY <1>2 DEF Kind
  <2>2. Shows(g.truck, A)
    BY <1>2, <2>1, ControlShows DEF Represented
  <2> QED BY <1>2, <2>1, <2>2 DEF Represented
<1>3. CASE s = <<"job">>
  <2>1. Kind(s) = "job"
    BY <1>3 DEF Kind
  <2>2. now \/ Shows(g.job, A)
    BY <1>3, <2>1, JobShows DEF Represented
  <2> QED BY <1>3, <2>1, <2>2 DEF Represented
<1>4. CASE Kind(s) = "trailer" /\ s = <<"trailer", s[2]>>
  <2>1. Shows(f.trailer[s[2]], A) /\ Told(A) <= f.trailer[s[2]].wheelCount
    BY <1>4 DEF Represented
  <2>2. Shows(g.trailer[s[2]], A)
    BY <1>4, <2>1, TrailerShows
  <2>3. s \notin {<<"truck">>, <<"controls">>, <<"job">>}
    BY <1>4 DEF Kind
  <2> QED BY <1>4, <2>1, <2>2, <2>3 DEF Represented
<1> QED BY <1>1, <1>2, <1>3, <1>4, SubjectCases

\* The wheels a vehicle does not have depend on its count and its wheels.
LEMMA GhostsSame ==
    ASSUME NEW v, NEW u, u.wheelCount = v.wheelCount, u.wheels = v.wheels, NoGhosts(v)
    PROVE  NoGhosts(u)
BY DEF NoGhosts

\* The channel of a wheel the vehicle has makes no ghost.
LEMMA GhostsTurned ==
    ASSUME NEW v, v.wheels \in [Wheels -> Wheel], v.wheelCount \in Nat, NoGhosts(v),
           NEW j \in Wheels, NEW x \in Value, j < v.wheelCount,
           NEW u, u.wheelCount = v.wheelCount, u.wheels = Turned(v.wheels, j, x)
    PROVE  NoGhosts(u)
<1> SUFFICES ASSUME NEW i \in Wheels, u.wheelCount <= i
             PROVE  u.wheels[i] = NoWheel
  BY DEF NoGhosts
<1>1. i # j
  BY SizesAssumption DEF Wheels
<1>2. u.wheels[i] = v.wheels[i]
  BY <1>1, TurnedWheels
<1> QED BY <1>2 DEF NoGhosts

\* A configuration is shown, and nothing else is changed.
LEMMA ConfigData ==
    ASSUME Typed, DataInv, NEW id \in Ids, NEW A \in ListsOf(id), telemetry_configuration(id, A)
    PROVE  DataInv'
<1> DEFINE f == telemetryData
           g == telemetryData'
<1>1. f \in TelemetryFrame
  BY DEF Typed, TypeOK
<1>2. /\ f.truck \in Truck /\ f.job \in Job
      /\ \A n \in Trailers : f.trailer[n] \in Trailer
  BY <1>1, FrameParts
<1>3. /\ f.paused = paused
      /\ ended => f.job.cargo = 0 /\ f.job.source = 0
      /\ NoGhosts(f.truck) /\ \A n \in Trailers : NoGhosts(f.trailer[n])
      /\ \A s \in Subjects : Represented(s, config[s], f, ended)
  BY DEF DataInv, Ghostless
<1>4. paused' = paused /\ ended' = (ended /\ id # <<"job">>)
  BY DEF telemetry_configuration
<1>5. \A s \in Subjects : config[s] \subseteq Attribute(Kind(s))
  BY SubjectCases DEF Typed, TypeOK
<1>6. CASE Ignored(id)
  <2>1. UNCHANGED <<telemetryData, config>>
    BY <1>6 DEF telemetry_configuration
  <2>2. id # <<"job">>
    BY <1>6 DEF Ignored, Kind
  <2> QED BY <1>4, <2>1, <2>2 DEF DataInv, Ghostless, Typed, TypeOK
<1>7. CASE ~Ignored(id)
  <2>1. /\ \/ id \in {<<"truck">>, <<"controls">>, <<"job">>} /\ Subject(id) = id
           \/ /\ Kind(id) = "trailer" /\ Subject(id)[2] \in Trailers
              /\ Subject(id) = <<"trailer", Subject(id)[2]>>
        /\ Subject(id) \in Subjects /\ Kind(Subject(id)) = Kind(id)
        /\ A \subseteq Attribute(Kind(id)) /\ WellFormed(A)
    BY <1>7, Recognised
  <2>2. g = StoredConfig(id, A) /\ config' = [config EXCEPT ![Subject(id)] = A]
    BY <1>7 DEF telemetry_configuration
  <2>3. /\ config'[Subject(id)] = A
        /\ \A s \in Subjects \ {Subject(id)} : config'[s] = config[s]
    BY <2>1, <2>2 DEF Typed
  <2> SUFFICES /\ g.paused = f.paused
               /\ ended' => g.job.cargo = 0 /\ g.job.source = 0
               /\ NoGhosts(g.truck) /\ \A n \in Trailers : NoGhosts(g.trailer[n])
               /\ Represented(Subject(id), A, g, ended')
               /\ \A s \in Subjects \ {Subject(id)} : Represented(s, config[s], g, ended')
    BY <1>3, <1>4, <2>3 DEF DataInv, Ghostless
  <2> HIDE DEF f, g
  <2>4. CASE id = <<"truck">>
    <3> DEFINE u == HandleTruckConfig(A, f.truck)
    <3>1. Kind(id) = "truck" /\ Subject(id) = id
      BY <2>4 DEF Kind, Subject
    <3>2. u \in Truck /\ u.shifterType = f.truck.shifterType
      BY <1>2, <2>1, <3>1, TruckConfigured
    <3>3. Shows(u, A) /\ NoGhosts(u) /\ Told(A) <= u.wheelCount
      BY <1>2, <1>3, <2>1, <3>1, TruckSet
    <3>4. g = WithTruck(f, u)
      BY <2>2, <2>4 DEF StoredConfig, WithTruck, Kind, f
    <3> HIDE DEF u
    <3>5. /\ g.paused = f.paused /\ g.truck = u
          /\ g.job = f.job /\ g.trailer = f.trailer
      BY <1>1, <3>2, <3>4, TruckReplaced
    <3>6. ended' = ended
      BY <1>4, <2>4 DEF Typed, TypeOK
    <3>7. Represented(id, A, g, ended')
      BY <2>4, <3>1, <3>3, <3>5 DEF Represented
    <3>8. ASSUME NEW s \in Subjects \ {id}
          PROVE  Represented(s, config[s], g, ended')
      <4>1. Represented(s, config[s], f, ended) /\ config[s] \subseteq Attribute(Kind(s))
        BY <1>3, <1>5
      <4> QED BY <2>4, <3>2, <3>5, <3>6, <4>1, StillRepresented
    <3> QED BY <1>3, <3>1, <3>3, <3>5, <3>6, <3>7, <3>8
  <2>5. CASE id = <<"controls">>
    <3> DEFINE u == HandleControlConfig(A, f.truck)
    <3>1. Kind(id) = "controls" /\ Subject(id) = id
      BY <2>5 DEF Kind, Subject
    <3>2. /\ u \in Truck /\ u.name = f.truck.name /\ u.wheelCount = f.truck.wheelCount
          /\ u.wheels = f.truck.wheels /\ u.ratio = f.truck.ratio
      BY <1>2, <2>1, <3>1, ControlConfigured
    <3>3. Shows(u, A)
      BY <1>2, <2>1, <3>1, ControlSet
    <3>4. g = WithTruck(f, u)
      BY <2>2, <2>5 DEF StoredConfig, WithTruck, Kind, f
    <3> HIDE DEF u
    <3>5. /\ g.paused = f.paused /\ g.truck = u
          /\ g.job = f.job /\ g.trailer = f.trailer
      BY <1>1, <3>2, <3>4, TruckReplaced
    <3>6. ended' = ended
      BY <1>4, <2>5 DEF Typed, TypeOK
    <3>7. Represented(id, A, g, ended')
      BY <2>5, <3>1, <3>3, <3>5 DEF Represented
    <3>8. ASSUME NEW s \in Subjects \ {id}
          PROVE  Represented(s, config[s], g, ended')
      <4>1. Represented(s, config[s], f, ended) /\ config[s] \subseteq Attribute(Kind(s))
        BY <1>3, <1>5
      <4> QED BY <2>5, <3>2, <3>5, <3>6, <4>1, StillRepresented
    <3>9. NoGhosts(g.truck)
      BY <1>3, <3>2, <3>5, GhostsSame
    <3> QED BY <1>3, <3>1, <3>5, <3>6, <3>7, <3>8, <3>9
  <2>6. CASE id = <<"job">>
    <3> DEFINE u == HandleJobConfig(A, f.job)
    <3>1. Kind(id) = "job" /\ Subject(id) = id
      BY <2>6 DEF Kind, Subject
    <3>2. u \in Job
      BY <1>2, <2>1, <3>1, JobConfigured
    <3>3. Shows(u, A)
      BY <1>2, <2>1, <3>1, JobSet
    <3>4. g = WithJob(f, u)
      BY <2>2, <2>6 DEF StoredConfig, WithJob, Kind, f
    <3> HIDE DEF u
    <3>5. /\ g.paused = f.paused /\ g.truck = f.truck
          /\ g.job = u /\ g.trailer = f.trailer
      BY <1>1, <3>2, <3>4, JobReplaced
    <3>6. ended' = FALSE
      BY <1>4, <2>6
    <3>7. Represented(id, A, g, ended')
      BY <2>6, <3>1, <3>3, <3>5 DEF Represented
    <3>8. ASSUME NEW s \in Subjects \ {id}
          PROVE  Represented(s, config[s], g, ended')
      <4>1. Represented(s, config[s], f, ended) /\ config[s] \subseteq Attribute(Kind(s))
        BY <1>3, <1>5
      <4> QED BY <2>6, <3>5, <3>6, <4>1, StillRepresented
    <3> QED BY <1>3, <3>1, <3>5, <3>6, <3>7, <3>8
  <2>7. CASE Kind(id) = "trailer" /\ Subject(id)[2] \in Trailers
             /\ Subject(id) = <<"trailer", Subject(id)[2]>>
    <3> DEFINE n == Subject(id)[2]
               u == HandleTrailerConfig(A, f.trailer[n])
    <3>1. f.trailer[n] \in Trailer /\ NoGhosts(f.trailer[n])
      BY <1>2, <1>3, <2>7
    <3>2. u \in Trailer
      BY <2>1, <2>7, <3>1, TrailerConfigured
    <3>3. Shows(u, A) /\ NoGhosts(u) /\ Told(A) <= u.wheelCount
      BY <2>1, <2>7, <3>1, TrailerSet
    <3>4. g = WithTrailer(f, n, u)
      BY <2>2, <2>7 DEF StoredConfig, WithTrailer, Kind, f
    <3> HIDE DEF u
    <3>5. /\ g.paused = f.paused /\ g.truck = f.truck /\ g.job = f.job
          /\ g.trailer[n] = u /\ \A m \in Trailers \ {n} : g.trailer[m] = f.trailer[m]
      BY <1>1, <2>7, <3>2, <3>4, TrailerReplaced
    <3>6. ended' = ended
      BY <1>4, <2>7 DEF Typed, TypeOK, Kind
    <3>7. Represented(Subject(id), A, g, ended')
      BY <2>7, <3>3, <3>5 DEF Represented, Kind
    <3>8. ASSUME NEW s \in Subjects \ {Subject(id)}
          PROVE  Represented(s, config[s], g, ended')
      <4>1. Represented(s, config[s], f, ended) /\ config[s] \subseteq Attribute(Kind(s))
        BY <1>3, <1>5
      <4>2. Kind(s) = "trailer" => s[2] \in Trailers \ {n}
        BY <2>7, SubjectCases DEF Kind
      <4> QED BY <3>5, <3>6, <4>1, <4>2, StillRepresented
    <3>9. \A m \in Trailers : NoGhosts(g.trailer[m])
      BY <1>3, <3>3, <3>5
    <3> QED BY <1>3, <3>5, <3>6, <3>7, <3>8, <3>9
  <2> QED BY <2>1, <2>4, <2>5, <2>6, <2>7
<1> QED BY <1>6, <1>7

\* A channel of a wheel shows in the rotation of a wheel the vehicle has.
LEMMA WheelData ==
    ASSUME Typed, DataInv, WheelChannel
    PROVE  DataInv'
<1> DEFINE f == telemetryData
           g == telemetryData'
<1>1. f \in TelemetryFrame
  BY DEF Typed, TypeOK
<1>2. /\ f.truck \in Truck /\ f.truck.wheels \in [Wheels -> Wheel]
      /\ \A n \in Trailers : f.trailer[n] \in Trailer /\ f.trailer[n].wheels \in [Wheels -> Wheel]
  BY <1>1, FrameParts
<1>3. /\ f.paused = paused
      /\ ended => f.job.cargo = 0 /\ f.job.source = 0
      /\ NoGhosts(f.truck) /\ \A n \in Trailers : NoGhosts(f.trailer[n])
      /\ \A s \in Subjects : Represented(s, config[s], f, ended)
  BY DEF DataInv, Ghostless
<1>4. UNCHANGED <<paused, ended, config>>
  BY DEF WheelChannel, channel_wrapper
<1>5. \A s \in Subjects : config[s] \subseteq Attribute(Kind(s))
  BY SubjectCases DEF Typed, TypeOK
<1>6. PICK s \in Subjects, j \in Wheels, x \in Value :
         /\ j < WheelCount(s)
         /\ \/ s = <<"truck">> /\ g = TruckTurned(f, j, x)
            \/ /\ Kind(s) = "trailer" /\ s[2] \in Trailers
               /\ g = TrailerTurned(f, s[2], j, x)
  BY WheelChannelIs
<1>7. j < Told(config[s]) /\ Told(config[s]) \in Nat
  <2>1. WheelCount(s) = Told(config[s])
    BY DEF WheelCount, Told
  <2>2. \A a \in config[s] : a.name = "wheelCount" => a.value \in 0 .. MAX_WHEEL_COUNT
    <3>1. Kind(s) \in {"truck", "controls", "job", "trailer"}
      BY SubjectCases DEF Kind
    <3> QED BY <1>5, <3>1, AttributeTyped
  <2>3. Told(config[s]) \in Nat
    BY <2>2, SizesAssumption DEF Told
  <2> QED BY <1>6, <2>1, <2>3
<1>8. Represented(s, config[s], f, ended)
  BY <1>3
<1> SUFFICES /\ g.paused = f.paused
             /\ ended => g.job.cargo = 0 /\ g.job.source = 0
             /\ NoGhosts(g.truck) /\ \A n \in Trailers : NoGhosts(g.trailer[n])
             /\ \A r \in Subjects : Represented(r, config[r], g, ended)
  BY <1>3, <1>4 DEF DataInv, Ghostless
<1> HIDE DEF f, g
<1>9. CASE s = <<"truck">> /\ g = TruckTurned(f, j, x)
  <2> DEFINE w == Turned(f.truck.wheels, j, x)
             u == [f.truck EXCEPT !.wheels = w]
  <2>1. w \in [Wheels -> Wheel] /\ \A i \in Wheels : w[i].radius = f.truck.wheels[i].radius
    BY <1>2, TurnedWheels
  <2>2. g = WithTruck(f, u)
    BY <1>9 DEF TruckTurned
  <2> HIDE DEF w
  <2>3. /\ u \in Truck /\ u.name = f.truck.name /\ u.wheelCount = f.truck.wheelCount
        /\ u.wheels = w /\ u.shifterType = f.truck.shifterType /\ u.ratio = f.truck.ratio
    BY <1>2, <2>1, TurnedVehicles
  <2> HIDE DEF u
  <2>4. /\ g.paused = f.paused /\ g.truck = u
        /\ g.job = f.job /\ g.trailer = f.trailer
    BY <1>1, <2>2, <2>3, TruckReplaced
  <2>5. f.truck.wheelCount \in Nat /\ j < f.truck.wheelCount
    <3>1. f.truck.wheelCount \in Nat
      BY <1>2, SizesAssumption DEF Truck
    <3>2. Told(config[s]) <= f.truck.wheelCount
      BY <1>8, <1>9 DEF Represented
    <3> QED BY <1>7, <3>1, <3>2, SizesAssumption DEF Wheels
  <2>6. NoGhosts(u)
    BY <1>2, <1>3, <2>3, <2>5, GhostsTurned DEF w
  <2>7. ASSUME NEW r \in Subjects
        PROVE  Represented(r, config[r], g, ended)
    <3>1. Represented(r, config[r], f, ended) /\ config[r] \subseteq Attribute(Kind(r))
      BY <1>3, <1>5
    <3>2. ended \/ ~ended
      OBVIOUS
    <3> QED BY <2>1, <2>3, <2>4, <3>1, <3>2, StillRepresented
  <2> QED BY <1>3, <2>4, <2>6, <2>7
<1>10. CASE /\ Kind(s) = "trailer" /\ s[2] \in Trailers
            /\ g = TrailerTurned(f, s[2], j, x)
  <2> DEFINE n == s[2]
             v == f.trailer[n]
             w == Turned(v.wheels, j, x)
             u == [v EXCEPT !.wheels = w]
  <2>1. w \in [Wheels -> Wheel] /\ \A i \in Wheels : w[i].radius = v.wheels[i].radius
    BY <1>2, <1>10, TurnedWheels
  <2>2. g = WithTrailer(f, n, u)
    BY <1>10 DEF TrailerTurned
  <2>3. v \in Trailer /\ v.wheels \in [Wheels -> Wheel] /\ NoGhosts(v)
    BY <1>2, <1>3, <1>10
  <2> HIDE DEF w, v
  <2>4. /\ u \in Trailer /\ u.name = v.name /\ u.wheelCount = v.wheelCount
        /\ u.wheels = w
    BY <2>1, <2>3, TurnedVehicles
  <2> HIDE DEF u
  <2>5. /\ g.paused = f.paused /\ g.truck = f.truck /\ g.job = f.job
        /\ g.trailer[n] = u /\ \A m \in Trailers \ {n} : g.trailer[m] = f.trailer[m]
    BY <1>1, <1>10, <2>2, <2>4, TrailerReplaced
  <2>6. v.wheelCount \in Nat /\ j < v.wheelCount
    <3>1. v.wheelCount \in Nat
      BY <2>3, SizesAssumption DEF Trailer
    <3>2. Told(config[s]) <= v.wheelCount
      BY <1>8, <1>10 DEF Represented, v
    <3> QED BY <1>7, <3>1, <3>2, SizesAssumption DEF Wheels
  <2>7. NoGhosts(u)
    BY <2>3, <2>4, <2>6, GhostsTurned DEF w
  <2>8. \A m \in Trailers : NoGhosts(g.trailer[m])
    BY <1>3, <2>5, <2>7
  <2>9. ASSUME NEW r \in Subjects
        PROVE  Represented(r, config[r], g, ended)
    <3>1. Represented(r, config[r], f, ended) /\ config[r] \subseteq Attribute(Kind(r))
      BY <1>3, <1>5
    <3>2. ASSUME Kind(r) = "trailer"
          PROVE  /\ g.trailer[r[2]].name = f.trailer[r[2]].name
                 /\ g.trailer[r[2]].wheelCount = f.trailer[r[2]].wheelCount
                 /\ \A i \in Wheels : g.trailer[r[2]].wheels[i].radius
                                      = f.trailer[r[2]].wheels[i].radius
      <4>1. r[2] \in Trailers
        BY <3>2, SubjectCases DEF Kind
      <4>2. CASE r[2] = n
        BY <2>1, <2>4, <2>5, <4>2 DEF v
      <4>3. CASE r[2] # n
        BY <2>5, <4>1, <4>3
      <4> QED BY <4>2, <4>3
    <3>3. ended \/ ~ended
      OBVIOUS
    <3> QED BY <2>5, <3>1, <3>2, <3>3, StillRepresented
  <2> QED BY <1>3, <2>5, <2>8, <2>9
<1> QED BY <1>6, <1>9, <1>10

\* The data show what the game has told at any time.
LEMMA NextData == Typed /\ DataInv /\ [Next]_vars => DataInv'
<1> SUFFICES ASSUME Typed, DataInv, [Next]_vars
             PROVE  DataInv'
  OBVIOUS
<1> DEFINE f == telemetryData
           g == telemetryData'
<1>1. f \in TelemetryFrame /\ f.paused \in BOOLEAN /\ f.job \in Job
  BY FrameParts DEF Typed, TypeOK
<1>2. /\ f.paused = paused
      /\ ended => f.job.cargo = 0 /\ f.job.source = 0
      /\ NoGhosts(f.truck) /\ \A n \in Trailers : NoGhosts(f.trailer[n])
      /\ \A s \in Subjects : Represented(s, config[s], f, ended)
  BY DEF DataInv, Ghostless
<1>3. \A s \in Subjects : config[s] \subseteq Attribute(Kind(s))
  BY SubjectCases DEF Typed, TypeOK
\* Whatever leaves the vehicles and their configurations alone.
<1>4. ASSUME g.truck = f.truck, g.trailer = f.trailer, config' = config,
             g.paused = paused', ended' => g.job.cargo = 0 /\ g.job.source = 0,
             ended' \/ (~ended /\ g.job.cargo = f.job.cargo /\ g.job.source = f.job.source)
      PROVE  DataInv'
  <2>1. ASSUME NEW s \in Subjects
        PROVE  Represented(s, config'[s], g, ended')
    <3>1. Represented(s, config[s], f, ended) /\ config[s] \subseteq Attribute(Kind(s))
      BY <1>2, <1>3
    <3> HIDE DEF f, g
    <3> QED BY <1>4, <3>1, StillRepresented
  <2> QED BY <1>2, <1>4, <2>1 DEF DataInv, Ghostless
<1>5. ASSUME NEW id \in Ids, NEW A \in ListsOf(id), telemetry_configuration(id, A)
      PROVE  DataInv'
  BY <1>5, ConfigData
<1>6. CASE telemetry_pause
  <2>1. g = WithPaused(f, ~f.paused) /\ paused' = ~paused /\ config' = config /\ ended' = ended
    BY <1>6 DEF telemetry_pause, PauseToggled, WithPaused
  <2>2. /\ g.paused = ~f.paused /\ g.truck = f.truck
        /\ g.job = f.job /\ g.trailer = f.trailer
    BY <1>1, <2>1, PausedReplaced
  <2> QED BY <1>2, <1>4, <2>1, <2>2
<1>7. ASSUME NEW job \in BOOLEAN, telemetry_gameplay(job)
      PROVE  DataInv'
  <2>1. /\ g = IF job THEN WithJob(f, NoJob) ELSE f
        /\ UNCHANGED <<paused, config>> /\ ended' = (ended \/ job)
    BY <1>7 DEF telemetry_gameplay, AfterEvent, WithJob
  <2>2. CASE job
    <3>1. g = WithJob(f, NoJob) /\ ended'
      BY <2>1, <2>2
    <3>2. g.paused = f.paused /\ g.truck = f.truck /\ g.job = NoJob /\ g.trailer = f.trailer
      BY <1>1, <3>1, EmptyTyped, JobReplaced
    <3>3. NoJob.cargo = 0 /\ NoJob.source = 0
      BY DEF NoJob
    <3> QED BY <1>2, <1>4, <2>1, <3>1, <3>2, <3>3
  <2>3. CASE ~job
    BY <1>2, <1>4, <2>1, <2>3
  <2> QED BY <2>2, <2>3
<1>8. CASE WheelChannel
  BY <1>8, WheelData
<1>9. CASE DamageChannel
  <2>1. PICK x \in Value \ {damage} :
           channel_wrapper([telemetryData EXCEPT !.job.cargoDamage.low = x])
    BY <1>9 DEF DamageChannel
  <2> DEFINE j == [f.job EXCEPT !.cargoDamage.low = x]
  <2>2. g = WithJob(f, j) /\ UNCHANGED <<paused, config, ended>>
    BY <1>1, <2>1, ChannelWrites DEF channel_wrapper, Damaged
  <2>3. j \in Job /\ j.cargo = f.job.cargo /\ j.source = f.job.source
    BY <1>1, DamagedJob
  <2> HIDE DEF j
  <2>4. g.paused = f.paused /\ g.truck = f.truck /\ g.job = j /\ g.trailer = f.trailer
    BY <1>1, <2>2, <2>3, JobReplaced
  <2> QED BY <1>2, <1>4, <2>2, <2>3, <2>4
<1>10. CASE UNCHANGED <<telemetryData, paused, config, ended>>
  BY <1>2, <1>4, <1>10
<1>11. \/ telemetry_frame_start \/ telemetry_frame_end \/ PopEvent \/ UNCHANGED vars
       => UNCHANGED <<telemetryData, paused, config, ended>>
  BY DEF telemetry_frame_start, telemetry_frame_end, PopEvent, vars, plugin, game
<1> QED BY <1>5, <1>6, <1>7, <1>8, <1>9, <1>10, <1>11 DEF Next

\* At first there is nothing to show.
LEMMA InitData == Init => DataInv
<1> SUFFICES ASSUME Init
             PROVE  DataInv
  OBVIOUS
<1>1. telemetryData = InitialFrame /\ paused = TRUE /\ ended = FALSE
  BY DEF Init
<1>2. /\ telemetryData.paused = TRUE /\ telemetryData.truck = NoTruck
      /\ \A n \in Trailers : telemetryData.trailer[n] = NoTrailer
  BY <1>1 DEF InitialFrame, Trailers
<1>3. NoGhosts(NoTruck) /\ NoTruck.wheelCount = 0
  BY DEF NoGhosts, NoTruck
<1>4. NoGhosts(NoTrailer) /\ NoTrailer.wheelCount = 0
  BY DEF NoGhosts, NoTrailer
<1>5. \A v : Shows(v, {})
  BY DEF Shows
<1>6. Told({}) = 0
  BY DEF Told
<1>7. ASSUME NEW s \in Subjects
      PROVE  Represented(s, config[s], telemetryData, ended)
  <2>1. config[s] = {}
    BY DEF Init
  <2>2. Kind(s) = "trailer" => s[2] \in Trailers
    BY SubjectCases DEF Kind
  <2> QED BY <1>2, <1>3, <1>4, <1>5, <1>6, <2>1, <2>2 DEF Represented
<1> QED BY <1>1, <1>2, <1>3, <1>4, <1>7 DEF DataInv, Ghostless

-----------------------------------------------------------------------------
(* What has been pushed *)

\* The frames on the queue and the one taken last have no ghosts; the last frame
\* is telemetryData, unless frameChanged says that it is not.
QueueInv ==
    /\ \A i \in DOMAIN eventQueue :
          eventQueue[i].type = "frame" => Ghostless(eventQueue[i].frame)
    /\ m_lastSentFrame # NoFrame => Ghostless(m_lastSentFrame)
    /\ NoChangeLost
    /\ JobGoneAfterEnd

IInv == Typed /\ DataInv /\ QueueInv

\* Nothing has been pushed yet, but frameChanged says so.
LEMMA InitQueue == Init => QueueInv
BY DEF Init, QueueInv, NoChangeLost, JobGoneAfterEnd

\* No frame is pushed that has ghosts.
LEMMA GhostlessPushed ==
    ASSUME Typed, DataInv, QueueInv, [Next]_vars
    PROVE  /\ \A i \in DOMAIN eventQueue' :
                 eventQueue'[i].type = "frame" => Ghostless(eventQueue'[i].frame)
           /\ m_lastSentFrame' # NoFrame => Ghostless(m_lastSentFrame')
<1> DEFINE AllGhostless(q) == \A i \in DOMAIN q : q[i].type = "frame" => Ghostless(q[i].frame)
<1>1. eventQueue \in Seq(QueueEvent) /\ AllGhostless(eventQueue)
      /\ (m_lastSentFrame # NoFrame => Ghostless(m_lastSentFrame))
      /\ Ghostless(telemetryData)
  BY DEF Typed, TypeOK, QueueInv, DataInv
<1>2. ASSUME NEW e, e.type = "frame" => Ghostless(e.frame)
      PROVE  AllGhostless(Append(eventQueue, e))
  <2>1. \A i \in DOMAIN Append(eventQueue, e) :
           Append(eventQueue, e)[i] = e \/ (i \in DOMAIN eventQueue
                                            /\ Append(eventQueue, e)[i] = eventQueue[i])
    BY <1>1
  <2> QED BY <1>1, <1>2, <2>1
<1>3. ASSUME NEW job, telemetry_gameplay(job)
      PROVE  AllGhostless(eventQueue') /\ m_lastSentFrame' = m_lastSentFrame
  BY <1>2, <1>3 DEF telemetry_gameplay, PushEvent
<1>4. CASE telemetry_frame_end
  <2>1. m_lastSentFrame' = m_lastSentFrame
    BY <1>4 DEF telemetry_frame_end
  <2>2. eventQueue' = eventQueue
        \/ eventQueue' = Append(eventQueue, [type |-> "frame", frame |-> telemetryData])
    BY <1>4 DEF telemetry_frame_end, PushEvent
  <2> QED BY <1>1, <1>2, <2>1, <2>2
<1>5. CASE PopEvent
  <2>1. /\ eventQueue # <<>> /\ eventQueue' = Tail(eventQueue)
        /\ m_lastSentFrame' = IF Head(eventQueue).type = "frame"
                              THEN Head(eventQueue).frame ELSE m_lastSentFrame
    BY <1>5 DEF PopEvent
  <2>2. 1 \in DOMAIN eventQueue /\ Head(eventQueue) = eventQueue[1]
    BY <1>1, <2>1
  <2>3. \A i \in DOMAIN Tail(eventQueue) :
           i + 1 \in DOMAIN eventQueue /\ Tail(eventQueue)[i] = eventQueue[i + 1]
    BY <1>1, <2>1
  <2>4. AllGhostless(eventQueue')
    BY <1>1, <2>1, <2>3
  <2> QED BY <1>1, <2>1, <2>2, <2>4
<1>6. CASE UNCHANGED queue
  BY <1>1, <1>6 DEF queue
<1>7. \/ \E id \in Ids : \E A \in ListsOf(id) : telemetry_configuration(id, A)
      \/ telemetry_pause \/ telemetry_frame_start
      \/ WheelChannel \/ DamageChannel \/ UNCHANGED vars
      => UNCHANGED queue
  BY DEF telemetry_configuration, telemetry_pause, telemetry_frame_start,
         WheelChannel, DamageChannel, channel_wrapper, vars
<1> QED BY <1>1, <1>3, <1>4, <1>5, <1>6, <1>7 DEF Next

\* Whatever makes the last frame stale sets frameChanged, but for the end of a
\* job, which NoChangeLost allows.
LEMMA NextNoChangeLost ==
    ASSUME Typed, NoChangeLost, [Next]_vars
    PROVE  NoChangeLost'
<1>1. /\ telemetryData \in TelemetryFrame /\ frameChanged \in BOOLEAN
      /\ eventQueue \in Seq(QueueEvent)
  BY DEF Typed, TypeOK
<1>2. CASE frameChanged'
  BY <1>2 DEF NoChangeLost
<1>3. ASSUME UNCHANGED <<telemetryData, frameChanged, ended>>, LastFrame' = LastFrame
      PROVE  NoChangeLost'
  BY <1>3 DEF NoChangeLost
<1>4. ASSUME UNCHANGED queue
      PROVE  LastFrame' = LastFrame
  BY <1>4 DEF LastFrame, queue
<1>5. ASSUME NEW id \in Ids, NEW A \in ListsOf(id), telemetry_configuration(id, A)
      PROVE  NoChangeLost'
  <2>1. CASE Ignored(id)
    <3>1. id # <<"job">>
      BY <2>1 DEF Ignored, Kind
    <3>2. UNCHANGED <<telemetryData, frameChanged, ended>> /\ UNCHANGED queue
      BY <1>5, <2>1, <3>1 DEF telemetry_configuration, Typed, TypeOK
    <3> QED BY <1>3, <1>4, <3>2
  <2>2. CASE ~Ignored(id)
    BY <1>2, <1>5, <2>2 DEF telemetry_configuration
  <2> QED BY <2>1, <2>2
<1>6. CASE telemetry_pause \/ WheelChannel \/ DamageChannel
  BY <1>2, <1>6 DEF telemetry_pause, WheelChannel, DamageChannel, channel_wrapper,
                    ChannelChanged
<1>7. CASE telemetry_frame_start \/ UNCHANGED vars
  <2>1. UNCHANGED <<telemetryData, frameChanged, ended>> /\ UNCHANGED queue
    BY <1>7 DEF telemetry_frame_start, plugin, vars, game
  <2> QED BY <1>3, <1>4, <2>1
<1>8. ASSUME NEW job \in BOOLEAN, telemetry_gameplay(job)
      PROVE  NoChangeLost'
  <2> DEFINE e == [type |-> "gameplay", job |-> job]
  <2>1. /\ eventQueue' = Append(eventQueue, e) /\ UNCHANGED <<m_lastSentFrame, frameChanged>>
        /\ telemetryData' = IF job THEN WithJob(telemetryData, NoJob) ELSE telemetryData
        /\ ended' = (ended \/ job)
    BY <1>8 DEF telemetry_gameplay, PushEvent, AfterEvent, WithJob
  <2>2. LastFrame' = LastFrame
    <3>1. e \in QueueEvent /\ e.type # "frame"
      BY EventTyped
    <3>2. LastOf(Append(eventQueue, e), m_lastSentFrame) = LastOf(eventQueue, m_lastSentFrame)
      BY <1>1, <3>1, LastAppend
    <3>3. LastFrame' = LastOf(eventQueue', m_lastSentFrame')
      BY DEF LastFrame
    <3> QED BY <2>1, <3>2, <3>3 DEF LastFrame
  <2>3. CASE ~job
    <3>1. ended' = ended
      BY <2>1, <2>3 DEF Typed, TypeOK
    <3> QED BY <1>3, <2>1, <2>2, <2>3, <3>1
  <2>4. CASE job
    <3> SUFFICES ASSUME ~frameChanged
                 PROVE  /\ LastFrame # NoFrame
                        /\ ended' /\ telemetryData'.job = NoJob
                        /\ LastFrame = [telemetryData' EXCEPT !.job = LastFrame.job]
      BY <2>1, <2>2 DEF NoChangeLost
    <3>1. telemetryData' = [telemetryData EXCEPT !.job = NoJob] /\ ended'
      BY <2>1, <2>4 DEF WithJob
    <3>2. /\ LastFrame # NoFrame
          /\ LastFrame = telemetryData
             \/ LastFrame = [telemetryData EXCEPT !.job = LastFrame.job]
      BY DEF NoChangeLost
    <3>3. telemetryData'.job = NoJob
      BY <1>1, <3>1 DEF TelemetryFrame
    <3> HIDE DEF LastFrame
    <3>4. LastFrame = [telemetryData' EXCEPT !.job = LastFrame.job]
      BY <1>1, <3>1, <3>2 DEF TelemetryFrame
    <3> QED BY <3>1, <3>2, <3>3, <3>4
  <2> QED BY <2>3, <2>4
<1>9. CASE telemetry_frame_end
  <2>1. UNCHANGED <<telemetryData, m_lastSentFrame, ended>> /\ frameChanged' = FALSE
    BY <1>9 DEF telemetry_frame_end
  <2>2. CASE frameChanged
    <3> DEFINE e == [type |-> "frame", frame |-> telemetryData]
    <3>1. eventQueue' = Append(eventQueue, e)
      BY <1>9, <2>2 DEF telemetry_frame_end, PushEvent
    <3>2. e \in QueueEvent
      BY <1>1, EventTyped
    <3>3. LastOf(Append(eventQueue, e), m_lastSentFrame) = telemetryData
      BY <1>1, <3>2, LastAppend
    <3>4. LastFrame' = LastOf(eventQueue', m_lastSentFrame')
      BY DEF LastFrame
    <3>5. LastFrame' = telemetryData'
      BY <2>1, <3>1, <3>3, <3>4
    <3>6. telemetryData' # NoFrame
      BY <1>1, <2>1, NoFrameAssumption
    <3> QED BY <3>5, <3>6 DEF NoChangeLost
  <2>3. CASE ~frameChanged
    <3>1. UNCHANGED queue /\ frameChanged' = frameChanged
      BY <1>1, <1>9, <2>1, <2>3 DEF telemetry_frame_end, queue
    <3> QED BY <1>3, <1>4, <2>1, <3>1
  <2> QED BY <2>2, <2>3
<1>10. CASE PopEvent
  <2>1. /\ eventQueue # <<>> /\ eventQueue' = Tail(eventQueue)
        /\ m_lastSentFrame' = IF Head(eventQueue).type = "frame"
                              THEN Head(eventQueue).frame ELSE m_lastSentFrame
        /\ UNCHANGED <<telemetryData, frameChanged, ended>>
    BY <1>10 DEF PopEvent, plugin, game
  <2>2. LastOf(eventQueue', m_lastSentFrame') = LastOf(eventQueue, m_lastSentFrame)
    BY <1>1, <2>1, LastTail
  <2>3. LastFrame' = LastOf(eventQueue', m_lastSentFrame')
    BY DEF LastFrame
  <2> QED BY <1>3, <2>1, <2>2, <2>3 DEF LastFrame
<1> QED BY <1>5, <1>6, <1>7, <1>8, <1>9, <1>10 DEF Next

\* JobGoneAfterEnd, of any queue.
JobGone(q, over) ==
    \A i, j \in DOMAIN q :
        /\ over /\ i < j
        /\ q[i].type = "gameplay" /\ q[i].job
        /\ \A k \in i + 1 .. Len(q) : q[k].type = "gameplay" => ~q[k].job
        /\ q[j].type = "frame"
        => q[j].frame.job.cargo = 0 /\ q[j].frame.job.source = 0

\* A job that has ended is in no frame that is pushed before the next job is
\* configured.
LEMMA NextJobGone ==
    ASSUME Typed, DataInv, JobGoneAfterEnd, [Next]_vars
    PROVE  JobGoneAfterEnd'
<1>1. /\ telemetryData \in TelemetryFrame /\ ended \in BOOLEAN
      /\ eventQueue \in Seq(QueueEvent)
  BY DEF Typed, TypeOK
<1>2. JobGone(eventQueue, ended)
  BY DEF JobGoneAfterEnd, JobGone
<1> SUFFICES JobGone(eventQueue', ended')
  BY DEF JobGoneAfterEnd, JobGone
<1>3. ASSUME UNCHANGED eventQueue, ended' => ended
      PROVE  JobGone(eventQueue', ended')
  BY <1>2, <1>3 DEF JobGone
\* What is pushed comes after every event, and before none.
<1>4. ASSUME NEW e \in QueueEvent, eventQueue' = Append(eventQueue, e),
             \/ ended' = ended /\ (ended /\ e.type = "frame"
                                   => e.frame.job.cargo = 0 /\ e.frame.job.source = 0)
             \/ e.type = "gameplay" /\ e.job
      PROVE  JobGone(eventQueue', ended')
  <2> DEFINE q == eventQueue
             p == eventQueue'
  <2>1. /\ Len(q) \in Nat /\ DOMAIN q = 1 .. Len(q)
        /\ Len(p) = Len(q) + 1 /\ DOMAIN p = 1 .. Len(q) + 1
        /\ p[Len(q) + 1] = e /\ \A i \in 1 .. Len(q) : p[i] = q[i]
    BY <1>1, <1>4
  <2> HIDE DEF p, q
  <2> SUFFICES ASSUME NEW i \in DOMAIN p, NEW j \in DOMAIN p, ended', i < j,
                      p[i].type = "gameplay", p[i].job,
                      \A k \in i + 1 .. Len(p) : p[k].type = "gameplay" => ~p[k].job,
                      p[j].type = "frame"
               PROVE  p[j].frame.job.cargo = 0 /\ p[j].frame.job.source = 0
    BY DEF JobGone, p
  <2>2. i \in 1 .. Len(q) /\ Len(q) + 1 \in i + 1 .. Len(p)
    BY <2>1
  <2>3. ~(e.type = "gameplay" /\ e.job)
    BY <2>1, <2>2
  <2>4. ended' = ended /\ (ended /\ e.type = "frame"
                           => e.frame.job.cargo = 0 /\ e.frame.job.source = 0)
    BY <1>4, <2>3
  <2>5. CASE j = Len(q) + 1
    BY <2>1, <2>4, <2>5
  <2>6. CASE j \in 1 .. Len(q)
    <3>1. p[i] = q[i] /\ p[j] = q[j] /\ i \in DOMAIN q /\ j \in DOMAIN q
      BY <2>1, <2>2, <2>6
    <3>2. \A k \in i + 1 .. Len(q) : q[k].type = "gameplay" => ~q[k].job
      <4> SUFFICES ASSUME NEW k \in i + 1 .. Len(q), q[k].type = "gameplay" PROVE ~q[k].job
        OBVIOUS
      <4>1. k \in i + 1 .. Len(p) /\ p[k] = q[k]
        BY <2>1, <2>2
      <4> QED BY <4>1
    <3> QED BY <1>2, <2>4, <3>1, <3>2 DEF JobGone, q
  <2> QED BY <2>1, <2>5, <2>6
<1>5. ASSUME NEW id \in Ids, NEW A \in ListsOf(id), telemetry_configuration(id, A)
      PROVE  JobGone(eventQueue', ended')
  BY <1>3, <1>5 DEF telemetry_configuration, queue
<1>6. CASE telemetry_pause \/ WheelChannel \/ DamageChannel \/ telemetry_frame_start
           \/ UNCHANGED vars
  <2>1. UNCHANGED <<eventQueue, ended>>
    BY <1>6 DEF telemetry_pause, WheelChannel, DamageChannel, channel_wrapper,
                telemetry_frame_start, vars, queue, game
  <2> QED BY <1>3, <2>1
<1>7. ASSUME NEW job \in BOOLEAN, telemetry_gameplay(job)
      PROVE  JobGone(eventQueue', ended')
  <2> DEFINE e == [type |-> "gameplay", job |-> job]
  <2>1. eventQueue' = Append(eventQueue, e) /\ ended' = (ended \/ job)
    BY <1>7 DEF telemetry_gameplay, PushEvent
  <2>2. e \in QueueEvent /\ e.type = "gameplay" /\ e.job = job
    BY EventTyped
  <2>3. job \/ ended' = ended
    BY <1>1, <2>1
  <2> HIDE DEF e
  <2> QED BY <1>4, <2>1, <2>2, <2>3
<1>8. CASE telemetry_frame_end
  <2> DEFINE e == [type |-> "frame", frame |-> telemetryData]
  <2>1. ended' = ended /\ (eventQueue' = eventQueue \/ eventQueue' = Append(eventQueue, e))
    BY <1>8 DEF telemetry_frame_end, PushEvent
  <2>2. e \in QueueEvent /\ e.frame = telemetryData
    BY <1>1, EventTyped
  <2>3. ended => e.frame.job.cargo = 0 /\ e.frame.job.source = 0
    BY <2>2 DEF DataInv
  <2> HIDE DEF e
  <2> QED BY <1>3, <1>4, <2>1, <2>2, <2>3
<1>9. CASE PopEvent
  <2> DEFINE q == eventQueue
             p == eventQueue'
  <2>1. q # <<>> /\ p = Tail(q) /\ ended' = ended
    BY <1>9 DEF PopEvent, game
  <2>2. /\ Len(q) \in Nat \ {0} /\ DOMAIN q = 1 .. Len(q)
        /\ Len(p) = Len(q) - 1 /\ DOMAIN p = 1 .. Len(q) - 1
        /\ \A i \in 1 .. Len(q) - 1 : p[i] = q[i + 1]
    BY <1>1, <2>1
  <2> HIDE DEF p, q
  <2> SUFFICES ASSUME NEW i \in DOMAIN p, NEW j \in DOMAIN p, ended', i < j,
                      p[i].type = "gameplay", p[i].job,
                      \A k \in i + 1 .. Len(p) : p[k].type = "gameplay" => ~p[k].job,
                      p[j].type = "frame"
               PROVE  p[j].frame.job.cargo = 0 /\ p[j].frame.job.source = 0
    BY DEF JobGone, p
  <2>3. /\ i + 1 \in DOMAIN q /\ j + 1 \in DOMAIN q /\ i + 1 < j + 1
        /\ p[i] = q[i + 1] /\ p[j] = q[j + 1]
    BY <2>2
  <2>4. \A k \in (i + 1) + 1 .. Len(q) : q[k].type = "gameplay" => ~q[k].job
    <3> SUFFICES ASSUME NEW k \in (i + 1) + 1 .. Len(q), q[k].type = "gameplay" PROVE ~q[k].job
      OBVIOUS
    <3>1. k - 1 \in i + 1 .. Len(p) /\ p[k - 1] = q[k]
      BY <2>2
    <3> QED BY <3>1
  <2> QED BY <1>2, <2>1, <2>3, <2>4 DEF JobGone, q
<1> QED BY <1>5, <1>6, <1>7, <1>8, <1>9 DEF Next

-----------------------------------------------------------------------------
(* The theorems *)

\* The inductive invariant.
THEOREM Invariance == Spec => []IInv
<1>1. Init => IInv
  BY InitTyped, InitData, InitQueue DEF IInv
<1>2. IInv /\ [Next]_vars => IInv'
  <2> SUFFICES ASSUME IInv, [Next]_vars
               PROVE  IInv'
    OBVIOUS
  <2>1. Typed /\ DataInv /\ QueueInv /\ NoChangeLost /\ JobGoneAfterEnd
    BY DEF IInv, QueueInv
  <2>2. Typed' /\ DataInv'
    BY <2>1, NextTyped, NextData
  <2>3. NoChangeLost' /\ JobGoneAfterEnd'
    BY <2>1, NextNoChangeLost, NextJobGone
  <2>4. QueueInv'
    BY <2>1, <2>3, GhostlessPushed DEF QueueInv
  <2> QED BY <2>2, <2>4 DEF IInv
<1> QED BY <1>1, <1>2, PTL DEF Spec

\* The last frame differs from telemetryData in the job of an ended one at most.
LEMMA LastFrameShows ==
    ASSUME IInv, ~frameChanged
    PROVE  /\ LastFrame.paused = telemetryData.paused
           /\ LastFrame.truck = telemetryData.truck
           /\ LastFrame.trailer = telemetryData.trailer
           /\ ended \/ LastFrame.job = telemetryData.job
<1>1. telemetryData \in TelemetryFrame
  BY DEF IInv, Typed, TypeOK
<1>2. \/ LastFrame = telemetryData
      \/ ended /\ LastFrame = [telemetryData EXCEPT !.job = LastFrame.job]
  BY DEF IInv, QueueInv, NoChangeLost
<1>3. CASE LastFrame = telemetryData
  BY <1>3
<1>4. CASE ended /\ LastFrame = [telemetryData EXCEPT !.job = LastFrame.job]
  <2> DEFINE j == LastFrame.job
             l == LastFrame
  <2>1. l = [telemetryData EXCEPT !.job = j]
    BY <1>4
  <2> HIDE DEF l, j
  <2>2. /\ l.paused = telemetryData.paused /\ l.truck = telemetryData.truck
        /\ l.trailer = telemetryData.trailer
    BY <1>1, <2>1 DEF TelemetryFrame
  <2> QED BY <1>4, <2>2 DEF l
<1> QED BY <1>2, <1>3, <1>4

\* frameChanged is never FALSE while there are data nobody has been sent, but for
\* the job that a gameplay event has ended.
THEOREM ChangesSent == Spec => []NoChangeLost
<1>1. IInv => NoChangeLost
  BY DEF IInv, QueueInv
<1> QED BY Invariance, <1>1, PTL

\* The last frame says whether the game is paused, although the plugin only
\* toggles a flag.
THEOREM PauseShown == Spec => []PausedInSync
<1>1. IInv => PausedInSync
  BY LastFrameShows DEF IInv, DataInv, PausedInSync
<1> QED BY Invariance, <1>1, PTL

\* The last frame shows every configuration the game has sent last.
THEOREM ConfigurationShown == Spec => []ConfigShown
<1>1. IInv => ConfigShown
  <2> SUFFICES ASSUME IInv, ~frameChanged, NEW s \in Subjects
               PROVE  CASE Kind(s) \in {"truck", "controls"} -> Shows(LastFrame.truck, config[s])
                        [] Kind(s) = "job" -> ended \/ Shows(LastFrame.job, config[s])
                        [] Kind(s) = "trailer" -> Shows(LastFrame.trailer[s[2]], config[s])
    BY DEF ConfigShown
  <2>1. Represented(s, config[s], telemetryData, ended)
    BY DEF IInv, DataInv
  <2>2. /\ LastFrame.truck = telemetryData.truck
        /\ LastFrame.trailer = telemetryData.trailer
        /\ ended \/ LastFrame.job = telemetryData.job
    BY LastFrameShows
  <2> HIDE DEF LastFrame
  <2>3. CASE s \in {<<"truck">>, <<"controls">>}
    <3>1. Kind(s) \in {"truck", "controls"}
      BY <2>3 DEF Kind
    <3>2. Shows(LastFrame.truck, config[s])
      BY <2>1, <2>2, <2>3 DEF Represented
    <3> QED BY <3>1, <3>2
  <2>4. CASE s = <<"job">>
    <3>1. Kind(s) = "job"
      BY <2>4 DEF Kind
    <3>2. ended \/ Shows(LastFrame.job, config[s])
      BY <2>1, <2>2, <2>4 DEF Represented
    <3> QED BY <3>1, <3>2
  <2>5. CASE Kind(s) = "trailer"
    <3>1. Shows(LastFrame.trailer[s[2]], config[s])
      BY <2>1, <2>2, <2>5 DEF Represented
    <3> QED BY <2>5, <3>1
  <2> QED BY <2>3, <2>4, <2>5, SubjectCases
<1> QED BY Invariance, <1>1, PTL

\* No frame shows a wheel beyond the count of its vehicle.
THEOREM GhostsGone == Spec => []NoGhostWheels
<1>1. IInv => NoGhostWheels
  <2> SUFFICES ASSUME IInv, LastFrame # NoFrame
               PROVE  Ghostless(LastFrame)
    BY DEF NoGhostWheels, Ghostless
  <2>1. eventQueue \in Seq(QueueEvent)
    BY DEF IInv, Typed, TypeOK
  <2>2. \/ LastFrame = m_lastSentFrame
        \/ \E i \in DOMAIN eventQueue : /\ eventQueue[i].type = "frame"
                                        /\ LastFrame = eventQueue[i].frame
    BY <2>1, HasLast DEF LastFrame
  <2> HIDE DEF LastFrame
  <2> QED BY <2>2 DEF IInv, QueueInv
<1> QED BY Invariance, <1>1, PTL

\* After the event that ends a job no frame shows it, until there is another.
THEOREM JobEnds == Spec => []JobGoneAfterEnd
<1>1. IInv => JobGoneAfterEnd
  BY DEF IInv, QueueInv
<1> QED BY Invariance, <1>1, PTL
=============================================================================
