------------------------ MODULE ChannelRegistration ------------------------
(***************************************************************************)
(* Which member of telemetryData each channel of the game is written to:   *)
(* register_channels and channel_wrapper (src/ts_telemetry_server.cpp) and *)
(* the stores (src/scs_variable_saver.cpp).  The pointer the game is given *)
(* is a void*: nothing but these tables says that what a store writes is   *)
(* what the member is.                                                     *)
(*                                                                         *)
(* A registration is a channel, the type it is asked for as, and a member. *)
(***************************************************************************)
EXTENDS TelemetryStructs

\* Rows of a table: the name of a channel, the type, the path to the member.
As(type, pairs) == {<<p[1], type, p[2]>> : p \in pairs}

GeneralTable ==
    As("u32", {<<"game_time", <<"gameTime">>>>})
    \cup As("double", {<<"local_scale", <<"localScale">>>>})
    \cup As("s32", {<<"multiplayer_time_offset", <<"multiplayerTimeOffset">>>>,
                    <<"next_rest_stop", <<"restStop">>>>})

MovementTable ==
    As("dplacement", {<<"world_placement", <<"worldPlacement">>>>,
                      <<"cabin_offset", <<"cabin", "offset">>>>,
                      <<"head_offset", <<"headOffset">>>>})
    \cup As("dvector", {<<"local_linear_velocity", <<"localLinearVelocity">>>>,
                        <<"local_linear_acceleration", <<"localLinearAcceleration">>>>,
                        <<"local_angular_acceleration", <<"localAngularAcceleration">>>>,
                        <<"local_angular_velocity", <<"localAngularVelocity">>>>,
                        <<"cabin_angular_acceleration", <<"cabin", "angularAcceleration">>>>,
                        <<"cabin_angular_velocity", <<"cabin", "angularVelocity">>>>})
    \cup As("double", {<<"speed", <<"speed">>>>, <<"engine_rpm", <<"engine", "rpm">>>>})
    \cup As("s32", {<<"engine_gear", <<"engine", "gear">>>>,
                    <<"displayed_gear", <<"displayedGear">>>>})
    \cup As("bool", {<<"engine_enabled", <<"engine", "enabled">>>>})

DrivingTable ==
    As("double", {<<"input_steering", <<"input", "steering">>>>,
                  <<"input_brake", <<"input", "brake">>>>,
                  <<"input_throttle", <<"input", "throttle">>>>,
                  <<"input_clutch", <<"input", "clutch">>>>,
                  <<"effective_steering", <<"effective", "steering">>>>,
                  <<"effective_brake", <<"effective", "brake">>>>,
                  <<"effective_throttle", <<"effective", "throttle">>>>,
                  <<"effective_clutch", <<"effective", "clutch">>>>,
                  <<"cruise_control", <<"cruiseControl">>>>})

\* Fault: the level is asked for as a flag.
RetarderAsBool == As("bool", {<<"retarder_level", <<"brake", "retarder">>>>})
\* Fault: the level is asked for as a number of 64 bits, which the channel can give.
RetarderAsU64 == As("u64", {<<"retarder_level", <<"brake", "retarder">>>>})
Retarder == As("u32", {<<"retarder_level", <<"brake", "retarder">>>>})

BrakeTable ==
    Retarder
    \cup As("bool", {<<"parking_brake", <<"brake", "parking">>>>,
                     <<"motor_brake", <<"brake", "motor">>>>,
                     <<"brake_air_pressure_warning", <<"brake", "airPressureWarning">>>>,
                     <<"brake_air_pressure_emergency", <<"brake", "airPressureEmergency">>>>})
    \cup As("double", {<<"brake_air_pressure", <<"brake", "airPressure">>>>,
                       <<"brake_temperature", <<"brake", "temperature">>>>})

SupplyTable ==
    As("double", {<<"fuel", <<"fuel", "amount">>>>,
                  <<"fuel_average_consumption", <<"fuel", "averageConsumption">>>>,
                  <<"fuel_range", <<"fuel", "range">>>>,
                  <<"adblue", <<"adblue", "amount">>>>,
                  <<"adblue_average_consumption", <<"adblue", "averageConsumption">>>>,
                  <<"oil_pressure", <<"oil", "pressure">>>>,
                  <<"oil_temperature", <<"oil", "temperature">>>>,
                  <<"water_temperature", <<"waterTemperature">>>>,
                  <<"battery_voltage", <<"batteryVoltage">>>>})
    \cup As("bool", {<<"fuel_warning", <<"fuel", "warning">>>>,
                     <<"adblue_warning", <<"adblue", "warning">>>>,
                     <<"oil_pressure_warning", <<"oil", "pressureWarning">>>>,
                     <<"water_temperature_warning", <<"waterTemperatureWarning">>>>,
                     <<"battery_voltage_warning", <<"batteryVoltageWarning">>>>})

\* Fault: one of the lines is copied and its member left as it was.
BlinkerTableCopied ==
    As("bool", {<<"lblinker", <<"leftBlinker">>>>, <<"rblinker", <<"leftBlinker">>>>,
                <<"light_lblinker", <<"light", "leftBlinker">>>>,
                <<"light_rblinker", <<"light", "rightBlinker">>>>})
BlinkerTable ==
    As("bool", {<<"lblinker", <<"leftBlinker">>>>, <<"rblinker", <<"rightBlinker">>>>,
                <<"light_lblinker", <<"light", "leftBlinker">>>>,
                <<"light_rblinker", <<"light", "rightBlinker">>>>})

LightTable ==
    As("bool", {<<"electric_enabled", <<"electricEnabled">>>>,
                <<"hazard_warning", <<"hazardWarning">>>>,
                <<"light_parking", <<"light", "parking">>>>,
                <<"light_low_beam", <<"light", "lowBeam">>>>,
                <<"light_high_beam", <<"light", "highBeam">>>>,
                <<"light_beacon", <<"light", "beacon">>>>,
                <<"light_brake", <<"light", "brake">>>>,
                <<"light_reverse", <<"light", "reverse">>>>,
                <<"wipers", <<"wipers">>>>})
    \cup As("u32", {<<"light_aux_front", <<"light", "auxFront">>>>,
                    <<"light_aux_roof", <<"light", "auxRoof">>>>})
    \cup As("double", {<<"dashboard_backlight", <<"dashboardBacklight">>>>})

ConditionTable ==
    As("bool", {<<"differential_lock", <<"differentialLock">>>>,
                <<"lift_axle", <<"liftAxle">>>>,
                <<"lift_axle_indicator", <<"liftAxleIndicator">>>>,
                <<"trailer_lift_axle", <<"trailerLiftAxle">>>>,
                <<"trailer_lift_axle_indicator", <<"trailerLiftAxleIndicator">>>>})
    \cup As("double", {<<"wear_cabin", <<"wear", "cabin">>>>,
                       <<"wear_chassis", <<"wear", "chassis">>>>,
                       <<"wear_engine", <<"wear", "engine">>>>,
                       <<"wear_transmission", <<"wear", "transmission">>>>,
                       <<"wear_wheels", <<"wear", "wheels">>>>,
                       <<"odometer", <<"odometer">>>>,
                       <<"navigation_distance", <<"navigation", "distance">>>>,
                       <<"navigation_speed_limit", <<"navigation", "speed_limit">>>>,
                       <<"navigation_time", <<"navigation", "time">>>>})

TruckTable == MovementTable \cup DrivingTable \cup BrakeTable \cup SupplyTable
              \cup BlinkerTable \cup LightTable \cup ConditionTable

\* The same lines in the loop for the truck's wheels and in that for a trailer's.
WheelTable ==
    As("double", {<<"wheel_susp_deflection", <<"suspensionDeflection">>>>,
                  <<"wheel_rotation", <<"rotation">>>>, <<"wheel_velocity", <<"velocity">>>>,
                  <<"wheel_steering", <<"steering">>>>, <<"wheel_lift", <<"lift">>>>,
                  <<"wheel_lift_offset", <<"liftOffset">>>>})
    \cup As("bool", {<<"wheel_on_ground", <<"isOnGround">>>>})

TrailerTable ==
    As("bool", {<<"connected", <<"connected">>>>})
    \cup As("double", {<<"cargo_damage", <<"cargoDamage">>>>,
                       <<"wear_body", <<"wear", "body">>>>,
                       <<"wear_chassis", <<"wear", "chassis">>>>,
                       <<"wear_wheels", <<"wear", "wheels">>>>})
    \cup As("dplacement", {<<"world_placement", <<"worldPlacement">>>>})
    \cup As("dvector",
            {<<"local_linear_velocity", <<"localLinearVelocity">>>>,
             <<"local_linear_acceleration", <<"localLinearAcceleration">>>>,
             <<"local_angular_acceleration", <<"localAngularAcceleration">>>>})

JobTable == As("float", {<<"cargo_damage", <<"cargoDamage">>>>})

-----------------------------------------------------------------------------
(* register_channels *)

\* "trailer.connected" becomes "trailer.3.connected".
trailer_indexed_channel_name(name, i) == [unit |-> i, name |-> name]

Plain(of, row) ==
    [channel |-> [of |-> of, unit |-> SCS_U32_NIL, name |-> row[1], index |-> SCS_U32_NIL],
     type |-> row[2],
     member |-> [of |-> of, unit |-> SCS_U32_NIL, wheel |-> SCS_U32_NIL, path |-> row[3]]]

OfWheel(r, j) == [r EXCEPT !.channel.index = j, !.member.wheel = j]

OfTrailer(r, i) ==
    LET named == trailer_indexed_channel_name(r.channel.name, i) IN
    [r EXCEPT !.channel.unit = named.unit, !.channel.name = named.name, !.member.unit = i]

register_channels ==
    {Plain("game", row) : row \in GeneralTable}
    \cup {Plain("truck", row) : row \in TruckTable}
    \cup {OfWheel(Plain("truck", row), j) : row \in WheelTable, j \in Wheel}
    \cup {OfTrailer(Plain("trailer", row), i) :
             row \in TrailerTable, i \in 0 .. MAX_TRAILERS - 1}
    \cup {OfTrailer(OfWheel(Plain("trailer", row), j), i) :
             row \in WheelTable, j \in Wheel, i \in 0 .. MAX_TRAILERS - 1}
    \cup {Plain("job", row) : row \in JobTable}

-----------------------------------------------------------------------------
(* channel_wrapper and the stores *)

\* What the store for values of a type takes the member for; fvector and fplacement
\* have none.
Target(type) ==
    CASE type \in {"bool", "double", "float", "s32", "s64", "u32", "u64", "string"} -> type
      [] type = "dvector" -> "TelemetryVec3D"
      [] type = "euler" -> "TelemetryOrientation"
      [] type = "dplacement" -> "TelemetryPlacement"
      [] OTHER -> "none"

\* A stored value: what is copied, and the angles, which the game gives as parts of a
\* turn.  The members of a vector are represented by one number.
Copied(v) == [plain |-> v, angle |-> 0]

Stored(type, v) ==
    CASE type = "bool" -> Copied(IF v # 0 THEN 1 ELSE 0)
      [] type = "euler" -> [plain |-> 0, angle |-> 360 * v]
      [] type = "dplacement" -> [plain |-> v, angle |-> 360 * v]
      [] OTHER -> Copied(v)

-----------------------------------------------------------------------------
(* The members *)

Root(of) ==
    CASE of = "game" -> "TelemetryFrame" [] of = "truck" -> "TelemetryTruck"
      [] of = "trailer" -> "TelemetryTrailer" [] of = "job" -> "TelemetryJob"

\* The structure a path starts from.
Owner(member) == IF member.wheel = SCS_U32_NIL THEN Root(member.of) ELSE "TelemetryWheel"
MemberType(member) == (CHOOSE l \in Leaves(Owner(member)) : l[1] = member.path)[2]

\* The configuration fills config and all of the job but the damage; paused is set by
\* telemetry_pause.
Configured(type) ==
    CASE type = "TelemetryFrame" -> {<<"paused">>}
      [] type = "TelemetryJob" -> {l[1] : l \in Leaves(type)} \ {<<"cargoDamage">>}
      [] OTHER -> {l[1] : l \in {m \in Leaves(type) : m[1][1] = "config"}}

\* The other members are for the values of channels.
Channelled(type) == {l[1] : l \in Leaves(type)} \ Configured(type)
Member(of, unit, wheel, paths) ==
    {[of |-> of, unit |-> u, wheel |-> w, path |-> p] : u \in unit, w \in wheel, p \in paths}
ChannelMembers ==
    LET none == {SCS_U32_NIL}
        trailers == 0 .. MAX_TRAILERS - 1
    IN  (UNION {Member(of, none, none, Channelled(Root(of))) : of \in {"game", "truck", "job"}})
        \cup Member("trailer", trailers, none, Channelled("TelemetryTrailer"))
        \cup Member("truck", none, Wheel, Channelled("TelemetryWheel"))
        \cup Member("trailer", trailers, Wheel, Channelled("TelemetryWheel"))

\* The registrations a game g refuses, and those whose store takes the member for
\* something else; the members that are written, and those of them that are not for
\* channels; nothing is registered twice, and nothing is written through two
\* registrations.
RefusedBy(g) == {r \in register_channels : ~Offers(g, r.channel, r.type)}
Misfits == {r \in register_channels : Target(r.type) # MemberType(r.member)}
WrittenMembers == {r.member : r \in register_channels}
StrayMembers == WrittenMembers \ ChannelMembers
NoneTwice == \A r, s \in register_channels :
                r.channel = s.channel /\ r.type = s.type => r = s
NoneShared == \A r, s \in register_channels : r.member = s.member => r = s

-----------------------------------------------------------------------------
(* Gameplay events: the switch of telemetry_gameplay, and to_json *)

\* Fault: money is not among the types of the switch.
HandledWithoutMoney == {"string", "float", "double", "s32", "u32", "u64", "bool"}
Handled == {"string", "float", "double", "s32", "s64", "u32", "u64", "bool"}

\* to_json writes a 0 for an alternative of the variant it does not know.
Payload(event) == {a \in Attributes(event) : a[2] \in Handled}
IsJob(event) == event \in {"job_cancelled", "job_delivered"}
=============================================================================
