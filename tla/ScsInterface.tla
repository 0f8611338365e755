---------------------------- MODULE ScsInterface ----------------------------
(***************************************************************************)
(* include/scs_sdk: what the game's side of the telemetry SDK promises,    *)
(* as far as the plugin relies on it.  The tables say which channels there *)
(* are and with which native type, which types a game converts them to,    *)
(* which of them a game may be without, and what comes with each gameplay  *)
(* event.  Names are those of the macros without their common prefix.      *)
(***************************************************************************)
EXTENDS Integers

CONSTANTS
    SCS_U32_NIL,      \* 2^32 - 1, the index of a channel that is not an array
    MAX_WHEEL_COUNT,  \* 14, in telemetry_common.h; the game's own limit as well
    MAX_TRAILERS      \* 10, SCS_TELEMETRY_trailers_count

ASSUME CountsAssumption ==
    /\ MAX_WHEEL_COUNT \in Nat /\ MAX_TRAILERS \in Nat \ {0}
    /\ SCS_U32_NIL \in Nat /\ MAX_WHEEL_COUNT < SCS_U32_NIL /\ MAX_TRAILERS < SCS_U32_NIL

\* scs_value_type_t
ScsType == {"bool", "s32", "u32", "u64", "float", "double", "fvector", "dvector",
            "euler", "fplacement", "dplacement", "string", "s64"}

\* The types a channel can be registered with: its own, those of the other
\* precision, and the parts of a placement.
Provides(native) ==
    CASE native \in {"float", "double"} -> {"float", "double"}
      [] native \in {"fvector", "dvector"} -> {"fvector", "dvector"}
      [] native \in {"fplacement", "dplacement"} ->
            {"fplacement", "dplacement", "euler", "fvector", "dvector"}
      [] native = "u32" -> {"u32", "u64"}
      [] OTHER -> {native}

-----------------------------------------------------------------------------
(* The channels: pairs of a name and a native type *)

Are(type, names) == names \X {type}

CommonChannels ==
    Are("float", {"local_scale"}) \cup Are("u32", {"game_time"})
    \cup Are("s32", {"multiplayer_time_offset", "next_rest_stop"})

Movement ==
    Are("dplacement", {"world_placement"})
    \cup Are("fvector", {"local_linear_velocity", "local_angular_velocity",
                         "local_linear_acceleration", "local_angular_acceleration",
                         "cabin_angular_velocity", "cabin_angular_acceleration"})
    \cup Are("fplacement", {"cabin_offset", "head_offset"})
    \cup Are("float", {"speed", "engine_rpm"})
    \cup Are("s32", {"engine_gear", "displayed_gear"})

Driving ==
    Are("float", {"input_steering", "input_throttle", "input_brake", "input_clutch",
                  "effective_steering", "effective_throttle", "effective_brake",
                  "effective_clutch", "cruise_control"})
    \cup Are("u32", {"hshifter_slot"})

Brakes ==
    Are("bool", {"parking_brake", "motor_brake", "brake_air_pressure_warning",
                 "brake_air_pressure_emergency"})
    \cup Are("u32", {"retarder_level"})
    \cup Are("float", {"brake_air_pressure", "brake_temperature"})

Supplies ==
    Are("float", {"fuel", "fuel_average_consumption", "fuel_range", "adblue",
                  "adblue_average_consumption", "oil_pressure", "oil_temperature",
                  "water_temperature", "battery_voltage"})
    \cup Are("bool", {"fuel_warning", "adblue_warning", "oil_pressure_warning",
                      "water_temperature_warning", "battery_voltage_warning"})

Lights ==
    Are("bool", {"electric_enabled", "engine_enabled", "lblinker", "rblinker",
                 "hazard_warning", "light_lblinker", "light_rblinker", "light_parking",
                 "light_low_beam", "light_high_beam", "light_beacon", "light_brake",
                 "light_reverse", "wipers"})
    \cup Are("u32", {"light_aux_front", "light_aux_roof"})
    \cup Are("float", {"dashboard_backlight"})

Condition ==
    Are("bool", {"differential_lock", "lift_axle", "lift_axle_indicator",
                 "trailer_lift_axle", "trailer_lift_axle_indicator"})
    \cup Are("float", {"wear_engine", "wear_transmission", "wear_cabin", "wear_chassis",
                       "wear_wheels", "odometer", "navigation_distance",
                       "navigation_time", "navigation_speed_limit"})

\* Of a wheel, of the truck or of a trailer.
WheelChannels ==
    Are("float", {"wheel_susp_deflection", "wheel_velocity", "wheel_steering",
                  "wheel_rotation", "wheel_lift", "wheel_lift_offset"})
    \cup Are("bool", {"wheel_on_ground"}) \cup Are("u32", {"wheel_substance"})

TrailerChannels ==
    Are("bool", {"connected"})
    \cup Are("float", {"cargo_damage", "wear_body", "wear_chassis", "wear_wheels"})
    \cup Are("dplacement", {"world_placement"})
    \cup Are("fvector", {"local_linear_velocity", "local_angular_velocity",
                         "local_linear_acceleration", "local_angular_acceleration"})

JobChannels == Are("float", {"cargo_damage"})

\* hshifter_selector is the one array that is not of wheels.
Channels(of) ==
    CASE of = "game" -> CommonChannels
      [] of = "truck" -> Movement \cup Driving \cup Brakes \cup Supplies \cup Lights
                         \cup Condition
      [] of = "trailer" -> TrailerChannels
      [] of = "job" -> JobChannels

Array(of) == IF of = "truck" THEN WheelChannels \cup Are("bool", {"hshifter_selector"})
             ELSE IF of = "trailer" THEN WheelChannels ELSE {}

\* The trailers are numbered; the name without a number is the first one's.
Unit(of) == IF of = "trailer" THEN 0 .. MAX_TRAILERS - 1 \cup {SCS_U32_NIL} ELSE {SCS_U32_NIL}
Wheel == 0 .. MAX_WHEEL_COUNT - 1

\* The channels that not every game has: those of AdBlue (scssdk_telemetry_ats.h, and
\* ts_telemetry_server.cpp of one of them), and the scale of a map that is not 1:1.
Lackable == {"adblue", "adblue_warning", "adblue_average_consumption", "local_scale"}

\* registerChannel of a game g knows a channel with this index, and can give it as this
\* type.
Offers(g, channel, type) ==
    /\ channel.name \notin g.lacks
    /\ channel.unit \in Unit(channel.of)
    /\ \/ /\ channel.index = SCS_U32_NIL
          /\ \E c \in Channels(channel.of) : c[1] = channel.name /\ type \in Provides(c[2])
       \/ /\ channel.index \in Wheel
          /\ \E c \in Array(channel.of) : c[1] = channel.name /\ type \in Provides(c[2])

-----------------------------------------------------------------------------
(* The gameplay events: pairs of an attribute and its type *)

Route == Are("string", {"source_name", "target_name", "source_id", "target_id"})

Attributes(event) ==
    CASE event = "job_cancelled" -> Are("s64", {"cancel_penalty"})
      [] event = "job_delivered" ->
            Are("s64", {"revenue"}) \cup Are("s32", {"earned_xp"})
            \cup Are("float", {"cargo_damage", "distance_km"}) \cup Are("u32", {"delivery_time"})
            \cup Are("bool", {"auto_park_used", "auto_load_used"})
      [] event = "player_fined" -> Are("string", {"fine_offence"}) \cup Are("s64", {"fine_amount"})
      [] event = "player_tollgate_paid" -> Are("s64", {"pay_amount"})
      [] event \in {"player_use_ferry", "player_use_train"} -> Are("s64", {"pay_amount"}) \cup Route

GameplayEvent == {"job_cancelled", "job_delivered", "player_fined", "player_tollgate_paid",
                  "player_use_ferry", "player_use_train"}
=============================================================================
