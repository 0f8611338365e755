--------------------------- MODULE TelemetryData ---------------------------
(***************************************************************************)
(* include/telemetry*.h and the effect of src/config_handler.cpp on them:  *)
(* the data of a telemetry frame, and what one call of a HandleXxxConfig   *)
(* writes into it.                                                         *)
(*                                                                         *)
(* Each table of config_handler.cpp is represented by one entry of each    *)
(* shape it has: name, cargo and source stand for the entries that copy    *)
(* one value into one member, ratio for the two arrays of gear ratios      *)
(* (which check the index), radius for the members of a wheel (which do    *)
(* not).  Values are numbers; 0 is what `= {}` gives a member.             *)
(***************************************************************************)
EXTENDS Naturals

CONSTANTS
    MAX_WHEEL_COUNT,   \* as in telemetry_common.h
    MAX_TRAILERS,      \* as in telemetry.h
    MAX_GEARS,         \* 24 for the forward ratios, 8 for the reverse ones
    MaxValue,          \* bound of the model: values are 0 .. MaxValue
    SCS_U32_NIL        \* 2^32 - 1, the index of an attribute that is not an array

ASSUME SizesAssumption ==
    /\ MAX_WHEEL_COUNT \in Nat /\ MAX_TRAILERS \in Nat \ {0} /\ MAX_GEARS \in Nat
    /\ MaxValue \in Nat
ASSUME NilAssumption ==
    /\ SCS_U32_NIL \in Nat
    /\ MAX_WHEEL_COUNT <= SCS_U32_NIL /\ MAX_GEARS <= SCS_U32_NIL

Value == 0 .. MaxValue
Wheels == 0 .. MAX_WHEEL_COUNT - 1
Gears == 0 .. MAX_GEARS - 1

\* radius comes with the configuration, rotation through a channel.
Wheel == [radius : Value, rotation : Value]
NoWheel == [radius |-> 0, rotation |-> 0]

Trailer == [name : Value, wheelCount : 0 .. MAX_WHEEL_COUNT, wheels : [Wheels -> Wheel]]
NoTrailer == [name |-> 0, wheelCount |-> 0, wheels |-> [j \in Wheels |-> NoWheel]]

Truck == [name : Value, wheelCount : 0 .. MAX_WHEEL_COUNT, wheels : [Wheels -> Wheel],
          shifterType : Value, ratio : [Gears -> Value]]
NoTruck == [name |-> 0, wheelCount |-> 0, wheels |-> [j \in Wheels |-> NoWheel],
            shifterType |-> 0, ratio |-> [i \in Gears |-> 0]]

\* cargoDamage is an IEEE double, two words of 32 bits.
Double == [low : Value, high : Value]
Job == [cargo : Value, source : Value, cargoDamage : Double]
NoJob == [cargo |-> 0, source |-> 0, cargoDamage |-> [low |-> 0, high |-> 0]]

TelemetryFrame == [paused : BOOLEAN, truck : Truck, job : Job,
                   trailer : [0 .. MAX_TRAILERS - 1 -> Trailer]]

\* telemetryData = {}
InitialFrame == [paused |-> TRUE, truck |-> NoTruck, job |-> NoJob,
                 trailer |-> [n \in 0 .. MAX_TRAILERS - 1 |-> NoTrailer]]

-----------------------------------------------------------------------------
(* scs_named_value_t *)

Plain(names) == [name : names, index : {SCS_U32_NIL}, value : Value]
Indexed(name) == [name : {name}, index : 0 .. SCS_U32_NIL - 1, value : Value]
Count == [name : {"wheelCount"}, index : {SCS_U32_NIL}, value : 0 .. MAX_WHEEL_COUNT]
Spoke == [name : {"radius"}, index : Wheels, value : Value]

\* An attribute no table knows: cargo.unit.count and wheel.steerable, for two.
Unknown == Plain({"other"})

\* The attributes the game may send with each configuration.
Attribute(kind) ==
    CASE kind = "truck" -> Plain({"name"}) \cup Indexed("ratio") \cup Count \cup Spoke \cup Unknown
      [] kind = "trailer" -> Plain({"name"}) \cup Count \cup Spoke \cup Unknown
      [] kind = "controls" -> Plain({"shifterType"}) \cup Unknown
      [] kind = "job" -> Plain({"cargo", "source"}) \cup Unknown

\* The game sends no attribute twice, and describes the wheels it counts.
WellFormed(A) ==
    /\ \A a, b \in A : a.name = b.name /\ a.index = b.index => a = b
    /\ \A a \in A : a.name = "radius"
                    => \E b \in A : b.name = "wheelCount" /\ a.index < b.value

-----------------------------------------------------------------------------
(* The effect of a HandleXxxConfig.  ConfigHandler.tla has the loops. *)

\* The value an attribute list has for a member, which otherwise keeps its own.
Given(A, name, index, old) ==
    IF \E a \in A : a.name = name /\ a.index = index
    THEN (CHOOSE a \in A : a.name = name /\ a.index = index).value
    ELSE old

\* Fault: the wheels beyond the count are left as they are.
ConfiguredWheelsKept(A, wheels) ==
    [j \in Wheels |-> [wheels[j] EXCEPT !.radius = Given(A, "radius", j, @)]]

\* The wheels beyond a new wheel count are cleared, the members of the others
\* that are not in the list stay.
ConfiguredWheels(A, wheels) ==
    [j \in Wheels |->
        LET wheel == IF Given(A, "wheelCount", SCS_U32_NIL, MAX_WHEEL_COUNT) <= j
                     THEN NoWheel ELSE wheels[j]
        IN [wheel EXCEPT !.radius = Given(A, "radius", j, @)]]

HandleTrailerConfig(A, trailer) ==
    [trailer EXCEPT
        !.name = Given(A, "name", SCS_U32_NIL, @),
        !.wheelCount = Given(A, "wheelCount", SCS_U32_NIL, @),
        !.wheels = ConfiguredWheels(A, @)]

\* Fault: the count is taken for the index of the last wheel.
HandleTruckConfigLast(A, truck) ==
    [truck EXCEPT !.wheelCount = Given(A, "wheelCount", SCS_U32_NIL, @) + 1]

HandleTruckConfig(A, truck) ==
    [truck EXCEPT
        !.name = Given(A, "name", SCS_U32_NIL, @),
        !.wheelCount = Given(A, "wheelCount", SCS_U32_NIL, @),
        !.wheels = ConfiguredWheels(A, @),
        !.ratio = [i \in Gears |-> Given(A, "ratio", i, truck.ratio[i])]]

\* Fault: the controls are written to a new truck.
HandleControlConfigNew(A, truck) ==
    [NoTruck EXCEPT !.shifterType = Given(A, "shifterType", SCS_U32_NIL, @)]

HandleControlConfig(A, truck) ==
    [truck EXCEPT !.shifterType = Given(A, "shifterType", SCS_U32_NIL, @)]

HandleJobConfig(A, job) ==
    [job EXCEPT !.cargo = Given(A, "cargo", SCS_U32_NIL, @),
                !.source = Given(A, "source", SCS_U32_NIL, @)]
=============================================================================
