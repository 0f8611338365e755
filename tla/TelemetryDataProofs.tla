------------------------ MODULE TelemetryDataProofs ------------------------
(***************************************************************************)
(* What one call of a HandleXxxConfig does to the data: lemmas about the   *)
(* operators of TelemetryData, for the proofs about ConfigHandler and      *)
(* TelemetryPlugin.                                                        *)
(***************************************************************************)
EXTENDS TelemetryData, TLAPS

\* No two attributes of a list are for the same member.
Unique(A) == \A a, b \in A : a.name = b.name /\ a.index = b.index => a = b

-----------------------------------------------------------------------------
(* Given *)

\* The attribute that is for a member gives its value.
LEMMA GivenValue ==
    ASSUME NEW A, Unique(A), NEW b \in A, NEW old
    PROVE  Given(A, b.name, b.index, old) = b.value
<1> DEFINE c == CHOOSE a \in A : a.name = b.name /\ a.index = b.index
<1>1. c \in A /\ c.name = b.name /\ c.index = b.index
  OBVIOUS
<1>2. c = b
  BY <1>1 DEF Unique
<1> QED BY <1>2 DEF Given

\* A member no attribute is for keeps its value.
LEMMA GivenOld ==
    ASSUME NEW A, NEW n, NEW i, NEW old, \A b \in A : ~(b.name = n /\ b.index = i)
    PROVE  Given(A, n, i, old) = old
BY DEF Given

\* One attribute more decides its own member and no other.
LEMMA GivenAdd ==
    ASSUME NEW A, NEW a, a \notin A, Unique(A \cup {a}), NEW n, NEW i, NEW old
    PROVE  Given(A \cup {a}, n, i, old)
             = IF a.name = n /\ a.index = i THEN a.value ELSE Given(A, n, i, old)
<1>1. CASE a.name = n /\ a.index = i
  BY <1>1, GivenValue
<1>2. CASE ~(a.name = n /\ a.index = i)
  <2>1. Unique(A)
    BY DEF Unique
  <2>2. CASE \E b \in A : b.name = n /\ b.index = i
    <3>1. PICK b \in A : b.name = n /\ b.index = i
      BY <2>2
    <3>2. Given(A \cup {a}, b.name, b.index, old) = b.value
      BY GivenValue
    <3>3. Given(A, b.name, b.index, old) = b.value
      BY <2>1, GivenValue
    <3> QED BY <1>2, <3>1, <3>2, <3>3
  <2>3. CASE \A b \in A : ~(b.name = n /\ b.index = i)
    BY <1>2, <2>3, GivenOld
  <2> QED BY <2>2, <2>3
<1> QED BY <1>1, <1>2

-----------------------------------------------------------------------------
(* The attributes *)

\* What an attribute of each name looks like.
LEMMA AttributeTyped ==
    ASSUME NEW k \in {"truck", "trailer", "controls", "job"}, NEW a \in Attribute(k)
    PROVE  /\ a.name \in {"name", "ratio", "wheelCount", "radius", "other",
                          "shifterType", "cargo", "source"}
           /\ a.name = "ratio" => a.index \in Nat /\ a.value \in Value
           /\ a.name = "wheelCount" => a.index = SCS_U32_NIL /\ a.value \in 0 .. MAX_WHEEL_COUNT
           /\ a.name = "radius" => a.index \in Wheels /\ a.value \in Value
           /\ a.name \in {"name", "shifterType", "cargo", "source"}
              => a.index = SCS_U32_NIL /\ a.value \in Value
           /\ k = "truck" => a.name \in {"name", "ratio", "wheelCount", "radius", "other"}
           /\ k = "trailer" => a.name \in {"name", "wheelCount", "radius", "other"}
           /\ k = "controls" => a.name \in {"shifterType", "other"}
           /\ k = "job" => a.name \in {"cargo", "source", "other"}
BY SizesAssumption, NilAssumption
   DEF Attribute, Plain, Indexed, Count, Spoke, Unknown, Wheels

-----------------------------------------------------------------------------
(* What a call leaves in the structures *)

\* A member keeps its type if the attributes for it have values of that type.
LEMMA GivenTyped ==
    ASSUME NEW A, NEW n, NEW i, NEW S, NEW old \in S,
           \A a \in A : a.name = n /\ a.index = i => a.value \in S
    PROVE  Given(A, n, i, old) \in S
<1>1. CASE \E a \in A : a.name = n /\ a.index = i
  <2> DEFINE c == CHOOSE a \in A : a.name = n /\ a.index = i
  <2>1. c \in A /\ c.name = n /\ c.index = i
    BY <1>1
  <2>2. Given(A, n, i, old) = c.value
    BY <1>1 DEF Given
  <2> QED BY <2>1, <2>2
<1>2. CASE \A a \in A : ~(a.name = n /\ a.index = i)
  BY <1>2, GivenOld
<1> QED BY <1>1, <1>2

\* The wheels after a call: those of the list as it says, none beyond a new
\* wheel count, and all as they were if the list has no wheel count.
LEMMA WheelsConfigured ==
    ASSUME NEW k \in {"truck", "trailer"}, NEW A, A \subseteq Attribute(k), WellFormed(A),
           NEW w \in [Wheels -> Wheel]
    PROVE  /\ ConfiguredWheels(A, w) \in [Wheels -> Wheel]
           /\ \A a \in A : a.name = "radius"
                           => ConfiguredWheels(A, w)[a.index].radius = a.value
           /\ \A a \in A : a.name = "wheelCount"
                           => \A j \in Wheels : a.value <= j
                                                => ConfiguredWheels(A, w)[j] = NoWheel
           /\ (\A a \in A : a.name # "wheelCount") => ConfiguredWheels(A, w) = w
<1> DEFINE Cleared(j) == IF Given(A, "wheelCount", SCS_U32_NIL, MAX_WHEEL_COUNT) <= j
                         THEN NoWheel ELSE w[j]
           Radius(j) == Given(A, "radius", j, Cleared(j).radius)
<1>1. \A a \in A :
        /\ a.name = "wheelCount" => a.index = SCS_U32_NIL /\ a.value \in 0 .. MAX_WHEEL_COUNT
        /\ a.name = "radius" => a.index \in Wheels /\ a.value \in Value
  BY AttributeTyped
<1>2. Unique(A)
  BY DEF WellFormed, Unique
<1>3. ASSUME NEW j \in Wheels
      PROVE  /\ Cleared(j) \in Wheel /\ Radius(j) \in Value
             /\ ConfiguredWheels(A, w)[j]
                  = [radius |-> Radius(j), rotation |-> Cleared(j).rotation]
  <2>1. Cleared(j) \in Wheel
    BY SizesAssumption DEF Wheel, NoWheel, Value
  <2>2. ConfiguredWheels(A, w)[j] = [Cleared(j) EXCEPT !.radius = Radius(j)]
    BY DEF ConfiguredWheels
  <2> HIDE DEF Cleared
  <2>3. Cleared(j).radius \in Value
    BY <2>1 DEF Wheel
  <2>4. Radius(j) \in Value
    BY <1>1, <2>3, GivenTyped
  <2> HIDE DEF Radius
  <2> QED BY <2>1, <2>2, <2>4 DEF Wheel
<1>4. DOMAIN ConfiguredWheels(A, w) = Wheels
      /\ ConfiguredWheels(A, w) = [j \in Wheels |-> ConfiguredWheels(A, w)[j]]
  BY DEF ConfiguredWheels
<1>5. ConfiguredWheels(A, w) \in [Wheels -> Wheel]
  <2> HIDE DEF Cleared, Radius
  <2>1. ASSUME NEW j \in Wheels
        PROVE  ConfiguredWheels(A, w)[j] \in Wheel
    <3>1. Cleared(j) \in Wheel /\ Radius(j) \in Value
      BY <1>3
    <3>2. ConfiguredWheels(A, w)[j] = [radius |-> Radius(j), rotation |-> Cleared(j).rotation]
      BY <1>3
    <3> QED BY <3>1, <3>2 DEF Wheel
  <2> QED BY <2>1, <1>4
<1>6. ASSUME NEW a \in A, a.name = "radius"
      PROVE  ConfiguredWheels(A, w)[a.index].radius = a.value
  <2>1. a.index \in Wheels
    BY <1>1, <1>6
  <2>2. Radius(a.index) = a.value
    BY <1>2, <1>6, GivenValue
  <2> HIDE DEF Cleared, Radius
  <2>3. ConfiguredWheels(A, w)[a.index]
          = [radius |-> Radius(a.index), rotation |-> Cleared(a.index).rotation]
    BY <1>3, <2>1
  <2> QED BY <2>2, <2>3
<1>7. ASSUME NEW a \in A, a.name = "wheelCount", NEW j \in Wheels, a.value <= j
      PROVE  ConfiguredWheels(A, w)[j] = NoWheel
  <2>1. Given(A, a.name, a.index, MAX_WHEEL_COUNT) = a.value
    BY <1>2, GivenValue
  <2>2. Cleared(j) = NoWheel
    BY <1>1, <1>7, <2>1
  <2>3. \A b \in A : ~(b.name = "radius" /\ b.index = j)
    <3> SUFFICES ASSUME NEW b \in A, b.name = "radius", b.index = j PROVE FALSE
      OBVIOUS
    <3>1. PICK c \in A : c.name = "wheelCount" /\ j < c.value
      BY DEF WellFormed
    <3>2. c = a
      BY <1>1, <1>2, <1>7, <3>1 DEF Unique
    <3> QED BY <1>1, <1>7, <3>1, <3>2 DEF Wheels
  <2>4. Radius(j) = 0
    BY <2>2, <2>3, GivenOld DEF NoWheel
  <2>5. Cleared(j).rotation = 0
    BY <2>2 DEF NoWheel
  <2> HIDE DEF Cleared, Radius
  <2> QED BY <1>3, <2>4, <2>5 DEF NoWheel
<1>8. ASSUME \A a \in A : a.name # "wheelCount"
      PROVE  ConfiguredWheels(A, w) = w
  <2>1. \A a \in A : a.name # "radius"
    BY <1>8 DEF WellFormed
  <2>2. ASSUME NEW j \in Wheels
        PROVE  ConfiguredWheels(A, w)[j] = w[j]
    <3>1. Given(A, "wheelCount", SCS_U32_NIL, MAX_WHEEL_COUNT) = MAX_WHEEL_COUNT
      BY <1>8, GivenOld
    <3>2. Cleared(j) = w[j]
      BY <3>1, SizesAssumption DEF Wheels
    <3>3. Radius(j) = w[j].radius
      BY <2>1, <3>2, GivenOld
    <3> HIDE DEF Cleared, Radius
    <3>4. ConfiguredWheels(A, w)[j] = [radius |-> w[j].radius, rotation |-> w[j].rotation]
      BY <1>3, <3>2, <3>3
    <3>5. w[j] \in Wheel
      OBVIOUS
    <3> QED BY <3>4, <3>5 DEF Wheel
  <2> QED BY <1>4, <2>2
<1> HIDE DEF Cleared, Radius
<1> QED BY <1>5, <1>6, <1>7, <1>8

\* A trailer after a call, member by member.
LEMMA TrailerConfigured ==
    ASSUME NEW A, A \subseteq Attribute("trailer"), WellFormed(A), NEW v \in Trailer
    PROVE  /\ HandleTrailerConfig(A, v) \in Trailer
           /\ HandleTrailerConfig(A, v).name = Given(A, "name", SCS_U32_NIL, v.name)
           /\ HandleTrailerConfig(A, v).wheelCount
                = Given(A, "wheelCount", SCS_U32_NIL, v.wheelCount)
           /\ HandleTrailerConfig(A, v).wheels = ConfiguredWheels(A, v.wheels)
<1> DEFINE Name == Given(A, "name", SCS_U32_NIL, v.name)
           Number == Given(A, "wheelCount", SCS_U32_NIL, v.wheelCount)
           Rims == ConfiguredWheels(A, v.wheels)
<1>1. /\ v.name \in Value /\ v.wheelCount \in 0 .. MAX_WHEEL_COUNT
      /\ v.wheels \in [Wheels -> Wheel]
  BY DEF Trailer
<1>2. \A a \in A : /\ a.name = "name" => a.value \in Value
                   /\ a.name = "wheelCount" => a.value \in 0 .. MAX_WHEEL_COUNT
  BY AttributeTyped
<1>3. Name \in Value
  BY <1>1, <1>2, GivenTyped
<1>4. Number \in 0 .. MAX_WHEEL_COUNT
  BY <1>1, <1>2, GivenTyped
<1>5. Rims \in [Wheels -> Wheel]
  BY <1>1, WheelsConfigured
<1>6. HandleTrailerConfig(A, v)
        = [v EXCEPT !.name = Name, !.wheelCount = Number, !.wheels = Rims]
  BY DEF HandleTrailerConfig
<1> HIDE DEF Name, Number, Rims
<1>7. /\ HandleTrailerConfig(A, v) \in Trailer
      /\ HandleTrailerConfig(A, v).name = Name
      /\ HandleTrailerConfig(A, v).wheelCount = Number
      /\ HandleTrailerConfig(A, v).wheels = Rims
  BY <1>3, <1>4, <1>5, <1>6 DEF Trailer
<1> QED BY <1>7 DEF Name, Number, Rims

\* A truck after a call for it, member by member.
LEMMA TruckConfigured ==
    ASSUME NEW A, A \subseteq Attribute("truck"), WellFormed(A), NEW v \in Truck
    PROVE  /\ HandleTruckConfig(A, v) \in Truck
           /\ HandleTruckConfig(A, v).name = Given(A, "name", SCS_U32_NIL, v.name)
           /\ HandleTruckConfig(A, v).wheelCount
                = Given(A, "wheelCount", SCS_U32_NIL, v.wheelCount)
           /\ HandleTruckConfig(A, v).wheels = ConfiguredWheels(A, v.wheels)
           /\ HandleTruckConfig(A, v).shifterType = v.shifterType
           /\ \A i \in Gears : HandleTruckConfig(A, v).ratio[i]
                               = Given(A, "ratio", i, v.ratio[i])
<1> DEFINE Name == Given(A, "name", SCS_U32_NIL, v.name)
           Number == Given(A, "wheelCount", SCS_U32_NIL, v.wheelCount)
           Rims == ConfiguredWheels(A, v.wheels)
           Ratio == [i \in Gears |-> Given(A, "ratio", i, v.ratio[i])]
<1>1. /\ v.name \in Value /\ v.wheelCount \in 0 .. MAX_WHEEL_COUNT
      /\ v.wheels \in [Wheels -> Wheel] /\ v.ratio \in [Gears -> Value]
  BY DEF Truck
<1>2. \A a \in A : /\ a.name \in {"name", "ratio"} => a.value \in Value
                   /\ a.name = "wheelCount" => a.value \in 0 .. MAX_WHEEL_COUNT
  BY AttributeTyped
<1>3. Name \in Value
  BY <1>1, <1>2, GivenTyped
<1>4. Number \in 0 .. MAX_WHEEL_COUNT
  BY <1>1, <1>2, GivenTyped
<1>5. Rims \in [Wheels -> Wheel]
  BY <1>1, WheelsConfigured
<1>6. Ratio \in [Gears -> Value]
  <2>1. ASSUME NEW i \in Gears
        PROVE  Given(A, "ratio", i, v.ratio[i]) \in Value
    <3>1. v.ratio[i] \in Value
      BY <1>1
    <3> QED BY <1>2, <3>1, GivenTyped
  <2> QED BY <2>1
<1>7. HandleTruckConfig(A, v)
        = [v EXCEPT !.name = Name, !.wheelCount = Number, !.wheels = Rims, !.ratio = Ratio]
  BY DEF HandleTruckConfig
<1>8. \A i \in Gears : Ratio[i] = Given(A, "ratio", i, v.ratio[i])
  OBVIOUS
<1> HIDE DEF Name, Number, Rims, Ratio
<1>9. /\ HandleTruckConfig(A, v) \in Truck
      /\ HandleTruckConfig(A, v).name = Name
      /\ HandleTruckConfig(A, v).wheelCount = Number
      /\ HandleTruckConfig(A, v).wheels = Rims
      /\ HandleTruckConfig(A, v).shifterType = v.shifterType
      /\ HandleTruckConfig(A, v).ratio = Ratio
  BY <1>3, <1>4, <1>5, <1>6, <1>7 DEF Truck
<1> QED BY <1>8, <1>9 DEF Name, Number, Rims

\* A truck after a call for its controls: nothing but the shifter changes.
LEMMA ControlConfigured ==
    ASSUME NEW A, A \subseteq Attribute("controls"), NEW v \in Truck
    PROVE  /\ HandleControlConfig(A, v) \in Truck
           /\ HandleControlConfig(A, v).name = v.name
           /\ HandleControlConfig(A, v).wheelCount = v.wheelCount
           /\ HandleControlConfig(A, v).wheels = v.wheels
           /\ HandleControlConfig(A, v).ratio = v.ratio
           /\ HandleControlConfig(A, v).shifterType
                = Given(A, "shifterType", SCS_U32_NIL, v.shifterType)
<1> DEFINE Type == Given(A, "shifterType", SCS_U32_NIL, v.shifterType)
<1>1. v.shifterType \in Value
  BY DEF Truck
<1>2. \A a \in A : a.name = "shifterType" => a.value \in Value
  BY AttributeTyped
<1>3. Type \in Value
  BY <1>1, <1>2, GivenTyped
<1>4. HandleControlConfig(A, v) = [v EXCEPT !.shifterType = Type]
  BY DEF HandleControlConfig
<1> HIDE DEF Type
<1>5. /\ HandleControlConfig(A, v) \in Truck
      /\ HandleControlConfig(A, v).name = v.name
      /\ HandleControlConfig(A, v).wheelCount = v.wheelCount
      /\ HandleControlConfig(A, v).wheels = v.wheels
      /\ HandleControlConfig(A, v).ratio = v.ratio
      /\ HandleControlConfig(A, v).shifterType = Type
  BY <1>3, <1>4 DEF Truck
<1> QED BY <1>5 DEF Type

\* A job after a call: its damage stays.
LEMMA JobConfigured ==
    ASSUME NEW A, A \subseteq Attribute("job"), NEW v \in Job
    PROVE  /\ HandleJobConfig(A, v) \in Job
           /\ HandleJobConfig(A, v).cargo = Given(A, "cargo", SCS_U32_NIL, v.cargo)
           /\ HandleJobConfig(A, v).source = Given(A, "source", SCS_U32_NIL, v.source)
           /\ HandleJobConfig(A, v).cargoDamage = v.cargoDamage
<1> DEFINE Cargo == Given(A, "cargo", SCS_U32_NIL, v.cargo)
           Source == Given(A, "source", SCS_U32_NIL, v.source)
<1>1. v.cargo \in Value /\ v.source \in Value
  BY DEF Job
<1>2. \A a \in A : a.name \in {"cargo", "source"} => a.value \in Value
  BY AttributeTyped
<1>3. Cargo \in Value /\ Source \in Value
  BY <1>1, <1>2, GivenTyped
<1>4. HandleJobConfig(A, v) = [v EXCEPT !.cargo = Cargo, !.source = Source]
  BY DEF HandleJobConfig
<1> HIDE DEF Cargo, Source
<1>5. /\ HandleJobConfig(A, v) \in Job
      /\ HandleJobConfig(A, v).cargo = Cargo
      /\ HandleJobConfig(A, v).source = Source
      /\ HandleJobConfig(A, v).cargoDamage = v.cargoDamage
  BY <1>3, <1>4 DEF Job
<1> QED BY <1>5 DEF Cargo, Source
=============================================================================
