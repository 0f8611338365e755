------------------------ MODULE ConfigHandlerProofs ------------------------
(***************************************************************************)
(* Proofs about ConfigHandler for every size of the arrays, every range of *)
(* values and all well-formed lists: the loops stay inside the types, and  *)
(* their outcome is the one TelemetryData states, in whatever order the    *)
(* attributes come.                                                        *)
(*                                                                         *)
(* The argument is one fact about Given, that an attribute more decides    *)
(* its own member and no other, and one about the wheel count: when it     *)
(* comes late, no wheel beyond it has been described, because the list     *)
(* describes none.                                                         *)
(***************************************************************************)
EXTENDS ConfigHandler, TelemetryDataProofs, TLAPS

\* The list of the call, split into what is handled and what is to come.
Split ==
    /\ handled \cup attributes \in Lists(kind)
    /\ handled \cap attributes = {}

\* The inductive invariant.
IInv == TypeOK /\ Split /\ Effect

-----------------------------------------------------------------------------
(* The wheels *)

\* The wheels when there are only n of them.
Trimmed(w, n) == [j \in Wheels |-> IF n <= j THEN NoWheel ELSE w[j]]

\* The wheels when wheel i has another radius.
Resized(w, i, radius) == [w EXCEPT ![i].radius = radius]

\* The entry for the wheel count trims the wheels.
LEMMA StoreTrims ==
    ASSUME NEW v, NEW n
    PROVE  StoreWheelCount(v, n) = [v EXCEPT !.wheelCount = n, !.wheels = Trimmed(v.wheels, n)]
BY DEF StoreWheelCount, Trimmed

\* One attribute more does to the wheels what its entry of the table does.
LEMMA WheelsAdd ==
    ASSUME NEW k \in Kind, NEW L, L \subseteq Attribute(k), WellFormed(L),
           NEW A, A \subseteq L, NEW a \in L, a \notin A,
           NEW w \in [Wheels -> Wheel]
    PROVE  /\ a.name = "wheelCount"
              => ConfiguredWheels(A \cup {a}, w)
                   = Trimmed(ConfiguredWheels(A, w), a.value)
           /\ a.name = "radius"
              => ConfiguredWheels(A \cup {a}, w)
                   = Resized(ConfiguredWheels(A, w), a.index, a.value)
           /\ a.name \notin {"wheelCount", "radius"}
              => ConfiguredWheels(A \cup {a}, w) = ConfiguredWheels(A, w)
<1> DEFINE B == A \cup {a}
           Cleared(C, j) == IF Given(C, "wheelCount", SCS_U32_NIL, MAX_WHEEL_COUNT) <= j
                            THEN NoWheel ELSE w[j]
           Radius(C, j) == Given(C, "radius", j, Cleared(C, j).radius)
<1>1. Unique(B)
  BY DEF WellFormed, Unique
<1>2. ASSUME NEW C, NEW j \in Wheels
      PROVE  /\ Cleared(C, j) \in Wheel
             /\ ConfiguredWheels(C, w)[j]
                  = [radius |-> Radius(C, j), rotation |-> Cleared(C, j).rotation]
  <2>1. Cleared(C, j) \in Wheel
    BY SizesAssumption DEF Wheel, NoWheel, Value
  <2>2. ConfiguredWheels(C, w)[j] = [Cleared(C, j) EXCEPT !.radius = Radius(C, j)]
    BY DEF ConfiguredWheels
  <2> HIDE DEF Cleared, Radius
  <2> QED BY <2>1, <2>2 DEF Wheel
<1>3. \A n, i, x : Given(B, n, i, x)
                     = IF a.name = n /\ a.index = i THEN a.value ELSE Given(A, n, i, x)
  BY <1>1, GivenAdd
<1>4. \A C : DOMAIN ConfiguredWheels(C, w) = Wheels
               /\ ConfiguredWheels(C, w) = [j \in Wheels |-> ConfiguredWheels(C, w)[j]]
  BY DEF ConfiguredWheels
<1>6. ASSUME a.name = "wheelCount", NEW j \in Wheels
      PROVE  ConfiguredWheels(B, w)[j]
               = IF a.value <= j THEN NoWheel ELSE ConfiguredWheels(A, w)[j]
  <2>1. a.index = SCS_U32_NIL /\ a.value \in Nat
    BY <1>6, AttributeTyped, SizesAssumption DEF Kind
  <2>2. \A b \in A : b.name # "wheelCount"
    <3> SUFFICES ASSUME NEW b \in A, b.name = "wheelCount" PROVE FALSE
      OBVIOUS
    <3>1. b.index = SCS_U32_NIL
      BY AttributeTyped DEF Kind
    <3> QED BY <3>1, <2>1, <1>1, <1>6 DEF Unique
  <2>3. Given(A, "wheelCount", SCS_U32_NIL, MAX_WHEEL_COUNT) = MAX_WHEEL_COUNT
    BY <2>2, GivenOld
  <2>4. ~(MAX_WHEEL_COUNT <= j)
    BY SizesAssumption DEF Wheels
  <2>5. Cleared(A, j) = w[j]
    BY <2>3, <2>4
  <2>6. Cleared(B, j) = IF a.value <= j THEN NoWheel ELSE w[j]
    BY <1>3, <1>6, <2>1
  <2>7. Given(B, "radius", j, Cleared(B, j).radius) = Given(A, "radius", j, Cleared(B, j).radius)
    BY <1>3, <1>6
  <2>8. CASE a.value <= j
    <3>1. \A b \in A : ~(b.name = "radius" /\ b.index = j)
      <4> SUFFICES ASSUME NEW b \in A, b.name = "radius", b.index = j PROVE FALSE
        OBVIOUS
      <4>1. PICK c \in L : c.name = "wheelCount" /\ j < c.value
        BY DEF WellFormed
      <4>2. c.index = SCS_U32_NIL
        BY <4>1, AttributeTyped DEF Kind
      <4>3. c = a
        BY <4>1, <4>2, <2>1, <1>6 DEF WellFormed
      <4> QED BY <4>1, <4>3, <2>8, <2>1 DEF Wheels
    <3>2. Radius(B, j) = 0
      BY <3>1, <2>6, <2>7, <2>8, GivenOld DEF NoWheel
    <3>3. Cleared(B, j).rotation = 0
      BY <2>6, <2>8 DEF NoWheel
    <3> QED BY <1>2, <3>2, <3>3, <2>8 DEF NoWheel
  <2>9. CASE ~(a.value <= j)
    <3>1. Cleared(B, j) = Cleared(A, j) /\ Radius(B, j) = Radius(A, j)
      BY <2>9, <2>5, <2>6, <2>7
    <3> HIDE DEF Cleared, Radius
    <3>2. ConfiguredWheels(B, w)[j] = [radius |-> Radius(B, j), rotation |-> Cleared(B, j).rotation]
      BY <1>2
    <3>3. ConfiguredWheels(A, w)[j] = [radius |-> Radius(A, j), rotation |-> Cleared(A, j).rotation]
      BY <1>2
    <3> QED BY <3>1, <3>2, <3>3, <2>9
  <2> QED BY <2>8, <2>9
<1>7. ASSUME a.name # "wheelCount", NEW j \in Wheels
      PROVE  /\ Cleared(B, j) = Cleared(A, j)
             /\ Radius(B, j) = IF a.name = "radius" /\ a.index = j
                               THEN a.value ELSE Radius(A, j)
  BY <1>3, <1>7
<1> HIDE DEF Cleared, Radius
<1>8. ASSUME a.name = "radius"
      PROVE  ConfiguredWheels(B, w) = Resized(ConfiguredWheels(A, w), a.index, a.value)
  <2>1. ASSUME NEW j \in Wheels, j # a.index
        PROVE  ConfiguredWheels(B, w)[j] = ConfiguredWheels(A, w)[j]
    <3>1. Cleared(B, j) = Cleared(A, j) /\ Radius(B, j) = Radius(A, j)
      BY <1>8, <1>7, <2>1
    <3>2. ConfiguredWheels(B, w)[j] = [radius |-> Radius(B, j), rotation |-> Cleared(B, j).rotation]
      BY <1>2
    <3>3. ConfiguredWheels(A, w)[j] = [radius |-> Radius(A, j), rotation |-> Cleared(A, j).rotation]
      BY <1>2
    <3> QED BY <3>1, <3>2, <3>3
  <2>2. a.index \in Wheels
    BY <1>8, AttributeTyped DEF Kind
  <2>3. /\ Cleared(B, a.index) = Cleared(A, a.index)
        /\ Radius(B, a.index) = a.value
    BY <1>8, <1>7, <2>2
  <2>4. ConfiguredWheels(B, w)[a.index]
          = [radius |-> a.value, rotation |-> Cleared(A, a.index).rotation]
    BY <2>2, <2>3, <1>2
  <2>5. ConfiguredWheels(B, w)[a.index]
          = [ConfiguredWheels(A, w)[a.index] EXCEPT !.radius = a.value]
    <3>1. ConfiguredWheels(A, w)[a.index]
            = [radius |-> Radius(A, a.index), rotation |-> Cleared(A, a.index).rotation]
      BY <2>2, <1>2
    <3> QED BY <2>4, <3>1
  <2> QED BY <2>1, <2>2, <2>5, <1>4 DEF Resized
<1>9. ASSUME a.name \notin {"wheelCount", "radius"}
      PROVE  ConfiguredWheels(B, w) = ConfiguredWheels(A, w)
  <2>1. ASSUME NEW j \in Wheels
        PROVE  ConfiguredWheels(B, w)[j] = ConfiguredWheels(A, w)[j]
    BY <1>9, <1>2, <1>7
  <2> QED BY <2>1, <1>4
<1>10. a.name = "wheelCount"
       => ConfiguredWheels(B, w) = Trimmed(ConfiguredWheels(A, w), a.value)
  BY <1>6, <1>4 DEF Trimmed
<1> QED BY <1>8, <1>9, <1>10

\* The same of a trailer that is given by its members.
LEMMA TrailerTrims ==
    ASSUME NEW name, NEW number, NEW w, NEW n
    PROVE  StoreWheelCount([name |-> name, wheelCount |-> number, wheels |-> w], n)
             = [name |-> name, wheelCount |-> n, wheels |-> Trimmed(w, n)]
BY StoreTrims

\* The same of a truck that is given by its members.
LEMMA TruckTrims ==
    ASSUME NEW name, NEW number, NEW w, NEW type, NEW ratio, NEW n
    PROVE  StoreWheelCount([name |-> name, wheelCount |-> number, wheels |-> w,
                            shifterType |-> type, ratio |-> ratio], n)
             = [name |-> name, wheelCount |-> n, wheels |-> Trimmed(w, n),
                shifterType |-> type, ratio |-> ratio]
BY StoreTrims

-----------------------------------------------------------------------------
(* One pass of the loop *)

\* What the tables do to wheels leaves wheels.
LEMMA WheelsTyped ==
    ASSUME NEW w \in [Wheels -> Wheel]
    PROVE  /\ \A n : Trimmed(w, n) \in [Wheels -> Wheel]
           /\ \A i \in Wheels, x \in Value : Resized(w, i, x) \in [Wheels -> Wheel]
BY SizesAssumption DEF Trimmed, Resized, Wheel, NoWheel, Value

\* The tables keep the types of the structures.
LEMMA StoreTyped ==
    ASSUME NEW k \in Kind, NEW a \in Attribute(k), NEW v \in Structure(k)
    PROVE  Store(k, v, a) \in Structure(k)
<1>1. /\ a.name = "ratio" => a.index \in Nat /\ a.value \in Value
      /\ a.name = "wheelCount" => a.index = SCS_U32_NIL /\ a.value \in 0 .. MAX_WHEEL_COUNT
      /\ a.name = "radius" => a.index \in Wheels /\ a.value \in Value
      /\ a.name \in {"name", "shifterType", "cargo", "source"} => a.value \in Value
      /\ k = "truck" => a.name \in {"name", "ratio", "wheelCount", "radius", "other"}
      /\ k = "trailer" => a.name \in {"name", "wheelCount", "radius", "other"}
  BY AttributeTyped DEF Kind
<1>2. CASE k = "truck"
  <2> SUFFICES StoreTruck(v, a) \in Truck
    BY <1>2 DEF Store, Structure
  <2>1. v \in Truck
    BY <1>2 DEF Structure
  <2>2. v.wheels \in [Wheels -> Wheel]
    BY <2>1 DEF Truck
  <2>3. CASE a.name = "name"
    BY <1>1, <2>1, <2>3 DEF StoreTruck, StoreTrailer, Truck
  <2>4. CASE a.name = "wheelCount"
    <3>1. StoreTruck(v, a) = StoreWheelCount(v, a.value)
      BY <2>4 DEF StoreTruck, StoreTrailer
    <3>2. StoreTruck(v, a)
            = [v EXCEPT !.wheelCount = a.value, !.wheels = Trimmed(v.wheels, a.value)]
      BY <3>1, StoreTrims
    <3>3. Trimmed(v.wheels, a.value) \in [Wheels -> Wheel]
      BY <2>2, WheelsTyped
    <3> QED BY <1>1, <2>1, <2>4, <3>2, <3>3 DEF Truck
  <2>5. CASE a.name = "radius"
    <3>1. StoreTruck(v, a) = [v EXCEPT !.wheels = Resized(v.wheels, a.index, a.value)]
      BY <2>1, <2>5 DEF StoreTruck, StoreTrailer, Truck, Resized
    <3>2. Resized(v.wheels, a.index, a.value) \in [Wheels -> Wheel]
      BY <1>1, <2>2, <2>5, WheelsTyped
    <3> QED BY <2>1, <3>1, <3>2 DEF Truck
  <2>6. CASE a.name = "ratio"
    BY <1>1, <2>1, <2>6 DEF StoreTruck, Truck, Gears
  <2>7. CASE a.name = "other"
    BY <2>1, <2>7 DEF StoreTruck, StoreTrailer
  <2> QED BY <1>1, <1>2, <2>3, <2>4, <2>5, <2>6, <2>7
<1>3. CASE k = "trailer"
  <2> SUFFICES StoreTrailer(v, a) \in Trailer
    BY <1>3 DEF Store, Structure
  <2>1. v \in Trailer
    BY <1>3 DEF Structure
  <2>2. v.wheels \in [Wheels -> Wheel]
    BY <2>1 DEF Trailer
  <2>3. CASE a.name = "name"
    BY <1>1, <2>1, <2>3 DEF StoreTrailer, Trailer
  <2>4. CASE a.name = "wheelCount"
    <3>1. StoreTrailer(v, a) = StoreWheelCount(v, a.value)
      BY <2>4 DEF StoreTrailer
    <3>2. StoreTrailer(v, a)
            = [v EXCEPT !.wheelCount = a.value, !.wheels = Trimmed(v.wheels, a.value)]
      BY <3>1, StoreTrims
    <3>3. Trimmed(v.wheels, a.value) \in [Wheels -> Wheel]
      BY <2>2, WheelsTyped
    <3> QED BY <1>1, <2>1, <2>4, <3>2, <3>3 DEF Trailer
  <2>5. CASE a.name = "radius"
    <3>1. StoreTrailer(v, a) = [v EXCEPT !.wheels = Resized(v.wheels, a.index, a.value)]
      BY <2>1, <2>5 DEF StoreTrailer, Trailer, Resized
    <3>2. Resized(v.wheels, a.index, a.value) \in [Wheels -> Wheel]
      BY <1>1, <2>2, <2>5, WheelsTyped
    <3> QED BY <2>1, <3>1, <3>2 DEF Trailer
  <2>6. CASE a.name = "other"
    BY <2>1, <2>6 DEF StoreTrailer
  <2> QED BY <1>1, <1>3, <2>3, <2>4, <2>5, <2>6
<1>4. CASE k = "controls"
  BY <1>1, <1>4 DEF Structure, Store, StoreControl, Truck
<1>5. CASE k = "job"
  BY <1>1, <1>5 DEF Structure, Store, StoreJob, Job
<1> QED BY <1>2, <1>3, <1>4, <1>5 DEF Kind

\* The loop-free statement of a trailer's configuration follows the loop.
LEMMA TrailerAdd ==
    ASSUME NEW L, L \subseteq Attribute("trailer"), WellFormed(L),
           NEW A, A \subseteq L, NEW a \in L, a \notin A,
           NEW v \in Trailer, HandleTrailerConfig(A, v) \in Trailer
    PROVE  HandleTrailerConfig(A \cup {a}, v) = StoreTrailer(HandleTrailerConfig(A, v), a)
<1> DEFINE B == A \cup {a}
           Name(C) == Given(C, "name", SCS_U32_NIL, v.name)
           Number(C) == Given(C, "wheelCount", SCS_U32_NIL, v.wheelCount)
           Rims(C) == ConfiguredWheels(C, v.wheels)
<1>1. ASSUME NEW C
      PROVE  HandleTrailerConfig(C, v)
               = [name |-> Name(C), wheelCount |-> Number(C), wheels |-> Rims(C)]
  <2> HIDE DEF B
  <2>1. HandleTrailerConfig(C, v)
          = [v EXCEPT !.name = Name(C), !.wheelCount = Number(C), !.wheels = Rims(C)]
    BY DEF HandleTrailerConfig
  <2> HIDE DEF Name, Number, Rims
  <2> QED BY <2>1 DEF Trailer
<1>2. \A n, i, x : Given(B, n, i, x)
                     = IF a.name = n /\ a.index = i THEN a.value ELSE Given(A, n, i, x)
  <2>1. Unique(B)
    BY DEF WellFormed, Unique
  <2> QED BY <2>1, GivenAdd
<1>3. /\ a.name = "wheelCount" => Rims(B) = Trimmed(Rims(A), a.value)
      /\ a.name = "radius" => Rims(B) = Resized(Rims(A), a.index, a.value)
      /\ a.name \notin {"wheelCount", "radius"} => Rims(B) = Rims(A)
  <2>1. v.wheels \in [Wheels -> Wheel] /\ "trailer" \in Kind
    BY DEF Trailer, Kind
  <2> HIDE DEF Name, Number
  <2> QED BY <2>1, WheelsAdd
<1>4. Name(B) = IF a.name = "name" /\ a.index = SCS_U32_NIL THEN a.value ELSE Name(A)
  BY <1>2
<1>5. Number(B) = IF a.name = "wheelCount" /\ a.index = SCS_U32_NIL THEN a.value ELSE Number(A)
  BY <1>2
<1>6. /\ a.name \in {"name", "wheelCount", "radius", "other"}
      /\ a.name \in {"name", "wheelCount"} => a.index = SCS_U32_NIL
  BY AttributeTyped DEF Kind
<1>7. /\ HandleTrailerConfig(A, v) = [name |-> Name(A), wheelCount |-> Number(A), wheels |-> Rims(A)]
      /\ HandleTrailerConfig(B, v) = [name |-> Name(B), wheelCount |-> Number(B), wheels |-> Rims(B)]
  BY <1>1
<1> HIDE DEF B, Name, Number, Rims
<1>8. CASE a.name = "name"
  BY <1>3, <1>4, <1>5, <1>6, <1>7, <1>8 DEF StoreTrailer, B
<1>9. CASE a.name = "wheelCount"
  <2>1. StoreTrailer(HandleTrailerConfig(A, v), a)
          = StoreWheelCount(HandleTrailerConfig(A, v), a.value)
    BY <1>9 DEF StoreTrailer
  <2>2. StoreWheelCount(HandleTrailerConfig(A, v), a.value)
          = [name |-> Name(A), wheelCount |-> a.value, wheels |-> Trimmed(Rims(A), a.value)]
    <3>1. StoreWheelCount([name |-> Name(A), wheelCount |-> Number(A), wheels |-> Rims(A)],
                          a.value)
            = [name |-> Name(A), wheelCount |-> a.value, wheels |-> Trimmed(Rims(A), a.value)]
      BY TrailerTrims
    <3> QED BY <1>7, <3>1
  <2>3. Name(B) = Name(A) /\ Number(B) = a.value
    BY <1>4, <1>5, <1>6, <1>9
  <2> QED BY <1>3, <1>7, <1>9, <2>1, <2>2, <2>3 DEF B
<1>10. CASE a.name = "radius"
  BY <1>3, <1>4, <1>5, <1>6, <1>7, <1>10 DEF StoreTrailer, Resized, B
<1>11. CASE a.name = "other"
  BY <1>3, <1>4, <1>5, <1>6, <1>7, <1>11 DEF StoreTrailer, B
<1> QED BY <1>6, <1>8, <1>9, <1>10, <1>11

\* The loop-free statement of a truck's configuration follows the loop.
LEMMA TruckAdd ==
    ASSUME NEW L, L \subseteq Attribute("truck"), WellFormed(L),
           NEW A, A \subseteq L, NEW a \in L, a \notin A,
           NEW v \in Truck, HandleTruckConfig(A, v) \in Truck
    PROVE  HandleTruckConfig(A \cup {a}, v) = StoreTruck(HandleTruckConfig(A, v), a)
<1> DEFINE B == A \cup {a}
           Name(C) == Given(C, "name", SCS_U32_NIL, v.name)
           Number(C) == Given(C, "wheelCount", SCS_U32_NIL, v.wheelCount)
           Rims(C) == ConfiguredWheels(C, v.wheels)
           Ratios(C) == [i \in Gears |-> Given(C, "ratio", i, v.ratio[i])]
           Made(C) == [name |-> Name(C), wheelCount |-> Number(C), wheels |-> Rims(C),
                       shifterType |-> v.shifterType, ratio |-> Ratios(C)]
<1>1. ASSUME NEW C PROVE HandleTruckConfig(C, v) = Made(C)
  <2> HIDE DEF B
  <2>1. HandleTruckConfig(C, v)
          = [v EXCEPT !.name = Name(C), !.wheelCount = Number(C), !.wheels = Rims(C),
                      !.ratio = Ratios(C)]
    BY DEF HandleTruckConfig
  <2> HIDE DEF Name, Number, Rims, Ratios
  <2> QED BY <2>1 DEF Truck
<1>2. \A n, i, x : Given(B, n, i, x)
                     = IF a.name = n /\ a.index = i THEN a.value ELSE Given(A, n, i, x)
  <2>1. Unique(B)
    BY DEF WellFormed, Unique
  <2> QED BY <2>1, GivenAdd
<1>3. /\ a.name = "wheelCount" => Rims(B) = Trimmed(Rims(A), a.value)
      /\ a.name = "radius" => Rims(B) = Resized(Rims(A), a.index, a.value)
      /\ a.name \notin {"wheelCount", "radius"} => Rims(B) = Rims(A)
  <2>1. v.wheels \in [Wheels -> Wheel] /\ "truck" \in Kind
    BY DEF Truck, Kind
  <2> HIDE DEF Name, Number
  <2> QED BY <2>1, WheelsAdd
<1>4. Name(B) = IF a.name = "name" /\ a.index = SCS_U32_NIL THEN a.value ELSE Name(A)
  BY <1>2
<1>5. Number(B) = IF a.name = "wheelCount" /\ a.index = SCS_U32_NIL THEN a.value ELSE Number(A)
  BY <1>2
<1>6. /\ a.name \in {"name", "ratio", "wheelCount", "radius", "other"}
      /\ a.name \in {"name", "wheelCount"} => a.index = SCS_U32_NIL
      /\ a.name = "ratio" => a.index \in Nat
  BY AttributeTyped DEF Kind
<1>7. Ratios(B) = IF a.name = "ratio" /\ a.index < MAX_GEARS
                  THEN [Ratios(A) EXCEPT ![a.index] = a.value] ELSE Ratios(A)
  <2>1. \A i \in Gears : Ratios(B)[i] = IF a.name = "ratio" /\ a.index = i
                                       THEN a.value ELSE Ratios(A)[i]
    BY <1>2
  <2>2. a.name = "ratio" => (a.index \in Gears <=> a.index < MAX_GEARS)
    BY <1>6, SizesAssumption DEF Gears
  <2> QED BY <2>1, <2>2
<1>8. HandleTruckConfig(A, v) = Made(A) /\ HandleTruckConfig(B, v) = Made(B)
  BY <1>1
<1> HIDE DEF B, Name, Number, Rims, Ratios
<1>9. CASE a.name = "name"
  BY <1>3, <1>4, <1>5, <1>6, <1>7, <1>8, <1>9 DEF StoreTruck, StoreTrailer, B
<1>10. CASE a.name = "wheelCount"
  <2>1. StoreTruck(Made(A), a) = StoreWheelCount(Made(A), a.value)
    BY <1>10 DEF StoreTruck, StoreTrailer
  <2>2. StoreWheelCount(Made(A), a.value)
          = [name |-> Name(A), wheelCount |-> a.value, wheels |-> Trimmed(Rims(A), a.value),
             shifterType |-> v.shifterType, ratio |-> Ratios(A)]
    BY TruckTrims
  <2>3. Name(B) = Name(A) /\ Number(B) = a.value /\ Ratios(B) = Ratios(A)
    BY <1>4, <1>5, <1>6, <1>7, <1>10
  <2> QED BY <1>3, <1>8, <1>10, <2>1, <2>2, <2>3 DEF B
<1>11. CASE a.name = "radius"
  BY <1>3, <1>4, <1>5, <1>6, <1>7, <1>8, <1>11 DEF StoreTruck, StoreTrailer, Resized, B
<1>12. CASE a.name = "ratio"
  <2>1. Name(B) = Name(A) /\ Number(B) = Number(A) /\ Rims(B) = Rims(A)
    BY <1>3, <1>4, <1>5, <1>12
  <2>2. CASE a.index < MAX_GEARS
    <3>1. StoreTruck(Made(A), a) = [Made(A) EXCEPT !.ratio[a.index] = a.value]
      BY <1>12, <2>2 DEF StoreTruck
    <3>2. @ = [name |-> Name(A), wheelCount |-> Number(A), wheels |-> Rims(A),
               shifterType |-> v.shifterType,
               ratio |-> [Ratios(A) EXCEPT ![a.index] = a.value]]
      OBVIOUS
    <3> QED BY <1>7, <1>8, <1>12, <2>1, <2>2, <3>1, <3>2 DEF B
  <2>3. CASE ~(a.index < MAX_GEARS)
    BY <1>7, <1>8, <1>12, <2>1, <2>3 DEF StoreTruck, B
  <2> QED BY <2>2, <2>3
<1>13. CASE a.name = "other"
  BY <1>3, <1>4, <1>5, <1>6, <1>7, <1>8, <1>13 DEF StoreTruck, StoreTrailer, B
<1> QED BY <1>6, <1>9, <1>10, <1>11, <1>12, <1>13

\* The same of the controls and of a job.
LEMMA ControlAdd ==
    ASSUME NEW L, L \subseteq Attribute("controls"), WellFormed(L),
           NEW A, A \subseteq L, NEW a \in L, a \notin A, NEW v \in Truck
    PROVE  HandleControlConfig(A \cup {a}, v) = StoreControl(HandleControlConfig(A, v), a)
<1>1. \A n, i, x : Given(A \cup {a}, n, i, x)
                     = IF a.name = n /\ a.index = i THEN a.value ELSE Given(A, n, i, x)
  <2>1. Unique(A \cup {a})
    BY DEF WellFormed, Unique
  <2> QED BY <2>1, GivenAdd
<1>2. a.name = "shifterType" => a.index = SCS_U32_NIL
  BY AttributeTyped DEF Kind
<1> DEFINE Type(C) == Given(C, "shifterType", SCS_U32_NIL, v.shifterType)
<1>3. Type(A \cup {a}) = IF a.name = "shifterType" THEN a.value ELSE Type(A)
  BY <1>1, <1>2
<1>4. /\ HandleControlConfig(A, v) = [v EXCEPT !.shifterType = Type(A)]
      /\ HandleControlConfig(A \cup {a}, v) = [v EXCEPT !.shifterType = Type(A \cup {a})]
  BY DEF HandleControlConfig
<1> HIDE DEF Type
<1> QED BY <1>3, <1>4 DEF StoreControl, Truck

\* A job has two members that are written.
LEMMA JobAdd ==
    ASSUME NEW L, L \subseteq Attribute("job"), WellFormed(L),
           NEW A, A \subseteq L, NEW a \in L, a \notin A, NEW v \in Job
    PROVE  HandleJobConfig(A \cup {a}, v) = StoreJob(HandleJobConfig(A, v), a)
<1> DEFINE B == A \cup {a}
           Cargo(C) == Given(C, "cargo", SCS_U32_NIL, v.cargo)
           Source(C) == Given(C, "source", SCS_U32_NIL, v.source)
<1>1. \A n, i, x : Given(B, n, i, x)
                     = IF a.name = n /\ a.index = i THEN a.value ELSE Given(A, n, i, x)
  <2>1. Unique(B)
    BY DEF WellFormed, Unique
  <2> QED BY <2>1, GivenAdd
<1>2. /\ Cargo(B) = IF a.name = "cargo" /\ a.index = SCS_U32_NIL THEN a.value ELSE Cargo(A)
      /\ Source(B) = IF a.name = "source" /\ a.index = SCS_U32_NIL THEN a.value ELSE Source(A)
  BY <1>1
<1>3. a.name \in {"cargo", "source"} => a.index = SCS_U32_NIL
  BY AttributeTyped DEF Kind
<1>4. ASSUME NEW C
      PROVE  HandleJobConfig(C, v)
               = [cargo |-> Cargo(C), source |-> Source(C), cargoDamage |-> v.cargoDamage]
  <2> HIDE DEF B
  <2>1. HandleJobConfig(C, v) = [v EXCEPT !.cargo = Cargo(C), !.source = Source(C)]
    BY DEF HandleJobConfig
  <2> HIDE DEF Cargo, Source
  <2> QED BY <2>1 DEF Job
<1>5. /\ HandleJobConfig(A, v)
           = [cargo |-> Cargo(A), source |-> Source(A), cargoDamage |-> v.cargoDamage]
      /\ HandleJobConfig(B, v)
           = [cargo |-> Cargo(B), source |-> Source(B), cargoDamage |-> v.cargoDamage]
  BY <1>4
<1> HIDE DEF B, Cargo, Source
<1> QED BY <1>2, <1>3, <1>5 DEF StoreJob, B

-----------------------------------------------------------------------------
(* The invariant *)

\* Nothing is handled yet, and nothing is written.
LEMMA InitIInv == Init => IInv
<1> SUFFICES ASSUME Init
             PROVE  IInv
  OBVIOUS
<1>1. kind \in Kind /\ attributes \in Lists(kind) /\ handled = {} /\ before = context
      /\ context \in Structure(kind)
  BY DEF Init
<1>2. attributes \subseteq Attribute(kind)
  BY <1>1, ListsAssumption
<1>3. TypeOK /\ Split
  BY <1>1, <1>2 DEF TypeOK, Split
<1>4. \A n, i, old : Given({}, n, i, old) = old
  BY DEF Given
<1>5. ASSUME NEW w \in [Wheels -> Wheel]
      PROVE  ConfiguredWheels({}, w) = w
  <2>1. ASSUME NEW j \in Wheels
        PROVE  ConfiguredWheels({}, w)[j] = w[j]
    <3>1. ~(MAX_WHEEL_COUNT <= j)
      BY SizesAssumption DEF Wheels
    <3>2. ConfiguredWheels({}, w)[j] = [w[j] EXCEPT !.radius = w[j].radius]
      BY <1>4, <3>1 DEF ConfiguredWheels
    <3>3. w[j] \in Wheel
      OBVIOUS
    <3> QED BY <3>2, <3>3 DEF Wheel
  <2> QED BY <2>1 DEF ConfiguredWheels
<1>6. Effect
  <2>1. CASE kind = "truck"
    <3>1. before \in Truck /\ before.wheels \in [Wheels -> Wheel]
      BY <1>1, <2>1 DEF Structure, Truck
    <3>2. [i \in Gears |-> Given({}, "ratio", i, before.ratio[i])] = before.ratio
      <4>1. before.ratio \in [Gears -> Value]
        BY <3>1 DEF Truck
      <4>2. \A i \in Gears : Given({}, "ratio", i, before.ratio[i]) = before.ratio[i]
        BY <1>4
      <4> QED BY <4>1, <4>2
    <3>3. HandleTruckConfig({}, before) = before
      <4>1. /\ Given({}, "name", SCS_U32_NIL, before.name) = before.name
            /\ Given({}, "wheelCount", SCS_U32_NIL, before.wheelCount) = before.wheelCount
            /\ ConfiguredWheels({}, before.wheels) = before.wheels
        BY <1>4, <1>5, <3>1
      <4>2. HandleTruckConfig({}, before)
              = [before EXCEPT !.name = before.name, !.wheelCount = before.wheelCount,
                               !.wheels = before.wheels, !.ratio = before.ratio]
        BY <3>2, <4>1 DEF HandleTruckConfig
      <4> QED BY <3>1, <4>2 DEF Truck
    <3> QED BY <1>1, <2>1, <3>3 DEF Effect
  <2>2. CASE kind = "trailer"
    <3>1. before \in Trailer /\ before.wheels \in [Wheels -> Wheel]
      BY <1>1, <2>2 DEF Structure, Trailer
    <3>2. HandleTrailerConfig({}, before)
            = [before EXCEPT !.name = before.name, !.wheelCount = before.wheelCount,
                             !.wheels = before.wheels]
      BY <1>4, <1>5, <3>1 DEF HandleTrailerConfig
    <3>3. HandleTrailerConfig({}, before) = before
      BY <3>1, <3>2 DEF Trailer
    <3> QED BY <1>1, <2>2, <3>3 DEF Effect
  <2>3. CASE kind = "controls"
    <3>1. before \in Truck
      BY <1>1, <2>3 DEF Structure
    <3>2. HandleControlConfig({}, before) = [before EXCEPT !.shifterType = before.shifterType]
      BY <1>4 DEF HandleControlConfig
    <3>3. HandleControlConfig({}, before) = before
      BY <3>1, <3>2 DEF Truck
    <3> QED BY <1>1, <2>3, <3>3 DEF Effect
  <2>4. CASE kind = "job"
    <3>1. before \in Job
      BY <1>1, <2>4 DEF Structure
    <3>2. HandleJobConfig({}, before)
            = [before EXCEPT !.cargo = before.cargo, !.source = before.source]
      BY <1>4 DEF HandleJobConfig
    <3>3. HandleJobConfig({}, before) = before
      BY <3>1, <3>2 DEF Job
    <3> QED BY <1>1, <2>4, <3>3 DEF Effect
  <2> QED BY <1>1, <2>1, <2>2, <2>3, <2>4 DEF Kind
<1> QED BY <1>3, <1>6 DEF IInv

\* One attribute more is one attribute more of the outcome.
LEMMA NextIInv == IInv /\ [Next]_vars => IInv'
<1> SUFFICES ASSUME IInv, [Next]_vars
             PROVE  IInv'
  OBVIOUS
<1>1. CASE HandleAttribute
  <2>1. PICK a \in attributes : /\ context' = Store(kind, context, a)
                               /\ attributes' = attributes \ {a}
                               /\ handled' = handled \cup {a}
    BY <1>1 DEF HandleAttribute
  <2>2. kind' = kind /\ before' = before
    BY <1>1 DEF HandleAttribute
  <2>3. kind \in Kind /\ a \in Attribute(kind) /\ context \in Structure(kind)
        /\ before \in Structure(kind)
    BY DEF IInv, TypeOK
  <2>4. TypeOK'
    <3>1. context' \in Structure(kind)
      BY <2>1, <2>3, StoreTyped
    <3> QED BY <2>1, <2>2, <2>3, <3>1 DEF IInv, TypeOK
  <2>5. Split'
    <3>1. handled' \cup attributes' = handled \cup attributes
      BY <2>1
    <3>2. handled' \cap attributes' = {}
      BY <2>1 DEF IInv, Split
    <3> QED BY <2>2, <3>1, <3>2 DEF IInv, Split
  <2>6. Effect'
    <3> DEFINE L == handled \cup attributes
    <3>1. L \subseteq Attribute(kind) /\ WellFormed(L)
      BY <2>3, ListsAssumption DEF IInv, Split
    <3>2. handled \subseteq L /\ a \in L /\ a \notin handled
      BY DEF IInv, Split
    <3> HIDE DEF L
    <3>3. CASE kind = "truck"
      <4>1. context = HandleTruckConfig(handled, before)
        BY <3>3 DEF IInv, Effect
      <4>2. context \in Truck /\ before \in Truck
        BY <2>3, <3>3 DEF Structure
      <4>3. HandleTruckConfig(handled \cup {a}, before) = StoreTruck(context, a)
        BY <3>1, <3>2, <3>3, <4>1, <4>2, TruckAdd
      <4> QED BY <2>1, <2>2, <3>3, <4>3 DEF Effect, Store
    <3>4. CASE kind = "trailer"
      <4>1. context = HandleTrailerConfig(handled, before)
        BY <3>4 DEF IInv, Effect
      <4>2. context \in Trailer /\ before \in Trailer
        BY <2>3, <3>4 DEF Structure
      <4>3. HandleTrailerConfig(handled \cup {a}, before) = StoreTrailer(context, a)
        BY <3>1, <3>2, <3>4, <4>1, <4>2, TrailerAdd
      <4> QED BY <2>1, <2>2, <3>4, <4>3 DEF Effect, Store
    <3>5. CASE kind = "controls"
      <4>1. context = HandleControlConfig(handled, before)
        BY <3>5 DEF IInv, Effect
      <4>2. before \in Truck
        BY <2>3, <3>5 DEF Structure
      <4>3. HandleControlConfig(handled \cup {a}, before) = StoreControl(context, a)
        BY <3>1, <3>2, <3>5, <4>1, <4>2, ControlAdd
      <4> QED BY <2>1, <2>2, <3>5, <4>3 DEF Effect, Store
    <3>6. CASE kind = "job"
      <4>1. context = HandleJobConfig(handled, before)
        BY <3>6 DEF IInv, Effect
      <4>2. before \in Job
        BY <2>3, <3>6 DEF Structure
      <4>3. HandleJobConfig(handled \cup {a}, before) = StoreJob(context, a)
        BY <3>1, <3>2, <3>6, <4>1, <4>2, JobAdd
      <4> QED BY <2>1, <2>2, <3>6, <4>3 DEF Effect, Store
    <3> QED BY <2>3, <3>3, <3>4, <3>5, <3>6 DEF Kind
  <2> QED BY <2>4, <2>5, <2>6 DEF IInv
<1>2. CASE Return
  BY <1>2 DEF Return, vars, IInv, TypeOK, Split, Effect
<1>3. CASE UNCHANGED vars
  BY <1>3 DEF vars, IInv, TypeOK, Split, Effect
<1> QED BY <1>1, <1>2, <1>3 DEF Next

\* The inductive invariant holds throughout every call.
THEOREM Invariance == Spec => []IInv
BY InitIInv, NextIInv, PTL DEF Spec

\* Whatever list the game sends, in whatever order, the structures keep their
\* types: no index of an attribute goes past an array.
THEOREM TypeCorrect == Spec => []TypeOK
<1>1. IInv => TypeOK
  BY DEF IInv
<1> QED BY Invariance, <1>1, PTL

\* After each attribute the structure is the one TelemetryData describes for the
\* attributes handled so far; at the end, for the list, whatever its order was.
THEOREM OrderIndependent == Spec => []Effect
<1>1. IInv => Effect
  BY DEF IInv
<1> QED BY Invariance, <1>1, PTL
=============================================================================
