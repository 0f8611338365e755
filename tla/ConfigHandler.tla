--------------------------- MODULE ConfigHandler ---------------------------
(***************************************************************************)
(* src/config_handler.cpp: the loop of the four HandleXxxConfig functions. *)
(* One step handles one attribute, through the table of the function.  The *)
(* game chooses the order of the list.                                     *)
(*                                                                         *)
(* The functions run on the game thread and nothing else touches the data, *)
(* so TelemetryPlugin takes a call for one step, with the effect that      *)
(* TelemetryData states without a loop; Effect says that this is right.    *)
(***************************************************************************)
EXTENDS TelemetryData

CONSTANT Lists(_)   \* per kind of configuration, the lists the game may send

Kind == {"truck", "trailer", "controls", "job"}

ASSUME ListsAssumption ==
    \A k \in Kind : \A A \in Lists(k) : A \subseteq Attribute(k) /\ WellFormed(A)

VARIABLES
    kind,         \* which of the functions is called
    attributes,   \* the attributes of its list that are still to come
    context,      \* the structure it writes to
    handled,      \* history: the attributes that have been handled
    before        \* history: the structure at the call

vars == <<kind, attributes, context, handled, before>>

Structure(k) == IF k = "trailer" THEN Trailer ELSE IF k = "job" THEN Job ELSE Truck

TypeOK ==
    /\ kind \in Kind
    /\ attributes \subseteq Attribute(kind) /\ handled \subseteq Attribute(kind)
    /\ context \in Structure(kind) /\ before \in Structure(kind)

\* A call, on a structure that earlier calls and the channels have filled.
Init ==
    /\ kind \in Kind
    /\ attributes \in Lists(kind) /\ handled = {}
    /\ context \in Structure(kind) /\ before = context

-----------------------------------------------------------------------------
(* The tables *)

\* Fault: every wheel is cleared, whatever the list said of it before its count.
StoreWheelCountAll(v, n) ==
    [v EXCEPT !.wheelCount = n, !.wheels = [j \in Wheels |-> NoWheel]]
\* Fault: the count is taken for the index of the last wheel.
StoreWheelCountLast(v, n) == [v EXCEPT !.wheelCount = n + 1]

\* The wheels that do not exist are cleared.
StoreWheelCount(v, n) ==
    [v EXCEPT !.wheelCount = n,
              !.wheels = [j \in Wheels |-> IF n <= j THEN NoWheel ELSE v.wheels[j]]]

StoreTrailer(v, a) ==
    CASE a.name = "name" -> [v EXCEPT !.name = a.value]
      [] a.name = "wheelCount" -> StoreWheelCount(v, a.value)
      [] a.name = "radius" -> [v EXCEPT !.wheels[a.index].radius = a.value]
      [] OTHER -> v

\* The ratios of a gear the arrays have no room for are dropped.
StoreTruck(v, a) ==
    IF a.name # "ratio" THEN StoreTrailer(v, a)
    ELSE IF a.index < MAX_GEARS THEN [v EXCEPT !.ratio[a.index] = a.value] ELSE v

StoreControl(v, a) ==
    IF a.name = "shifterType" THEN [v EXCEPT !.shifterType = a.value] ELSE v

StoreJob(v, a) ==
    CASE a.name = "cargo" -> [v EXCEPT !.cargo = a.value]
      [] a.name = "source" -> [v EXCEPT !.source = a.value]
      [] OTHER -> v

Store(k, v, a) ==
    CASE k = "truck" -> StoreTruck(v, a)
      [] k = "trailer" -> StoreTrailer(v, a)
      [] k = "controls" -> StoreControl(v, a)
      [] k = "job" -> StoreJob(v, a)

-----------------------------------------------------------------------------
\* One pass of the loop.
HandleAttribute ==
    /\ \E a \in attributes :
          /\ context' = Store(kind, context, a)
          /\ attributes' = attributes \ {a}
          /\ handled' = handled \cup {a}
    /\ UNCHANGED <<kind, before>>

\* The list is at its end.
Return == attributes = {} /\ UNCHANGED vars

Next == HandleAttribute \/ Return

Spec == Init /\ [][Next]_vars

-----------------------------------------------------------------------------
(* Properties *)

\* What a call leaves behind does not depend on the order of the list: it is the
\* structure TelemetryData describes, with wheels cleared however late their
\* count comes.
Effect ==
    context = CASE kind = "truck" -> HandleTruckConfig(handled, before)
                [] kind = "trailer" -> HandleTrailerConfig(handled, before)
                [] kind = "controls" -> HandleControlConfig(handled, before)
                [] kind = "job" -> HandleJobConfig(handled, before)
=============================================================================
