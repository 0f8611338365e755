------------------------- MODULE MCTelemetryPlugin -------------------------
(***************************************************************************)
(* Instance of TelemetryPlugin for TLC.  The lists are those a game sends: *)
(* nothing, or a vehicle with all its wheels, or a job with or without its *)
(* company.  The controls never come empty.  Two sets of configurations:   *)
(* vehicles with wheels, the trailer by the name it has alone and one the  *)
(* array has no room for; and a job with two trailers, the first of them   *)
(* by both its names.                                                      *)
(***************************************************************************)
EXTENDS TelemetryPlugin

Plainly(name, value) == [name |-> name, index |-> SCS_U32_NIL, value |-> value]

Vehicle(wheels) ==
    {Plainly("name", 1), Plainly("wheelCount", wheels)}
    \cup {[name |-> "radius", index |-> j, value |-> 1] : j \in 0 .. wheels - 1}

Ratios == {[name |-> "ratio", index |-> i, value |-> 1] : i \in 0 .. SCS_U32_NIL - 1}

MCLists(k) ==
    CASE k = "truck" -> {{}} \cup {Vehicle(n) \cup Ratios : n \in 0 .. MAX_WHEEL_COUNT}
      [] k = "trailer" -> {{}} \cup {Vehicle(n) : n \in 0 .. MAX_WHEEL_COUNT}
      [] k = "controls" -> {{Plainly("shifterType", 1)}}
      [] k = "job" -> {{}} \cup {{Plainly("cargo", v)} : v \in Value \ {0}}
                      \cup {{Plainly("cargo", v), Plainly("source", 1)} : v \in Value \ {0}}

\* With a job, the trailers stay.
MCJobLists(k) == IF k = "trailer" THEN {Vehicle(0)} ELSE MCLists(k)

MCVehicles == {<<"truck">>, <<"controls">>, <<"trailer">>, <<"trailer", 1>>}
MCJob == {<<"job">>, <<"trailer">>, <<"trailer", 0>>, <<"trailer", 1>>,
          <<"trailer", 2>>, <<"substances">>}
=============================================================================
