------------------------- MODULE MCTelemetryServer -------------------------
(***************************************************************************)
(* Instance of TelemetryServer for TLC, with the arrays in their true      *)
(* size.  The games: one of each, one that is too old, one that is not     *)
(* known.  A newer one than the plugin knows starts with a later API.      *)
(* Neither of the two supported has every channel.                         *)
(***************************************************************************)
EXTENDS TelemetryServer

MCGames == {[id |-> "eut2", version |-> SCS_MAKE_VERSION(1, 18), api |-> 1,
             lacks |-> {"adblue_average_consumption"}],
            [id |-> "ats", version |-> SCS_MAKE_VERSION(1, 6), api |-> 2,
             lacks |-> {"adblue", "adblue_warning", "adblue_average_consumption"}],
            [id |-> "eut2", version |-> SCS_MAKE_VERSION(1, 17), api |-> 1, lacks |-> {}],
            [id |-> "other", version |-> SCS_MAKE_VERSION(2, 0), api |-> 1, lacks |-> {}]}

\* A flag that only one of the games has, a placement of a trailer, and the damage.
MCWatched ==
    {Plain("truck", <<"adblue_warning", "bool", <<"adblue", "warning">>>>),
     OfTrailer(Plain("trailer", <<"world_placement", "dplacement", <<"worldPlacement">>>>), 1),
     Plain("job", <<"cargo_damage", "float", <<"cargoDamage">>>>)}

\* Between them they have attributes of every type.
MCEvents == {"job_delivered", "player_use_ferry"}
=============================================================================
