---------------------------- MODULE PushedFrames ----------------------------
(***************************************************************************)
(* What the clients will have been shown last, when they have been sent    *)
(* all of a queue: a notion of the properties of TelemetryPlugin and of    *)
(* TelemetryServer.                                                        *)
(***************************************************************************)
EXTENDS Integers, Sequences

\* The last frame of a queue q, or m, the one that was taken last, when it has none.
LastOf(q, m) ==
    LET frames == {i \in DOMAIN q : q[i].type = "frame"} IN
    IF frames = {} THEN m ELSE q[CHOOSE i \in frames : \A j \in frames : j <= i].frame
=============================================================================
