--------------------------- MODULE MCEventQueue ---------------------------
(***************************************************************************)
(* Instance of EventQueue for TLC: two pushing threads, the network thread *)
(* and the two types of event the plugin sends.                            *)
(***************************************************************************)
EXTENDS EventQueue

CONSTANTS game, other, net, free

MCProducers == {game, other}
MCEvent == {"frame", "gameplay"}
MCNoEvent == ""
=============================================================================
