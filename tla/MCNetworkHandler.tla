-------------------------- MODULE MCNetworkHandler --------------------------
(***************************************************************************)
(* Instances of NetworkHandler for TLC.                                    *)
(***************************************************************************)
EXTENDS NetworkHandler, TLC

\* A client that joins is sent nothing yet, the frame, or the frame in spite of the
\* event after it.
MCEvent == {[id |-> 1, type |-> "frame"], [id |-> 2, type |-> "gameplay"]}

\* Clients are interchangeable: no definition names one.
ClientSymmetry == Permutations(Client)
=============================================================================
