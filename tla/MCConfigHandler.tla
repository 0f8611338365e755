-------------------------- MODULE MCConfigHandler --------------------------
(***************************************************************************)
(* Instance of ConfigHandler for TLC: every well-formed list of non-zero   *)
(* values, in every order, on every structure.                             *)
(***************************************************************************)
EXTENDS ConfigHandler

MCLists(k) ==
    {A \in SUBSET {a \in Attribute(k) : a.value > 0} : WellFormed(A)}
=============================================================================
