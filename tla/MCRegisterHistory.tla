-------------------------- MODULE MCRegisterHistory --------------------------
(* Two tasks of RegisterHistory that contend for the same registers. *)
EXTENDS RegisterHistory, MCRegisterMap
==============================================================================
