---------------------------- MODULE MCObjectNames ----------------------------
(* ObjectNames for TLC. *)
EXTENDS ObjectNames, ObjectSets
=============================================================================
