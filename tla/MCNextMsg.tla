------------------------------ MODULE MCNextMsg ------------------------------
(* Instances of NextMsg for TLC. *)
EXTENDS NextMsg
==============================================================================
