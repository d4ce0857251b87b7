------------------------------ MODULE MCMedia ------------------------------
(* Media for TLC. *)
EXTENDS Media

QueueOf(r) == r
=============================================================================
