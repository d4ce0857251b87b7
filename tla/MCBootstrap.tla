---------------------------- MODULE MCBootstrap ----------------------------
(* Instances of Bootstrap for TLC. *)
EXTENDS Bootstrap

CONSTANTS h, c

EitherClient == {{}, {c}}
WebClient == {{c}}
ClientTimed == {c}
=============================================================================
