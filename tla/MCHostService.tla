--------------------------- MODULE MCHostService ---------------------------
(* Instances of HostService for TLC. *)
EXTENDS HostService

CONSTANTS console, remote, w1, w2

TwoSessions == {console, remote}
TwoSlots == {w1, w2}
=============================================================================
