--------------------------- MODULE MCHostSession ---------------------------
(* Instances of HostSession for TLC. *)
EXTENDS HostSession

CONSTANTS key, button, rtp, low, bad

KeyAndButton == {key, button}
OneKey == {key}
AllConfigs == {rtp, low, bad}
LowLatencyConfigs == {low}
Accepted == AllConfigs \ {bad}
AnyBehaviour == BOOLEAN
Conforming == {TRUE}
=============================================================================
