-------------------------- MODULE MCVideoRecovery --------------------------
(* Instances of VideoRecovery for TLC. *)
EXTENDS VideoRecovery

Both == {"native", "browser"}
=============================================================================
