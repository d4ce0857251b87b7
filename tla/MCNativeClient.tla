--------------------------- MODULE MCNativeClient ---------------------------
(* Instances of NativeClient for TLC. *)
EXTENDS NativeClient

CONSTANTS t1, key

OneThread == {t1}
OneInput == {key}
=============================================================================
