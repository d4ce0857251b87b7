-------------------------- MODULE DecodableStream --------------------------
(***************************************************************************)
(* What a video decoder may be given when its stream has holes: frames in  *)
(* ascending order, the first one since it was made or reset a key frame,  *)
(* every later one the successor of the one before.                        *)
(***************************************************************************)
EXTENDS Integers

CONSTANT MaxFrames

VARIABLES
    decoded,   \* number of the last frame, -1 before the first
    key,       \* whether that was a key frame
    fed        \* frames since the decoder was made or reset; 2 stands for more

vars == <<decoded, key, fed>>

Init == decoded = -1 /\ key = FALSE /\ fed = 0

Reset == fed' = 0 /\ UNCHANGED <<decoded, key>>

\* A key frame for a new decoder; one that is reset for this frame is new too.
Start(n) ==
    /\ n > decoded
    /\ decoded' = n /\ key' = TRUE /\ fed' = 1

Continue ==
    /\ fed > 0
    /\ decoded' = decoded + 1 /\ key' \in BOOLEAN /\ fed' = 2

Next ==
    \/ Reset
    \/ \E n \in 0 .. MaxFrames : Start(n)
    \/ Continue

Spec == Init /\ [][Next]_vars
=============================================================================
