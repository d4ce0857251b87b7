---------------------------- MODULE VideoEncoder ----------------------------
(***************************************************************************)
(* Desktop capture and the encoders behind it, as the host's frame loop    *)
(* and the recorder use them: DesktopCapture and GdiCapture, VplAv1Encoder *)
(* ("vpl"), NvencAv1Encoder ("nvenc") and X264H264Encoder ("x264").        *)
(*                                                                         *)
(* The operations are operators for the programs' actions.  A picture is   *)
(* its number and whether it was asked for as a key frame; what the GPU    *)
(* and the codec libraries do is a choice among what they may answer.      *)
(***************************************************************************)
EXTENDS Naturals, Sequences

CONSTANTS
    MaxRate,    \* bit rates are 1 .. MaxRate; 1 is minimum_bitrate_bps_
    Latency     \* bound: pictures an encoder may hold back

ASSUME EncoderAssumption == MaxRate \in Nat \ {0} /\ Latency \in Nat

VARIABLES
    encoder,        \* "none", or which one was made
    rate,           \* its bitrate_bps_; 0 for fixed quality
    surface,        \* input_surface_: vpl has the input imported
    inflight,       \* pictures submitted and not yet given back
    duplication,    \* duplication_
    fresh           \* the desktop changed since the last frame of duplication_

encoderVars == <<encoder, rate, surface, inflight, duplication, fresh>>
capture == <<duplication, fresh>>

Rates == 1..MaxRate

EncoderInit ==
    /\ encoder = "none" /\ rate = 0 /\ surface = FALSE /\ inflight = << >>
    /\ duplication = FALSE /\ fresh = TRUE

\* create_preferred_av1_encoder: oneVPL, then NVENC; the device that captures
\* becomes the encoder's.  Or create_x264_h264_encoder.
Make(kind, r) ==
    /\ encoder' = kind /\ rate' = r /\ surface' = FALSE /\ inflight' = << >>
    /\ duplication' = (kind # "x264") /\ fresh' = TRUE

\* ~Av1Encoder: a surface that is still imported is released.
Destroy == encoder' = "none" /\ surface' = FALSE /\ inflight' = << >>

\* input_texture: vpl imports its surface, and throws if it is still imported.
InputReady == encoder = "vpl" => ~surface
InputTexture == surface' = (encoder = "vpl")

\* discard_input
DiscardInput == surface' = FALSE

\* acquire gives a picture: there is a change, or duplication_ was made anew.
Acquires ==
    \/ encoder = "x264" /\ UNCHANGED capture
    \/ encoder # "x264" /\ duplication /\ fresh /\ fresh' = FALSE /\ UNCHANGED duplication
    \/ encoder # "x264" /\ ~duplication /\ duplication' = TRUE /\ fresh' = FALSE

\* acquire returns false: nothing new, access lost to another desktop, or not yet
\* given back.
AcquiresNot ==
    /\ encoder # "x264"
    /\ \/ duplication /\ ~fresh /\ UNCHANGED capture
       \/ duplication' = FALSE /\ UNCHANGED fresh

\* encode: the surface is released, whatever becomes of it, and the encoder wants
\* more data, or answers: vpl with the oldest picture, the others with all they hold.
Submitted(picture) == Append(inflight, picture)
Encodes(picture, packets) ==
    /\ surface' = FALSE
    /\ \/ packets = << >> /\ inflight' = Submitted(picture)
       \/ /\ encoder = "vpl" /\ packets = <<Head(Submitted(picture))>>
          /\ inflight' = Tail(Submitted(picture))
       \/ encoder # "vpl" /\ packets = Submitted(picture) /\ inflight' = << >>
    /\ Len(inflight') <= Latency

\* drain: what is held back, or less.
Drains(packets) ==
    /\ packets \in {inflight, << >>} /\ inflight' = << >>

\* reconfigure_bitrate, of a CBR session; NVENC and x264 may refuse.  (All of them
\* refuse less than 1 Mbps, which validate_client_settings keeps out.)
Reconfigures(r) == rate' = r
Refuses(r) == encoder # "vpl" /\ r # rate /\ UNCHANGED rate

DesktopChanges == ~fresh /\ fresh' = TRUE

EncoderTypeOK ==
    /\ encoder \in {"none", "vpl", "nvenc", "x264"} /\ rate \in 0..MaxRate
    /\ {surface, duplication, fresh} \subseteq BOOLEAN
    /\ Len(inflight) <= Latency
=============================================================================
