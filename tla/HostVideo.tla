----------------------------- MODULE HostVideo -----------------------------
(***************************************************************************)
(* The frame loop of the host (run in src/main.cpp) for the standard video *)
(* track: it captures, encodes and hands frames to the pacer of the track  *)
(* (AdaptivePacingHandler), whose worker sends them; the transport's       *)
(* callbacks ask for key frames and feed the adaptive controller           *)
(* (AdaptiveStreamController), whose decisions the loop carries out.       *)
(*                                                                         *)
(* The low-latency channel is VideoRecovery's, the session around the loop *)
(* HostSession's.                                                          *)
(***************************************************************************)
EXTENDS VideoEncoder

CONSTANTS
    KeyPackets,     \* RTP packets of a key frame; a delta frame is one
    MaxQueue(_)     \* packets that 100 ms at a rate are

ASSUME HostVideoAssumption == KeyPackets \in Nat \ {0}

VARIABLES
    at,             \* where the loop is
    running,        \* session_running, and the channel is open
    fixed_quality,
    first_input,
    key_frame_requested,
    owed,           \* history, of one request for a key frame: "no", "asked", "encoded"
    picture,        \* the frame that was encoded and is to be sent
    controller,     \* adaptive_controller is set
    current,        \* current_bitrate_bps_
    pending,        \* pending_decision_
    clean_reports,
    last_decrease,  \* how long ago: "1s" (less than), "3s", "long"
    pacing,         \* the pacer's bitrate, as the media rate it was set for
    queue,          \* how many packets are in queue_
    dropped,        \* dropped_batches_ > previous_dropped_batches_
    gap             \* history: a frame was dropped since the last accepted key frame

adaptive == <<controller, current, pending, clean_reports, last_decrease>>
pacer == <<pacing, queue, dropped, gap>>
request == <<key_frame_requested, owed>>
loop == <<at, first_input, picture>>
hostVars == <<loop, running, fixed_quality, request, adaptive, pacer>>

None == [rate |-> 0, force |-> FALSE]
NoPicture == << >>

HostInit ==
    /\ at = "start" /\ running = TRUE /\ fixed_quality = FALSE
    /\ first_input = TRUE /\ key_frame_requested = FALSE /\ owed = "no" /\ picture = NoPicture
    /\ controller = FALSE /\ current = MaxRate /\ pending = None
    /\ clean_reports = 0 /\ last_decrease = "long"
    /\ pacing = MaxRate /\ queue = 0 /\ dropped = FALSE /\ gap = FALSE

Goto(place) == at' = place

-----------------------------------------------------------------------------
(* The adaptive controller *)

\* (mutant) The minimum is not looked at.
LowerEver(r) == r - 1

Higher(r) == IF r < MaxRate THEN r + 1 ELSE r
Lower(r) == IF r > 1 THEN r - 1 ELSE r

DecreaseAllowed == last_decrease # "1s"

\* publish_locked: a decision that changes nothing may leave the pending one.
Publish(r, force) ==
    \/ current' = r /\ pending' = [rate |-> r, force |-> force]
    \/ r = current /\ pending # None /\ ~force /\ UNCHANGED <<current, pending>>

Decrease(force) == last_decrease' = "1s" /\ clean_reports' = 0 /\ Publish(Lower(current), force)

\* evaluate_locked, for loss, NACKs or a growing round trip time ...
Congested ==
    IF DecreaseAllowed THEN Decrease(FALSE)
    ELSE clean_reports' = 0 /\ UNCHANGED <<current, pending, last_decrease>>

\* ... and for a clean receiver report.
Clean ==
    IF clean_reports < 2 \/ current = MaxRate \/ last_decrease # "long"
    THEN /\ clean_reports' = IF clean_reports < 2 THEN clean_reports + 1 ELSE 2
         /\ UNCHANGED <<current, pending, last_decrease>>
    ELSE clean_reports' = 0 /\ UNCHANGED last_decrease /\ Publish(Higher(current), FALSE)

\* observe_network, from the callback of the track or from the loop.
ObserveNetwork ==
    /\ controller /\ (Congested \/ Clean)
    /\ UNCHANGED <<loop, running, fixed_quality, request, controller, pacer, encoderVars>>

Time ==
    /\ last_decrease' = CASE last_decrease = "1s" -> "3s" [] OTHER -> "long"
    /\ last_decrease # "long"
    /\ UNCHANGED <<loop, running, fixed_quality, request, controller, current, pending,
                   clean_reports, pacer, encoderVars>>

-----------------------------------------------------------------------------
(* The loop *)

\* validate_client_settings, the controller, the pacer and the encoder.
StartHost ==
    /\ at = "start" /\ Goto("head")
    /\ fixed_quality' \in BOOLEAN
    /\ \E kind \in {"vpl", "nvenc", "x264"} :
         /\ fixed_quality' => kind # "x264"
         /\ Make(kind, IF fixed_quality' THEN 0 ELSE MaxRate)
    /\ controller' = ~fixed_quality'
    /\ UNCHANGED <<first_input, picture, running, request, current, pending, clean_reports,
                   last_decrease, pacer>>

LoopStep == UNCHANGED <<running, fixed_quality>>

\* The loop is left, and everything it used is closed.
Over ==
    /\ running' = FALSE /\ Goto("over") /\ controller' = FALSE /\ Destroy
    /\ queue' = 0 /\ picture' = NoPicture
    /\ UNCHANGED <<fixed_quality, first_input, request, current, pending, clean_reports,
                   last_decrease, pacing, dropped, gap, rate, duplication, fresh>>

LeaveLoop == at = "head" /\ ~running /\ Over

\* Capture, encoder or driver throw, or a message of the loop cannot be sent.
Throws == at \in {"take", "gate", "input", "acquire", "encode"} /\ Over

\* It is time for an update, or not.
SkipUpdate ==
    /\ at = "head" /\ running /\ Goto("gate")
    /\ LoopStep /\ UNCHANGED <<first_input, picture, request, adaptive, pacer, encoderVars>>

\* observe_local
ObserveLocal ==
    /\ at = "head" /\ running /\ controller /\ Goto("take")
    /\ IF dropped
       THEN IF DecreaseAllowed THEN Decrease(TRUE)
            ELSE clean_reports' = 0 /\ UNCHANGED <<current, pending, last_decrease>>
       ELSE \/ DecreaseAllowed /\ queue > 0 /\ Decrease(FALSE)  \* the head waits for 100 ms
            \/ Publish(current, FALSE) /\ UNCHANGED <<clean_reports, last_decrease>>
            \/ UNCHANGED <<current, pending, clean_reports, last_decrease>>
    /\ dropped' = FALSE
    /\ LoopStep
    /\ UNCHANGED <<first_input, picture, request, controller, pacing, queue, gap, encoderVars>>

NoDecision ==
    /\ at = "take" /\ pending = None /\ Goto("gate")
    /\ LoopStep /\ UNCHANGED <<first_input, picture, request, adaptive, pacer, encoderVars>>

\* take_decision, and what the loop does about it.
TakeDecision ==
    /\ at = "take" /\ pending # None /\ pending' = None /\ Goto("gate")
    /\ Reconfigures(pending.rate) /\ pacing' = pending.rate
    /\ key_frame_requested' = (key_frame_requested \/ pending.force)
    /\ LoopStep
    /\ UNCHANGED <<first_input, picture, owed, controller, current, clean_reports, last_decrease,
                   queue, dropped, gap, surface, inflight, encoder, capture>>

RefuseDecision ==
    /\ at = "take" /\ pending # None /\ pending' = None /\ Goto("gate")
    /\ Refuses(pending.rate) /\ controller' = FALSE
    /\ LoopStep
    /\ UNCHANGED <<first_input, picture, request, current, clean_reports, last_decrease, pacer,
                   surface, inflight, encoder, capture>>

\* (mutant) Only the delay counts.
GateDelayOnly ==
    /\ at = "gate"
    /\ \/ queue > 0 /\ Goto("head")
       \/ Goto("input")
    /\ LoopStep /\ UNCHANGED <<first_input, picture, request, adaptive, pacer, encoderVars>>

\* A fixed-quality frame waits until the queue is empty, any other for as long as
\* the head of the queue waits for 100 ms.
Gate ==
    /\ at = "gate"
    /\ \/ queue > 0 /\ Goto("head")
       \/ (fixed_quality => queue = 0) /\ Goto("input")
    /\ LoopStep /\ UNCHANGED <<first_input, picture, request, adaptive, pacer, encoderVars>>

Input ==
    /\ at = "input" /\ InputReady /\ InputTexture /\ Goto("acquire")
    /\ LoopStep /\ UNCHANGED <<first_input, picture, request, adaptive, pacer, encoder, rate,
                               inflight, capture>>

Acquire ==
    /\ at = "acquire" /\ Acquires /\ Goto("encode")
    /\ LoopStep /\ UNCHANGED <<first_input, picture, request, adaptive, pacer, encoder, rate,
                               surface, inflight>>

\* (mutant) The input is kept for the next turn.
AcquireNotKeep ==
    /\ at = "acquire" /\ AcquiresNot /\ Goto("head") /\ UNCHANGED surface
    /\ LoopStep /\ UNCHANGED <<first_input, picture, request, adaptive, pacer, encoder, rate,
                               inflight>>

AcquireNot ==
    /\ at = "acquire" /\ AcquiresNot /\ DiscardInput /\ Goto("head")
    /\ LoopStep /\ UNCHANGED <<first_input, picture, request, adaptive, pacer, encoder, rate,
                               inflight>>

\* The encoders are set up to hold nothing back: AsyncDepth 1, no B frames, no
\* output delay, zerolatency.
Encode ==
    LET key == first_input \/ key_frame_requested IN
    /\ at = "encode" /\ Goto("send")
    /\ Encodes([key |-> key], picture') /\ picture' # << >>
    /\ key_frame_requested' = (first_input /\ key_frame_requested) /\ first_input' = FALSE
    /\ owed' = IF key /\ owed = "asked" THEN "encoded" ELSE owed
    /\ LoopStep /\ UNCHANGED <<adaptive, pacer, encoder, rate, capture>>

-----------------------------------------------------------------------------
(* The pacer *)

Packets(key) == IF key THEN KeyPackets ELSE 1

\* (mutant) A frame that is too large is never admitted.
OverflowsAlways(n) == queue + n > MaxQueue(pacing)

\* outgoing: one complete frame always fits into an empty queue.
Overflows(n) == queue > 0 /\ queue + n > MaxQueue(pacing)

Accept(key) ==
    /\ ~Overflows(Packets(key)) /\ queue' = queue + Packets(key)
    /\ gap' = (gap /\ ~key) /\ owed' = IF owed = "encoded" THEN "no" ELSE owed
    /\ UNCHANGED <<key_frame_requested, dropped>>

\* (mutant) The overflow callback is not called.
DropSilent(key) ==
    /\ Overflows(Packets(key)) /\ gap' = TRUE /\ dropped' = TRUE
    /\ UNCHANGED <<queue, request>>

\* The frame is dropped, and on_video_pacing_overflow asks for a key frame.
Drop(key) ==
    /\ Overflows(Packets(key)) /\ gap' = TRUE /\ dropped' = TRUE
    /\ key_frame_requested' = TRUE /\ owed' = "asked" /\ UNCHANGED queue

\* send_video_frame hands the frame to the pacer, if the track is open.
Send ==
    /\ at = "send" /\ running /\ Goto("head") /\ picture' = NoPicture
    /\ \E key \in {picture[1].key} : Accept(key) \/ Drop(key)
    /\ LoopStep /\ UNCHANGED <<first_input, adaptive, pacing, encoderVars>>

\* The track is closed, whether the loop has learned of it or not.
SendFails == at = "send" /\ Over

\* run of the pacer: a batch.
SendBatch ==
    /\ queue > 0 /\ queue' \in 0..(queue - 1)
    /\ UNCHANGED <<loop, running, fixed_quality, request, adaptive, pacing, dropped, gap,
                   encoderVars>>

-----------------------------------------------------------------------------
(* The environment *)

\* A PLI or a RequestKeyFrame
KeyFrameRequest ==
    /\ at \notin {"start", "over"} /\ key_frame_requested' = TRUE
    /\ owed' \in {owed, IF owed = "no" THEN "asked" ELSE owed}
    /\ UNCHANGED <<loop, running, fixed_quality, adaptive, pacer, encoderVars>>

SessionEnds ==
    /\ running /\ at # "start" /\ running' = FALSE
    /\ UNCHANGED <<loop, fixed_quality, request, adaptive, pacer, encoderVars>>

Change == DesktopChanges /\ UNCHANGED <<encoder, rate, surface, inflight, duplication, hostVars>>

Loop ==
    \/ StartHost \/ SkipUpdate \/ ObserveLocal \/ NoDecision \/ TakeDecision \/ RefuseDecision
    \/ Gate \/ Input \/ AcquireNot \/ Encode \/ Send \/ SendFails \/ LeaveLoop
Callbacks == ObserveNetwork \/ KeyFrameRequest
HostNext == Loop \/ Acquire \/ Throws \/ Callbacks \/ Time \/ SendBatch \/ SessionEnds \/ Change

HostTypeOK ==
    /\ at \in {"start", "head", "take", "gate", "input", "acquire", "encode", "send", "over"}
    /\ {running, fixed_quality, first_input, key_frame_requested, controller, dropped, gap} \subseteq BOOLEAN
    /\ current \in Rates /\ pacing \in Rates /\ pending.rate \in 0..MaxRate /\ queue \in Nat
    /\ owed \in {"no", "asked", "encoded"} /\ clean_reports \in 0..2 /\ last_decrease \in {"1s", "3s", "long"}
=============================================================================
