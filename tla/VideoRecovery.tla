--------------------------- MODULE VideoRecovery ---------------------------
(***************************************************************************)
(* Low-latency video: the host numbers and cuts its frames into chunks     *)
(* (send_webcodecs_packet, main.cpp), the remoe-video channel delivers     *)
(* chunks in any order or not at all, the client puts frames together      *)
(* (VideoChunkAssembler, VideoFrameAssembler), lets only those through     *)
(* that can be decoded (LowLatencyVideoGate, VideoDecodeGate), queues them *)
(* for the decoder, and asks for a key frame over the reliable control     *)
(* channel.  The encoder makes no key frame unless it is told to.          *)
(*                                                                         *)
(* Chunks are handled one at a time: by the native client under its        *)
(* session mutex, by the browser in its event loop.                        *)
(***************************************************************************)
EXTENDS Integers, Sequences, FiniteSets

CONSTANTS
    Kinds,       \* kinds of clients: some of "native", "browser"
    MaxFrames,   \* bound: frames the host encodes
    MaxLost,     \* bound: chunks the channel loses
    KeyChunks,   \* chunks of a key frame; a delta frame is one chunk
    Window,      \* how far behind the newest frame an incomplete one is kept
    QueueLimit   \* max_frames_ of the queue; decodeQueueSize of the browser

Numbers == 0 .. MaxFrames - 1
ChunksOf(key) == IF key THEN 1 .. KeyChunks ELSE {1}
Chunks == [n : Numbers, key : BOOLEAN, i : 1 .. KeyChunks]

ASSUME BoundsAssumption ==
    /\ Kinds \subseteq {"native", "browser"}
    /\ MaxFrames \in Nat /\ MaxLost \in Nat /\ Window \in Nat
    /\ KeyChunks \in Nat \ {0} /\ QueueLimit \in Nat \ {0}

VARIABLES
    kind,                  \* which client this is
    (* host *)
    sent,                  \* what became of frames 0, 1, ..: "key", "delta", "dropped"
    key_frame_requested,
    (* channels *)
    network,               \* chunks under way
    lost,                  \* how many chunks were lost
    requests,              \* key frame requests under way
    (* client *)
    assembly,              \* frames_: the chunks there are of each frame
    newest,
    discard_through,
    gate,                  \* last_frame, waiting, requested, reset_on_key
    queue,                 \* frames for the decoder
    queue_waiting,         \* waiting_for_key_frame_ of the native queue
    recent,                \* a browser asked less than 500 ms ago
    decoder                \* last frame given to it, its kind, frames since it was
                           \* made or reset (2 for more)

host == <<sent, key_frame_requested>>
client == <<assembly, newest, discard_through, gate, queue_waiting>>
vars == <<kind, host, network, lost, requests, client, queue, recent, decoder>>

frame_number == Len(sent)
NewGate == [last |-> -1, waiting |-> TRUE, requested |-> FALSE, reset_on_key |-> FALSE]
NoChunks == [n \in Numbers |-> {}]

Init ==
    /\ kind \in Kinds
    /\ sent = << >> /\ key_frame_requested = FALSE
    /\ network = {} /\ lost = 0 /\ requests = 0
    /\ assembly = NoChunks /\ newest = -1 /\ discard_through = -1
    /\ gate = NewGate
    /\ queue = << >> /\ queue_waiting = FALSE
    /\ recent = FALSE
    /\ decoder = [last |-> -1, key |-> FALSE, fed |-> 0]

---------------------------------------------------------------------------
(* The host *)

\* key_frame_requested after a frame: the first frame does not take the request, a
\* dropped one makes the next a key frame.  Slip: it does not.
RequestedAfterFrame(dropped) == sent = << >> /\ key_frame_requested
RequestedAfter(dropped) == dropped \/ (sent = << >> /\ key_frame_requested)

\* A frame is encoded, as a key frame if it is the first or one was requested, and
\* sent, unless the channel's buffer is over its limit.
EncodeAndSend ==
    LET key == sent = << >> \/ key_frame_requested IN
    /\ frame_number < MaxFrames
    /\ \E dropped \in BOOLEAN :
         /\ sent' = Append(sent, IF dropped THEN "dropped" ELSE IF key THEN "key" ELSE "delta")
         /\ network' = IF dropped THEN network
                       ELSE network \cup {[n |-> frame_number, key |-> key, i |-> i] :
                                            i \in ChunksOf(key)}
         /\ key_frame_requested' = RequestedAfter(dropped)
    /\ UNCHANGED <<kind, lost, requests, client, queue, recent, decoder>>

\* on_binary for a RequestKeyFrame event
KeyFrameRequested ==
    /\ requests > 0
    /\ requests' = requests - 1
    /\ key_frame_requested' = TRUE
    /\ UNCHANGED <<kind, sent, network, lost, client, queue, recent, decoder>>

\* The channel neither orders nor retransmits.
LoseChunk(c) ==
    /\ lost < MaxLost
    /\ lost' = lost + 1
    /\ network' = network \ {c}
    /\ UNCHANGED <<kind, host, requests, client, queue, recent, decoder>>

---------------------------------------------------------------------------
(* The assembler, when it consumes chunk c *)

NewestWith(c) == IF c.n > newest THEN c.n ELSE newest
Accepted(c) == c.n > discard_through
With(c) == IF Accepted(c) THEN [assembly EXCEPT ![c.n] = @ \cup {c.i}] ELSE assembly

\* Frames that are too far behind the newest are given up.  Slip: one late.
StaleLate(c) == {n \in Numbers : With(c)[n] # {} /\ NewestWith(c) - n > Window + 1}
Stale(c) == {n \in Numbers : With(c)[n] # {} /\ NewestWith(c) - n > Window}
LossDetected(c) == Accepted(c) /\ Stale(c) # {}

\* The browser returns a frame that is complete even if it just gave it up.
Completes(c) ==
    /\ Accepted(c)
    /\ With(c)[c.n] = ChunksOf(c.key)
    /\ kind = "native" => c.n \notin Stale(c)

Consumed(c) ==
    [n \in Numbers |-> IF Accepted(c) /\ (n \in Stale(c) \/ (n = c.n /\ Completes(c)))
                       THEN {} ELSE With(c)[n]]

\* What clear() leaves.  Slip: the incomplete frames.
ClearedLater(c) == Consumed(c)
Cleared(c) == NoChunks

Assembler(c, clear) ==
    /\ assembly' = IF clear THEN Cleared(c) ELSE Consumed(c)
    /\ newest' = NewestWith(c)
    /\ discard_through' = IF clear THEN NewestWith(c) ELSE discard_through

---------------------------------------------------------------------------
(* The gate, for what the assembler made of chunk c *)

Fresh(c) == Completes(c) /\ c.n > gate.last
Gap(c) == Fresh(c) /\ gate.last # -1 /\ c.n # gate.last + 1

\* A delta frame has to wait.  Slip: not if frames before it are missing.
WaitsInRecovery(c) == gate.waiting \/ LossDetected(c)
Waits(c) == gate.waiting \/ LossDetected(c) \/ Gap(c)

Passes(c) == Fresh(c) /\ (c.key \/ ~Waits(c))
Rejects(c) == Fresh(c) /\ ~Passes(c)
Recovers(c) == Passes(c) /\ c.key

---------------------------------------------------------------------------
(* The native client *)

\* begin_recovery: one request until a key frame passes
Troubled(c) == ~Recovers(c) /\ (LossDetected(c) \/ Rejects(c))
GateAsks(c) == Troubled(c) /\ ~gate.requested

NativeGate(c) ==
    [last |-> IF Fresh(c) THEN c.n ELSE gate.last,
     waiting |-> Waits(c) /\ ~Recovers(c),
     requested |-> ~Recovers(c) /\ (gate.requested \/ Troubled(c)),
     reset_on_key |-> ~Recovers(c) /\ (gate.reset_on_key \/ Troubled(c))]

\* EncodedFrameQueue::push
Refused(c) == queue_waiting /\ ~c.key
Overflows(c) == Passes(c) /\ ~Refused(c) /\ Len(queue) >= QueueLimit
QueueAsks(c) == Overflows(c) /\ ~c.key
Frame(c, resets) == [n |-> c.n, key |-> c.key, resets |-> resets]

NativePush(c) ==
    LET resets == c.key /\ (gate.reset_on_key \/ LossDetected(c) \/ Gap(c)) IN
    \/ /\ ~Passes(c) \/ Refused(c)
       /\ UNCHANGED <<queue, queue_waiting>>
    \/ /\ Overflows(c)
       /\ queue' = IF c.key THEN <<Frame(c, TRUE)>> ELSE << >>
       /\ queue_waiting' = ~c.key
    \/ /\ Passes(c) /\ ~Refused(c) /\ ~Overflows(c)
       /\ queue' = Append(queue, Frame(c, resets \/ queue_waiting))
       /\ queue_waiting' = FALSE

\* on_video_binary
NativeDeliver(c) ==
    /\ kind = "native"
    /\ network' = network \ {c}
    /\ Assembler(c, GateAsks(c))
    /\ gate' = NativeGate(c)
    /\ NativePush(c)
    /\ requests' = requests + IF GateAsks(c) \/ QueueAsks(c) THEN 1 ELSE 0
    /\ UNCHANGED <<kind, host, lost, recent, decoder>>

---------------------------------------------------------------------------
(* The browser client *)

BrowserStarts(c) == ~gate.waiting /\ (LossDetected(c) \/ Gap(c))

\* decodeQueueSize over its limit, after the reset of a recovery
BrowserOverflows(c) == Passes(c) /\ ~BrowserStarts(c) /\ Len(queue) > QueueLimit
Restarts(c) == BrowserStarts(c) \/ BrowserOverflows(c)

\* handleVideo
BrowserDeliver(c) ==
    /\ kind = "browser"
    /\ network' = network \ {c}
    /\ Assembler(c, Restarts(c))
    /\ gate' = IF BrowserOverflows(c) THEN NewGate
               ELSE [gate EXCEPT !.last = IF Passes(c) THEN c.n ELSE @,
                                 !.waiting = Waits(c) /\ ~Recovers(c)]
    /\ queue' = (IF Restarts(c) THEN << >> ELSE queue)
                  \o (IF Passes(c) /\ ~BrowserOverflows(c) THEN <<Frame(c, FALSE)>> ELSE << >>)
    /\ decoder' = IF Restarts(c) THEN [decoder EXCEPT !.fed = 0] ELSE decoder
    /\ requests' = requests + IF Restarts(c) /\ ~recent THEN 1 ELSE 0
    /\ recent' = (recent \/ Restarts(c))
    /\ UNCHANGED <<kind, host, lost, queue_waiting>>

\* 500 ms after the last request
MayAskAgain ==
    /\ recent
    /\ recent' = FALSE
    /\ UNCHANGED <<kind, host, network, lost, requests, client, queue, decoder>>

---------------------------------------------------------------------------
\* decode_frames; in the browser, the decoder takes a chunk from its queue.
Decode ==
    /\ queue # << >>
    /\ queue' = Tail(queue)
    /\ LET frame == Head(queue) IN
       decoder' = [last |-> frame.n, key |-> frame.key,
                   fed |-> IF frame.resets \/ decoder.fed = 0 THEN 1 ELSE 2]
    /\ UNCHANGED <<kind, host, network, lost, requests, client, recent>>

Next ==
    \/ EncodeAndSend
    \/ KeyFrameRequested
    \/ \E c \in network : LoseChunk(c) \/ NativeDeliver(c) \/ BrowserDeliver(c)
    \/ MayAskAgain
    \/ Decode

Spec == Init /\ [][Next]_vars

---------------------------------------------------------------------------
(* Properties *)

\* The type of the state; the assembler holds nothing it discards and nothing newer
\* than the newest.  Whatever is lost, it keeps incomplete frames for the last few
\* numbers only, so that its memory is bounded, and the decoder's queue keeps its limit.
TypeOK ==
    /\ kind \in Kinds
    /\ sent \in Seq({"key", "delta", "dropped"}) /\ key_frame_requested \in BOOLEAN
    /\ network \subseteq Chunks /\ lost \in 0 .. MaxLost /\ requests \in Nat
    /\ assembly \in [Numbers -> SUBSET (1 .. KeyChunks)]
    /\ newest \in Numbers \cup {-1} /\ discard_through \in -1 .. newest
    /\ \A n \in Numbers : assembly[n] # {} => /\ discard_through < n /\ n <= newest
                                            /\ newest - n <= Window
    /\ gate \in [last : Numbers \cup {-1}, waiting : BOOLEAN, requested : BOOLEAN,
                 reset_on_key : BOOLEAN]
    /\ queue \in Seq([n : Numbers, key : BOOLEAN, resets : BOOLEAN])
    /\ Len(queue) <= QueueLimit + 1
    /\ queue_waiting \in BOOLEAN /\ recent \in BOOLEAN
    /\ decoder \in [last : Numbers \cup {-1}, key : BOOLEAN, fed : 0 .. 2]

\* On the wire no delta frame follows a frame the host dropped: what the client gets
\* could be decoded if nothing more were lost.
NoDeltaAfterDrop ==
    \A n \in 2 .. Len(sent) : sent[n] = "delta" => sent[n - 1] # "dropped"

\* The decoder is never given a delta frame across a missing one, and never crosses a
\* hole without being reset first (protocol.js: "Never decode a delta frame across a
\* missing dependency"; the test of the native gate: "recovery key frame did not reset
\* the decoder").
Stream == INSTANCE DecodableStream
            WITH decoded <- decoder.last, key <- decoder.key, fed <- decoder.fed
RefinesStream == Stream!Spec

\* A key frame that may still pass the gate, or a request for one, exists.
KeyFrameComing ==
    \/ requests > 0 \/ key_frame_requested
    \/ \E n \in Numbers :
         /\ n > gate.last /\ n > discard_through
         /\ \A i \in 1 .. KeyChunks :
              i \in assembly[n] \/ [n |-> n, key |-> TRUE, i |-> i] \in network

\* A client that discards a frame, as it waits for a key frame, has one coming
\* (README.md: after a hole it discards frames and requests a key frame).
DiscardsWithReason ==
    [][\A c \in network :
         (NativeDeliver(c) \/ BrowserDeliver(c)) /\ Rejects(c) => KeyFrameComing']_vars
=============================================================================
