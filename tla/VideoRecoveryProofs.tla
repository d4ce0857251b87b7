----------------------- MODULE VideoRecoveryProofs -----------------------
(***************************************************************************)
(* TypeOK and NoDeltaAfterDrop hold of VideoRecovery, and VideoRecovery    *)
(* implements DecodableStream, for any numbers of frames and lost chunks,  *)
(* any window and any queue limit.                                         *)
(***************************************************************************)
EXTENDS VideoRecovery, TLAPS

---------------------------------------------------------------------------
(* The inductive invariant *)

\* The request for a key frame that a drop leaves stands until the next frame.
DropRequests == sent # << >> /\ sent[Len(sent)] = "dropped" => key_frame_requested

\* The frame the decoder has before the i-th of its queue, and the last it will have.
Before(i) == IF i = 1 THEN decoder.last ELSE queue[i - 1].n
LastGiven == IF queue = << >> THEN decoder.last ELSE queue[Len(queue)].n

\* What the decoder is to be given: a key frame where it starts anew, and nothing is
\* missing anywhere else.
QueueDecodable ==
    \A i \in 1 .. Len(queue) :
       IF queue[i].resets \/ (i = 1 /\ decoder.fed = 0)
       THEN queue[i].key /\ queue[i].n > Before(i)
       ELSE queue[i].n = Before(i) + 1

\* No frame is before one that the decoder has or is to be given earlier.
QueueAscends ==
    /\ decoder.last <= LastGiven
    /\ \A i \in 1 .. Len(queue) : queue[i].n <= LastGiven

\* The gate and the assembler let nothing through that the decoder is past, and an
\* open gate knows the last frame it was given, unless the queue threw that one away.
GateAhead ==
    /\ LastGiven <= gate.last \/ LastGiven <= discard_through
    /\ LastGiven <= newest
    /\ gate.last = -1 => gate.waiting
    /\ ~gate.waiting /\ ~queue_waiting => LastGiven = gate.last

\* A native decoder is reset by a key frame that says so, and every hole leaves one to.
NativeFollows ==
    /\ decoder.fed = 0 <=> decoder.last = -1
    /\ LastGiven <= gate.last
    /\ gate.waiting /\ ~gate.reset_on_key => gate.last = -1

\* A browser's decoder is new, and its queue empty, for as long as its gate waits.
BrowserFollows ==
    /\ ~queue_waiting
    /\ gate.waiting => queue = << >> /\ decoder.fed = 0
    /\ ~gate.waiting /\ queue = << >> => decoder.fed > 0

StreamInv ==
    /\ QueueDecodable /\ QueueAscends /\ GateAhead
    /\ kind = "native" => NativeFollows
    /\ kind = "browser" => BrowserFollows

Inv == TypeOK /\ DropRequests /\ NoDeltaAfterDrop /\ StreamInv

---------------------------------------------------------------------------
(* Sequences: what Append, Tail and a concatenation that adds one frame do *)

Frames == [n : Numbers, key : BOOLEAN, resets : BOOLEAN]

LEMMA AppendFrame ==
    ASSUME NEW q \in Seq(Frames), NEW f \in Frames
    PROVE  /\ Append(q, f) \in Seq(Frames)
           /\ Len(Append(q, f)) = Len(q) + 1
           /\ Append(q, f)[Len(q) + 1] = f
           /\ \A i \in 1 .. Len(q) : Append(q, f)[i] = q[i]
           /\ q \o <<f>> = Append(q, f)
           /\ q \o << >> = q
OBVIOUS

LEMMA TailFrame ==
    ASSUME NEW q \in Seq(Frames), q # << >>
    PROVE  /\ Tail(q) \in Seq(Frames) /\ Head(q) \in Frames /\ Head(q) = q[1]
           /\ Len(q) \in Nat \ {0} /\ Len(Tail(q)) = Len(q) - 1
           /\ \A i \in 1 .. Len(q) - 1 : Tail(q)[i] = q[i + 1]
OBVIOUS

LEMMA NoFrame == << >> \in Seq(Frames) /\ Len(<< >>) = 0
OBVIOUS

LEMMA SingleFrame ==
    ASSUME NEW f \in Frames
    PROVE  <<f>> \in Seq(Frames) /\ Len(<<f>>) = 1 /\ <<f>>[1] = f /\ << >> \o <<f>> = <<f>>
OBVIOUS

---------------------------------------------------------------------------
(* The type of the state *)

\* What the assembler holds after a chunk is what TypeOK says, whether it was cleared
\* or not.
LEMMA AssemblerTyped ==
    ASSUME TypeOK, NEW c \in network, NEW clear \in BOOLEAN, Assembler(c, clear)
    PROVE  /\ assembly' \in [Numbers -> SUBSET (1 .. KeyChunks)]
           /\ newest' \in Numbers \cup {-1} /\ discard_through' \in -1 .. newest'
           /\ \A n \in Numbers : assembly'[n] # {} =>
                 discard_through' < n /\ n <= newest' /\ newest' - n <= Window
<1>1. /\ c \in Chunks /\ newest \in Numbers \cup {-1} /\ discard_through \in -1 .. newest
      /\ assembly \in [Numbers -> SUBSET (1 .. KeyChunks)]
      /\ \A n \in Numbers : assembly[n] # {} =>
            discard_through < n /\ n <= newest /\ newest - n <= Window
  BY DEF TypeOK
<1>2. c.n \in Numbers /\ c.i \in 1 .. KeyChunks /\ Window \in Nat
  BY <1>1, BoundsAssumption DEF Chunks
<1>3. c.n \in Nat /\ newest \in Int /\ Numbers \subseteq Nat
  BY <1>1, <1>2, BoundsAssumption DEF Numbers
<1>4. newest' = NewestWith(c)
  BY DEF Assembler
<1>5. newest' \in Numbers \cup {-1} /\ newest' \in Int /\ newest <= newest' /\ c.n <= newest'
  BY <1>1, <1>2, <1>3, <1>4 DEF NewestWith
<1>6. assembly' \in [Numbers -> SUBSET (1 .. KeyChunks)]
  BY <1>1, <1>2 DEF Assembler, Cleared, NoChunks, Consumed, With
<1>7. discard_through' \in -1 .. newest'
  BY <1>1, <1>3, <1>5, <1>4 DEF Assembler
<1>8. ASSUME NEW n \in Numbers, assembly'[n] # {}
      PROVE  discard_through' < n /\ n <= newest' /\ newest' - n <= Window
  <2>1. ~clear /\ assembly' = Consumed(c) /\ discard_through' = discard_through
    BY <1>8 DEF Assembler, Cleared, NoChunks
  <2>2. n \in Nat /\ Consumed(c)[n] # {}
    BY <1>3, <1>8, <2>1
  <2>3. CASE Accepted(c)
    <3>1. n \notin Stale(c) /\ With(c)[n] # {}
      BY <2>2, <2>3 DEF Consumed
    <3>2. newest' - n <= Window
      BY <1>4, <1>5, <2>2, <3>1, <1>2 DEF Stale
    <3>3. n = c.n \/ assembly[n] # {}
      BY <1>1, <1>2, <3>1 DEF With
    <3> QED
      BY <1>1, <1>3, <1>5, <2>1, <2>2, <2>3, <3>2, <3>3 DEF Accepted
  <2>4. CASE ~Accepted(c)
    <3>1. assembly[n] # {}
      BY <2>2, <2>4 DEF Consumed, With
    <3>2. newest' = newest
      BY <1>1, <1>3, <1>4, <2>4 DEF Accepted, NewestWith
    <3> QED
      BY <1>1, <2>1, <3>1, <3>2
  <2> QED
    BY <2>3, <2>4
<1> QED
  BY <1>5, <1>6, <1>7, <1>8

\* What does not touch the client's state leaves it as TypeOK says.
ClientTyped ==
    /\ assembly \in [Numbers -> SUBSET (1 .. KeyChunks)]
    /\ newest \in Numbers \cup {-1} /\ discard_through \in -1 .. newest
    /\ \A n \in Numbers : assembly[n] # {} => /\ discard_through < n /\ n <= newest
                                            /\ newest - n <= Window
    /\ gate \in [last : Numbers \cup {-1}, waiting : BOOLEAN, requested : BOOLEAN,
                 reset_on_key : BOOLEAN]
    /\ queue_waiting \in BOOLEAN

DecoderTyped ==
    /\ queue \in Seq(Frames) /\ Len(queue) <= QueueLimit + 1
    /\ recent \in BOOLEAN
    /\ decoder \in [last : Numbers \cup {-1}, key : BOOLEAN, fed : 0 .. 2]

HostTyped ==
    /\ kind \in Kinds
    /\ sent \in Seq({"key", "delta", "dropped"}) /\ key_frame_requested \in BOOLEAN
    /\ network \subseteq Chunks /\ lost \in 0 .. MaxLost /\ requests \in Nat

LEMMA Typed == TypeOK <=> HostTyped /\ ClientTyped /\ DecoderTyped
BY DEF TypeOK, HostTyped, ClientTyped, DecoderTyped, Frames

LEMMA TypedNext == (TypeOK <=> HostTyped /\ ClientTyped /\ DecoderTyped)'
BY Typed, PTL

LEMMA EncodeTyped == TypeOK /\ EncodeAndSend => TypeOK'
<1> SUFFICES ASSUME TypeOK, EncodeAndSend PROVE TypeOK'
  OBVIOUS
<1> DEFINE key == sent = << >> \/ key_frame_requested
<1>1. /\ HostTyped /\ frame_number < MaxFrames
      /\ UNCHANGED <<kind, lost, requests, client, queue, recent, decoder>>
  BY Typed DEF EncodeAndSend
<1>2. frame_number \in Numbers
  BY <1>1, BoundsAssumption DEF HostTyped, frame_number, Numbers
<1>3. PICK dropped \in BOOLEAN :
        /\ sent' = Append(sent, IF dropped THEN "dropped" ELSE IF key THEN "key" ELSE "delta")
        /\ network' = IF dropped THEN network
                      ELSE network \cup {[n |-> frame_number, key |-> key, i |-> i] :
                                           i \in ChunksOf(key)}
        /\ key_frame_requested' = RequestedAfter(dropped)
  BY DEF EncodeAndSend
<1>4. sent' \in Seq({"key", "delta", "dropped"})
  BY <1>1, <1>3 DEF HostTyped
<1>5. key_frame_requested' \in BOOLEAN
  BY <1>1, <1>3 DEF HostTyped, RequestedAfter
<1>6. network' \subseteq Chunks
  <2>1. ASSUME NEW i \in ChunksOf(key)
        PROVE  [n |-> frame_number, key |-> key, i |-> i] \in Chunks
    BY <1>1, <1>2, BoundsAssumption DEF Chunks, ChunksOf, HostTyped
  <2> QED
    BY <1>1, <1>3, <2>1 DEF HostTyped
<1>7. HostTyped'
  BY <1>1, <1>4, <1>5, <1>6 DEF HostTyped
<1>8. ClientTyped' /\ DecoderTyped'
  BY <1>1, Typed DEF ClientTyped, DecoderTyped, client
<1> QED
  BY <1>7, <1>8, TypedNext

LEMMA ChannelTyped ==
    TypeOK /\ (KeyFrameRequested \/ MayAskAgain \/ \E c \in network : LoseChunk(c)) => TypeOK'
<1> SUFFICES ASSUME TypeOK, KeyFrameRequested \/ MayAskAgain \/ \E c \in network : LoseChunk(c)
             PROVE  HostTyped' /\ ClientTyped' /\ DecoderTyped'
  BY TypedNext
<1>1. HostTyped /\ ClientTyped /\ DecoderTyped
  BY Typed
<1>2. CASE KeyFrameRequested
  BY <1>1, <1>2 DEF KeyFrameRequested, HostTyped, ClientTyped, DecoderTyped, client
<1>3. CASE MayAskAgain
  BY <1>1, <1>3 DEF MayAskAgain, HostTyped, ClientTyped, DecoderTyped, client, host
<1>4. CASE \E c \in network : LoseChunk(c)
  BY <1>1, <1>4, BoundsAssumption
     DEF LoseChunk, HostTyped, ClientTyped, DecoderTyped, client, host
<1> QED
  BY <1>2, <1>3, <1>4

\* The native queue keeps its limit, and an overflow leaves one key frame at most.
LEMMA NativeTyped == TypeOK /\ (\E c \in network : NativeDeliver(c)) => TypeOK'
<1> SUFFICES ASSUME TypeOK, NEW c \in network, NativeDeliver(c)
             PROVE  HostTyped' /\ ClientTyped' /\ DecoderTyped'
  BY TypedNext
<1>1. HostTyped /\ ClientTyped /\ DecoderTyped /\ c \in Chunks
  BY Typed DEF HostTyped
<1>2. c.n \in Numbers /\ c.key \in BOOLEAN
  BY <1>1 DEF Chunks
<1>3. HostTyped'
  BY <1>1 DEF NativeDeliver, HostTyped, host
<1>4. ClientTyped'
  <2>1. GateAsks(c) \in BOOLEAN
    BY DEF GateAsks, Troubled
  <2>2. gate' \in [last : Numbers \cup {-1}, waiting : BOOLEAN, requested : BOOLEAN,
                   reset_on_key : BOOLEAN]
    BY <1>1, <1>2 DEF NativeDeliver, NativeGate, ClientTyped, Waits, Troubled, Recovers
  <2>3. queue_waiting' \in BOOLEAN
    BY <1>1, <1>2 DEF NativeDeliver, NativePush, ClientTyped
  <2> QED
    BY <2>1, <2>2, <2>3, AssemblerTyped DEF NativeDeliver, ClientTyped
<1>5. DecoderTyped'
  <2>1. queue \in Seq(Frames) /\ Len(queue) \in Nat /\ QueueLimit \in Nat \ {0}
    BY <1>1, BoundsAssumption DEF DecoderTyped
  <2>2. \A resets \in BOOLEAN : Frame(c, resets) \in Frames
    BY <1>2 DEF Frame, Frames
  <2>3. queue' \in Seq(Frames) /\ Len(queue') <= QueueLimit + 1
    <3> DEFINE resets == c.key /\ (gate.reset_on_key \/ LossDetected(c) \/ Gap(c))
    <3>1. CASE ~Passes(c) \/ Refused(c)
      BY <1>1, <3>1 DEF NativeDeliver, NativePush, DecoderTyped, Overflows
    <3>2. CASE Overflows(c)
      <4>1. queue' = <<Frame(c, TRUE)>> \/ queue' = << >>
        BY <3>2 DEF NativeDeliver, NativePush, Overflows
      <4>2. queue' \in Seq(Frames) /\ (Len(queue') = 0 \/ Len(queue') = 1)
        BY <2>2, <4>1, NoFrame, SingleFrame, Zenon
      <4> QED
        BY <4>2, BoundsAssumption
    <3>3. CASE Passes(c) /\ ~Refused(c) /\ ~Overflows(c)
      <4>1. Len(queue) < QueueLimit
        BY <2>1, <3>3 DEF Overflows
      <4>2. PICK r \in BOOLEAN : queue' = Append(queue, Frame(c, r))
        <5>1. queue' = Append(queue, Frame(c, resets \/ queue_waiting))
          BY <3>3 DEF NativeDeliver, NativePush
        <5>2. (resets \/ queue_waiting) \in BOOLEAN
          OBVIOUS
        <5> QED
          BY <5>1, <5>2
      <4> QED
        BY <2>1, <2>2, <4>1, <4>2, AppendFrame
    <3> QED
      BY <3>1, <3>2, <3>3
  <2> QED
    BY <1>1, <2>3 DEF NativeDeliver, DecoderTyped
<1> QED
  BY <1>3, <1>4, <1>5

\* What BrowserDeliver makes of the queue
LEMMA BrowserQueue ==
    ASSUME TypeOK, NEW c \in network, BrowserDeliver(c)
    PROVE  /\ c.n \in Numbers /\ Frame(c, FALSE) \in Frames
           /\ Restarts(c) /\ ~(Passes(c) /\ ~BrowserOverflows(c)) => queue' = << >>
           /\ Restarts(c) /\ Passes(c) /\ ~BrowserOverflows(c) => queue' = <<Frame(c, FALSE)>>
           /\ ~Restarts(c) /\ ~Passes(c) => queue' = queue
           /\ ~Restarts(c) /\ Passes(c) =>
                 queue' = Append(queue, Frame(c, FALSE)) /\ Len(queue) <= QueueLimit
<1>1. HostTyped /\ DecoderTyped /\ c \in Chunks /\ c.n \in Numbers /\ c.key \in BOOLEAN
  BY Typed DEF HostTyped, Chunks
<1>2. queue \in Seq(Frames) /\ Frame(c, FALSE) \in Frames /\ Len(queue) \in Nat /\ QueueLimit \in Nat
  BY <1>1, BoundsAssumption DEF DecoderTyped, Frame, Frames
<1>3. queue' = (IF Restarts(c) THEN << >> ELSE queue)
                 \o (IF Passes(c) /\ ~BrowserOverflows(c) THEN <<Frame(c, FALSE)>> ELSE << >>)
  BY DEF BrowserDeliver
<1>4. << >> \in Seq(Frames)
  OBVIOUS
<1>5. CASE Restarts(c)
  BY <1>1, <1>2, <1>3, <1>4, <1>5, AppendFrame, SingleFrame
<1>6. CASE ~Restarts(c)
  <2>1. ~BrowserOverflows(c)
    BY <1>6 DEF Restarts
  <2>2. Passes(c) => Len(queue) <= QueueLimit
    BY <1>2, <1>6, <2>1 DEF BrowserOverflows, Restarts
  <2> QED
    BY <1>1, <1>2, <1>3, <1>6, <2>1, <2>2, AppendFrame
<1> QED
  BY <1>5, <1>6

LEMMA BrowserTyped == TypeOK /\ (\E c \in network : BrowserDeliver(c)) => TypeOK'
<1> SUFFICES ASSUME TypeOK, NEW c \in network, BrowserDeliver(c)
             PROVE  HostTyped' /\ ClientTyped' /\ DecoderTyped'
  BY TypedNext
<1>1. HostTyped /\ ClientTyped /\ DecoderTyped
  BY Typed
<1>2. c.n \in Numbers /\ Frame(c, FALSE) \in Frames
  BY BrowserQueue
<1>3. HostTyped'
  BY <1>1 DEF BrowserDeliver, HostTyped, host
<1>4. ClientTyped'
  <2>1. Restarts(c) \in BOOLEAN
    BY DEF Restarts, BrowserStarts, BrowserOverflows
  <2>2. NewGate \in [last : Numbers \cup {-1}, waiting : BOOLEAN, requested : BOOLEAN,
                     reset_on_key : BOOLEAN]
    BY DEF NewGate
  <2>3. gate' \in [last : Numbers \cup {-1}, waiting : BOOLEAN, requested : BOOLEAN,
                   reset_on_key : BOOLEAN]
    BY <1>1, <1>2, <2>2 DEF BrowserDeliver, ClientTyped, Waits, Recovers
  <2> QED
    BY <1>1, <2>1, <2>3, AssemblerTyped DEF BrowserDeliver, ClientTyped
<1>5. DecoderTyped'
  <2>1. queue \in Seq(Frames) /\ Len(queue) \in Nat /\ QueueLimit \in Nat \ {0}
    BY <1>1, BoundsAssumption DEF DecoderTyped
  <2>2. queue' \in Seq(Frames) /\ Len(queue') <= QueueLimit + 1
    <3>1. CASE queue' = queue
      BY <1>1, <3>1 DEF DecoderTyped
    <3>2. CASE queue' = << >> \/ queue' = <<Frame(c, FALSE)>>
      <4>1. queue' \in Seq(Frames) /\ (Len(queue') = 0 \/ Len(queue') = 1)
        BY <1>2, <3>2, NoFrame, SingleFrame, Zenon
      <4> QED
        BY <4>1, BoundsAssumption
    <3>3. CASE queue' = Append(queue, Frame(c, FALSE)) /\ Len(queue) <= QueueLimit
      <4>1. queue' \in Seq(Frames) /\ Len(queue') = Len(queue) + 1
        BY <1>2, <2>1, <3>3, AppendFrame, Zenon
      <4>2. Len(queue) \in Nat /\ Len(queue) <= QueueLimit
        BY <2>1, <3>3
      <4> QED
        BY <4>1, <4>2, BoundsAssumption
    <3> QED
      BY <3>1, <3>2, <3>3, BrowserQueue
  <2>3. decoder' \in [last : Numbers \cup {-1}, key : BOOLEAN, fed : 0 .. 2]
    <3>1. decoder' = IF Restarts(c) THEN [decoder EXCEPT !.fed = 0] ELSE decoder
      BY DEF BrowserDeliver
    <3>2. decoder \in [last : Numbers \cup {-1}, key : BOOLEAN, fed : 0 .. 2] /\ 0 \in 0 .. 2
      BY <1>1 DEF DecoderTyped
    <3>3. [decoder EXCEPT !.fed = 0] \in [last : Numbers \cup {-1}, key : BOOLEAN, fed : 0 .. 2]
      BY <3>2
    <3> QED
      BY <3>1, <3>2, <3>3
  <2>4. recent' \in BOOLEAN
    BY <1>1 DEF BrowserDeliver, DecoderTyped, Restarts, BrowserStarts, BrowserOverflows
  <2> QED
    BY <2>2, <2>3, <2>4 DEF DecoderTyped
<1> QED
  BY <1>3, <1>4, <1>5

LEMMA DecodeTyped == TypeOK /\ Decode => TypeOK'
<1> SUFFICES ASSUME TypeOK, Decode PROVE HostTyped' /\ ClientTyped' /\ DecoderTyped'
  BY TypedNext
<1>1. HostTyped /\ ClientTyped /\ DecoderTyped
  BY Typed
<1>2. Head(queue) \in Frames /\ queue' \in Seq(Frames) /\ Len(queue') <= QueueLimit + 1
  BY <1>1, TailFrame, BoundsAssumption DEF Decode, DecoderTyped
<1>3. decoder' \in [last : Numbers \cup {-1}, key : BOOLEAN, fed : 0 .. 2]
  BY <1>1, <1>2 DEF Decode, DecoderTyped, Frames
<1> QED
  BY <1>1, <1>2, <1>3 DEF Decode, HostTyped, ClientTyped, DecoderTyped, host, client

LEMMA NextTypeOK == TypeOK /\ [Next]_vars => TypeOK'
<1> SUFFICES ASSUME TypeOK, [Next]_vars PROVE TypeOK'
  OBVIOUS
<1>1. CASE UNCHANGED vars
  BY <1>1 DEF TypeOK, vars, host, client
<1> QED
  BY <1>1, EncodeTyped, ChannelTyped, NativeTyped, BrowserTyped, DecodeTyped DEF Next
---------------------------------------------------------------------------
(* What the host sends *)

\* A drop makes the next frame a key frame, whatever else asks for one meanwhile.
LEMMA NextDrops ==
    TypeOK /\ DropRequests /\ NoDeltaAfterDrop /\ [Next]_vars => DropRequests' /\ NoDeltaAfterDrop'
<1> SUFFICES ASSUME TypeOK, DropRequests, NoDeltaAfterDrop, [Next]_vars
             PROVE  DropRequests' /\ NoDeltaAfterDrop'
  OBVIOUS
<1>1. CASE EncodeAndSend
  <2>1. PICK dropped \in BOOLEAN, f \in {"key", "delta", "dropped"} :
          /\ sent' = Append(sent, f) /\ key_frame_requested' = RequestedAfter(dropped)
          /\ f = "dropped" => dropped
          /\ f = "delta" => ~key_frame_requested
    BY <1>1 DEF EncodeAndSend
  <2>2. sent \in Seq({"key", "delta", "dropped"}) /\ Len(sent) \in Nat
    BY DEF TypeOK
  <2>3. Len(sent') = Len(sent) + 1 /\ sent'[Len(sent')] = f
        /\ \A n \in 1 .. Len(sent) : sent'[n] = sent[n]
    BY <2>1, <2>2
  <2>4. DropRequests'
    BY <2>1, <2>3 DEF DropRequests, RequestedAfter
  <2>5. ASSUME NEW n \in 2 .. Len(sent'), sent'[n] = "delta"
        PROVE  sent'[n - 1] # "dropped"
    <3>1. CASE n = Len(sent')
      <4>1. Len(sent) > 0 /\ sent # << >> /\ sent'[n - 1] = sent[Len(sent)]
        BY <2>2, <2>3, <2>5, <3>1
      <4> QED
        BY <2>1, <2>3, <2>5, <3>1, <4>1 DEF DropRequests
    <3>2. CASE n # Len(sent')
      BY <2>2, <2>3, <2>5, <3>2 DEF NoDeltaAfterDrop
    <3> QED
      BY <3>1, <3>2
  <2> QED
    BY <2>4, <2>5 DEF NoDeltaAfterDrop
<1>2. CASE UNCHANGED sent /\ key_frame_requested' \in {key_frame_requested, TRUE}
  BY <1>2 DEF DropRequests, NoDeltaAfterDrop
<1>3. ASSUME ~EncodeAndSend
      PROVE  UNCHANGED sent /\ key_frame_requested' \in {key_frame_requested, TRUE}
  BY <1>3 DEF Next, vars, host, KeyFrameRequested, LoseChunk, NativeDeliver, BrowserDeliver,
              MayAskAgain, Decode
<1> QED
  BY <1>1, <1>2, <1>3

---------------------------------------------------------------------------
(* What the decoder is given *)

QueueInv == QueueDecodable /\ QueueAscends

LEMMA LastGivenTyped ==
    ASSUME DecoderTyped
    PROVE  /\ LastGiven \in Numbers \cup {-1} /\ LastGiven \in Int
           /\ decoder.last \in Int /\ decoder.fed \in 0 .. 2
           /\ \A i \in 1 .. Len(queue) :
                /\ queue[i] \in Frames /\ queue[i].n \in Nat
                /\ Before(i) \in Int
           /\ Len(queue) \in Nat
           /\ queue = << >> <=> Len(queue) = 0
<1>1. /\ queue \in Seq(Frames) /\ decoder.last \in Numbers \cup {-1} /\ decoder.fed \in 0 .. 2
      /\ Numbers \subseteq Nat /\ decoder.last \in Int
  BY BoundsAssumption DEF DecoderTyped, Numbers
<1>2. Len(queue) \in Nat /\ (queue = << >> <=> Len(queue) = 0)
  BY <1>1
<1>3. ASSUME NEW i \in 1 .. Len(queue)
      PROVE  queue[i] \in Frames /\ queue[i].n \in Numbers /\ queue[i].n \in Nat
  <2>1. queue[i] \in Frames
    BY <1>1, <1>3
  <2>2. queue[i].n \in Numbers
    BY <2>1 DEF Frames
  <2> QED
    BY <1>1, <2>1, <2>2
<1>4. ASSUME NEW i \in 1 .. Len(queue) PROVE Before(i) \in Int
  <2>1. i # 1 => i - 1 \in 1 .. Len(queue)
    BY <1>2
  <2>2. i # 1 => queue[i - 1].n \in Nat
    BY <1>3, <2>1
  <2> QED
    BY <1>1, <2>2 DEF Before
<1>5. LastGiven \in Numbers \cup {-1}
  BY <1>1, <1>2, <1>3 DEF LastGiven
<1>6. LastGiven \in Int /\ decoder.last \in Int
  BY <1>1, <1>5, BoundsAssumption DEF Numbers
<1>7. \A i \in 1 .. Len(queue) : queue[i] \in Frames /\ queue[i].n \in Nat /\ Before(i) \in Int
  BY <1>3, <1>4, Zenon
<1> QED
  BY <1>1, <1>2, <1>5, <1>6, <1>7, Zenon

\* A frame that follows the last, or a key frame where the decoder starts anew, is
\* put behind the others ...
LEMMA QueueGrows ==
    ASSUME TypeOK, QueueInv, NEW f \in Frames,
           queue' = Append(queue, f), UNCHANGED decoder, f.n > LastGiven,
           IF f.resets \/ (queue = << >> /\ decoder.fed = 0) THEN f.key ELSE f.n = LastGiven + 1
    PROVE  QueueInv' /\ LastGiven' = f.n
<1>1. DecoderTyped
  BY Typed
<1>2. queue \in Seq(Frames) /\ f.n \in Nat
  BY <1>1, BoundsAssumption DEF DecoderTyped, Frames, Numbers
<1>3. /\ Len(queue') = Len(queue) + 1 /\ queue'[Len(queue) + 1] = f
      /\ \A i \in 1 .. Len(queue) : queue'[i] = queue[i]
      /\ queue' # << >>
  <2>1. /\ Len(queue') = Len(queue) + 1 /\ queue'[Len(queue) + 1] = f
        /\ \A i \in 1 .. Len(queue) : queue'[i] = queue[i]
    <3>1. /\ Len(Append(queue, f)) = Len(queue) + 1 /\ Append(queue, f)[Len(queue) + 1] = f
          /\ \A i \in 1 .. Len(queue) : Append(queue, f)[i] = queue[i]
      BY <1>2, AppendFrame
    <3>2. queue' = Append(queue, f)
      OBVIOUS
    <3> QED
      BY <3>1, <3>2
  <2>2. queue' # << >>
    BY <1>2
  <2> QED
    BY <2>1, <2>2
<1>4. Len(queue) \in Nat /\ LastGiven \in Int /\ (queue = << >> <=> Len(queue) = 0)
      /\ decoder.last \in Int /\ \A i \in 1 .. Len(queue) : queue[i].n \in Nat
  BY <1>1, LastGivenTyped
<1>5. LastGiven' = f.n
  BY <1>3 DEF LastGiven
<1>6. QueueAscends'
  <2>1. decoder.last <= f.n
    BY <1>2, <1>4 DEF QueueInv, QueueAscends
  <2>2. ASSUME NEW i \in 1 .. Len(queue) + 1 PROVE queue'[i].n <= f.n
    <3>1. CASE i = Len(queue) + 1
      BY <1>2, <1>3, <3>1
    <3>2. CASE i # Len(queue) + 1
      <4>1. i \in 1 .. Len(queue)
        BY <1>4, <3>2
      <4> QED
        BY <1>2, <1>3, <1>4, <4>1 DEF QueueInv, QueueAscends
    <3> QED
      BY <3>1, <3>2
  <2> QED
    BY <1>3, <1>5, <2>1, <2>2 DEF QueueAscends
<1>7. QueueDecodable'
  <2> SUFFICES ASSUME NEW i \in 1 .. Len(queue) + 1
               PROVE  IF queue'[i].resets \/ (i = 1 /\ decoder.fed = 0)
                      THEN queue'[i].key /\ queue'[i].n > Before(i)'
                      ELSE queue'[i].n = Before(i)' + 1
    BY <1>3 DEF QueueDecodable
  <2>1. CASE i = Len(queue) + 1
    <3>1. Before(i)' = LastGiven
      BY <1>3, <1>4, <2>1 DEF Before, LastGiven
    <3>2. i = 1 <=> queue = << >>
      BY <1>4, <2>1
    <3> QED
      BY <1>3, <2>1, <3>1, <3>2
  <2>2. CASE i # Len(queue) + 1
    <3>1. i \in 1 .. Len(queue) /\ (i # 1 => i - 1 \in 1 .. Len(queue))
      BY <1>4, <2>2
    <3>2. queue'[i] = queue[i] /\ Before(i)' = Before(i)
      BY <1>3, <3>1 DEF Before
    <3> QED
      BY <3>1, <3>2 DEF QueueInv, QueueDecodable
  <2> QED
    BY <2>1, <2>2
<1> QED
  BY <1>5, <1>6, <1>7 DEF QueueInv

\* ... or takes the place of all of them ...
LEMMA QueueRestarts ==
    ASSUME TypeOK, NEW f \in Frames, queue' = <<f>>, f.key, f.resets \/ decoder'.fed = 0,
           decoder'.last = decoder.last, f.n > decoder.last
    PROVE  QueueInv' /\ LastGiven' = f.n
<1>1. decoder.last \in Int /\ f.n \in Nat
  BY Typed, LastGivenTyped, BoundsAssumption DEF Frames, Numbers
<1>2. queue' # << >> /\ Len(queue') = 1 /\ queue'[1] = f
  OBVIOUS
<1>3. LastGiven' = f.n
  BY <1>2 DEF LastGiven
<1>4. Before(1)' = decoder.last
  BY DEF Before
<1>5. QueueDecodable'
  BY <1>2, <1>4 DEF QueueDecodable
<1>6. QueueAscends'
  BY <1>1, <1>2, <1>3 DEF QueueAscends
<1> QED
  BY <1>3, <1>5, <1>6 DEF QueueInv

\* ... or nothing does.
LEMMA QueueEmpties ==
    ASSUME TypeOK, queue' = << >>, decoder'.last = decoder.last
    PROVE  QueueInv' /\ LastGiven' = decoder.last
<1>1. decoder.last \in Int /\ Len(queue') = 0
  BY Typed, LastGivenTyped
<1> QED
  BY <1>1 DEF QueueInv, QueueDecodable, QueueAscends, LastGiven
\* The decoder takes the next frame: it starts with a key frame, or goes on.
LEMMA DecodeKeeps ==
    ASSUME TypeOK, StreamInv, Decode
    PROVE  StreamInv' /\ Stream!Next
<1>1. /\ DecoderTyped /\ queue # << >> /\ queue' = Tail(queue) /\ QueueInv
      /\ decoder' = [last |-> Head(queue).n, key |-> Head(queue).key,
                     fed |-> IF Head(queue).resets \/ decoder.fed = 0 THEN 1 ELSE 2]
      /\ UNCHANGED <<kind, host, network, lost, requests, client, recent>>
  BY Typed DEF Decode, StreamInv, QueueInv
<1>2. /\ Head(queue) = queue[1] /\ Len(queue) \in Nat \ {0} /\ Len(queue') = Len(queue) - 1
      /\ \A i \in 1 .. Len(queue) - 1 : queue'[i] = queue[i + 1]
      /\ queue' = << >> <=> Len(queue') = 0
  <2>1. queue \in Seq(Frames) /\ queue' \in Seq(Frames)
    BY <1>1, TailFrame, Zenon DEF DecoderTyped
  <2> QED
    BY <1>1, <2>1, TailFrame
<1>3. /\ decoder.last \in Int /\ decoder.fed \in 0 .. 2 /\ queue[1] \in Frames
      /\ queue[1].n \in Nat /\ LastGiven \in Int
  <2>1. 1 \in 1 .. Len(queue)
    BY <1>2
  <2> QED
    BY <1>1, <2>1, LastGivenTyped
<1>4. decoder'.last = queue[1].n /\ decoder'.key = queue[1].key /\ decoder'.fed \in {1, 2}
  BY <1>1, <1>2
<1>5. LastGiven' = LastGiven
  <2>1. CASE Len(queue) = 1
    BY <1>1, <1>2, <1>4, <2>1 DEF LastGiven
  <2>2. CASE Len(queue) # 1
    <3>1. Len(queue') \in 1 .. Len(queue) - 1 /\ Len(queue') + 1 = Len(queue)
      BY <1>2, <2>2
    <3> QED
      BY <1>1, <1>2, <3>1 DEF LastGiven
  <2> QED
    BY <2>1, <2>2
<1>6. QueueDecodable'
  <2> SUFFICES ASSUME NEW i \in 1 .. Len(queue) - 1
               PROVE  IF queue'[i].resets THEN queue'[i].key /\ queue'[i].n > Before(i)'
                      ELSE queue'[i].n = Before(i)' + 1
    BY <1>2, <1>4 DEF QueueDecodable
  <2>1. i + 1 \in 1 .. Len(queue) /\ i + 1 # 1 /\ queue'[i] = queue[i + 1]
    BY <1>2
  <2>2. Before(i)' = Before(i + 1)
    <3>1. CASE i = 1
      BY <1>4, <2>1, <3>1 DEF Before
    <3>2. CASE i # 1
      <4>1. i - 1 \in 1 .. Len(queue) - 1 /\ i - 1 + 1 = i /\ i + 1 - 1 = i
        BY <1>2, <3>2
      <4>2. queue'[i - 1] = queue[i]
        BY <1>2, <4>1
      <4> QED
        BY <2>1, <3>2, <4>1, <4>2 DEF Before
    <3> QED
      BY <3>1, <3>2
  <2> QED
    BY <1>1, <2>1, <2>2 DEF QueueInv, QueueDecodable
<1>7. QueueAscends'
  <2>1. queue[1].n <= LastGiven
    BY <1>1, <1>2 DEF QueueInv, QueueAscends
  <2>2. ASSUME NEW i \in 1 .. Len(queue) - 1 PROVE queue'[i].n <= LastGiven
    <3>1. i + 1 \in 1 .. Len(queue)
      BY <1>2
    <3> QED
      BY <1>1, <1>2, <3>1 DEF QueueInv, QueueAscends
  <2> QED
    BY <1>2, <1>4, <1>5, <2>1, <2>2 DEF QueueAscends
<1>8. GateAhead'
  BY <1>1, <1>5 DEF StreamInv, GateAhead, client
<1>9. (kind = "native" => NativeFollows)'
  BY <1>1, <1>3, <1>4, <1>5 DEF StreamInv, NativeFollows, client
<1>10. (kind = "browser" => BrowserFollows)'
  BY <1>1, <1>4 DEF StreamInv, BrowserFollows, client
<1>11. Stream!Next
  <2>1. CASE queue[1].resets \/ decoder.fed = 0
    <3>1. queue[1].key /\ queue[1].n > decoder.last
      BY <1>1, <1>2, <2>1 DEF QueueInv, QueueDecodable, Before
    <3>2. queue[1].n \in 0 .. MaxFrames
      BY <1>3, BoundsAssumption DEF Frames, Numbers
    <3>3. decoder'.fed = 1
      BY <1>1, <1>2, <2>1
    <3> QED
      BY <1>4, <3>1, <3>2, <3>3 DEF Stream!Next, Stream!Start
  <2>2. CASE ~(queue[1].resets \/ decoder.fed = 0)
    <3>1. queue[1].n = decoder.last + 1
      BY <1>1, <1>2, <2>2 DEF QueueInv, QueueDecodable, Before
    <3>2. decoder'.fed = 2 /\ decoder.fed > 0 /\ decoder'.key \in BOOLEAN
      BY <1>1, <1>2, <1>3, <1>4, <2>2 DEF Frames
    <3> QED
      BY <1>4, <3>1, <3>2 DEF Stream!Next, Stream!Continue
  <2> QED
    BY <2>1, <2>2
<1> QED
  BY <1>6, <1>7, <1>8, <1>9, <1>10, <1>11 DEF StreamInv

\* A native gate that let nothing wait has the last frame, and one that waits after
\* its first frame resets the decoder with the key frame it waits for.
LEMMA NativeGateKeeps ==
    ASSUME TypeOK, StreamInv, kind = "native", NEW c \in network, NativeDeliver(c)
    PROVE  /\ c.n \in Nat /\ gate.last \in Int /\ gate.last <= gate'.last
           /\ newest' \in Int /\ newest <= newest' /\ newest \in Int /\ c.n <= newest'
           /\ Fresh(c) => gate'.last = c.n /\ c.n > gate.last
           /\ ~Fresh(c) => gate'.last = gate.last
           /\ gate'.last = -1 => gate'.waiting
           /\ gate'.waiting /\ ~gate'.reset_on_key => gate'.last = -1
           /\ Passes(c) => Fresh(c) /\ ~gate'.waiting
           /\ ~gate'.waiting /\ ~Passes(c) => ~gate.waiting /\ ~Fresh(c)
           /\ ~gate.waiting => gate.last # -1
           /\ Passes(c) /\ ~c.key => ~gate.waiting /\ c.n = gate.last + 1
<1>1. ClientTyped /\ c \in Chunks /\ Numbers \subseteq Nat
  BY Typed, BoundsAssumption DEF HostTyped, Numbers
<1>2. c.n \in Numbers /\ c.n \in Nat /\ gate.last \in Int /\ newest \in Int /\ gate.last >= -1
  BY <1>1, BoundsAssumption DEF Chunks, ClientTyped, Numbers
<1>3. newest' \in Int /\ newest <= newest' /\ c.n <= newest'
  BY <1>2 DEF NativeDeliver, Assembler, NewestWith
<1>4. gate' = NativeGate(c)
  BY DEF NativeDeliver
<1>5. /\ Fresh(c) => gate'.last = c.n /\ c.n > gate.last
      /\ ~Fresh(c) => gate'.last = gate.last
  BY <1>4 DEF NativeGate, Fresh
<1>6. gate.last <= gate'.last
  BY <1>2, <1>5
<1>7. /\ gate'.waiting <=> Waits(c) /\ ~Recovers(c)
      /\ gate'.reset_on_key <=> ~Recovers(c) /\ (gate.reset_on_key \/ Troubled(c))
  BY <1>4 DEF NativeGate
<1>8. Passes(c) => Fresh(c) /\ ~gate'.waiting
  BY <1>7 DEF Passes, Recovers
<1>9. gate.last = -1 => gate.waiting
  BY DEF StreamInv, GateAhead
<1>10. gate'.last = -1 => gate'.waiting
  <2> SUFFICES ASSUME gate'.last = -1 PROVE Waits(c) /\ ~Recovers(c)
    BY <1>7
  <2>1. ~Fresh(c) /\ gate.last = -1
    BY <1>2, <1>5
  <2> QED
    BY <1>9, <2>1 DEF Waits, Recovers, Passes
<1>11. gate'.waiting /\ ~gate'.reset_on_key => gate'.last = -1
  <2> SUFFICES ASSUME Waits(c), ~Recovers(c), ~gate.reset_on_key, ~Troubled(c)
               PROVE  gate'.last = -1
    BY <1>7
  <2>1. ~LossDetected(c) /\ ~Rejects(c)
    BY DEF Troubled
  <2>2. ~Fresh(c)
    BY <2>1 DEF Rejects, Passes, Recovers
  <2>3. gate.waiting
    BY <2>1, <2>2 DEF Waits, Gap
  <2> QED
    BY <1>5, <2>2, <2>3 DEF StreamInv, NativeFollows
<1>12. ~gate'.waiting /\ ~Passes(c) => ~gate.waiting /\ ~Fresh(c)
  BY <1>7 DEF Passes, Recovers, Waits
<1>13. Passes(c) /\ ~c.key => ~gate.waiting /\ c.n = gate.last + 1
  BY <1>9 DEF Passes, Waits, Gap
<1> QED
  BY <1>2, <1>3, <1>5, <1>6, <1>8, <1>9, <1>10, <1>11, <1>12, <1>13

LEMMA NativeKeeps ==
    ASSUME TypeOK, StreamInv, NEW c \in network, NativeDeliver(c)
    PROVE  StreamInv'
<1>1. /\ kind = "native" /\ kind' = "native" /\ UNCHANGED decoder /\ NativePush(c)
      /\ QueueInv /\ GateAhead /\ NativeFollows
  BY DEF NativeDeliver, StreamInv, QueueInv
<1>2. DecoderTyped /\ LastGiven \in Int /\ decoder.last \in Int /\ decoder.fed \in 0 .. 2
  BY Typed, LastGivenTyped
<1>3. decoder.last <= LastGiven /\ LastGiven <= gate.last /\ LastGiven <= newest
  BY <1>1 DEF QueueInv, QueueAscends, GateAhead, NativeFollows
<1>4. /\ c.n \in Nat /\ gate.last \in Int /\ gate.last <= gate'.last /\ gate'.last \in Int
      /\ newest' \in Int /\ newest <= newest' /\ newest \in Int /\ c.n <= newest'
      /\ Passes(c) => c.n > gate.last /\ gate'.last = c.n /\ ~gate'.waiting
  BY NativeGateKeeps, <1>1
<1>5. \A r \in BOOLEAN : /\ Frame(c, r) \in Frames /\ Frame(c, r).n = c.n
                         /\ Frame(c, r).key = c.key /\ Frame(c, r).resets = r
  <2>1. c \in Chunks
    BY Typed DEF HostTyped
  <2> QED
    BY <2>1 DEF Chunks, Frame, Frames
\* What is left to show of each way to handle the frame
<1>6. ASSUME QueueInv', LastGiven' \in Int, LastGiven' <= gate'.last, LastGiven' <= newest',
             ~gate'.waiting /\ ~queue_waiting' => LastGiven' = gate'.last
      PROVE  StreamInv'
  <2>1. GateAhead'
    BY <1>1, <1>6, NativeGateKeeps DEF GateAhead
  <2>2. NativeFollows'
    BY <1>1, <1>6, NativeGateKeeps DEF NativeFollows
  <2> QED
    BY <1>1, <1>6, <2>1, <2>2 DEF StreamInv, QueueInv
<1>7. CASE UNCHANGED <<queue, queue_waiting>> /\ (~Passes(c) \/ Refused(c))
  <2>1. QueueInv' /\ LastGiven' = LastGiven
    BY <1>1, <1>7 DEF QueueInv, QueueDecodable, QueueAscends, LastGiven, Before
  <2>2. LastGiven <= gate'.last /\ LastGiven <= newest'
    BY <1>2, <1>3, <1>4
  <2>3. ~gate'.waiting /\ ~queue_waiting' => LastGiven = gate'.last
    <3>1. Refused(c) => queue_waiting
      BY DEF Refused
    <3>2. ~Refused(c) /\ ~gate'.waiting => ~gate.waiting /\ gate'.last = gate.last
      BY <1>1, <1>7, NativeGateKeeps
    <3> QED
      BY <1>1, <1>7, <3>1, <3>2 DEF GateAhead
  <2> QED
    BY <1>2, <1>6, <2>1, <2>2, <2>3
<1>8. CASE Overflows(c) /\ queue' = (IF c.key THEN <<Frame(c, TRUE)>> ELSE << >>)
           /\ queue_waiting' = ~c.key
  <2>1. Passes(c)
    BY <1>8 DEF Overflows
  <2>2. CASE c.key
    <3>1. QueueInv' /\ LastGiven' = c.n
      <4>1. c.n > decoder.last
        BY <1>2, <1>3, <1>4, <2>1
      <4>2. queue' = <<Frame(c, TRUE)>>
        BY <1>8, <2>2
      <4> QED
        BY <1>1, <1>5, <2>2, <4>1, <4>2, QueueRestarts
    <3> QED
      BY <1>4, <1>6, <2>1, <3>1
  <2>3. CASE ~c.key
    <3>1. QueueInv' /\ LastGiven' = decoder.last
      BY <1>1, <1>8, <2>3, QueueEmpties
    <3>2. decoder.last <= gate'.last /\ decoder.last <= newest'
      BY <1>2, <1>3, <1>4
    <3>3. queue_waiting'
      BY <1>8, <2>3
    <3> QED
      BY <1>2, <1>6, <3>1, <3>2, <3>3
  <2> QED
    BY <2>2, <2>3
<1>9. CASE /\ Passes(c) /\ ~Refused(c) /\ queue_waiting' = FALSE
           /\ \E r \in BOOLEAN :
                /\ queue' = Append(queue, Frame(c, r))
                /\ r => c.key
                /\ ~r => ~queue_waiting
                /\ ~r /\ c.key => ~gate.reset_on_key /\ ~Gap(c)
  <2>1. PICK r \in BOOLEAN :
                /\ queue' = Append(queue, Frame(c, r))
                /\ r => c.key
                /\ ~r => ~queue_waiting
                /\ ~r /\ c.key => ~gate.reset_on_key /\ ~Gap(c)
    BY <1>9
  <2>2. c.n > LastGiven
    BY <1>2, <1>3, <1>4, <1>9
  <2>3. ~gate.waiting /\ ~r => LastGiven = gate.last /\ gate.last # -1
    BY <1>1, <2>1 DEF GateAhead
  <2>4. ASSUME ~r, queue = << >>, decoder.fed = 0 PROVE c.key
    <3>1. LastGiven = -1
      BY <1>1, <2>4 DEF LastGiven, NativeFollows
    <3> QED
      BY <1>1, <1>9, <2>3, <2>4, <3>1, NativeGateKeeps
  <2>5. ASSUME ~r, ~(queue = << >> /\ decoder.fed = 0) PROVE c.n = LastGiven + 1
    <3>1. CASE ~c.key
      BY <1>1, <1>9, <2>3, <2>5, <3>1, NativeGateKeeps
    <3>2. CASE c.key
      <4>1. LastGiven >= 0
        BY <1>1, <1>2, <2>5, Typed, LastGivenTyped, BoundsAssumption
           DEF NativeFollows, LastGiven, DecoderTyped, Numbers
      <4>2. gate.last # -1
        BY <1>2, <1>3, <1>4, <4>1
      <4>3. c.n = gate.last + 1
        BY <1>9, <2>1, <2>5, <3>2, <4>2 DEF Gap, Passes
      <4>4. ~gate.waiting
        BY <1>1, <2>1, <2>5, <3>2, <4>2 DEF NativeFollows
      <4> QED
        BY <2>3, <2>5, <4>3, <4>4
    <3> QED
      BY <3>1, <3>2
  <2>6. QueueInv' /\ LastGiven' = c.n
    <3>1. IF Frame(c, r).resets \/ (queue = << >> /\ decoder.fed = 0) THEN Frame(c, r).key
          ELSE Frame(c, r).n = LastGiven + 1
      BY <1>5, <2>1, <2>4, <2>5
    <3> QED
      BY <1>1, <1>5, <2>1, <2>2, <3>1, QueueGrows
  <2> QED
    BY <1>4, <1>6, <1>9, <2>6
<1> QED
  <2>1. CASE ~Passes(c) \/ Refused(c)
    <3>1. UNCHANGED <<queue, queue_waiting>>
      BY <1>1, <2>1 DEF NativePush, Overflows
    <3> QED
      BY <1>7, <2>1, <3>1
  <2>2. CASE Overflows(c)
    BY <1>1, <1>8, <2>2 DEF NativePush, Overflows
  <2>3. CASE Passes(c) /\ ~Refused(c) /\ ~Overflows(c)
    <3> DEFINE resets == c.key /\ (gate.reset_on_key \/ LossDetected(c) \/ Gap(c))
               r == resets \/ queue_waiting
    <3>1. queue' = Append(queue, Frame(c, r)) /\ queue_waiting' = FALSE /\ r \in BOOLEAN
      BY <1>1, <2>3 DEF NativePush
    <3>2. r => c.key
      BY <2>3 DEF Refused
    <3>3. /\ ~r => ~queue_waiting
          /\ ~r /\ c.key => ~gate.reset_on_key /\ ~Gap(c)
      OBVIOUS
    <3> QED
      BY <1>9, <2>3, <3>1, <3>2, <3>3, Zenon
  <2> QED
    BY <2>1, <2>2, <2>3
\* The browser empties its queue and resets its decoder where its gate begins to wait.
LEMMA BrowserKeeps ==
    ASSUME TypeOK, StreamInv, NEW c \in network, BrowserDeliver(c)
    PROVE  StreamInv' /\ (Stream!Reset \/ UNCHANGED Stream!vars)
<1>1. /\ kind = "browser" /\ kind' = "browser" /\ ~queue_waiting /\ ~queue_waiting'
      /\ QueueInv /\ GateAhead /\ BrowserFollows
  BY DEF BrowserDeliver, StreamInv, QueueInv, BrowserFollows
<1>2. HostTyped /\ ClientTyped /\ DecoderTyped
  BY Typed
<1>3. LastGiven \in Int /\ decoder.last \in Int /\ decoder.fed \in 0 .. 2
  BY <1>2, LastGivenTyped
<1>4. c.n \in Nat /\ gate.last \in Int /\ discard_through \in Int /\ newest \in Int
  BY <1>2, BoundsAssumption DEF HostTyped, ClientTyped, Chunks, Numbers
<1>5. /\ newest' = NewestWith(c) /\ newest' \in Int /\ newest <= newest' /\ c.n <= newest'
      /\ discard_through' = IF Restarts(c) THEN newest' ELSE discard_through
  BY <1>4 DEF BrowserDeliver, Assembler, NewestWith
<1>6. decoder.last <= LastGiven /\ LastGiven <= newest
      /\ (LastGiven <= gate.last \/ LastGiven <= discard_through)
  BY <1>1 DEF QueueInv, QueueAscends, GateAhead
<1>7. Passes(c) => c.n > LastGiven /\ c.n > decoder.last
  <2>1. Passes(c) => c.n > gate.last /\ c.n > discard_through
    BY DEF Passes, Fresh, Completes, Accepted
  <2> QED
    BY <1>3, <1>4, <1>6, <2>1
<1>8. /\ Frame(c, FALSE) \in Frames /\ Frame(c, FALSE).n = c.n
      /\ Frame(c, FALSE).key = c.key /\ ~Frame(c, FALSE).resets
  BY BrowserQueue DEF Frame
<1>9. decoder' = IF Restarts(c) THEN [decoder EXCEPT !.fed = 0] ELSE decoder
  BY DEF BrowserDeliver
<1>10. /\ decoder'.last = decoder.last
       /\ Restarts(c) => decoder'.fed = 0
       /\ ~Restarts(c) => decoder' = decoder
  BY <1>2, <1>9 DEF DecoderTyped
<1>11. Stream!Reset \/ UNCHANGED Stream!vars
  BY <1>2, <1>9 DEF DecoderTyped, Stream!Reset, Stream!vars
<1>12. gate.last = -1 => gate.waiting
  BY <1>1 DEF GateAhead
<1>13. gate' = IF BrowserOverflows(c) THEN NewGate
               ELSE [gate EXCEPT !.last = IF Passes(c) THEN c.n ELSE @,
                                 !.waiting = Waits(c) /\ ~Recovers(c)]
  BY DEF BrowserDeliver
\* The queue overflows: the client begins anew.
<1>14. CASE BrowserOverflows(c)
  <2>1. queue' = << >> /\ Restarts(c)
    BY <1>14, BrowserQueue DEF Restarts
  <2>2. gate'.last = -1 /\ gate'.waiting
    BY <1>13, <1>14 DEF NewGate
  <2>3. QueueInv' /\ LastGiven' = decoder.last
    BY <1>10, <2>1, QueueEmpties
  <2>4. GateAhead'
    BY <1>3, <1>4, <1>5, <1>6, <2>1, <2>2, <2>3 DEF GateAhead
  <2>5. BrowserFollows'
    BY <1>1, <1>10, <2>1, <2>2 DEF BrowserFollows
  <2> QED
    BY <1>1, <1>11, <2>3, <2>4, <2>5 DEF StreamInv, QueueInv
<1>15. ASSUME ~BrowserOverflows(c)
       PROVE  /\ gate'.last = IF Passes(c) THEN c.n ELSE gate.last
              /\ gate'.waiting <=> Waits(c) /\ ~Recovers(c)
              /\ Passes(c) => ~gate'.waiting
  <2>1. /\ gate'.last = IF Passes(c) THEN c.n ELSE gate.last
        /\ gate'.waiting <=> Waits(c) /\ ~Recovers(c)
    BY <1>2, <1>13, <1>15 DEF ClientTyped
  <2> QED
    BY <2>1 DEF Passes, Recovers
\* A frame that passes is the last of the queue.
<1>16. CASE ~BrowserOverflows(c) /\ Passes(c)
  <2>1. QueueInv' /\ LastGiven' = c.n /\ queue' # << >>
    <3>1. CASE Restarts(c)
      <4>1. queue' = <<Frame(c, FALSE)>>
        BY <1>16, <3>1, BrowserQueue
      <4>2. c.key
        BY <1>16, <3>1 DEF Passes, Restarts, BrowserStarts, Waits
      <4>3. queue' # << >>
        BY <4>1
      <4> QED
        BY <1>7, <1>8, <1>10, <1>16, <3>1, <4>1, <4>2, <4>3, QueueRestarts
    <3>2. CASE ~Restarts(c)
      <4>1. queue' = Append(queue, Frame(c, FALSE)) /\ UNCHANGED decoder
        BY <1>10, <1>16, <3>2, BrowserQueue
      <4>2. queue' # << >>
        <5>1. queue \in Seq(Frames)
          BY <1>2 DEF DecoderTyped
        <5>2. Len(queue') = Len(queue) + 1
          BY <1>8, <4>1, <5>1, AppendFrame, Zenon
        <5>3. Len(queue) \in Nat
          BY <5>1
        <5> QED
          BY <5>2, <5>3
      <4>3. CASE gate.waiting
        <5>1. c.key /\ queue = << >> /\ decoder.fed = 0
          BY <1>1, <1>16, <4>3 DEF Passes, Waits, BrowserFollows
        <5>2. Frame(c, FALSE).n > LastGiven /\ Frame(c, FALSE).key
          BY <1>7, <1>8, <1>16, <5>1
        <5>3. IF Frame(c, FALSE).resets \/ (queue = << >> /\ decoder.fed = 0)
              THEN Frame(c, FALSE).key ELSE Frame(c, FALSE).n = LastGiven + 1
          BY <5>1, <5>2
        <5> QED
          BY <1>1, <1>8, <4>1, <4>2, <5>2, <5>3, QueueGrows
      <4>4. CASE ~gate.waiting
        <5>1. ~(queue = << >> /\ decoder.fed = 0)
          BY <1>1, <1>3, <4>4 DEF BrowserFollows
        <5>2. c.n = gate.last + 1
          BY <1>12, <1>16, <3>2, <4>4 DEF Restarts, BrowserStarts, Gap, Passes
        <5>3. LastGiven = gate.last
          BY <1>1, <4>4 DEF GateAhead
        <5>4. Frame(c, FALSE).n > LastGiven
          BY <1>7, <1>8, <1>16
        <5>5. IF Frame(c, FALSE).resets \/ (queue = << >> /\ decoder.fed = 0)
              THEN Frame(c, FALSE).key ELSE Frame(c, FALSE).n = LastGiven + 1
          BY <1>8, <5>1, <5>2, <5>3
        <5> QED
          BY <1>1, <1>8, <4>1, <4>2, <5>4, <5>5, QueueGrows
      <4> QED
        BY <4>3, <4>4
    <3> QED
      BY <3>1, <3>2
  <2>2. gate'.last = c.n /\ ~gate'.waiting
    BY <1>15, <1>16
  <2>3. GateAhead'
    BY <1>4, <1>5, <2>1, <2>2 DEF GateAhead
  <2>4. BrowserFollows'
    BY <1>1, <2>1, <2>2 DEF BrowserFollows
  <2> QED
    BY <1>1, <1>11, <2>1, <2>3, <2>4 DEF StreamInv, QueueInv
\* Without one, the queue stays as it is or is emptied.
<1>17. CASE ~BrowserOverflows(c) /\ ~Passes(c)
  <2>1. gate'.last = gate.last /\ (gate'.waiting <=> Waits(c))
    BY <1>15, <1>17 DEF Recovers
  <2>2. CASE Restarts(c)
    <3>1. queue' = << >> /\ gate'.waiting
      BY <1>17, <2>1, <2>2, BrowserQueue DEF Restarts, BrowserStarts, Waits
    <3>2. QueueInv' /\ LastGiven' = decoder.last
      BY <1>10, <3>1, QueueEmpties
    <3>3. GateAhead'
      BY <1>3, <1>4, <1>5, <1>6, <2>2, <3>1, <3>2 DEF GateAhead
    <3>4. BrowserFollows'
      BY <1>1, <1>10, <2>2, <3>1 DEF BrowserFollows
    <3> QED
      BY <1>1, <1>11, <3>2, <3>3, <3>4 DEF StreamInv, QueueInv
  <2>3. CASE ~Restarts(c)
    <3>1. UNCHANGED <<queue, decoder>> /\ discard_through' = discard_through
      BY <1>5, <1>10, <1>17, <2>3, BrowserQueue
    <3>2. gate'.waiting <=> gate.waiting
      BY <2>1, <2>3 DEF Restarts, BrowserStarts, Waits
    <3>3. QueueInv' /\ LastGiven' = LastGiven
      BY <1>1, <3>1 DEF QueueInv, QueueDecodable, QueueAscends, LastGiven, Before
    <3>4. GateAhead'
      BY <1>1, <1>3, <1>4, <1>5, <1>6, <2>1, <3>1, <3>2, <3>3 DEF GateAhead
    <3>5. BrowserFollows'
      BY <1>1, <3>1, <3>2 DEF BrowserFollows
    <3> QED
      BY <1>1, <1>11, <3>3, <3>4, <3>5 DEF StreamInv, QueueInv
  <2> QED
    BY <2>2, <2>3
<1> QED
  BY <1>14, <1>16, <1>17

\* Every step keeps the stream decodable and does to the decoder what DecodableStream
\* allows.
LEMMA NextStream == TypeOK /\ StreamInv /\ [Next]_vars => StreamInv' /\ [Stream!Next]_(Stream!vars)
<1> SUFFICES ASSUME TypeOK, StreamInv, [Next]_vars
             PROVE  StreamInv' /\ [Stream!Next]_(Stream!vars)
  OBVIOUS
<1>1. CASE Decode
  BY <1>1, DecodeKeeps
<1>2. CASE \E c \in network : NativeDeliver(c)
  BY <1>2, NativeKeeps DEF NativeDeliver, Stream!vars
<1>3. CASE \E c \in network : BrowserDeliver(c)
  BY <1>3, BrowserKeeps DEF Stream!Next
<1>4. CASE UNCHANGED <<kind, client, queue, decoder>>
  BY <1>4 DEF client, StreamInv, QueueDecodable, QueueAscends, GateAhead, NativeFollows,
              BrowserFollows, LastGiven, Before, Stream!vars
<1>5. EncodeAndSend \/ KeyFrameRequested \/ MayAskAgain \/ (\E c \in network : LoseChunk(c))
        \/ UNCHANGED vars => UNCHANGED <<kind, client, queue, decoder>>
  BY DEF EncodeAndSend, KeyFrameRequested, MayAskAgain, LoseChunk, vars
<1> QED
  BY <1>1, <1>2, <1>3, <1>4, <1>5 DEF Next

---------------------------------------------------------------------------
(* The theorems *)

LEMMA InitInv == Init => Inv /\ Stream!Init
<1> SUFFICES ASSUME Init PROVE Inv /\ Stream!Init
  OBVIOUS
<1>1. TypeOK
  <2>1. HostTyped
    <3>1. << >> \in Seq({"key", "delta", "dropped"}) /\ 0 \in 0 .. MaxLost
      BY BoundsAssumption
    <3> QED
      BY <3>1 DEF Init, HostTyped
  <2>2. ClientTyped
    <3>1. NoChunks \in [Numbers -> SUBSET (1 .. KeyChunks)] /\ \A n \in Numbers : NoChunks[n] = {}
      BY DEF NoChunks
    <3>2. NewGate \in [last : Numbers \cup {-1}, waiting : BOOLEAN, requested : BOOLEAN,
                      reset_on_key : BOOLEAN]
      BY DEF NewGate
    <3>3. assembly = NoChunks /\ newest = -1 /\ discard_through = -1 /\ gate = NewGate
          /\ queue_waiting \in BOOLEAN
      BY Zenon DEF Init
    <3>4. discard_through \in -1 .. newest
      BY <3>3
    <3> QED
      BY <3>1, <3>2, <3>3, <3>4 DEF ClientTyped
  <2>3. DecoderTyped
    <3>1. [last |-> -1, key |-> FALSE, fed |-> 0] \in
             [last : Numbers \cup {-1}, key : BOOLEAN, fed : 0 .. 2]
      OBVIOUS
    <3>2. 0 <= QueueLimit + 1
      BY BoundsAssumption
    <3>3. << >> \in Seq(Frames) /\ Len(<< >>) <= QueueLimit + 1
      BY <3>2, NoFrame
    <3> QED
      BY <3>1, <3>3 DEF Init, DecoderTyped
  <2> QED
    BY <2>1, <2>2, <2>3, Typed
<1>2. DropRequests /\ NoDeltaAfterDrop
  BY DEF Init, DropRequests, NoDeltaAfterDrop
<1>3. StreamInv
  <2>1. Len(queue) = 0 /\ LastGiven = -1
    BY DEF Init, LastGiven
  <2> QED
    BY <2>1 DEF Init, StreamInv, QueueDecodable, QueueAscends, GateAhead, NativeFollows,
                BrowserFollows, NewGate
<1> QED
  BY <1>1, <1>2, <1>3 DEF Inv, Init, Stream!Init

LEMMA NextInv == Inv /\ [Next]_vars => Inv'
BY NextTypeOK, NextDrops, NextStream DEF Inv

\* The assembler keeps frames for the last few numbers only and the decoder's queue its
\* limit, however many frames are encoded and chunks lost.
THEOREM TypeCorrect == Spec => []TypeOK
BY InitInv, NextInv, PTL DEF Spec, Inv

\* On the wire no delta frame follows a frame the host dropped.
THEOREM KeyFrameAfterDrop == Spec => []NoDeltaAfterDrop
BY InitInv, NextInv, PTL DEF Spec, Inv

\* Neither client's decoder is ever given a delta frame across a missing one, or
\* crosses a hole without being reset first: VideoRecovery implements DecodableStream.
THEOREM ImplementsStream == Spec => RefinesStream
<1>1. Inv /\ [Next]_vars => [Stream!Next]_(Stream!vars)
  BY NextStream DEF Inv
<1> QED
  BY <1>1, InitInv, NextInv, PTL DEF Spec, RefinesStream, Stream!Spec
===========================================================================
