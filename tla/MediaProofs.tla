---------------------------- MODULE MediaProofs ----------------------------
(***************************************************************************)
(* TypeOK, NextAcceptedIsKey, RecordingComplete and RequestHeld hold of    *)
(* Media, for every size of the pacer's queue, every encoder latency and   *)
(* any number of recordings and pictures.                                  *)
(***************************************************************************)
EXTENDS Media, TLAPS
LOCAL INSTANCE SequenceTheorems

---------------------------------------------------------------------------
(* The inductive invariant *)

Places == {"start", "head", "take", "gate", "input", "acquire", "encode", "send", "over"}
WorkerPlaces == {"none", "open", "first", "next", "input", "encode", "drain", "remux", "end",
                 "posted"}
\* Where the recording thread may hold pictures back
Recording == {"first", "next", "input", "encode", "drain"}

EncoderTyped ==
    /\ encoder \in {"none", "vpl", "nvenc", "x264"} /\ rate \in 0..MaxRate
    /\ surface \in BOOLEAN /\ duplication \in BOOLEAN /\ fresh \in BOOLEAN
    /\ Len(inflight) <= Latency

HostTyped ==
    /\ at \in Places /\ running \in BOOLEAN /\ fixed_quality \in BOOLEAN
    /\ first_input \in BOOLEAN /\ key_frame_requested \in BOOLEAN /\ controller \in BOOLEAN
    /\ dropped \in BOOLEAN /\ gap \in BOOLEAN
    /\ current \in Rates /\ pacing \in Rates /\ queue \in Nat
    /\ pending = None \/ pending \in [rate : Rates, force : BOOLEAN]
    /\ owed \in {"no", "asked", "encoded"} /\ clean_reports \in 0..2
    /\ last_decrease \in {"1s", "3s", "long"}

RecorderTyped ==
    /\ window \in {"none", "open", "gone"} /\ worker \in WorkerPlaces
    /\ boxes \in Nat /\ recordings \in 0..MaxRecordings /\ ticks \in 0..MaxTicks
    /\ active \in BOOLEAN /\ closing \in BOOLEAN /\ stop \in BOOLEAN
    /\ done \in BOOLEAN /\ failed \in BOOLEAN
    /\ ivf \in {"none", "part", "whole"} /\ mp4 \in {"none", "part", "whole"}
    /\ timestamps \in Seq(Nat) /\ file \in Seq([picture : Nat, time : Nat])

\* One program runs, and leaves the other's state as it was.
OneRuns ==
    /\ \/ program = "host" /\ worker = "none"
       \/ program = "recorder" /\ at = "start"
    /\ program = "host" => inflight = << >>
    /\ at = "start" => queue = 0 /\ ~gap

\* The input is imported between input_texture and what encodes or discards it.
InputHeld ==
    /\ program = "host" /\ at \notin {"acquire", "encode"} => ~surface
    /\ program = "recorder" /\ worker # "encode" => ~surface

\* A key frame is asked for as long as one is due after a drop, then encoded.
KeyDue ==
    /\ at = "send" => ~first_input /\ picture \in {<<[key |-> k]>> : k \in BOOLEAN}
    /\ gap => ~first_input
    /\ gap /\ at \notin {"send", "over"} => key_frame_requested
    /\ gap /\ at = "send" => picture[1].key

\* In fixed quality a frame meets an empty queue.
FixedWaits ==
    /\ fixed_quality => ~gap
    /\ fixed_quality /\ at \in {"input", "acquire", "encode", "send"} => queue = 0

HostInv == OneRuns /\ InputHeld /\ KeyDue /\ FixedWaits

\* The window and the thread agree on whether there is a recording; each has one Done.
OneRecording ==
    /\ ~active => worker = "none"
    /\ done => worker = "posted"
    /\ boxes <= recordings /\ (active => boxes < recordings)

\* What is encoded is in the file or held back, in the order of its timestamps.
Written ==
    /\ \A i \in 1..Len(file) : file[i].picture = file[i].time
    /\ worker = "open" => ticks = 0 /\ timestamps = << >> /\ file = << >>
    /\ worker = "first" => ticks = 0
    /\ worker \in {"input", "encode"} => ticks < MaxTicks
    /\ worker \in Recording => inflight = timestamps /\ Len(file) + Len(timestamps) = ticks
    /\ worker = "remux" => Len(file) = ticks

\* A file that was begun is there until FFmpeg is done with it.
FilesKept ==
    /\ worker \in Recording \cup {"remux"} => ivf # "none"
    /\ worker \in {"end", "posted"} /\ file # << >> => ivf # "none" \/ mp4 = "whole"

RecorderInv == OneRecording /\ Written /\ FilesKept

Inv == EncoderTyped /\ HostTyped /\ RecorderTyped /\ HostInv /\ RecorderInv

---------------------------------------------------------------------------
(* The steps of the host *)

\* A step of the host leaves the recorder's part of the invariant as it is.
LEMMA HostKeeps ==
    ASSUME Inv, program = "host", UNCHANGED <<program, recorderVars>>,
           EncoderTyped', HostTyped', inflight' = << >>, (at = "start" => queue = 0 /\ ~gap)',
           (at \notin {"acquire", "encode"} => ~surface)', KeyDue', FixedWaits'
    PROVE  Inv'
<1>1. worker = "none"
  BY DEF Inv, HostInv, OneRuns
<1>2. UNCHANGED <<program, window, boxes, active, closing, stop, recordings, done, failed, worker,
                  ticks, timestamps, file, ivf, mp4>>
  BY DEF recorderVars, ui, recording
<1>3. RecorderTyped'
  BY <1>2 DEF Inv, RecorderTyped
<1>4. OneRecording' /\ FilesKept'
  BY <1>2 DEF Inv, RecorderInv, OneRecording, FilesKept
<1>5. Written'
  BY <1>1, <1>2 DEF Inv, RecorderInv, Written, Recording
<1>6. OneRuns' /\ InputHeld'
  BY <1>1, <1>2 DEF OneRuns, InputHeld
<1> QED
  BY <1>3, <1>4, <1>5, <1>6 DEF Inv, HostInv, RecorderInv

\* A step of the host that has nothing to do with the encoder.
LEMMA LoopKeeps ==
    ASSUME Inv, program = "host", UNCHANGED <<program, recorderVars, encoderVars>>,
           HostTyped', (at = "start" => queue = 0 /\ ~gap)',
           at' \notin {"acquire", "encode"} => at \notin {"acquire", "encode"}, KeyDue', FixedWaits'
    PROVE  Inv'
<1>1. UNCHANGED <<encoder, rate, surface, inflight, duplication, fresh>>
  BY DEF encoderVars
<1>2. EncoderTyped' /\ inflight' = << >> /\ (at \notin {"acquire", "encode"} => ~surface)'
  BY <1>1 DEF Inv, EncoderTyped, HostInv, OneRuns, InputHeld
<1> QED
  BY <1>2, HostKeeps

LEMMA Ranks ==
    /\ MaxRate \in Rates
    /\ \A r \in Rates : Higher(r) \in Rates /\ Lower(r) \in Rates
BY EncoderAssumption DEF Rates, Higher, Lower

\* A decision that is pending has a rate.
LEMMA Published ==
    ASSUME HostTyped, NEW r \in Rates, NEW force \in BOOLEAN, Publish(r, force)
    PROVE  current' \in Rates /\ (pending' = None \/ pending' \in [rate : Rates, force : BOOLEAN])
BY DEF HostTyped, Publish

LEMMA ControllerTyped ==
    ASSUME HostTyped,
           \/ \E force \in BOOLEAN : Decrease(force)
           \/ Congested \/ Clean
           \/ Publish(current, FALSE) /\ UNCHANGED <<clean_reports, last_decrease>>
           \/ clean_reports' = 0 /\ UNCHANGED <<current, pending, last_decrease>>
           \/ UNCHANGED <<current, pending, clean_reports, last_decrease>>
    PROVE  /\ current' \in Rates /\ (pending' = None \/ pending' \in [rate : Rates, force : BOOLEAN])
           /\ clean_reports' \in 0..2 /\ last_decrease' \in {"1s", "3s", "long"}
<1>1. /\ current \in Rates /\ (pending = None \/ pending \in [rate : Rates, force : BOOLEAN])
      /\ clean_reports \in 0..2 /\ last_decrease \in {"1s", "3s", "long"}
      /\ Higher(current) \in Rates /\ Lower(current) \in Rates
  BY Ranks DEF HostTyped
<1>2. ASSUME NEW force \in BOOLEAN, Decrease(force)
      PROVE  /\ current' \in Rates /\ (pending' = None \/ pending' \in [rate : Rates, force : BOOLEAN])
             /\ clean_reports' \in 0..2 /\ last_decrease' \in {"1s", "3s", "long"}
  BY <1>1, <1>2, Published DEF Decrease
<1>3. TRUE \in BOOLEAN /\ FALSE \in BOOLEAN /\ 0 \in 0..2
  OBVIOUS
<1>4. CASE Congested
  <2>1. \/ Decrease(FALSE)
        \/ clean_reports' = 0 /\ UNCHANGED <<current, pending, last_decrease>>
    BY <1>4 DEF Congested
  <2> QED
    BY <1>1, <1>2, <1>3, <2>1
<1>5. CASE Clean
  <2>1. CASE /\ clean_reports' = IF clean_reports < 2 THEN clean_reports + 1 ELSE 2
             /\ UNCHANGED <<current, pending, last_decrease>>
    BY <1>1, <2>1
  <2>2. CASE clean_reports' = 0 /\ UNCHANGED last_decrease /\ Publish(Higher(current), FALSE)
    <3>1. current' \in Rates /\ (pending' = None \/ pending' \in [rate : Rates, force : BOOLEAN])
      BY <1>1, <1>3, <2>2, Published
    <3> QED
      BY <1>1, <1>3, <2>2, <3>1
  <2> QED
    BY <1>5, <2>1, <2>2 DEF Clean
<1>6. CASE Publish(current, FALSE) /\ UNCHANGED <<clean_reports, last_decrease>>
  <2>1. current' \in Rates /\ (pending' = None \/ pending' \in [rate : Rates, force : BOOLEAN])
    BY <1>1, <1>3, <1>6, Published
  <2> QED
    BY <1>1, <1>6, <2>1
<1>7. CASE clean_reports' = 0 /\ UNCHANGED <<current, pending, last_decrease>>
  BY <1>1, <1>3, <1>7
<1>8. CASE UNCHANGED <<current, pending, clean_reports, last_decrease>>
  BY <1>1, <1>8
<1> QED
  BY <1>2, <1>4, <1>5, <1>6, <1>7, <1>8

LEMMA StartHostInv ==
    ASSUME Inv, program = "host", UNCHANGED <<program, recorderVars>>, StartHost PROVE Inv'
<1>1. /\ at = "start" /\ at' = "head" /\ fixed_quality' \in BOOLEAN /\ controller' = ~fixed_quality'
      /\ UNCHANGED <<first_input, picture, running, key_frame_requested, owed, current, pending,
                     clean_reports, last_decrease, pacing, queue, dropped, gap>>
  BY DEF StartHost, Goto, request, pacer
<1>2. PICK kind \in {"vpl", "nvenc", "x264"} : Make(kind, IF fixed_quality' THEN 0 ELSE MaxRate)
  BY DEF StartHost
<1>3. EncoderTyped' /\ inflight' = << >> /\ ~surface'
  <2>1. Len(<< >>) = 0 /\ 0 <= Latency /\ 0 \in 0..MaxRate /\ MaxRate \in 0..MaxRate
    BY EncoderAssumption
  <2> QED
    BY <1>1, <1>2, <2>1 DEF EncoderTyped, Make
<1>4. HostTyped' /\ KeyDue' /\ FixedWaits'
  BY <1>1 DEF Inv, HostTyped, Places, HostInv, OneRuns, KeyDue, FixedWaits
<1> QED
  BY <1>1, <1>3, <1>4, HostKeeps

LEMMA OverInv ==
    ASSUME Inv, program = "host", UNCHANGED <<program, recorderVars>>, Over PROVE Inv'
<1>1. /\ running' = FALSE /\ at' = "over" /\ controller' = FALSE /\ Destroy /\ queue' = 0
      /\ UNCHANGED <<fixed_quality, first_input, key_frame_requested, owed, current, pending,
                     clean_reports, last_decrease, pacing, dropped, gap, rate, duplication, fresh>>
  BY DEF Over, Goto, request
<1>2. EncoderTyped' /\ inflight' = << >> /\ ~surface'
  <2>1. Len(<< >>) = 0 /\ 0 <= Latency
    BY EncoderAssumption
  <2> QED
    BY <1>1, <2>1 DEF Inv, EncoderTyped, Destroy
<1>3. HostTyped' /\ KeyDue' /\ FixedWaits'
  BY <1>1 DEF Inv, HostTyped, Places, HostInv, OneRuns, KeyDue, FixedWaits
<1> QED
  BY <1>1, <1>2, <1>3, HostKeeps

\* The steps of the loop that only go on
LEMMA GoesOnInv ==
    ASSUME Inv, program = "host", UNCHANGED <<program, recorderVars>>,
           SkipUpdate \/ NoDecision \/ Gate
    PROVE  Inv'
<1>1. /\ at \in {"head", "take", "gate"} /\ at' \in {"gate", "head", "input"}
      /\ fixed_quality /\ at' = "input" => queue = 0
      /\ UNCHANGED <<running, fixed_quality, first_input, picture, key_frame_requested, owed,
                     controller, current, pending, clean_reports, last_decrease, pacing, queue,
                     dropped, gap, encoderVars>>
  BY DEF SkipUpdate, NoDecision, Gate, Goto, LoopStep, request, adaptive, pacer
<1>2. HostTyped' /\ KeyDue' /\ FixedWaits' /\ at' # "start"
  BY <1>1 DEF Inv, HostTyped, Places, HostInv, OneRuns, KeyDue, FixedWaits
<1> QED
  BY <1>1, <1>2, LoopKeeps

LEMMA ControllerInv ==
    ASSUME Inv, program = "host", UNCHANGED <<program, recorderVars>>,
           ObserveNetwork \/ ObserveLocal \/ Time
    PROVE  Inv'
<1>1. /\ at' = at \/ (at = "head" /\ at' = "take")
      /\ dropped' = dropped \/ dropped' = FALSE
      /\ UNCHANGED <<running, fixed_quality, first_input, picture, key_frame_requested, owed,
                     controller, pacing, queue, gap, encoderVars>>
  BY DEF ObserveNetwork, ObserveLocal, Time, Goto, LoopStep, loop, request, pacer
<1>2. /\ current' \in Rates /\ (pending' = None \/ pending' \in [rate : Rates, force : BOOLEAN])
      /\ clean_reports' \in 0..2 /\ last_decrease' \in {"1s", "3s", "long"}
  <2>1. HostTyped /\ TRUE \in BOOLEAN /\ FALSE \in BOOLEAN
    BY DEF Inv
  <2>2. CASE ObserveNetwork
    BY <2>1, <2>2, ControllerTyped DEF ObserveNetwork
  <2>3. CASE ObserveLocal
    BY <2>1, <2>3, ControllerTyped DEF ObserveLocal
  <2>4. CASE Time
    BY <2>1, <2>4 DEF Time, HostTyped
  <2> QED
    BY <2>2, <2>3, <2>4
<1>3. HostTyped'
  <2>1. HostTyped
    BY DEF Inv
  <2>2. at' \in Places /\ dropped' \in BOOLEAN
    <3>1. at \in Places /\ "take" \in Places /\ dropped \in BOOLEAN /\ FALSE \in BOOLEAN
      BY <2>1 DEF HostTyped, Places
    <3> QED
      BY <1>1, <3>1
  <2>3. UNCHANGED <<running, fixed_quality, first_input, key_frame_requested, owed, controller,
                    pacing, queue, gap>>
    BY <1>1
  <2> QED
    BY <1>2, <2>1, <2>2, <2>3 DEF HostTyped
<1>4. KeyDue'
  BY <1>1 DEF Inv, HostInv, KeyDue
<1>5. FixedWaits' /\ (at = "start" => queue = 0 /\ ~gap)'
  BY <1>1 DEF Inv, HostInv, OneRuns, FixedWaits
<1> QED
  BY <1>1, <1>3, <1>4, <1>5, LoopKeeps

LEMMA TakeDecisionInv ==
    ASSUME Inv, program = "host", UNCHANGED <<program, recorderVars>>, TakeDecision PROVE Inv'
<1>1. /\ at = "take" /\ at' = "gate" /\ pending # None /\ pending' = None
      /\ rate' = pending.rate /\ pacing' = pending.rate
      /\ key_frame_requested' = (key_frame_requested \/ pending.force)
      /\ UNCHANGED <<running, fixed_quality, first_input, picture, owed, controller, current,
                     clean_reports, last_decrease, queue, dropped, gap, surface, inflight, encoder,
                     duplication, fresh>>
  BY DEF TakeDecision, Goto, LoopStep, Reconfigures, capture
<1>2. pending.rate \in Rates /\ pending.force \in BOOLEAN
  BY <1>1 DEF Inv, HostTyped
<1>3. key_frame_requested' \in BOOLEAN /\ (key_frame_requested => key_frame_requested')
  BY <1>1, <1>2 DEF Inv, HostTyped
<1>4. EncoderTyped'
  <2>1. pending.rate \in 0..MaxRate
    BY <1>2, EncoderAssumption DEF Rates
  <2> QED
    BY <1>1, <2>1 DEF Inv, EncoderTyped
<1>5. HostTyped'
  BY <1>1, <1>2, <1>3 DEF Inv, HostTyped, Places
<1>6. KeyDue' /\ FixedWaits'
  BY <1>1, <1>3 DEF Inv, HostInv, KeyDue, FixedWaits
<1>7. inflight' = << >> /\ ~surface' /\ at' # "start"
  BY <1>1 DEF Inv, HostInv, OneRuns, InputHeld
<1> QED
  BY <1>4, <1>5, <1>6, <1>7, HostKeeps

LEMMA RefuseDecisionInv ==
    ASSUME Inv, program = "host", UNCHANGED <<program, recorderVars>>, RefuseDecision PROVE Inv'
<1>1. /\ at = "take" /\ at' = "gate" /\ pending' = None /\ controller' = FALSE
      /\ UNCHANGED <<running, fixed_quality, first_input, picture, key_frame_requested, owed,
                     current, clean_reports, last_decrease, pacing, queue, dropped, gap, rate,
                     surface, inflight, encoder, duplication, fresh>>
  BY DEF RefuseDecision, Goto, LoopStep, Refuses, request, pacer, capture
<1>2. EncoderTyped' /\ inflight' = << >> /\ ~surface' /\ at' # "start"
  BY <1>1 DEF Inv, EncoderTyped, HostInv, OneRuns, InputHeld
<1>3. HostTyped' /\ KeyDue' /\ FixedWaits'
  BY <1>1 DEF Inv, HostTyped, Places, HostInv, KeyDue, FixedWaits
<1> QED
  BY <1>2, <1>3, HostKeeps

LEMMA CaptureInv ==
    ASSUME Inv, program = "host", UNCHANGED <<program, recorderVars>>,
           Input \/ Acquire \/ AcquireNot
    PROVE  Inv'
<1>1. /\ UNCHANGED <<running, fixed_quality, first_input, picture, key_frame_requested, owed,
                     controller, current, pending, clean_reports, last_decrease, pacing, queue,
                     dropped, gap, encoder, rate, inflight>>
      /\ \/ at = "input" /\ at' = "acquire" /\ UNCHANGED <<duplication, fresh>>
         \/ at = "acquire" /\ at' = "encode" /\ UNCHANGED surface
         \/ at = "acquire" /\ at' = "head" /\ surface' = FALSE
  BY DEF Input, Acquire, AcquireNot, Goto, LoopStep, DiscardInput, request, adaptive, pacer, capture
<1>2. surface' \in BOOLEAN /\ duplication' \in BOOLEAN /\ fresh' \in BOOLEAN
  BY DEF Inv, EncoderTyped, Input, Acquire, AcquireNot, InputTexture, DiscardInput, Acquires,
         AcquiresNot, capture
<1>3. EncoderTyped' /\ inflight' = << >>
  BY <1>1, <1>2 DEF Inv, EncoderTyped, HostInv, OneRuns
<1>4. HostTyped' /\ KeyDue' /\ FixedWaits'
  BY <1>1 DEF Inv, HostTyped, Places, HostInv, KeyDue, FixedWaits
<1> QED
  BY <1>1, <1>3, <1>4, HostKeeps

\* An encoder that holds nothing back gives the picture, if it gives anything.
LEMMA EncodesOne ==
    ASSUME inflight = << >>, NEW p, NEW packets, Encodes(p, packets), packets # << >>
    PROVE  inflight' = << >> /\ packets = <<p>>
<1>1. Submitted(p) = <<p>>
  BY DEF Submitted
<1>2. Head(<<p>>) = p /\ Tail(<<p>>) = << >>
  OBVIOUS
<1> QED
  BY <1>1, <1>2 DEF Encodes

\* The frame that is due as a key frame is encoded as one.
LEMMA EncodeInv ==
    ASSUME Inv, program = "host", UNCHANGED <<program, recorderVars>>, Encode PROVE Inv'
<1> DEFINE key == first_input \/ key_frame_requested
<1>1. /\ at = "encode" /\ at' = "send" /\ surface' = FALSE /\ picture' # << >>
      /\ key_frame_requested' = (first_input /\ key_frame_requested) /\ first_input' = FALSE
      /\ owed' = owed \/ owed' = "encoded"
      /\ UNCHANGED <<running, fixed_quality, controller, current, pending, clean_reports,
                     last_decrease, pacing, queue, dropped, gap, encoder, rate, duplication, fresh>>
  BY DEF Encode, Encodes, Goto, LoopStep, adaptive, pacer, capture
<1>2. inflight' = << >> /\ picture' = <<[key |-> key]>>
  <2>1. inflight = << >> /\ Encodes([key |-> key], picture')
    BY DEF Inv, HostInv, OneRuns, Encode
  <2> HIDE DEF key
  <2>2. PICK packets : packets = picture'
    OBVIOUS
  <2>3. Encodes([key |-> key], packets) /\ packets # << >>
    BY <1>1, <2>1, <2>2
  <2> QED
    BY <2>1, <2>2, <2>3, EncodesOne
<1>3. key \in BOOLEAN /\ (gap => key)
  BY <1>1 DEF Inv, HostTyped, HostInv, KeyDue
<1>4. EncoderTyped'
  <2>1. Len(<< >>) = 0 /\ 0 <= Latency
    BY EncoderAssumption
  <2> QED
    BY <1>1, <1>2, <2>1 DEF Inv, EncoderTyped
<1> HIDE DEF key
<1>5. HostTyped'
  BY <1>1 DEF Inv, HostTyped, Places
<1>6. KeyDue'
  <2>1. picture'[1].key = key
    BY <1>2
  <2> QED
    BY <1>1, <1>2, <1>3, <2>1 DEF KeyDue
<1>7. FixedWaits'
  BY <1>1 DEF Inv, HostInv, FixedWaits
<1> QED
  BY <1>1, <1>2, <1>4, <1>5, <1>6, <1>7, HostKeeps

\* What Send does to the queue and to the gap
LEMMA SendGap ==
    ASSUME Inv, program = "host", Send
    PROVE  /\ at = "send" /\ gap' \in BOOLEAN /\ queue' \in Nat
           /\ gap /\ queue' > queue => picture[1].key
           /\ gap' => key_frame_requested' /\ ~fixed_quality
           /\ key_frame_requested' \in BOOLEAN /\ dropped' \in BOOLEAN
           /\ owed' \in {"no", "asked", "encoded"}
<1> DEFINE key == picture[1].key
<1>1. at = "send" /\ (Accept(key) \/ Drop(key))
  BY DEF Send
<1>2. /\ picture \in {<<[key |-> k]>> : k \in BOOLEAN} /\ (gap => key)
      /\ fixed_quality => ~gap /\ queue = 0
  BY <1>1 DEF Inv, HostInv, KeyDue, FixedWaits
<1>3. key \in BOOLEAN
  BY <1>2
<1> HIDE DEF key
<1>4. /\ gap \in BOOLEAN /\ queue \in Nat /\ key_frame_requested \in BOOLEAN /\ dropped \in BOOLEAN
      /\ owed \in {"no", "asked", "encoded"}
  BY DEF Inv, HostTyped
<1>5. CASE Accept(key)
  <2>1. Packets(key) \in Nat
    BY HostVideoAssumption DEF Packets
  <2> QED
    BY <1>1, <1>2, <1>3, <1>4, <1>5, <2>1 DEF Accept, key
<1>6. CASE Drop(key)
  <2>1. queue > 0 /\ UNCHANGED queue /\ gap' = TRUE /\ key_frame_requested' = TRUE
    BY <1>6 DEF Drop, Overflows
  <2> QED
    BY <1>1, <1>2, <1>3, <1>4, <1>6, <2>1 DEF Drop, key
<1> QED
  BY <1>1, <1>5, <1>6

LEMMA SendInv ==
    ASSUME Inv, program = "host", UNCHANGED <<program, recorderVars>>, Send PROVE Inv'
<1>1. /\ at' = "head"
      /\ UNCHANGED <<running, fixed_quality, first_input, controller, current, pending,
                     clean_reports, last_decrease, pacing, encoderVars>>
  BY DEF Send, Goto, LoopStep, adaptive
<1>2. HostTyped'
  BY <1>1, SendGap DEF Inv, HostTyped, Places
<1>3. KeyDue'
  BY <1>1, SendGap DEF Inv, HostInv, KeyDue
<1>4. FixedWaits'
  BY <1>1, SendGap DEF FixedWaits
<1>5. at \notin {"acquire", "encode"}
  BY SendGap
<1> QED
  BY <1>1, <1>2, <1>3, <1>4, <1>5, LoopKeeps

LEMMA OthersInv ==
    ASSUME Inv, program = "host", UNCHANGED <<program, recorderVars>>,
           SendBatch \/ KeyFrameRequest \/ SessionEnds
    PROVE  Inv'
<1>1. /\ UNCHANGED <<at, fixed_quality, first_input, picture, controller, current, pending,
                     clean_reports, last_decrease, pacing, dropped, gap, encoderVars>>
      /\ key_frame_requested' \in {key_frame_requested, TRUE} /\ running' \in {running, FALSE}
      /\ owed' \in {owed, "asked"}
  BY DEF SendBatch, KeyFrameRequest, SessionEnds, loop, request, adaptive, pacer
<1>2. queue' = queue \/ (queue > 0 /\ queue' \in 0..(queue - 1))
  BY DEF SendBatch, KeyFrameRequest, SessionEnds, pacer
<1>3. queue \in Nat /\ queue' \in Nat /\ (queue = 0 => queue' = 0)
  <2>1. queue \in Nat
    BY DEF Inv, HostTyped
  <2> QED
    BY <1>2, <2>1
<1>4. HostTyped'
  <2>1. HostTyped
    BY DEF Inv
  <2>2. running' \in BOOLEAN /\ key_frame_requested' \in BOOLEAN
    <3>1. running \in BOOLEAN /\ key_frame_requested \in BOOLEAN
      BY <2>1 DEF HostTyped
    <3>2. running' \in {running, FALSE} /\ key_frame_requested' \in {key_frame_requested, TRUE}
      BY <1>1
    <3> QED
      BY <3>1, <3>2
  <2>3. owed' \in {"no", "asked", "encoded"}
    <3>1. owed \in {"no", "asked", "encoded"}
      BY <2>1 DEF HostTyped
    <3>2. owed' \in {owed, "asked"}
      BY <1>1
    <3> QED
      BY <3>1, <3>2
  <2>4. UNCHANGED <<at, fixed_quality, first_input, controller, current, pending, clean_reports,
                    last_decrease, pacing, dropped, gap>>
    BY <1>1
  <2>5. queue' \in Nat
    BY <1>3
  <2> QED
    BY <2>1, <2>2, <2>3, <2>4, <2>5 DEF HostTyped
<1>5. KeyDue'
  <2>1. key_frame_requested => key_frame_requested'
    BY <1>1
  <2>2. UNCHANGED <<at, first_input, picture, gap>>
    BY <1>1
  <2> QED
    BY <2>1, <2>2 DEF Inv, HostInv, KeyDue
<1>6. FixedWaits' /\ (at = "start" => queue = 0 /\ ~gap)'
  BY <1>1, <1>3 DEF Inv, HostInv, OneRuns, FixedWaits
<1> QED
  BY <1>1, <1>4, <1>5, <1>6, LoopKeeps

LEMMA ChangeInv ==
    ASSUME Inv, program = "host", UNCHANGED <<program, recorderVars>>, Change PROVE Inv'
<1>1. /\ fresh' = TRUE
      /\ UNCHANGED <<encoder, rate, surface, inflight, duplication, at, fixed_quality, first_input,
                     picture, controller, current, pending, clean_reports, last_decrease, pacing,
                     queue, dropped, gap, key_frame_requested, owed, running>>
  BY DEF Change, DesktopChanges, hostVars, loop, request, adaptive, pacer
<1>2. EncoderTyped' /\ inflight' = << >> /\ (at \notin {"acquire", "encode"} => ~surface)'
  BY <1>1 DEF Inv, EncoderTyped, HostInv, OneRuns, InputHeld
<1>3. HostTyped'
  BY <1>1 DEF Inv, HostTyped
<1>4. KeyDue' /\ FixedWaits' /\ (at = "start" => queue = 0 /\ ~gap)'
  BY <1>1 DEF Inv, HostInv, OneRuns, KeyDue, FixedWaits
<1> QED
  BY <1>2, <1>3, <1>4, HostKeeps

LEMMA HostNextInv ==
    ASSUME Inv, program = "host", UNCHANGED <<program, recorderVars>>, HostNext PROVE Inv'
<1>1. CASE Throws \/ SendFails \/ LeaveLoop
  BY <1>1, OverInv DEF Throws, SendFails, LeaveLoop
<1> QED
  BY <1>1, StartHostInv, GoesOnInv, ControllerInv, TakeDecisionInv, RefuseDecisionInv, CaptureInv,
     EncodeInv, SendInv, OthersInv, ChangeInv
     DEF HostNext, Loop, Callbacks

---------------------------------------------------------------------------
(* The steps of the recorder *)

LEMMA RecorderKeeps ==
    ASSUME Inv, program = "recorder", UNCHANGED <<program, hostVars>>,
           EncoderTyped', RecorderTyped', OneRecording', Written', FilesKept',
           (worker # "encode" => ~surface)'
    PROVE  Inv'
<1>1. at = "start"
  BY DEF Inv, HostInv, OneRuns
<1>2. UNCHANGED <<program, at, first_input, picture, running, fixed_quality, key_frame_requested,
                  owed, controller, current, pending, clean_reports, last_decrease, pacing, queue,
                  dropped, gap>>
  BY DEF hostVars, loop, request, adaptive, pacer
<1>3. HostTyped'
  BY <1>2 DEF Inv, HostTyped
<1>4. OneRuns' /\ InputHeld'
  BY <1>1, <1>2 DEF Inv, HostInv, OneRuns, InputHeld
<1>5. KeyDue' /\ FixedWaits'
  BY <1>1, <1>2 DEF Inv, HostInv, OneRuns, KeyDue, FixedWaits
<1> QED
  BY <1>3, <1>4, <1>5 DEF Inv, HostInv, RecorderInv

\* writePackets, of all pictures that wait and of none
LEMMA WritesAll ==
    ASSUME RecorderTyped, NEW waiting \in Seq(Nat), Writes(waiting, waiting),
           \A i \in 1..Len(file) : file[i].picture = file[i].time
    PROVE  /\ file' \in Seq([picture : Nat, time : Nat]) /\ timestamps' = << >>
           /\ Len(file') = Len(file) + Len(waiting)
           /\ \A i \in 1..Len(file') : file'[i].picture = file'[i].time
<1> DEFINE written == [i \in 1..Len(waiting) |-> [picture |-> waiting[i], time |-> waiting[i]]]
<1>1. /\ file \in Seq([picture : Nat, time : Nat]) /\ file' = file \o written
      /\ timestamps' = SubSeq(waiting, Len(waiting) + 1, Len(waiting))
  BY DEF RecorderTyped, Writes
<1>2. /\ written \in Seq([picture : Nat, time : Nat]) /\ Len(written) = Len(waiting)
      /\ \A i \in 1..Len(written) : written[i].picture = written[i].time
  OBVIOUS
<1>3. Len(waiting) \in Nat /\ timestamps' = << >>
  BY <1>1
<1> HIDE DEF written
<1>4. /\ file' \in Seq([picture : Nat, time : Nat]) /\ Len(file') = Len(file) + Len(written)
      /\ \A i \in 1..Len(file') : file'[i] = IF i <= Len(file) THEN file[i] ELSE written[i - Len(file)]
  <2>1. file \in Seq([picture : Nat, time : Nat]) /\ written \in Seq([picture : Nat, time : Nat])
    BY <1>1, <1>2
  <2>2. /\ file \o written \in Seq([picture : Nat, time : Nat])
        /\ Len(file \o written) = Len(file) + Len(written)
    BY <2>1
  <2>3. \A i \in 1..(Len(file) + Len(written)) :
           (file \o written)[i] = IF i <= Len(file) THEN file[i] ELSE written[i - Len(file)]
    BY <2>1
  <2> QED
    BY <1>1, <2>2, <2>3
<1>5. ASSUME NEW i \in 1..Len(file') PROVE file'[i].picture = file'[i].time
  <2>1. Len(file) \in Nat /\ Len(written) \in Nat /\ i \in Nat
    BY <1>1, <1>2
  <2>2. CASE i <= Len(file)
    <3>1. i \in 1..Len(file)
      BY <2>1, <2>2
    <3> QED
      BY <1>4, <2>2, <3>1
  <2>3. CASE ~(i <= Len(file))
    <3>1. i - Len(file) \in 1..Len(written)
      BY <1>4, <2>1, <2>3
    <3> QED
      BY <1>2, <1>4, <2>3, <3>1
  <2> QED
    BY <2>2, <2>3
<1> QED
  BY <1>2, <1>3, <1>4, <1>5

LEMMA WritesOne ==
    ASSUME RecorderTyped, NEW waiting \in Seq(Nat), waiting # << >>,
           Writes(<<Head(waiting)>>, waiting),
           \A i \in 1..Len(file) : file[i].picture = file[i].time
    PROVE  /\ file' \in Seq([picture : Nat, time : Nat])
           /\ timestamps' = Tail(waiting) /\ timestamps' \in Seq(Nat)
           /\ Len(timestamps') = Len(waiting) - 1 /\ Len(file') = Len(file) + 1
           /\ \A i \in 1..Len(file') : file'[i].picture = file'[i].time
<1> DEFINE oldest == [picture |-> waiting[1], time |-> waiting[1]]
<1>1. /\ file \in Seq([picture : Nat, time : Nat]) /\ Len(waiting) \in Nat \ {0}
      /\ Head(waiting) = waiting[1] /\ waiting[1] \in Nat
  BY DEF RecorderTyped
<1>2. /\ file' = file \o [i \in 1..Len(<<Head(waiting)>>) |->
                           [picture |-> <<Head(waiting)>>[i], time |-> waiting[i]]]
      /\ timestamps' = SubSeq(waiting, Len(<<Head(waiting)>>) + 1, Len(waiting))
  BY DEF Writes
<1>3. Len(<<Head(waiting)>>) = 1 /\ <<Head(waiting)>>[1] = waiting[1]
  BY <1>1
<1>4. [i \in 1..Len(<<Head(waiting)>>) |->
          [picture |-> <<Head(waiting)>>[i], time |-> waiting[i]]] = <<oldest>>
  BY <1>1, <1>3
<1>5. file' = Append(file, oldest)
  <2>1. file' = file \o <<oldest>>
    BY <1>2, <1>4
  <2>2. oldest \in [picture : Nat, time : Nat]
    BY <1>1
  <2> HIDE DEF oldest
  <2> QED
    BY <1>1, <2>1, <2>2
<1>6. oldest \in [picture : Nat, time : Nat] /\ oldest.picture = oldest.time
  BY <1>1
<1> HIDE DEF oldest
<1>7. file' \in Seq([picture : Nat, time : Nat]) /\ Len(file') = Len(file) + 1
  BY <1>1, <1>5, <1>6
<1>8. ASSUME NEW i \in 1..Len(file') PROVE file'[i].picture = file'[i].time
  <2>1. CASE i = Len(file) + 1
    <3>1. file'[i] = oldest
      BY <1>1, <1>5, <1>6, <2>1
    <3> QED
      BY <1>6, <3>1
  <2>2. CASE i # Len(file) + 1
    <3>1. i \in 1..Len(file)
      BY <1>1, <1>7, <2>2
    <3>2. file'[i] = file[i]
      BY <1>1, <1>5, <1>6, <3>1
    <3> QED
      BY <3>1, <3>2
  <2> QED
    BY <2>1, <2>2
<1>9. /\ timestamps' = Tail(waiting) /\ timestamps' \in Seq(Nat)
      /\ Len(timestamps') = Len(waiting) - 1
  <2>1. timestamps' = SubSeq(waiting, 2, Len(waiting))
    BY <1>2, <1>3
  <2>2. Tail(waiting) = SubSeq(waiting, 2, Len(waiting))
    BY <1>1
  <2>3. Tail(waiting) \in Seq(Nat) /\ Len(Tail(waiting)) = Len(waiting) - 1
    BY HeadTailProperties
  <2> QED
    BY <2>1, <2>2, <2>3
<1> QED
  BY <1>7, <1>8, <1>9

LEMMA WritesNone ==
    ASSUME RecorderTyped, NEW waiting \in Seq(Nat), Writes(<< >>, waiting)
    PROVE  file' = file /\ timestamps' = waiting
<1> DEFINE written == [i \in 1..Len(<< >>) |-> [picture |-> << >>[i], time |-> waiting[i]]]
<1>1. /\ file \in Seq([picture : Nat, time : Nat]) /\ file' = file \o written
      /\ timestamps' = SubSeq(waiting, Len(<< >>) + 1, Len(waiting))
  BY DEF RecorderTyped, Writes
<1>2. written = << >>
  OBVIOUS
<1>3. timestamps' = waiting
  BY <1>1
<1> HIDE DEF written
<1> QED
  BY <1>1, <1>2, <1>3

\* The steps of the window that leave the thread alone
LEMMA WindowInv ==
    ASSUME Inv, program = "recorder", UNCHANGED <<program, hostVars>>,
           StartRecorder \/ StopRecording \/ CloseRecorder \/ Dismiss
    PROVE  Inv'
<1>1. UNCHANGED <<active, recordings, worker, done, failed, ticks, timestamps, file, ivf, mp4,
                  encoder, rate, surface, inflight, duplication, fresh>>
  BY DEF StartRecorder, StopRecording, CloseRecorder, Dismiss, recording, encoderVars
<1>2. /\ window' \in {"none", "open", "gone"} /\ closing' \in BOOLEAN /\ stop' \in BOOLEAN
      /\ boxes' = boxes \/ (boxes > 0 /\ boxes' = boxes - 1)
  BY DEF Inv, RecorderTyped, StartRecorder, StopRecording, CloseRecorder, Dismiss, WindowAfter
<1>3. boxes \in Nat /\ boxes' \in Nat /\ boxes' <= boxes /\ recordings \in Nat
  <2>1. boxes \in Nat /\ recordings \in Nat
    BY RecorderAssumption DEF Inv, RecorderTyped
  <2> QED
    BY <1>2, <2>1
<1>4. EncoderTyped' /\ (worker # "encode" => ~surface)'
  BY <1>1 DEF Inv, EncoderTyped, HostInv, InputHeld
<1>5. RecorderTyped'
  BY <1>1, <1>2, <1>3 DEF Inv, RecorderTyped
<1>6. OneRecording'
  BY <1>1, <1>3 DEF Inv, RecorderInv, OneRecording
<1>7. Written' /\ FilesKept'
  BY <1>1 DEF Inv, RecorderInv, Written, FilesKept
<1> QED
  BY <1>4, <1>5, <1>6, <1>7, RecorderKeeps

LEMMA BeginInv ==
    ASSUME Inv, program = "recorder", UNCHANGED <<program, hostVars>>, Begin PROVE Inv'
<1>1. /\ ~active /\ recordings < MaxRecordings /\ recordings' = recordings + 1
      /\ active' = TRUE /\ stop' = FALSE /\ failed' = FALSE /\ worker' = "open" /\ ticks' = 0
      /\ timestamps' = << >> /\ file' = << >> /\ ivf' = "none" /\ mp4' = "none"
      /\ UNCHANGED <<window, boxes, closing, done, encoder, rate, surface, inflight, duplication,
                     fresh>>
  BY DEF Begin, encoderVars
<1>2. /\ worker = "none" /\ done = FALSE /\ boxes \in Nat /\ recordings \in 0..MaxRecordings
      /\ boxes <= recordings /\ MaxRecordings \in Nat /\ MaxTicks \in Nat
  BY <1>1, RecorderAssumption DEF Inv, RecorderTyped, RecorderInv, OneRecording
<1>3. EncoderTyped' /\ (worker # "encode" => ~surface)'
  BY <1>1, <1>2 DEF Inv, EncoderTyped, HostInv, InputHeld
<1>4. recordings' \in 0..MaxRecordings /\ boxes' < recordings' /\ ticks' \in 0..MaxTicks
  BY <1>1, <1>2
<1>5. << >> \in Seq(Nat) /\ << >> \in Seq([picture : Nat, time : Nat]) /\ Len(<< >>) = 0
  OBVIOUS
<1>6. RecorderTyped'
  BY <1>1, <1>4, <1>5 DEF Inv, RecorderTyped, WorkerPlaces
<1>7. OneRecording'
  BY <1>1, <1>2, <1>4 DEF OneRecording
<1>8. Written' /\ FilesKept'
  BY <1>1, <1>5 DEF Written, FilesKept, Recording
<1> QED
  BY <1>3, <1>6, <1>7, <1>8, RecorderKeeps

LEMMA DoneInv ==
    ASSUME Inv, program = "recorder", UNCHANGED <<program, hostVars>>, Done PROVE Inv'
<1>1. /\ done /\ done' = FALSE /\ worker' = "none" /\ active' = FALSE
      /\ window' \in {"open", "gone"} /\ boxes' \in {boxes, boxes + 1}
      /\ UNCHANGED <<closing, stop, recordings, failed, ticks, timestamps, file, ivf, mp4,
                     encoder, rate, surface, inflight, duplication, fresh>>
  BY DEF Done, WindowAfter, recording, encoderVars
<1>2. worker = "posted" /\ active
  BY <1>1 DEF Inv, RecorderInv, OneRecording
<1>3. boxes \in Nat /\ recordings \in Nat /\ boxes < recordings
  BY <1>2, RecorderAssumption DEF Inv, RecorderTyped, RecorderInv, OneRecording
<1>4. boxes' \in Nat /\ boxes' <= recordings
  BY <1>1, <1>3
<1>5. EncoderTyped' /\ (worker # "encode" => ~surface)'
  BY <1>1, <1>2 DEF Inv, EncoderTyped, HostInv, InputHeld
<1>6. RecorderTyped'
  BY <1>1, <1>4 DEF Inv, RecorderTyped, WorkerPlaces
<1>7. OneRecording'
  BY <1>1, <1>4 DEF OneRecording
<1>8. Written' /\ FilesKept'
  BY <1>1 DEF Inv, RecorderInv, Written, FilesKept, Recording
<1> QED
  BY <1>5, <1>6, <1>7, <1>8, RecorderKeeps

LEMMA OpenInv ==
    ASSUME Inv, program = "recorder", UNCHANGED <<program, hostVars>>, Open PROVE Inv'
<1>1. /\ worker = "open" /\ worker' = "first" /\ ivf' = "part"
      /\ UNCHANGED <<window, boxes, active, closing, stop, recordings, done, failed, ticks,
                     timestamps, file, mp4>>
  BY DEF Open, At, WorkerStep
<1>2. PICK kind \in {"vpl", "nvenc"} : Make(kind, 0)
  BY DEF Open
<1>3. EncoderTyped' /\ inflight' = << >> /\ ~surface'
  <2>1. Len(<< >>) = 0 /\ 0 <= Latency /\ 0 \in 0..MaxRate
    BY EncoderAssumption
  <2> QED
    BY <1>2, <2>1 DEF EncoderTyped, Make
<1>4. RecorderTyped' /\ OneRecording'
  BY <1>1 DEF Inv, RecorderTyped, WorkerPlaces, RecorderInv, OneRecording
<1>5. Written'
  <2>1. ticks = 0 /\ timestamps = << >> /\ file = << >> /\ Len(<< >>) = 0
    BY <1>1 DEF Inv, RecorderInv, Written
  <2> QED
    BY <1>1, <1>3, <2>1 DEF Written, Recording
<1>6. FilesKept'
  BY <1>1 DEF FilesKept, Recording
<1> QED
  BY <1>3, <1>4, <1>5, <1>6, RecorderKeeps

\* The thread goes on without an end to its recording.
LEMMA WorkerTyped ==
    ASSUME Inv, UNCHANGED <<window, boxes, active, closing, stop, recordings, done, failed, mp4>>,
           active, worker \notin {"none", "posted"}, worker' \in WorkerPlaces,
           ticks' \in 0..MaxTicks, ivf' \in {"none", "part", "whole"},
           timestamps' \in Seq(Nat), file' \in Seq([picture : Nat, time : Nat])
    PROVE  RecorderTyped' /\ OneRecording'
<1>1. RecorderTyped'
  BY DEF Inv, RecorderTyped
<1>2. done = FALSE
  BY DEF Inv, RecorderTyped, RecorderInv, OneRecording
<1>3. OneRecording'
  BY <1>2 DEF Inv, RecorderInv, OneRecording
<1> QED
  BY <1>1, <1>3

LEMMA Works ==
    ASSUME Inv, worker # "none" PROVE active
BY DEF Inv, RecorderInv, OneRecording

LEMMA CaptureTickInv ==
    ASSUME Inv, program = "recorder", UNCHANGED <<program, hostVars>>,
           AcquireFirst \/ AcquireNext \/ RecorderInput \/ StopSeen
    PROVE  Inv'
<1>1. /\ UNCHANGED <<window, boxes, active, closing, stop, recordings, done, failed, ticks,
                     timestamps, file, ivf, mp4, encoder, rate, inflight>>
      /\ \/ worker = "first" /\ worker' \in {"first", "input"} /\ UNCHANGED surface
         \/ worker = "next" /\ ticks < MaxTicks /\ worker' = "input" /\ UNCHANGED surface
         \/ worker = "input" /\ worker' = "encode"
         \/ worker \in {"first", "next"} /\ worker' = "drain" /\ UNCHANGED surface
  BY DEF AcquireFirst, AcquireNext, RecorderInput, StopSeen, At, WorkerStep, recording, encoderVars
<1>2. surface' \in BOOLEAN /\ duplication' \in BOOLEAN /\ fresh' \in BOOLEAN
  BY DEF Inv, EncoderTyped, AcquireFirst, AcquireNext, RecorderInput, StopSeen, InputTexture,
         Acquires, AcquiresNot, capture, encoderVars
<1>3. EncoderTyped'
  BY <1>1, <1>2 DEF Inv, EncoderTyped
<1>4. worker' # "encode" => ~surface'
  BY <1>1 DEF Inv, HostInv, InputHeld
<1>5. RecorderTyped' /\ OneRecording'
  <2>1. /\ active /\ worker \notin {"none", "posted"} /\ worker' \in WorkerPlaces
        /\ ticks \in 0..MaxTicks /\ ivf \in {"none", "part", "whole"}
        /\ timestamps \in Seq(Nat) /\ file \in Seq([picture : Nat, time : Nat])
    BY <1>1, Works DEF WorkerPlaces, Inv, RecorderTyped
  <2> QED
    BY <1>1, <2>1, WorkerTyped
<1>6. Written'
  <2>1. ticks = 0 => ticks < MaxTicks
    BY RecorderAssumption
  <2> QED
    BY <1>1, <2>1 DEF Inv, RecorderInv, Written, Recording
<1>7. FilesKept'
  BY <1>1 DEF Inv, RecorderInv, FilesKept, Recording
<1> QED
  BY <1>3, <1>4, <1>5, <1>6, <1>7, RecorderKeeps

\* All that waited is written, or held back with its timestamp.
LEMMA EncodeTickInv ==
    ASSUME Inv, program = "recorder", UNCHANGED <<program, hostVars>>, EncodeTick PROVE Inv'
<1>1. /\ worker = "encode" /\ worker' = "next" /\ ticks' = ticks + 1
      /\ UNCHANGED <<window, boxes, active, closing, stop, recordings, done, failed, ivf, mp4,
                     encoder, rate, duplication, fresh>>
  BY DEF EncodeTick, At, WorkerStep, capture
<1>2. PICK packets \in {<< >>, <<Head(Submitted(ticks))>>, Submitted(ticks)} :
        Encodes(ticks, packets) /\ Writes(packets, Append(timestamps, ticks))
  BY DEF EncodeTick
<1>3. /\ inflight = timestamps /\ Len(file) + Len(timestamps) = ticks /\ ticks < MaxTicks
      /\ \A i \in 1..Len(file) : file[i].picture = file[i].time
      /\ RecorderTyped /\ ivf # "none"
  BY <1>1 DEF Inv, RecorderInv, Written, FilesKept, Recording
<1>4. /\ ticks \in Nat /\ timestamps \in Seq(Nat) /\ file \in Seq([picture : Nat, time : Nat])
      /\ ticks + 1 \in 0..MaxTicks
  <2>1. ticks \in 0..MaxTicks /\ MaxTicks \in Nat
    BY RecorderAssumption DEF Inv, RecorderTyped
  <2> QED
    BY <1>3, <2>1 DEF RecorderTyped
<1>5. /\ Append(timestamps, ticks) \in Seq(Nat)
      /\ Len(Append(timestamps, ticks)) = Len(timestamps) + 1 /\ Len(timestamps) \in Nat
      /\ Len(file) \in Nat /\ Append(timestamps, ticks) # << >> /\ Len(<< >>) = 0
  <2>1. Len(<< >>) = 0 /\ Len(file) \in Nat /\ Len(timestamps) \in Nat
    BY <1>4
  <2>2. /\ Append(timestamps, ticks) \in Seq(Nat)
        /\ Len(Append(timestamps, ticks)) = Len(timestamps) + 1
    BY <1>4
  <2>3. Append(timestamps, ticks) # << >>
    BY <2>1, <2>2
  <2> QED
    BY <2>1, <2>2, <2>3
<1>6. /\ timestamps' \in Seq(Nat) /\ file' \in Seq([picture : Nat, time : Nat])
      /\ inflight' = timestamps' /\ Len(file') + Len(timestamps') = ticks'
      /\ \A i \in 1..Len(file') : file'[i].picture = file'[i].time
      /\ Len(inflight') <= Latency /\ surface' = FALSE
  <2> DEFINE waiting == Append(timestamps, ticks)
  <2>1. /\ Len(file) \in Nat /\ Len(waiting) \in Nat
        /\ Len(file) + Len(waiting) = ticks'
    BY <1>1, <1>3, <1>4, <1>5
  <2>2. waiting \in Seq(Nat) /\ waiting # << >> /\ Writes(packets, waiting)
    BY <1>2, <1>5
  <2>3. Submitted(ticks) = waiting
    BY <1>3 DEF Submitted
  <2> HIDE DEF waiting
  <2>4. CASE packets = waiting /\ inflight' = << >>
    <3>1. inflight' = << >> /\ surface' = FALSE
      BY <1>2, <2>4 DEF Encodes
    <3>2. /\ file' \in Seq([picture : Nat, time : Nat]) /\ timestamps' = << >>
          /\ Len(file') = Len(file) + Len(waiting)
          /\ \A i \in 1..Len(file') : file'[i].picture = file'[i].time
      BY <1>3, <2>2, <2>4, WritesAll
    <3>3. << >> \in Seq(Nat) /\ 0 <= Latency
      BY EncoderAssumption
    <3>4. Len(file') + 0 = ticks'
      BY <2>1, <3>2
    <3> QED
      BY <1>5, <3>1, <3>2, <3>3, <3>4
  <2>5. CASE packets = << >> /\ inflight' = waiting
    <3>1. inflight' = waiting /\ surface' = FALSE /\ Len(inflight') <= Latency
      BY <1>2, <2>5 DEF Encodes
    <3>2. file' = file /\ timestamps' = waiting
      BY <1>3, <2>2, <2>5, WritesNone
    <3> QED
      BY <1>3, <1>4, <2>2, <2>1, <3>1, <3>2
  <2>6. CASE packets = <<Head(waiting)>> /\ inflight' = Tail(waiting)
    <3>1. surface' = FALSE /\ Len(inflight') <= Latency
      BY <1>2, <2>6 DEF Encodes
    <3>2. /\ file' \in Seq([picture : Nat, time : Nat])
          /\ timestamps' = Tail(waiting) /\ timestamps' \in Seq(Nat)
          /\ Len(timestamps') = Len(waiting) - 1 /\ Len(file') = Len(file) + 1
          /\ \A i \in 1..Len(file') : file'[i].picture = file'[i].time
      BY <1>3, <2>2, <2>6, WritesOne
    <3>3. Len(file') + Len(timestamps') = ticks'
      BY <2>1, <3>2
    <3> QED
      BY <2>6, <3>1, <3>2, <3>3
  <2>7. \/ packets = << >> /\ inflight' = waiting
        \/ packets = <<Head(waiting)>> /\ inflight' = Tail(waiting)
        \/ packets = waiting /\ inflight' = << >>
    BY <1>2, <2>3 DEF Encodes
  <2> QED
    BY <2>4, <2>5, <2>6, <2>7
<1>7. EncoderTyped'
  BY <1>1, <1>6 DEF Inv, EncoderTyped
<1>8. RecorderTyped' /\ OneRecording'
  <2>1. /\ active /\ worker \notin {"none", "posted"} /\ worker' \in WorkerPlaces
        /\ ivf \in {"none", "part", "whole"}
    BY <1>1, Works DEF WorkerPlaces, Inv, RecorderTyped
  <2> QED
    BY <1>1, <1>4, <1>6, <2>1, WorkerTyped
<1>9. Written' /\ FilesKept'
  BY <1>1, <1>3, <1>6 DEF Written, FilesKept, Recording
<1> QED
  BY <1>1, <1>6, <1>7, <1>8, <1>9, RecorderKeeps

\* A recording is made an MP4 of only when nothing is held back any more.
LEMMA DrainInv ==
    ASSUME Inv, program = "recorder", UNCHANGED <<program, hostVars>>, Drain PROVE Inv'
<1>1. /\ worker = "drain" /\ inflight' = << >> /\ surface' = FALSE /\ encoder' = "none"
      /\ UNCHANGED <<window, boxes, active, closing, stop, recordings, done, ticks, mp4, rate,
                     duplication, fresh>>
      /\ \/ timestamps' = << >> /\ worker' = "remux" /\ ivf' = "whole" /\ UNCHANGED failed
         \/ worker' = "end" /\ failed' = TRUE /\ UNCHANGED ivf
  BY DEF Drain, Drains, At, WorkerStep, capture
<1>2. PICK packets \in {inflight, << >>} : Writes(packets, timestamps)
  BY DEF Drain
<1>3. /\ inflight = timestamps /\ Len(file) + Len(timestamps) = ticks
      /\ \A i \in 1..Len(file) : file[i].picture = file[i].time
      /\ RecorderTyped /\ ivf # "none"
  BY <1>1 DEF Inv, RecorderInv, Written, FilesKept, Recording
<1>4. /\ timestamps \in Seq(Nat) /\ file \in Seq([picture : Nat, time : Nat])
      /\ ticks \in 0..MaxTicks /\ ivf \in {"none", "part", "whole"}
  BY <1>3 DEF RecorderTyped
<1>5. /\ timestamps' \in Seq(Nat) /\ file' \in Seq([picture : Nat, time : Nat])
      /\ timestamps' = << >> => Len(file') = ticks
      /\ \A i \in 1..Len(file') : file'[i].picture = file'[i].time
  <2>1. CASE packets = timestamps
    <3>1. /\ file' \in Seq([picture : Nat, time : Nat]) /\ timestamps' = << >>
          /\ Len(file') = Len(file) + Len(timestamps)
          /\ \A i \in 1..Len(file') : file'[i].picture = file'[i].time
      BY <1>2, <1>3, <1>4, <2>1, WritesAll
    <3>2. << >> \in Seq(Nat)
      OBVIOUS
    <3> QED
      BY <1>3, <3>1, <3>2
  <2>2. CASE packets = << >>
    <3>1. file' = file /\ timestamps' = timestamps
      BY <1>2, <1>3, <1>4, <2>2, WritesNone
    <3>2. timestamps = << >> => Len(file) = ticks
      <4>1. Len(file) \in Nat /\ Len(<< >>) = 0
        BY <1>4
      <4> QED
        BY <1>3, <4>1
    <3> QED
      BY <1>3, <1>4, <3>1, <3>2
  <2> QED
    BY <1>2, <1>3, <2>1, <2>2
<1>6. EncoderTyped'
  <2>1. Len(<< >>) = 0 /\ 0 <= Latency
    BY EncoderAssumption
  <2> QED
    BY <1>1, <2>1 DEF Inv, EncoderTyped
<1>7. RecorderTyped'
  BY <1>1, <1>5 DEF Inv, RecorderTyped, WorkerPlaces
<1>8. OneRecording'
  BY <1>1 DEF Inv, RecorderTyped, RecorderInv, OneRecording
<1>9. Written' /\ FilesKept'
  BY <1>1, <1>3, <1>5 DEF Written, FilesKept, Recording
<1> QED
  BY <1>1, <1>6, <1>7, <1>8, <1>9, RecorderKeeps

\* The thread ends: FFmpeg took over, or an exception left record.
LEMMA EndsInv ==
    ASSUME Inv, program = "recorder", UNCHANGED <<program, hostVars>>, Remux \/ RecordThrows \/ PostDone
    PROVE  Inv'
<1>1. /\ worker \in {"open", "remux", "end"} \cup Recording /\ worker' \in {"end", "posted"}
      /\ UNCHANGED <<window, boxes, active, closing, stop, recordings, ticks, timestamps, file, rate,
                     duplication, fresh>>
      /\ failed' \in {failed, TRUE} /\ (done' = done \/ (worker' = "posted" /\ done' = TRUE))
      /\ \/ UNCHANGED <<encoder, surface, inflight>>
         \/ encoder' = "none" /\ surface' = FALSE /\ inflight' = << >>
      /\ mp4' \in {"none", "part", "whole"} /\ (ivf' = ivf \/ (mp4' = "whole" /\ ivf' = "none"))
      /\ worker = "remux" \/ UNCHANGED <<ivf, mp4>>
  <2>1. mp4 \in {"none", "part", "whole"}
    BY DEF Inv, RecorderTyped
  <2>2. CASE Remux
    BY <2>1, <2>2 DEF Remux, At, WorkerStep, encoderVars
  <2>3. CASE RecordThrows
    BY <2>1, <2>3 DEF RecordThrows, WorkerStep, Destroy, Recording, recording, capture
  <2>4. CASE PostDone
    BY <2>1, <2>4 DEF PostDone, At, WorkerStep, recording, encoderVars
  <2> QED
    BY <2>2, <2>3, <2>4
<1>2. EncoderTyped'
  <2>1. Len(<< >>) = 0 /\ 0 <= Latency
    BY EncoderAssumption
  <2> QED
    BY <1>1, <2>1 DEF Inv, EncoderTyped
<1>3. ~surface'
  BY <1>1 DEF Inv, HostInv, InputHeld, Remux, RecordThrows, PostDone, At, Destroy, encoderVars
<1>4. RecorderTyped'
  <2>1. RecorderTyped
    BY DEF Inv
  <2>2. worker' \in WorkerPlaces /\ UNCHANGED <<window, boxes, active, closing, stop, recordings, ticks,
                                               timestamps, file>>
    BY <1>1 DEF WorkerPlaces
  <2>3. done' \in BOOLEAN /\ failed' \in BOOLEAN
    <3>1. done \in BOOLEAN /\ failed \in BOOLEAN
      BY <2>1 DEF RecorderTyped
    <3>2. failed' \in {failed, TRUE} /\ (done' = done \/ done' = TRUE)
      BY <1>1
    <3> QED
      BY <3>1, <3>2
  <2>4. ivf' \in {"none", "part", "whole"} /\ mp4' \in {"none", "part", "whole"}
    BY <1>1, <2>1 DEF RecorderTyped
  <2> QED
    BY <2>1, <2>2, <2>3, <2>4 DEF RecorderTyped
<1>5. OneRecording'
  BY <1>1 DEF Inv, RecorderTyped, RecorderInv, OneRecording, Recording
<1>6. Written'
  BY <1>1 DEF Inv, RecorderInv, Written, Recording
<1>7. FilesKept'
  BY <1>1 DEF Inv, RecorderInv, Written, FilesKept, Recording
<1> QED
  BY <1>2, <1>3, <1>4, <1>5, <1>6, <1>7, RecorderKeeps

LEMMA RecorderChangeInv ==
    ASSUME Inv, program = "recorder", UNCHANGED <<program, hostVars>>, RecorderChange PROVE Inv'
<1>1. /\ fresh' = TRUE
      /\ UNCHANGED <<encoder, rate, surface, inflight, duplication, window, boxes, active, closing,
                     stop, recordings, done, failed, worker, ticks, timestamps, file, ivf, mp4>>
  BY DEF RecorderChange, DesktopChanges, recorderVars, ui, recording
<1>2. EncoderTyped' /\ (worker # "encode" => ~surface)'
  BY <1>1 DEF Inv, EncoderTyped, HostInv, InputHeld
<1>3. RecorderTyped' /\ OneRecording'
  BY <1>1 DEF Inv, RecorderTyped, RecorderInv, OneRecording
<1>4. Written' /\ FilesKept'
  BY <1>1 DEF Inv, RecorderInv, Written, FilesKept
<1> QED
  BY <1>2, <1>3, <1>4, RecorderKeeps

LEMMA RecorderNextInv ==
    ASSUME Inv, program = "recorder", UNCHANGED <<program, hostVars>>, RecorderNext PROVE Inv'
<1>1. CASE Worker
  BY <1>1, OpenInv, CaptureTickInv, EncodeTickInv, DrainInv, EndsInv DEF Worker
<1>2. CASE RecorderUser
  BY <1>2, WindowInv, BeginInv DEF RecorderUser, Toggle
<1> QED
  BY <1>1, <1>2, WindowInv, EndsInv, DoneInv, RecorderChangeInv DEF RecorderNext

---------------------------------------------------------------------------
(* The whole *)

LEMMA InitInv == Init => Inv
<1> SUFFICES ASSUME Init PROVE Inv
  OBVIOUS
<1>1. << >> \in Seq(Nat) /\ << >> \in Seq([picture : Nat, time : Nat]) /\ Len(<< >>) = 0
  OBVIOUS
<1>2. EncoderTyped
  <2>1. 0 \in 0..MaxRate /\ 0 <= Latency
    BY EncoderAssumption
  <2> QED
    BY <1>1, <2>1 DEF Init, EncoderInit, EncoderTyped
<1>3. HostTyped
  <2>1. MaxRate \in Rates /\ 0 \in 0..2 /\ 0 \in Nat
    BY Ranks
  <2> QED
    BY <2>1 DEF Init, HostInit, HostTyped, Places
<1>4. RecorderTyped
  <2>1. 0 \in 0..MaxRecordings /\ 0 \in 0..MaxTicks /\ 0 \in Nat
    BY RecorderAssumption
  <2> QED
    BY <1>1, <2>1 DEF Init, RecorderInit, RecorderTyped, WorkerPlaces
<1>5. HostInv
  BY DEF Init, EncoderInit, HostInit, RecorderInit, HostInv, OneRuns, InputHeld, KeyDue, FixedWaits
<1>6. RecorderInv
  BY <1>1 DEF Init, RecorderInit, RecorderInv, OneRecording, Written, FilesKept, Recording
<1> QED
  BY <1>2, <1>3, <1>4, <1>5, <1>6 DEF Inv

LEMMA NextInv == Inv /\ [Next]_vars => Inv'
<1> SUFFICES ASSUME Inv, [Next]_vars PROVE Inv'
  OBVIOUS
<1>1. CASE program = "host" /\ HostNext /\ UNCHANGED <<program, recorderVars>>
  BY <1>1, HostNextInv
<1>2. CASE program = "recorder" /\ RecorderNext /\ UNCHANGED <<program, hostVars>>
  BY <1>2, RecorderNextInv
<1>3. CASE UNCHANGED vars
  <2>1. UNCHANGED <<program, encoder, rate, surface, inflight, duplication, fresh, at, first_input,
                    picture, running, fixed_quality, key_frame_requested, owed, controller, current,
                    pending, clean_reports, last_decrease, pacing, queue, dropped, gap, window, boxes,
                    active, closing, stop, recordings, done, failed, worker, ticks, timestamps, file,
                    ivf, mp4>>
    BY <1>3 DEF vars, encoderVars, hostVars, recorderVars, loop, request, adaptive, pacer, ui, recording
  <2>2. EncoderTyped' /\ HostTyped' /\ RecorderTyped'
    BY <2>1 DEF Inv, EncoderTyped, HostTyped, RecorderTyped
  <2>3. HostInv'
    BY <2>1 DEF Inv, HostInv, OneRuns, InputHeld, KeyDue, FixedWaits
  <2>4. RecorderInv'
    BY <2>1 DEF Inv, RecorderInv, OneRecording, Written, FilesKept
  <2> QED
    BY <2>2, <2>3, <2>4 DEF Inv
<1> QED
  BY <1>1, <1>2, <1>3 DEF Next

LEMMA Invariant == Spec => []Inv
BY InitInv, NextInv, PTL DEF Spec

\* TypeOK of Media: the input of the encoder is free whenever the frame loop (main.cpp) or
\* record (recorder_main.cpp) asks for it, so that input_texture does not throw.
THEOREM TypeCorrect == Spec => []TypeOK
<1>1. Inv => TypeOK
  <2> SUFFICES ASSUME Inv PROVE TypeOK
    OBVIOUS
  <2>1. EncoderTypeOK
    BY DEF Inv, EncoderTyped, EncoderTypeOK
  <2>2. HostTypeOK
    <3>1. pending.rate \in 0..MaxRate
      BY EncoderAssumption DEF Inv, HostTyped, None, Rates
    <3> QED
      BY <3>1 DEF Inv, HostTyped, HostTypeOK, Places
  <2>3. RecorderTypeOK
    <3>1. boxes \in 0..MaxRecordings
      <4>1. boxes \in Nat /\ boxes <= recordings /\ recordings \in 0..MaxRecordings
        BY DEF Inv, RecorderTyped, RecorderInv, OneRecording
      <4> QED
        BY <4>1, RecorderAssumption
    <3> QED
      BY <3>1 DEF Inv, RecorderTyped, RecorderTypeOK, WorkerPlaces
  <2>4. at = "input" \/ worker = "input" => InputReady
    BY DEF Inv, HostInv, OneRuns, InputHeld, InputReady
  <2> QED
    BY <2>1, <2>2, <2>3, <2>4 DEF TypeOK
<1> QED
  BY <1>1, Invariant, PTL

\* RecordingComplete of Media: record (recorder_main.cpp) loses no picture, gives each its
\* own timestamp, and removes the IVF file only for an MP4 that is whole.
THEOREM RecordingKept == Spec => []RecordingComplete
<1>1. Inv => RecordingComplete
  BY DEF Inv, RecorderInv, Written, FilesKept, RecordingComplete
<1> QED
  BY <1>1, Invariant, PTL

\* NextAcceptedIsKey of Media: after a drop the pacer (AdaptivePacingHandler) accepts a key
\* frame first, and in fixed quality drops nothing.
THEOREM KeyFrameFirst == Spec => NextAcceptedIsKey
<1>1. Inv /\ [Next]_vars =>
         [/\ at = "send" /\ queue' > queue /\ gap => picture[1].key
          /\ fixed_quality => ~gap']_vars
  <2> SUFFICES ASSUME Inv, Next
               PROVE  /\ at = "send" /\ queue' > queue /\ gap => picture[1].key
                      /\ fixed_quality => ~gap'
    OBVIOUS
  <2>1. at = "send" /\ gap => picture[1].key
    BY DEF Inv, HostInv, KeyDue
  <2>2. UNCHANGED fixed_quality \/ UNCHANGED gap
    <3>1. CASE program = "recorder" /\ UNCHANGED hostVars
      BY <3>1 DEF hostVars
    <3>2. CASE Loop \/ Acquire \/ Throws
      BY <3>2 DEF Loop, StartHost, SkipUpdate, ObserveLocal, NoDecision, TakeDecision, RefuseDecision,
                  Gate, Input, Acquire, AcquireNot, Encode, Send, SendFails, LeaveLoop, Throws, Over,
                  LoopStep, pacer
    <3>3. CASE Callbacks \/ Time \/ SendBatch \/ SessionEnds \/ Change
      BY <3>3 DEF Callbacks, ObserveNetwork, KeyFrameRequest, Time, SendBatch, SessionEnds, Change,
                  hostVars
    <3> QED
      BY <3>1, <3>2, <3>3 DEF Next, HostNext
  <2>3. Inv'
    BY NextInv
  <2>4. (fixed_quality => ~gap) /\ (fixed_quality' => ~gap')
    BY <2>3 DEF Inv, HostInv, FixedWaits
  <2> QED
    BY <2>1, <2>2, <2>4
<1> QED
  BY <1>1, Invariant, PTL DEF Spec, NextAcceptedIsKey

---------------------------------------------------------------------------
(* A request for a key frame *)

\* A request that was not answered is where the loop finds it, in the flag, or in
\* the key frame that is about to be sent.
RequestHeld ==
    /\ owed = "asked" => key_frame_requested
    /\ owed = "encoded" /\ at # "over" => at = "send" /\ picture[1].key

\* A step that leaves the requests alone, and has nothing to do with sending
LEMMA RequestKept ==
    ASSUME RequestHeld, owed' = owed, key_frame_requested => key_frame_requested',
           (at # "send" \/ at' = "over") \/ (at' = at /\ picture' = picture),
           at = "over" => at' = "over"
    PROVE  RequestHeld'
BY DEF RequestHeld

LEMMA RequestStep ==
    ASSUME Inv, program = "host", RequestHeld, HostNext PROVE RequestHeld'
<1>1. CASE StartHost \/ SkipUpdate \/ NoDecision \/ RefuseDecision \/ Gate
  <2>1. at \notin {"send", "over"} /\ UNCHANGED request
    BY <1>1 DEF StartHost, SkipUpdate, NoDecision, RefuseDecision, Gate
  <2> QED BY <2>1, RequestKept DEF request
<1>2. CASE ObserveLocal \/ Input \/ Acquire \/ AcquireNot
  <2>1. at \notin {"send", "over"} /\ UNCHANGED request
    BY <1>2 DEF ObserveLocal, Input, Acquire, AcquireNot
  <2> QED BY <2>1, RequestKept DEF request
<1>3. CASE TakeDecision
  <2>1. at \notin {"send", "over"} /\ owed' = owed /\ (key_frame_requested => key_frame_requested')
    BY <1>3 DEF TakeDecision
  <2> QED BY <2>1, RequestKept
<1>4. CASE SendFails \/ LeaveLoop \/ Throws
  <2>1. at' = "over" /\ UNCHANGED request
    BY <1>4 DEF SendFails, LeaveLoop, Throws, Over, Goto
  <2> QED BY <2>1, RequestKept DEF request
<1>5. CASE Encode
  <2> DEFINE key == first_input \/ key_frame_requested
  <2>1. /\ at = "encode" /\ at' = "send" /\ picture' # << >>
        /\ key_frame_requested' = (first_input /\ key_frame_requested)
        /\ owed' = IF key /\ owed = "asked" THEN "encoded" ELSE owed
        /\ Encodes([key |-> key], picture')
    BY <1>5 DEF Encode, Goto
  <2>2. inflight = << >>
    BY DEF Inv, HostInv, OneRuns
  <2> HIDE DEF key
  <2>3. picture' = <<[key |-> key]>>
    <3>1. PICK packets : packets = picture'
      OBVIOUS
    <3>2. Encodes([key |-> key], packets) /\ packets # << >>
      BY <2>1, <3>1
    <3> QED
      BY <2>2, <3>1, <3>2, EncodesOne
  <2>4. picture'[1].key = key
    BY <2>3
  <2>5. owed # "encoded" /\ (owed = "asked" => key)
    BY <2>1 DEF RequestHeld, key
  <2>6. owed' # "asked" /\ (owed' = "encoded" => key)
    BY <2>1, <2>5
  <2> QED BY <2>1, <2>4, <2>6 DEF RequestHeld
<1>6. CASE Send
  <2> DEFINE frame == picture[1].key
  <2>1. at' = "head" /\ (Accept(frame) \/ Drop(frame))
    BY <1>6 DEF Send, Goto
  <2> HIDE DEF frame
  <2>2. CASE Accept(frame)
    <3>1. /\ owed' = IF owed = "encoded" THEN "no" ELSE owed
          /\ key_frame_requested' = key_frame_requested
      BY <2>2 DEF Accept
    <3> QED BY <3>1 DEF RequestHeld
  <2>3. CASE Drop(frame)
    <3>1. owed' = "asked" /\ key_frame_requested'
      BY <2>3 DEF Drop
    <3> QED BY <3>1 DEF RequestHeld
  <2> QED BY <2>1, <2>2, <2>3
<1>7. CASE KeyFrameRequest
  <2>1. /\ key_frame_requested' /\ owed' \in {owed, "asked"}
        /\ at' = at /\ picture' = picture
    BY <1>7 DEF KeyFrameRequest, loop
  <2> QED BY <2>1 DEF RequestHeld
<1>8. CASE ObserveNetwork \/ Time \/ SendBatch \/ SessionEnds \/ Change
  <2>1. UNCHANGED <<at, picture, owed, key_frame_requested>>
    BY <1>8 DEF ObserveNetwork, Time, SendBatch, SessionEnds, Change, hostVars, loop, request
  <2> QED BY <2>1, RequestKept
<1> QED
  BY <1>1, <1>2, <1>3, <1>4, <1>5, <1>6, <1>7, <1>8 DEF HostNext, Loop, Callbacks

\* No thread of the host loses a request for a key frame, whenever it comes and
\* however often the pacer drops the answer; this is what KeyRequestServed rests on.
THEOREM RequestSafety == Spec => []RequestHeld
<1>1. Init => RequestHeld
  BY DEF Init, HostInit, RequestHeld
<1>2. Inv /\ RequestHeld /\ [Next]_vars => RequestHeld'
  <2> SUFFICES ASSUME Inv, RequestHeld, [Next]_vars PROVE RequestHeld'
    OBVIOUS
  <2>1. CASE program = "host" /\ HostNext
    BY <2>1, RequestStep
  <2>2. CASE UNCHANGED hostVars
    <3>1. UNCHANGED <<at, picture, owed, key_frame_requested>>
      BY <2>2 DEF hostVars, loop, request
    <3> QED BY <3>1, RequestKept
  <2> QED BY <2>1, <2>2 DEF Next, vars
<1> QED BY <1>1, <1>2, Invariant, PTL DEF Spec
============================================================================
