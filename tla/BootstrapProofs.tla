-------------------------- MODULE BootstrapProofs --------------------------
(***************************************************************************)
(* TypeOK, ReturnedOpen and CandidatesApplied hold of Bootstrap, whichever *)
(* ends run in a browser and whichever have a timeout.                     *)
(***************************************************************************)
EXTENDS Bootstrap, TLAPS

---------------------------------------------------------------------------
(* The inductive invariant *)

MainPlaces == {"loop", "receive", "ack", "check", "send", "predicate", "block", "blocked",
               "after", "returned", "failed"}
OpenerPlaces == {"idle", "ready", "ack", "check", "send", "notify", "done"}
GathererPlaces == {"idle", "candidate", "complete", "ack", "check", "send", "notify", "done"}
Places == MainPlaces \cup OpenerPlaces \cup GathererPlaces
Acking == {"check", "send"}

Typed ==
    /\ pc \in [Peers -> [Threads -> Places]]
    /\ remote_description \in [Peers -> {"none", "applying", "set"}]
    /\ candidate \in [Peers -> {"none", "pending", "added"}]
    /\ channel \in [Peers -> Seq(Frames)]
    /\ local_open \in [Peers -> BOOLEAN] /\ local_gathering_complete \in [Peers -> BOOLEAN]
    /\ remote_ready \in [Peers -> BOOLEAN] /\ remote_acknowledged \in [Peers -> BOOLEAN]
    /\ acknowledgement_sent \in [Peers -> BOOLEAN] /\ handshake_complete \in [Peers -> BOOLEAN]
    /\ error \in [Peers -> BOOLEAN]
    /\ signalingOpen \in BOOLEAN
    /\ expired \subseteq Timed \ browsers
    /\ browsers \in Deployments

\* The places of an end's threads: a browser's handlers leave it in few of them.
PlacesOK(p) ==
    /\ Main(p) \in MainPlaces /\ pc[p]["opener"] \in OpenerPlaces
    /\ pc[p]["gatherer"] \in GathererPlaces
    /\ p \in browsers => /\ Main(p) \in {"loop", "returned", "failed"}
                         /\ pc[p]["opener"] = "idle"
                         /\ pc[p]["gatherer"] \in {"idle", "candidate", "complete"}

\* One thread takes on the acknowledgement, when it is due.
OneAcknowledges(p) ==
    /\ acknowledgement_sent[p] => AckDue(p)
    /\ \A t \in Threads : pc[p][t] \in Acking => acknowledgement_sent[p]
    /\ \A t, u \in Threads : pc[p][t] \in Acking /\ pc[p][u] \in Acking => t = u

\* What an end's flags say of its threads, the descriptions and the candidates
FlagsTrue(p) ==
    /\ local_gathering_complete[p] => pc[p]["gatherer"] \notin {"idle", "candidate"}
    /\ p \notin browsers => (local_open[p] <=> pc[p]["opener"] # "idle")
    /\ local_open[p] => \A q \in Peers : remote_description[q] = "set"
    /\ candidate[p] = "pending" => remote_description[p] # "set"
    /\ Main(p) \in {"predicate", "block", "blocked", "after", "returned"} => LoopDone(p)
    /\ Returned(p) => acknowledgement_sent[p]

EndInv(p) == PlacesOK(p) /\ OneAcknowledges(p) /\ FlagsTrue(p)

\* The frames an end is past the sending of, and those it took from the other end
Past(p) ==
    {f \in Frames :
       \/ f = "description"  /\ pc[p]["gatherer"] # "idle"
       \/ f = "candidate"    /\ pc[p]["gatherer"] \notin {"idle", "candidate"}
       \/ f = "ready"        /\ local_open[p] /\ pc[p]["opener"] # "ready"
       \/ f = "acknowledged" /\ acknowledgement_sent[p]
                             /\ \A t \in Threads : pc[p][t] \notin Acking}

Taken(p) ==
    {f \in Frames :
       \/ f = "description"  /\ remote_description[p] # "none"
       \/ f = "candidate"    /\ candidate[p] # "none"
       \/ f = "ready"        /\ remote_ready[p]
       \/ f = "acknowledged" /\ remote_acknowledged[p]}

\* What is under way was sent, once, and is yet to be taken, and the candidate is ahead
\* of the acknowledgement.
Orderly(frames, past, taken) ==
    /\ taken \subseteq past
    /\ \A i \in 1 .. Len(frames) : frames[i] \in past \ taken
    /\ \A i, j \in 1 .. Len(frames) : frames[i] = frames[j] => i = j
    /\ \A i \in 1 .. Len(frames) : frames[i] = "acknowledged" =>
         "candidate" \in taken \/ \E j \in 1 .. i - 1 : frames[j] = "candidate"
    /\ "acknowledged" \in taken => "candidate" \in taken

\* The candidate, once sent, is not lost.
Kept(frames, past, taken) ==
    "candidate" \in past =>
       "candidate" \in taken \/ \E i \in 1 .. Len(frames) : frames[i] = "candidate"

WireInv(p) ==
    /\ Orderly(channel[p], Past(p), Taken(Other(p)))
    /\ signalingOpen => Kept(channel[p], Past(p), Taken(Other(p)))

Inv == Typed /\ \A p \in Peers : EndInv(p) /\ WireInv(p)

---------------------------------------------------------------------------
(* Frames under way: each may be sent, taken and lost *)

LEMMA SendOrderly ==
    ASSUME NEW c \in Seq(Frames), NEW past, NEW taken, NEW f \in Frames \ past,
           Orderly(c, past, taken), Kept(c, past, taken), f = "acknowledged" => "candidate" \in past
    PROVE  Orderly(Append(c, f), past \cup {f}, taken) /\ Kept(Append(c, f), past \cup {f}, taken)
<1> DEFINE d == Append(c, f)
<1>1. /\ Len(c) \in Nat /\ Len(d) = Len(c) + 1 /\ d[Len(c) + 1] = f
      /\ \A i \in 1 .. Len(c) : d[i] = c[i]
  OBVIOUS
<1>2. \A i \in 1 .. Len(c) : c[i] \in past \ taken
  BY DEF Orderly
<1>3. f \notin taken /\ f \notin past
  BY DEF Orderly
<1> HIDE DEF d
<1>4. \A i \in 1 .. Len(d) : i = Len(d) \/ i \in 1 .. Len(c)
  BY <1>1
<1>5. \A i \in 1 .. Len(d) : d[i] \in (past \cup {f}) \ taken
  BY <1>1, <1>2, <1>3, <1>4
<1>6. \A i, j \in 1 .. Len(d) : d[i] = d[j] => i = j
  BY <1>1, <1>2, <1>3, <1>4 DEF Orderly
<1>7. Kept(d, past \cup {f}, taken)
  <2>1. Len(d) \in 1 .. Len(d) /\ d[Len(d)] = f /\ 1 .. Len(c) \subseteq 1 .. Len(d)
    BY <1>1
  <2> QED
    BY <1>1, <2>1 DEF Kept
<1>8. ASSUME NEW i \in 1 .. Len(d), d[i] = "acknowledged", "candidate" \notin taken
      PROVE  \E j \in 1 .. i - 1 : d[j] = "candidate"
  <2>1. CASE i \in 1 .. Len(c)
    <3>1. PICK j \in 1 .. i - 1 : c[j] = "candidate"
      BY <1>1, <1>8, <2>1 DEF Orderly
    <3>2. j \in 1 .. Len(c)
      BY <1>1, <2>1, <3>1
    <3> QED
      BY <1>1, <3>1, <3>2
  <2>2. CASE i = Len(d)
    <3>1. PICK j \in 1 .. Len(c) : c[j] = "candidate"
      BY <1>1, <1>8, <2>2 DEF Kept
    <3> QED
      BY <1>1, <2>2, <3>1
  <2> QED
    BY <1>4, <2>1, <2>2
<1>9. Orderly(d, past \cup {f}, taken)
  BY <1>5, <1>6, <1>8 DEF Orderly
<1> QED
  BY <1>7, <1>9 DEF d

LEMMA TakeOrderly ==
    ASSUME NEW c \in Seq(Frames), c # << >>, NEW past, NEW taken,
           Orderly(c, past, taken)
    PROVE  /\ Orderly(Tail(c), past, taken \cup {Head(c)})
           /\ Kept(c, past, taken) => Kept(Tail(c), past, taken \cup {Head(c)})
           /\ Tail(c) \in Seq(Frames) /\ Head(c) \in Frames /\ Head(c) \notin taken
<1> DEFINE d == Tail(c)
<1>1. /\ d \in Seq(Frames) /\ Len(c) \in Nat \ {0} /\ Len(d) = Len(c) - 1
      /\ Head(c) = c[1] /\ Head(c) \in Frames
      /\ \A i \in 1 .. Len(d) : d[i] = c[i + 1]
  OBVIOUS
<1>2. \A i \in 1 .. Len(c) : c[i] \in past \ taken
  BY DEF Orderly
<1>3. \A i, j \in 1 .. Len(c) : c[i] = c[j] => i = j
  BY DEF Orderly
<1> HIDE DEF d
<1>4. 1 \in 1 .. Len(c) /\ \A i \in 1 .. Len(d) : i + 1 \in 1 .. Len(c) /\ i + 1 # 1
  BY <1>1
<1>5. \A i \in 1 .. Len(d) : d[i] \in past \ (taken \cup {Head(c)})
  BY <1>1, <1>2, <1>3, <1>4
<1>6. \A i, j \in 1 .. Len(d) : d[i] = d[j] => i = j
  BY <1>1, <1>3, <1>4
<1>7. Kept(c, past, taken) => Kept(d, past, taken \cup {Head(c)})
  <2> SUFFICES ASSUME NEW i \in 1 .. Len(c), c[i] = "candidate", i # 1
               PROVE  \E k \in 1 .. Len(d) : d[k] = "candidate"
    BY <1>1 DEF Kept
  <2>1. i - 1 \in 1 .. Len(d) /\ i - 1 + 1 = i
    BY <1>1
  <2> QED
    BY <1>1, <2>1
<1>8. ASSUME NEW i \in 1 .. Len(d), d[i] = "acknowledged", "candidate" \notin taken \cup {Head(c)}
      PROVE  \E j \in 1 .. i - 1 : d[j] = "candidate"
  <2>1. i + 1 \in 1 .. Len(c) /\ c[i + 1] = "acknowledged" /\ i + 1 - 1 = i
    BY <1>1, <1>4, <1>8
  <2>2. PICK j \in 1 .. i : c[j] = "candidate"
    BY <1>8, <2>1 DEF Orderly
  <2>3. j # 1
    BY <1>1, <1>8, <2>2
  <2>4. j - 1 \in 1 .. i - 1 /\ j - 1 \in 1 .. Len(d) /\ j - 1 + 1 = j
    BY <1>1, <2>3
  <2> QED
    BY <1>1, <2>2, <2>4
<1>9. "acknowledged" \in taken \cup {Head(c)} => "candidate" \in taken \cup {Head(c)}
  <2>1. ASSUME c[1] = "acknowledged", "candidate" \notin taken PROVE FALSE
    BY <1>4, <2>1 DEF Orderly
  <2> QED
    BY <1>1, <2>1 DEF Orderly
<1>10. taken \cup {Head(c)} \subseteq past /\ Head(c) \notin taken
  BY <1>1, <1>2, <1>4 DEF Orderly
<1>11. Orderly(d, past, taken \cup {Head(c)})
  BY <1>5, <1>6, <1>8, <1>9, <1>10 DEF Orderly
<1> QED
  BY <1>1, <1>7, <1>10, <1>11 DEF d

LEMMA LostOrderly ==
    ASSUME NEW c, NEW past, NEW taken, Orderly(c, past, taken)
    PROVE  Orderly(<< >>, past, taken)
<1>1. Len(<< >>) = 0
  OBVIOUS
<1> QED
  BY <1>1 DEF Orderly

\* A frame that an end does not send is past all the same.
LEMMA SkipOrderly ==
    ASSUME NEW c, NEW past, NEW taken, NEW f, Orderly(c, past, taken)
    PROVE  /\ Orderly(c, past \cup {f}, taken)
           /\ f # "candidate" /\ Kept(c, past, taken) => Kept(c, past \cup {f}, taken)
BY DEF Orderly, Kept

\* Four frames are the most that can be under way.
LEMMA OrderlyBound ==
    ASSUME NEW c \in Seq(Frames), NEW past, NEW taken, Orderly(c, past, taken)
    PROVE  Len(c) <= MaxFrames
<1> SUFFICES ASSUME Len(c) > 4 PROVE FALSE
  BY DEF MaxFrames
<1>1. {1, 2, 3, 4, 5} \subseteq 1 .. Len(c)
  OBVIOUS
<1>2. \A i \in 1 .. Len(c) : c[i] \in Frames
  OBVIOUS
<1>3. \A i, j \in 1 .. Len(c) : c[i] = c[j] => i = j
  BY DEF Orderly
<1>4. {c[1], c[2], c[3], c[4], c[5]} \subseteq {"description", "candidate", "ready", "acknowledged"}
  BY <1>1, <1>2 DEF Frames
<1>5. /\ c[1] # c[2] /\ c[1] # c[3] /\ c[1] # c[4] /\ c[1] # c[5]
      /\ c[2] # c[3] /\ c[2] # c[4] /\ c[2] # c[5]
      /\ c[3] # c[4] /\ c[3] # c[5] /\ c[4] # c[5]
  BY <1>1, <1>3
<1> QED
  BY <1>4, <1>5

---------------------------------------------------------------------------
(* What a step of one end leaves of the other *)

LEMMA Ends ==
    ASSUME NEW p \in Peers
    PROVE  /\ Other(p) \in Peers /\ Other(p) # p /\ Other(Other(p)) = p
           /\ Peers = {p, Other(p)}
BY EndsAssumption DEF Peers, Other

\* While other threads move, the main thread may be woken.
MainStays(p) ==
    Main(p)' = Main(p) \/ (Main(p) = "blocked" /\ Main(p)' = "predicate")

LEMMA StepMoves ==
    ASSUME Typed, NEW p \in Peers, NEW t \in Threads, NEW at \in Places, NEW notifies \in BOOLEAN,
           Step(p, t, at, notifies)
    PROVE  /\ pc' \in [Peers -> [Threads -> Places]]
           /\ pc'[p][t] = at
           /\ pc'[Other(p)] = pc[Other(p)]
           /\ t # "main" => MainStays(p)
           /\ \A u \in Threads \ {t, "main"} : pc'[p][u] = pc[p][u]
<1>1. pc \in [Peers -> [Threads -> Places]] /\ Other(p) \in Peers /\ Other(p) # p
  BY Ends DEF Typed
<1>2. pc[p] \in [Threads -> Places] /\ "main" \in Threads
  BY <1>1 DEF Threads
<1> DEFINE threads == [u \in Threads |-> IF u = t THEN at
                                        ELSE IF Woken(p, u, notifies) THEN "predicate" ELSE pc[p][u]]
<1>3. pc' = [pc EXCEPT ![p] = threads]
  BY DEF Step
<1>4. /\ threads \in [Threads -> Places] /\ threads[t] = at
      /\ \A u \in Threads \ {t, "main"} : threads[u] = pc[p][u]
      /\ t # "main" => \/ threads["main"] = pc[p]["main"]
                       \/ pc[p]["main"] = "blocked" /\ threads["main"] = "predicate"
  BY <1>2 DEF Woken, Places, MainPlaces
<1> HIDE DEF threads
<1>5. pc'[p] = threads /\ pc'[Other(p)] = pc[Other(p)] /\ pc' \in [Peers -> [Threads -> Places]]
  BY <1>1, <1>3, <1>4
<1> QED
  BY <1>4, <1>5 DEF MainStays, Main

\* A thread of p that is not its main thread goes on: the other of them stays.
LEMMA GathererMoves ==
    ASSUME Typed, NEW p \in Peers, NEW at \in GathererPlaces, NEW notifies \in BOOLEAN,
           Step(p, "gatherer", at, notifies)
    PROVE  /\ pc' \in [Peers -> [Threads -> Places]]
           /\ pc'[p]["gatherer"] = at /\ pc'[p]["opener"] = pc[p]["opener"]
           /\ pc'[Other(p)] = pc[Other(p)] /\ MainStays(p)
<1>1. "gatherer" \in Threads /\ "opener" \in Threads \ {"gatherer", "main"} /\ at \in Places
  BY DEF Threads, Places
<1>2. PICK t \in Threads : t = "gatherer"
  BY <1>1
<1>3. Step(p, t, at, notifies)
  BY <1>2
<1>4. /\ pc' \in [Peers -> [Threads -> Places]]
      /\ pc'[p][t] = at
      /\ pc'[Other(p)] = pc[Other(p)]
      /\ t # "main" => MainStays(p)
      /\ \A u \in Threads \ {t, "main"} : pc'[p][u] = pc[p][u]
  BY <1>1, <1>2, <1>3, StepMoves
<1> QED
  BY <1>1, <1>2, <1>4

\* The step of a thread that tried to send
LEMMA SendMoves ==
    ASSUME NEW p, NEW t, NEW at, Step(p, t, at, ~signalingOpen)
    PROVE  \E notifies \in BOOLEAN : Step(p, t, at, notifies)
<1> WITNESS (~signalingOpen) \in BOOLEAN
<1> QED
  OBVIOUS

\* The part of the state that is an end's own
View(p) == <<pc[p], local_open[p], local_gathering_complete[p], remote_ready[p],
             remote_acknowledged[p], acknowledgement_sent[p], remote_description[p], candidate[p]>>

\* A step of p keeps the invariant if it keeps p's part of it and both wires.
LEMMA OtherKept ==
    ASSUME Inv, NEW p \in Peers, Typed', EndInv(p)', WireInv(p)', WireInv(Other(p))',
           View(Other(p))' = View(Other(p)), UNCHANGED browsers,
           remote_description[p] = "set" => remote_description'[p] = "set"
    PROVE  Inv'
<1> DEFINE q == Other(p)
<1>1. q \in Peers /\ EndInv(q) /\ Peers = {p, q}
  BY Ends DEF Inv
<1>2. /\ pc'[q] = pc[q] /\ local_open'[q] = local_open[q]
      /\ local_gathering_complete'[q] = local_gathering_complete[q]
      /\ remote_ready'[q] = remote_ready[q] /\ remote_acknowledged'[q] = remote_acknowledged[q]
      /\ acknowledgement_sent'[q] = acknowledgement_sent[q]
      /\ remote_description'[q] = remote_description[q] /\ candidate'[q] = candidate[q]
  BY DEF View
<1> HIDE DEF q
<1>3. PlacesOK(q)'
  BY <1>1, <1>2 DEF EndInv, PlacesOK, Main
<1>4. OneAcknowledges(q)'
  BY <1>1, <1>2 DEF EndInv, OneAcknowledges, AckDue
<1>5. FlagsTrue(q)'
  <2>1. local_open[q] => remote_description'[p] = "set" /\ remote_description'[q] = "set"
    BY <1>1, <1>2 DEF EndInv, FlagsTrue
  <2>2. local_open'[q] => \A r \in Peers : remote_description'[r] = "set"
    BY <1>1, <1>2, <2>1
  <2> QED
    BY <1>1, <1>2, <2>2 DEF EndInv, FlagsTrue, Main, Returned, LoopDone
<1>6. EndInv(q)'
  BY <1>3, <1>4, <1>5 DEF EndInv
<1> QED
  BY <1>1, <1>6 DEF Inv, q

LEMMA SameSets ==
    ASSUME NEW p \in Peers, View(p)' = View(p) PROVE Past(p)' = Past(p) /\ Taken(p)' = Taken(p)
<1>1. /\ pc'[p] = pc[p] /\ local_open'[p] = local_open[p]
      /\ remote_ready'[p] = remote_ready[p] /\ remote_acknowledged'[p] = remote_acknowledged[p]
      /\ acknowledgement_sent'[p] = acknowledgement_sent[p]
      /\ remote_description'[p] = remote_description[p] /\ candidate'[p] = candidate[p]
  BY DEF View
<1> QED
  BY <1>1 DEF Past, Taken

\* An end takes nothing: what the other sent is still under way, or lost.
LEMMA NothingTaken ==
    ASSUME Inv, NEW p \in Peers, View(Other(p))' = View(Other(p)), Taken(p)' = Taken(p),
           channel'[Other(p)] = channel[Other(p)], signalingOpen' => signalingOpen
    PROVE  WireInv(Other(p))'
<1>1. WireInv(Other(p)) /\ Other(Other(p)) = p /\ Past(Other(p))' = Past(Other(p))
  BY Ends, SameSets DEF Inv
<1> QED
  BY <1>1 DEF WireInv, Inv, Typed

\* An end sends nothing, and is past no frame it was not past before.
LEMMA NothingSent ==
    ASSUME Inv, NEW p \in Peers, View(Other(p))' = View(Other(p)), Past(p)' = Past(p),
           channel'[p] = channel[p], signalingOpen' => signalingOpen
    PROVE  WireInv(p)'
<1>1. WireInv(p) /\ Taken(Other(p))' = Taken(Other(p))
  BY Ends, SameSets DEF Inv
<1> QED
  BY <1>1 DEF WireInv, Inv, Typed

\* An end sends a frame, or finds the stream closed.
LEMMA FrameSent ==
    ASSUME Inv, NEW p \in Peers, NEW f \in Frames, f \notin Past(p), SendFrame(p, f),
           View(Other(p))' = View(Other(p)), Past(p)' = Past(p) \cup {f}, UNCHANGED signalingOpen,
           f = "acknowledged" => "candidate" \in Past(p)
    PROVE  /\ WireInv(p)' /\ channel'[Other(p)] = channel[Other(p)]
           /\ channel' \in [Peers -> Seq(Frames)] /\ error' \in [Peers -> BOOLEAN]
<1>1. /\ WireInv(p) /\ Taken(Other(p))' = Taken(Other(p))
      /\ Other(p) \in Peers /\ Other(p) # p
      /\ channel \in [Peers -> Seq(Frames)] /\ error \in [Peers -> BOOLEAN]
      /\ signalingOpen \in BOOLEAN
  BY Ends, SameSets DEF Inv, Typed
<1>2. channel[p] \in Seq(Frames)
  BY <1>1
<1>3. CASE signalingOpen
  <2>1. channel' = [channel EXCEPT ![p] = Append(@, f)] /\ UNCHANGED error
    BY <1>3 DEF SendFrame
  <2>2. Append(channel[p], f) \in Seq(Frames)
    BY <1>2
  <2>3. channel'[p] = Append(channel[p], f) /\ channel'[Other(p)] = channel[Other(p)]
    BY <1>1, <2>1
  <2>4. /\ Orderly(Append(channel[p], f), Past(p) \cup {f}, Taken(Other(p)))
        /\ Kept(Append(channel[p], f), Past(p) \cup {f}, Taken(Other(p)))
    BY <1>1, <1>2, <1>3, SendOrderly DEF WireInv
  <2>5. WireInv(p)'
    BY <1>1, <2>3, <2>4 DEF WireInv
  <2>6. channel' \in [Peers -> Seq(Frames)]
    BY <1>1, <2>1, <2>2
  <2> QED
    BY <1>1, <2>1, <2>3, <2>5, <2>6
<1>4. CASE ~signalingOpen
  <2>1. error' = [error EXCEPT ![p] = TRUE] /\ UNCHANGED channel
    BY <1>4 DEF SendFrame
  <2>2. Orderly(channel[p], Past(p) \cup {f}, Taken(Other(p)))
    BY <1>1, SkipOrderly DEF WireInv
  <2> QED
    BY <1>1, <1>4, <2>1, <2>2 DEF WireInv
<1> QED
  BY <1>3, <1>4

\* A step of p that neither sends nor takes a frame.
LEMMA QuietStep ==
    ASSUME Inv, NEW p \in Peers, Typed', EndInv(p)', Past(p)' = Past(p),
           View(Other(p))' = View(Other(p)), UNCHANGED <<remote_ready, remote_acknowledged, candidate>>,
           remote_description[p] = "set" => remote_description'[p] = "set",
           remote_description[p] = "none" <=> remote_description'[p] = "none",
           UNCHANGED <<channel, browsers>>, signalingOpen' => signalingOpen
    PROVE  Inv'
<1>1. Taken(p)' = Taken(p)
  BY DEF Taken
<1>2. WireInv(p)' /\ WireInv(Other(p))'
  BY <1>1, NothingSent, NothingTaken
<1> QED
  BY <1>2, OtherKept

\* A step of p that sends a frame, if the stream is up.
LEMMA SendingStep ==
    ASSUME Inv, NEW p \in Peers, NEW f \in Frames, f \notin Past(p), SendFrame(p, f),
           Past(p)' = Past(p) \cup {f}, f = "acknowledged" => "candidate" \in Past(p),
           pc' \in [Peers -> [Threads -> Places]], pc'[Other(p)] = pc[Other(p)], EndInv(p)',
           UNCHANGED <<flags, acknowledgement_sent, handshake_complete, remote, link>>
    PROVE  Inv'
<1>1. View(Other(p))' = View(Other(p)) /\ Taken(p)' = Taken(p)
  BY DEF View, flags, remote, Taken
<1>2. /\ WireInv(p)' /\ channel'[Other(p)] = channel[Other(p)]
      /\ channel' \in [Peers -> Seq(Frames)] /\ error' \in [Peers -> BOOLEAN]
  BY <1>1, FrameSent DEF link
<1>3. WireInv(Other(p))'
  BY <1>1, <1>2, NothingTaken DEF link
<1>4. Typed'
  BY <1>2 DEF Inv, Typed, flags, remote, link
<1> QED
  BY <1>1, <1>2, <1>3, <1>4, OtherKept DEF link, remote

---------------------------------------------------------------------------
(* The callbacks of a native end *)

LEMMA LocalDescriptionInv ==
    ASSUME Inv, NEW p \in Peers \ browsers, LocalDescription(p) PROVE Inv'
<1>1. Typed /\ EndInv(p) /\ p \in Peers
  BY DEF Inv
<1>2. /\ pc[p]["gatherer"] = "idle" /\ SendFrame(p, "description")
      /\ Step(p, "gatherer", "candidate", ~signalingOpen)
      /\ UNCHANGED <<flags, acknowledgement_sent, handshake_complete, remote, link>>
  BY DEF LocalDescription
<1>3. /\ pc' \in [Peers -> [Threads -> Places]]
      /\ pc'[p]["gatherer"] = "candidate" /\ pc'[p]["opener"] = pc[p]["opener"]
      /\ pc'[Other(p)] = pc[Other(p)] /\ MainStays(p)
  <2>1. "gatherer" \in Threads /\ "candidate" \in Places /\ "opener" \in Threads \ {"gatherer", "main"}
    BY DEF Threads, Places, GathererPlaces
  <2>2. PICK notifies \in BOOLEAN : Step(p, "gatherer", "candidate", notifies)
    BY <1>2, SendMoves, Zenon
  <2> QED
    BY <1>1, <2>1, <2>2, StepMoves
<1>4. Past(p)' = Past(p) \cup {"description"} /\ "description" \in Frames \ Past(p)
  BY <1>2, <1>3 DEF Past, MainStays, Main, flags, Threads, Acking, Frames
<1>5. EndInv(p)'
  <2>1. PlacesOK(p)'
    BY <1>1, <1>2, <1>3 DEF EndInv, PlacesOK, MainStays, Main, MainPlaces, GathererPlaces, link
  <2>2. OneAcknowledges(p)'
    BY <1>1, <1>2, <1>3
       DEF EndInv, OneAcknowledges, AckDue, MainStays, Main, Threads, Acking, flags
  <2>3. FlagsTrue(p)'
    BY <1>1, <1>2, <1>3
       DEF EndInv, FlagsTrue, MainStays, Main, Returned, LoopDone, flags, remote, link
  <2> QED
    BY <2>1, <2>2, <2>3 DEF EndInv
<1> QED
  BY <1>1, <1>2, <1>3, <1>4, <1>5, SendingStep

LEMMA LocalCandidateInv ==
    ASSUME Inv, NEW p \in Peers \ browsers, LocalCandidate(p) PROVE Inv'
<1>1. Typed /\ EndInv(p) /\ p \in Peers
  BY DEF Inv
<1>2. /\ pc[p]["gatherer"] = "candidate" /\ SendFrame(p, "candidate")
      /\ Step(p, "gatherer", "complete", ~signalingOpen)
      /\ UNCHANGED <<flags, acknowledgement_sent, handshake_complete, remote, link>>
  BY DEF LocalCandidate
<1>3. /\ pc' \in [Peers -> [Threads -> Places]]
      /\ pc'[p]["gatherer"] = "complete" /\ pc'[p]["opener"] = pc[p]["opener"]
      /\ pc'[Other(p)] = pc[Other(p)] /\ MainStays(p)
  <2>1. "gatherer" \in Threads /\ "complete" \in Places /\ "opener" \in Threads \ {"gatherer", "main"}
    BY DEF Threads, Places, GathererPlaces
  <2>2. PICK notifies \in BOOLEAN : Step(p, "gatherer", "complete", notifies)
    BY <1>2, SendMoves, Zenon
  <2> QED
    BY <1>1, <2>1, <2>2, StepMoves
<1>4. Past(p)' = Past(p) \cup {"candidate"} /\ "candidate" \in Frames \ Past(p)
  BY <1>2, <1>3 DEF Past, MainStays, Main, flags, Threads, Acking, Frames
<1>5. EndInv(p)'
  <2>1. PlacesOK(p)'
    BY <1>1, <1>2, <1>3 DEF EndInv, PlacesOK, MainStays, Main, MainPlaces, GathererPlaces, link
  <2>2. OneAcknowledges(p)'
    BY <1>1, <1>2, <1>3
       DEF EndInv, OneAcknowledges, AckDue, MainStays, Main, Threads, Acking, flags
  <2>3. FlagsTrue(p)'
    BY <1>1, <1>2, <1>3
       DEF EndInv, FlagsTrue, MainStays, Main, Returned, LoopDone, flags, remote, link
  <2> QED
    BY <2>1, <2>2, <2>3 DEF EndInv
<1> QED
  BY <1>1, <1>2, <1>3, <1>4, <1>5, SendingStep

LEMMA SendReadyInv ==
    ASSUME Inv, NEW p \in Peers \ browsers, SendReady(p) PROVE Inv'
<1>1. Typed /\ EndInv(p) /\ p \in Peers
  BY DEF Inv
<1>2. /\ pc[p]["opener"] = "ready" /\ SendFrame(p, "ready")
      /\ Step(p, "opener", "ack", ~signalingOpen)
      /\ UNCHANGED <<flags, acknowledgement_sent, handshake_complete, remote, link>>
  BY DEF SendReady
<1>3. /\ pc' \in [Peers -> [Threads -> Places]]
      /\ pc'[p]["opener"] = "ack" /\ pc'[p]["gatherer"] = pc[p]["gatherer"]
      /\ pc'[Other(p)] = pc[Other(p)] /\ MainStays(p)
  <2>1. "opener" \in Threads /\ "ack" \in Places /\ "gatherer" \in Threads \ {"opener", "main"}
    BY DEF Threads, Places, OpenerPlaces
  <2>2. PICK notifies \in BOOLEAN : Step(p, "opener", "ack", notifies)
    BY <1>2, SendMoves, Zenon
  <2> QED
    BY <1>1, <2>1, <2>2, StepMoves
<1>4. Past(p)' = Past(p) \cup {"ready"} /\ "ready" \in Frames \ Past(p)
  <2>1. local_open[p]
    BY <1>1, <1>2 DEF EndInv, FlagsTrue
  <2> QED
    BY <1>2, <1>3, <2>1 DEF Past, MainStays, Main, flags, Threads, Acking, Frames
<1>5. EndInv(p)'
  <2>1. PlacesOK(p)'
    BY <1>1, <1>2, <1>3 DEF EndInv, PlacesOK, MainStays, Main, MainPlaces, OpenerPlaces, link
  <2>2. OneAcknowledges(p)'
    BY <1>1, <1>2, <1>3
       DEF EndInv, OneAcknowledges, AckDue, MainStays, Main, Threads, Acking, flags
  <2>3. FlagsTrue(p)'
    BY <1>1, <1>2, <1>3
       DEF EndInv, FlagsTrue, MainStays, Main, Returned, LoopDone, flags, remote, link
  <2> QED
    BY <2>1, <2>2, <2>3 DEF EndInv
<1> QED
  BY <1>1, <1>2, <1>3, <1>4, <1>5, SendingStep

LEMMA GatheringCompleteInv ==
    ASSUME Inv, NEW p \in Peers \ browsers, GatheringComplete(p) PROVE Inv'
<1>1. Typed /\ EndInv(p) /\ p \in Peers /\ Other(p) # p
  BY Ends DEF Inv
<1>2. /\ pc[p]["gatherer"] = "complete" /\ Step(p, "gatherer", "ack", FALSE)
      /\ local_gathering_complete' = [local_gathering_complete EXCEPT ![p] = TRUE]
      /\ UNCHANGED <<local_open, remote_ready, remote_acknowledged, acknowledgement_sent,
                     handshake_complete, error, remote, channel, link>>
  BY DEF GatheringComplete
<1>3. /\ pc' \in [Peers -> [Threads -> Places]]
      /\ pc'[p]["gatherer"] = "ack" /\ pc'[p]["opener"] = pc[p]["opener"]
      /\ pc'[Other(p)] = pc[Other(p)] /\ MainStays(p)
  <2>1. Typed /\ p \in Peers /\ Step(p, "gatherer", "ack", FALSE)
    BY <1>1, <1>2
  <2>2. "ack" \in GathererPlaces /\ FALSE \in BOOLEAN
    BY DEF GathererPlaces
  <2> QED
    BY <2>1, <2>2, GathererMoves, Zenon
<1>4. Past(p)' = Past(p)
  BY <1>2, <1>3 DEF Past, MainStays, Main, Threads, Acking, Frames
<1>5. EndInv(p)'
  <2>1. PlacesOK(p)'
    BY <1>1, <1>2, <1>3 DEF EndInv, PlacesOK, MainStays, Main, MainPlaces, GathererPlaces, link
  <2>2. OneAcknowledges(p)'
    BY <1>1, <1>2, <1>3
       DEF EndInv, OneAcknowledges, AckDue, MainStays, Main, Threads, Acking, Typed
  <2>3. FlagsTrue(p)'
    BY <1>1, <1>2, <1>3
       DEF EndInv, FlagsTrue, MainStays, Main, Returned, LoopDone, remote, link
  <2> QED
    BY <2>1, <2>2, <2>3 DEF EndInv
<1>6. Typed' /\ View(Other(p))' = View(Other(p))
  <2>1. /\ local_gathering_complete' \in [Peers -> BOOLEAN]
        /\ local_gathering_complete'[Other(p)] = local_gathering_complete[Other(p)]
    BY <1>1, <1>2, Ends DEF Typed
  <2>2. Typed'
    BY <1>1, <1>2, <1>3, <2>1 DEF Typed, remote, link
  <2>3. View(Other(p))' = View(Other(p))
    BY <1>2, <1>3, <2>1 DEF View, remote
  <2> QED
    BY <2>2, <2>3
<1> QED
  BY <1>1, <1>2, <1>4, <1>5, <1>6, QuietStep DEF remote, link

LEMMA OpenInv ==
    ASSUME Inv, NEW p \in Peers \ browsers, Open(p) PROVE Inv'
<1>1. Typed /\ EndInv(p) /\ p \in Peers /\ Other(p) # p
  BY Ends DEF Inv
<1>2. /\ pc[p]["opener"] = "idle" /\ Step(p, "opener", "ready", FALSE)
      /\ local_open' = [local_open EXCEPT ![p] = TRUE]
      /\ \A q \in Peers : remote_description[q] = "set"
      /\ UNCHANGED <<local_gathering_complete, remote_ready, remote_acknowledged,
                     acknowledgement_sent, handshake_complete, error, remote, channel, link>>
  BY DEF Open, Connectable
<1>3. /\ pc' \in [Peers -> [Threads -> Places]]
      /\ pc'[p]["opener"] = "ready" /\ pc'[p]["gatherer"] = pc[p]["gatherer"]
      /\ pc'[Other(p)] = pc[Other(p)] /\ MainStays(p)
  <2>1. "opener" \in Threads /\ "ready" \in Places /\ "gatherer" \in Threads \ {"opener", "main"}
    BY DEF Threads, Places, OpenerPlaces
  <2> QED
    BY <1>1, <1>2, <2>1, StepMoves
<1>4. ~local_open[p]
  BY <1>1, <1>2 DEF EndInv, FlagsTrue
<1>5. Past(p)' = Past(p)
  BY <1>2, <1>3, <1>4 DEF Past, MainStays, Main, Threads, Acking, Frames
<1>6. EndInv(p)'
  <2>1. PlacesOK(p)'
    BY <1>1, <1>2, <1>3 DEF EndInv, PlacesOK, MainStays, Main, MainPlaces, OpenerPlaces, link
  <2>2. OneAcknowledges(p)'
    BY <1>1, <1>2, <1>3, <1>4
       DEF EndInv, OneAcknowledges, AckDue, MainStays, Main, Threads, Acking, Typed
  <2>3. FlagsTrue(p)'
    BY <1>1, <1>2, <1>3, <1>4
       DEF EndInv, FlagsTrue, MainStays, Main, Returned, LoopDone, remote, link, Typed
  <2> QED
    BY <2>1, <2>2, <2>3 DEF EndInv
<1>7. Typed' /\ View(Other(p))' = View(Other(p))
  <2>1. local_open' \in [Peers -> BOOLEAN] /\ local_open'[Other(p)] = local_open[Other(p)]
    BY <1>1, <1>2, Ends DEF Typed
  <2>2. Typed'
    BY <1>1, <1>2, <1>3, <2>1 DEF Typed, remote, link
  <2>3. View(Other(p))' = View(Other(p))
    BY <1>2, <1>3, <2>1 DEF View, remote
  <2> QED
    BY <2>2, <2>3
<1> QED
  BY <1>1, <1>2, <1>5, <1>6, <1>7, QuietStep DEF remote, link

LEMMA SetsBut ==
    ASSUME NEW S, NEW T, NEW a, S \ {a} = T \ {a}
    PROVE  /\ (a \in S <=> a \in T) => S = T
           /\ a \notin T => S = T \/ S = T \cup {a}
<1>1. \A x : x # a => (x \in S <=> x \in T)
  OBVIOUS
<1>2. ASSUME a \in S <=> a \in T PROVE S = T
  <2>1. \A x : x \in S <=> x \in T
    BY <1>1, <1>2
  <2> QED
    BY <2>1
<1>3. ASSUME a \notin T, a \in S PROVE S = T \cup {a}
  <2>1. \A x : x \in S <=> x \in T \cup {a}
    BY <1>1, <1>3
  <2> QED
    BY <2>1
<1> QED
  BY <1>2, <1>3

\* A thread goes on in or after maybe_send_acknowledgement; it acknowledges if it was to,
\* or if it is the first.
LEMMA AckMoves ==
    ASSUME Inv, NEW p \in Peers \ browsers, NEW t \in Threads, NEW at, NEW notifies \in BOOLEAN,
           Step(p, t, at, notifies), pc[p][t] \in {"ack", "check", "send", "notify"},
           at \in IF t = "main" THEN {"loop", "check", "send"}
                  ELSE {"check", "send", "notify", "done"},
           UNCHANGED <<flags, remote, link>>,
           acknowledgement_sent[p] => acknowledgement_sent'[p],
           acknowledgement_sent'[p] => AckDue(p),
           at \in Acking => acknowledgement_sent'[p],
           at \in Acking => pc[p][t] \in Acking \/ ~acknowledgement_sent[p]
    PROVE  /\ EndInv(p)' /\ pc' \in [Peers -> [Threads -> Places]] /\ pc'[Other(p)] = pc[Other(p)]
           /\ Past(p)' \ {"acknowledged"} = Past(p) \ {"acknowledged"}
           /\ pc'[p][t] = at
           /\ \A u \in Threads \ {t} : pc'[p][u] \in Acking <=> pc[p][u] \in Acking
<1>1. Typed /\ EndInv(p) /\ p \in Peers
  BY DEF Inv
<1>2. at \in Places
  BY DEF Places, MainPlaces, OpenerPlaces
<1>3. /\ pc' \in [Peers -> [Threads -> Places]] /\ pc'[p][t] = at /\ pc'[Other(p)] = pc[Other(p)]
      /\ t # "main" => MainStays(p)
      /\ \A u \in Threads \ {t, "main"} : pc'[p][u] = pc[p][u]
  BY <1>1, <1>2, StepMoves
<1>4. Threads = {"main", "opener", "gatherer"}
  BY DEF Threads
<1>5. \A u \in Threads \ {t} : pc'[p][u] \in Acking <=> pc[p][u] \in Acking
  BY <1>3, <1>4 DEF MainStays, Main, Acking
<1>6. PlacesOK(p)'
  BY <1>1, <1>3, <1>4
     DEF EndInv, PlacesOK, MainStays, Main, MainPlaces, OpenerPlaces, GathererPlaces, link
<1>7. OneAcknowledges(p)'
  <2>1. AckDue(p)' = AckDue(p)
    BY DEF AckDue, flags
  <2>2. \A u \in Threads : pc[p][u] \in Acking => acknowledgement_sent[p]
    BY <1>1 DEF EndInv, OneAcknowledges
  <2>3. ASSUME NEW u \in Threads, pc'[p][u] \in Acking PROVE acknowledgement_sent'[p]
    <3>1. CASE u = t
      <4>1. at \in Acking
        BY <1>3, <2>3, <3>1
      <4> QED
        BY <4>1
    <3>2. CASE u # t
      BY <1>5, <2>2, <2>3, <3>2
    <3> QED
      BY <3>1, <3>2
  <2>4. ASSUME NEW u \in Threads \ {t}, pc'[p][u] \in Acking, pc'[p][t] \in Acking PROVE FALSE
    <3>1. pc[p][u] \in Acking /\ acknowledgement_sent[p]
      BY <1>5, <2>2, <2>4
    <3>2. pc[p][t] \in Acking
      BY <1>3, <2>4, <3>1
    <3> QED
      BY <1>1, <2>4, <3>1, <3>2 DEF EndInv, OneAcknowledges
  <2>5. \A u, v \in Threads : pc'[p][u] \in Acking /\ pc'[p][v] \in Acking => u = v
    BY <1>1, <1>5, <2>4 DEF EndInv, OneAcknowledges
  <2> QED
    BY <2>1, <2>3, <2>5 DEF OneAcknowledges
<1>8. FlagsTrue(p)'
  <2>1. /\ pc[p]["gatherer"] \notin {"idle", "candidate"} => pc'[p]["gatherer"] \notin {"idle", "candidate"}
        /\ pc[p]["opener"] # "idle" <=> pc'[p]["opener"] # "idle"
        /\ Main(p)' \in {"predicate", "block", "blocked", "after", "returned"} =>
              Main(p) \in {"predicate", "block", "blocked", "after", "returned"}
        /\ Main(p)' = "returned" => Main(p) = "returned"
    BY <1>3, <1>4 DEF MainStays, Main
  <2> QED
    BY <1>1, <2>1 DEF EndInv, FlagsTrue, Returned, LoopDone, flags, remote, link
<1>9. Past(p)' \ {"acknowledged"} = Past(p) \ {"acknowledged"}
  BY <1>3, <1>4 DEF Past, Frames, flags
<1> QED
  BY <1>3, <1>5, <1>6, <1>7, <1>8, <1>9 DEF EndInv

LEMMA TakeOnAckInv ==
    ASSUME Inv, NEW p \in Peers \ browsers, NEW t \in Threads, TakeOnAck(p, t) PROVE Inv'
<1>1. Typed /\ EndInv(p) /\ p \in Peers /\ Other(p) # p /\ Other(p) \in Peers
  BY Ends DEF Inv
<1>2. pc[p][t] = "ack" /\ UNCHANGED <<flags, handshake_complete, error, remote, channel, link>>
  BY DEF TakeOnAck
<1>3. PICK at :
        /\ Step(p, t, at, FALSE)
        /\ \/ /\ at = "check" /\ AckDue(p) /\ ~acknowledgement_sent[p]
              /\ acknowledgement_sent' = [acknowledgement_sent EXCEPT ![p] = TRUE]
           \/ at = AfterAck(t) /\ UNCHANGED acknowledgement_sent
  BY DEF TakeOnAck
<1>4. /\ acknowledgement_sent' \in [Peers -> BOOLEAN]
      /\ acknowledgement_sent'[Other(p)] = acknowledgement_sent[Other(p)]
  BY <1>1, <1>3 DEF Typed
<1>5. /\ at \in IF t = "main" THEN {"loop", "check", "send"} ELSE {"check", "send", "notify", "done"}
      /\ at \in Acking => acknowledgement_sent'[p] /\ ~acknowledgement_sent[p]
      /\ acknowledgement_sent[p] => acknowledgement_sent'[p]
      /\ acknowledgement_sent'[p] => AckDue(p)
  BY <1>1, <1>3 DEF AfterAck, Acking, Typed, EndInv, OneAcknowledges
<1>6. /\ EndInv(p)' /\ pc' \in [Peers -> [Threads -> Places]] /\ pc'[Other(p)] = pc[Other(p)]
      /\ Past(p)' \ {"acknowledged"} = Past(p) \ {"acknowledged"}
      /\ pc'[p][t] = at
      /\ \A u \in Threads \ {t} : pc'[p][u] \in Acking <=> pc[p][u] \in Acking
  BY <1>2, <1>3, <1>5, AckMoves
<1>7. "acknowledged" \in Past(p)' <=> "acknowledged" \in Past(p)
  BY <1>1, <1>2, <1>3, <1>6 DEF Past, Frames, Acking, AfterAck, Typed
<1>8. Past(p)' = Past(p)
  BY <1>6, <1>7, SetsBut
<1>9. Typed'
  BY <1>1, <1>2, <1>4, <1>6 DEF Typed, flags, remote, link
<1>10. View(Other(p))' = View(Other(p))
  BY <1>2, <1>4, <1>6 DEF View, flags, remote
<1> QED
  BY <1>1, <1>2, <1>6, <1>8, <1>9, <1>10, QuietStep DEF remote, flags, link

LEMMA CheckCompleteInv ==
    ASSUME Inv, NEW p \in Peers \ browsers, NEW t \in Threads, CheckComplete(p, t) PROVE Inv'
<1>1. Typed /\ EndInv(p) /\ WireInv(p) /\ p \in Peers /\ Other(p) # p /\ Other(p) \in Peers
  BY Ends DEF Inv
<1>2. /\ pc[p][t] = "check"
      /\ UNCHANGED <<flags, acknowledgement_sent, handshake_complete, error, remote, channel, link>>
  BY DEF CheckComplete
<1>3. PICK at \in {AfterAck(t), "send"} : Step(p, t, at, FALSE)
  BY DEF CheckComplete
<1>4. acknowledgement_sent[p] /\ AckDue(p)
  BY <1>1, <1>2 DEF EndInv, OneAcknowledges, Acking
<1>5. at \in IF t = "main" THEN {"loop", "check", "send"} ELSE {"check", "send", "notify", "done"}
  BY <1>3 DEF AfterAck
<1>6. /\ EndInv(p)' /\ pc' \in [Peers -> [Threads -> Places]] /\ pc'[Other(p)] = pc[Other(p)]
      /\ Past(p)' \ {"acknowledged"} = Past(p) \ {"acknowledged"}
      /\ pc'[p][t] = at
      /\ \A u \in Threads \ {t} : pc'[p][u] \in Acking <=> pc[p][u] \in Acking
  <2>1. pc[p][t] \in Acking
    BY <1>2 DEF Acking
  <2> QED
    BY <1>2, <1>3, <1>4, <1>5, <2>1, AckMoves
<1>7. Typed'
  BY <1>1, <1>2, <1>6 DEF Typed, flags, remote, link
<1>8. View(Other(p))' = View(Other(p)) /\ Taken(p)' = Taken(p)
  BY <1>2, <1>6 DEF View, flags, remote, Taken
\* The thread that finds the handshake complete does not send, and is past it.
<1>9. WireInv(p)'
  <2>1. Past(p)' = Past(p) \/ Past(p)' = Past(p) \cup {"acknowledged"}
    <3>1. "acknowledged" \notin Past(p)
      BY <1>2 DEF Past, Acking
    <3> QED
      BY <1>6, <3>1, SetsBut
  <2>2. Taken(Other(p))' = Taken(Other(p))
    BY <1>1, <1>8, SameSets
  <2>3. UNCHANGED <<channel, signalingOpen>>
    BY <1>2 DEF link
  <2>4. /\ Orderly(channel[p], Past(p), Taken(Other(p)))
        /\ signalingOpen => Kept(channel[p], Past(p), Taken(Other(p)))
    BY <1>1 DEF WireInv
  <2>5. /\ Orderly(channel[p], Past(p)', Taken(Other(p)))
        /\ signalingOpen => Kept(channel[p], Past(p)', Taken(Other(p)))
    BY <2>1, <2>4, SkipOrderly
  <2> QED
    BY <2>2, <2>3, <2>5 DEF WireInv
<1>10. WireInv(Other(p))'
  BY <1>1, <1>2, <1>8, NothingTaken DEF link
<1> QED
  BY <1>1, <1>2, <1>6, <1>7, <1>8, <1>9, <1>10, OtherKept DEF link, remote

LEMMA SendAckInv ==
    ASSUME Inv, NEW p \in Peers \ browsers, NEW t \in Threads, SendAck(p, t) PROVE Inv'
<1>1. Typed /\ EndInv(p) /\ p \in Peers
  BY DEF Inv
<1>2. /\ pc[p][t] = "send" /\ SendFrame(p, "acknowledged")
      /\ UNCHANGED <<flags, acknowledgement_sent, handshake_complete, remote, link>>
  BY DEF SendAck
<1>3. PICK notifies \in BOOLEAN : Step(p, t, AfterAck(t), notifies)
  <2>1. Step(p, t, AfterAck(t), ~signalingOpen)
    BY DEF SendAck
  <2> QED
    BY <2>1, SendMoves, Zenon
<1>4. acknowledgement_sent[p] /\ AckDue(p)
  BY <1>1, <1>2 DEF EndInv, OneAcknowledges, Acking
<1>5. /\ AfterAck(t) \in IF t = "main" THEN {"loop", "check", "send"} ELSE {"check", "send", "notify", "done"}
      /\ AfterAck(t) \notin Acking
  BY DEF AfterAck, Acking
<1>6. /\ EndInv(p)' /\ pc' \in [Peers -> [Threads -> Places]] /\ pc'[Other(p)] = pc[Other(p)]
      /\ Past(p)' \ {"acknowledged"} = Past(p) \ {"acknowledged"}
      /\ pc'[p][t] = AfterAck(t)
      /\ \A u \in Threads \ {t} : pc'[p][u] \in Acking <=> pc[p][u] \in Acking
  BY <1>2, <1>3, <1>4, <1>5, AckMoves
<1>7. "acknowledged" \in Frames \ Past(p) /\ "candidate" \in Past(p)
  <2>1. local_gathering_complete[p]
    BY <1>4 DEF AckDue
  <2> QED
    BY <1>1, <1>2, <2>1 DEF Past, Frames, Acking, EndInv, FlagsTrue
<1>8. "acknowledged" \in Past(p)'
  <2>1. \A u \in Threads : pc'[p][u] \notin Acking
    BY <1>1, <1>2, <1>5, <1>6 DEF EndInv, OneAcknowledges, Acking
  <2> QED
    BY <1>2, <1>4, <2>1 DEF Past, Frames
<1>9. Past(p)' = Past(p) \cup {"acknowledged"}
  BY <1>6, <1>8
<1> QED
  BY <1>1, <1>2, <1>6, <1>7, <1>9, SendingStep

LEMMA NotifyProgressInv ==
    ASSUME Inv, NEW p \in Peers \ browsers, NEW t \in {"opener", "gatherer"}, NotifyProgress(p, t)
    PROVE  Inv'
<1>1. Typed /\ EndInv(p) /\ p \in Peers /\ t \in Threads /\ t # "main"
  BY DEF Inv, Threads
<1>2. /\ pc[p][t] = "notify" /\ Step(p, t, "done", TRUE)
      /\ UNCHANGED <<flags, acknowledgement_sent, handshake_complete, error, remote, channel, link>>
  BY DEF NotifyProgress
<1>3. acknowledgement_sent[p] => AckDue(p)
  BY <1>1 DEF EndInv, OneAcknowledges
<1>4. /\ EndInv(p)' /\ pc' \in [Peers -> [Threads -> Places]] /\ pc'[Other(p)] = pc[Other(p)]
      /\ Past(p)' \ {"acknowledged"} = Past(p) \ {"acknowledged"}
      /\ pc'[p][t] = "done"
      /\ \A u \in Threads \ {t} : pc'[p][u] \in Acking <=> pc[p][u] \in Acking
  BY <1>1, <1>2, <1>3, AckMoves DEF Acking
<1>5. "acknowledged" \in Past(p)' <=> "acknowledged" \in Past(p)
  BY <1>1, <1>2, <1>4 DEF Past, Frames, Acking
<1>6. Past(p)' = Past(p)
  BY <1>4, <1>5, SetsBut
<1>7. Typed'
  BY <1>1, <1>2, <1>4 DEF Typed, flags, remote, link
<1>8. View(Other(p))' = View(Other(p))
  BY <1>2, <1>4 DEF View, flags, remote
<1> QED
  BY <1>1, <1>2, <1>4, <1>6, <1>7, <1>8, QuietStep DEF remote, flags, link

---------------------------------------------------------------------------
(* The thread that called establish *)

LEMMA MainGoes ==
    ASSUME Typed, NEW p \in Peers, NEW at \in MainPlaces, Step(p, "main", at, FALSE)
    PROVE  /\ pc' \in [Peers -> [Threads -> Places]] /\ Main(p)' = at /\ pc'[Other(p)] = pc[Other(p)]
           /\ pc'[p]["opener"] = pc[p]["opener"] /\ pc'[p]["gatherer"] = pc[p]["gatherer"]
<1>1. /\ "main" \in Threads /\ at \in Places /\ FALSE \in BOOLEAN
      /\ "opener" \in Threads \ {"main", "main"} /\ "gatherer" \in Threads \ {"main", "main"}
  BY DEF Threads, Places
<1>2. /\ pc' \in [Peers -> [Threads -> Places]]
      /\ pc'[p]["main"] = at
      /\ pc'[Other(p)] = pc[Other(p)]
      /\ \A u \in Threads \ {"main", "main"} : pc'[p][u] = pc[p][u]
  BY <1>1, StepMoves, Zenon
<1> QED
  BY <1>1, <1>2 DEF Main

Leaving == {"predicate", "block", "blocked", "after", "returned"}

\* The main thread goes on, and nothing else of its end changes but handshake_complete.
LEMMA MainMoves ==
    ASSUME Inv, NEW p \in Peers, NEW at \in MainPlaces \ Acking, Step(p, "main", at, FALSE),
           Main(p) \notin Acking, p \in browsers => at = "failed",
           at \in Leaving => LoopDone(p), at = "returned" => acknowledgement_sent[p],
           UNCHANGED <<flags, acknowledgement_sent, error, remote, channel, browsers, expired>>,
           handshake_complete' \in [Peers -> BOOLEAN],
           signalingOpen' \in BOOLEAN, signalingOpen' => signalingOpen
    PROVE  Inv'
<1>1. Typed /\ EndInv(p) /\ p \in Peers
  BY DEF Inv
<1>2. /\ pc' \in [Peers -> [Threads -> Places]] /\ Main(p)' = at /\ pc'[Other(p)] = pc[Other(p)]
      /\ pc'[p]["opener"] = pc[p]["opener"] /\ pc'[p]["gatherer"] = pc[p]["gatherer"]
  BY <1>1, MainGoes
<1>3. \A t \in Threads : pc'[p][t] \in Acking <=> pc[p][t] \in Acking
  BY <1>2 DEF Threads, Main
<1>4. Past(p)' = Past(p)
  BY <1>2, <1>3 DEF Past, flags
<1>5. EndInv(p)'
  <2>1. PlacesOK(p)'
    BY <1>1, <1>2 DEF EndInv, PlacesOK
  <2>2. OneAcknowledges(p)'
    BY <1>1, <1>3 DEF EndInv, OneAcknowledges, AckDue, flags
  <2>3. FlagsTrue(p)'
    BY <1>1, <1>2 DEF EndInv, FlagsTrue, Main, Returned, LoopDone, Leaving, flags, remote
  <2> QED
    BY <2>1, <2>2, <2>3 DEF EndInv
<1>6. Typed'
  BY <1>1, <1>2 DEF Typed, flags, remote
<1>7. View(Other(p))' = View(Other(p))
  BY <1>2 DEF View, flags, remote
<1> QED
  BY <1>1, <1>4, <1>5, <1>6, <1>7, QuietStep DEF flags, remote

LEMMA FailInv ==
    ASSUME Inv, NEW p \in Peers, Main(p) \notin Acking, Fail(p) PROVE Inv'
<1>1. /\ Step(p, "main", "failed", FALSE) /\ signalingOpen' = FALSE
      /\ UNCHANGED <<flags, acknowledgement_sent, handshake_complete, error, remote,
                     channel, browsers, expired>>
  BY DEF Fail
<1>2. "failed" \in MainPlaces \ Acking /\ "failed" \notin Leaving
  BY DEF MainPlaces, Acking, Leaving
<1>3. handshake_complete' \in [Peers -> BOOLEAN]
  BY <1>1 DEF Inv, Typed
<1> QED
  BY <1>1, <1>2, <1>3, MainMoves

\* The steps that only move the main thread
LEMMA MainQuietInv ==
    ASSUME Inv, NEW p \in Peers \ browsers, NEW at \in MainPlaces \ Acking,
           Step(p, "main", at, FALSE), Main(p) \notin Acking,
           at \in Leaving => LoopDone(p), at = "returned" => acknowledgement_sent[p],
           handshake_complete' \in [Peers -> BOOLEAN],
           UNCHANGED <<flags, acknowledgement_sent, error, remote, channel, link>>
    PROVE  Inv'
BY MainMoves DEF Inv, Typed, link

LEMMA LoopInv ==
    ASSUME Inv, NEW p \in Peers \ browsers, Loop(p) PROVE Inv'
<1>1. Main(p) \notin Acking
  BY DEF Loop, Acking
<1>2. ASSUME NEW at \in {"predicate", "receive"}, at = "predicate" => LoopDone(p),
             Step(p, "main", at, FALSE),
             UNCHANGED <<flags, acknowledgement_sent, handshake_complete, error, remote,
                         channel, link>>
      PROVE  Inv'
  <2>1. /\ at \in MainPlaces \ Acking /\ at # "returned"
        /\ at \in Leaving => at = "predicate"
        /\ handshake_complete' \in [Peers -> BOOLEAN]
    BY <1>2 DEF MainPlaces, Acking, Leaving, Inv, Typed
  <2> QED
    BY <1>1, <1>2, <2>1, MainQuietInv
<1>3. CASE Fail(p)
  BY <1>1, <1>3, FailInv
<1> QED
  BY <1>2, <1>3 DEF Loop

LEMMA ReceiveFailsInv ==
    ASSUME Inv, NEW p \in Peers \ browsers, ReceiveFails(p) PROVE Inv'
BY FailInv DEF ReceiveFails, Acking

\* Once it leaves the loop, the main thread only waits for the acknowledgement.
LEMMA WaitInv ==
    ASSUME Inv, NEW p \in Peers \ browsers,
           EvaluatePredicate(p) \/ Block(p) \/ WaitExpires(p) \/ Finish(p)
    PROVE  Inv'
<1>1. Main(p) \in {"predicate", "block", "blocked", "after"} => LoopDone(p)
  BY DEF Inv, EndInv, FlagsTrue
<1>2. ASSUME NEW at \in {"block", "blocked", "after", "returned"}, Step(p, "main", at, FALSE),
             Main(p) \in {"predicate", "block", "blocked", "after"},
             at = "returned" => acknowledgement_sent[p],
             handshake_complete' \in [Peers -> BOOLEAN],
             UNCHANGED <<flags, acknowledgement_sent, error, remote, channel, link>>
      PROVE  Inv'
  <2>1. at \in MainPlaces \ Acking /\ Main(p) \notin Acking /\ LoopDone(p)
    BY <1>1, <1>2 DEF MainPlaces, Acking
  <2> QED
    BY <1>2, <2>1, MainQuietInv
<1>3. handshake_complete \in [Peers -> BOOLEAN]
  BY DEF Inv, Typed
<1>4. CASE EvaluatePredicate(p)
  <2>1. PICK at \in {"after", "block"} : Step(p, "main", at, FALSE)
    BY <1>4 DEF EvaluatePredicate
  <2> QED
    BY <1>2, <1>3, <1>4, <2>1 DEF EvaluatePredicate
<1>5. CASE Block(p)
  BY <1>2, <1>3, <1>5 DEF Block
<1>6. CASE WaitExpires(p)
  BY <1>2, <1>3, <1>6 DEF WaitExpires
<1>7. CASE Finish(p)
  <2>1. CASE Fail(p)
    BY <1>7, <2>1, FailInv DEF Finish, Acking
  <2>2. CASE /\ acknowledgement_sent[p]
             /\ handshake_complete' = [handshake_complete EXCEPT ![p] = TRUE]
             /\ Step(p, "main", "returned", FALSE)
             /\ UNCHANGED <<flags, acknowledgement_sent, error, remote, channel, link>>
    <3>1. handshake_complete' \in [Peers -> BOOLEAN]
      BY <1>3, <2>2
    <3> QED
      BY <1>2, <1>7, <2>2, <3>1 DEF Finish
  <2> QED
    BY <1>7, <2>1, <2>2 DEF Finish
<1> QED
  BY <1>4, <1>5, <1>6, <1>7

---------------------------------------------------------------------------
(* Frames are taken *)

\* The frame that is next was not taken before, and may be.
LEMMA NextFrame ==
    ASSUME Inv, NEW p \in Peers, channel[Other(p)] # << >>
    PROVE  LET f == Head(channel[Other(p)])
               rest == Tail(channel[Other(p)])
           IN  /\ f \in Frames \ Taken(p) /\ rest \in Seq(Frames)
               /\ Orderly(rest, Past(Other(p)), Taken(p) \cup {f})
               /\ signalingOpen => Kept(rest, Past(Other(p)), Taken(p) \cup {f})
<1> DEFINE q == Other(p)
<1>1. /\ q \in Peers /\ channel[q] \in Seq(Frames)
      /\ Orderly(channel[q], Past(q), Taken(p))
      /\ signalingOpen => Kept(channel[q], Past(q), Taken(p))
  BY Ends DEF Inv, Typed, WireInv
<1> HIDE DEF q
<1>2. channel[q] # << >>
  BY DEF q
<1>3. /\ Orderly(Tail(channel[q]), Past(q), Taken(p) \cup {Head(channel[q])})
      /\ Kept(channel[q], Past(q), Taken(p)) =>
            Kept(Tail(channel[q]), Past(q), Taken(p) \cup {Head(channel[q])})
      /\ Tail(channel[q]) \in Seq(Frames)
      /\ Head(channel[q]) \in Frames /\ Head(channel[q]) \notin Taken(p)
  BY <1>1, <1>2, TakeOrderly, Zenon
<1> QED
  BY <1>1, <1>3 DEF q

LEMMA ReceiveInv ==
    ASSUME Inv, NEW p \in Peers \ browsers, Receive(p) PROVE Inv'
<1> DEFINE f == Head(channel[Other(p)])
           at == IF f = "ready" THEN "ack" ELSE "loop"
<1>1. Typed /\ EndInv(p) /\ p \in Peers /\ Other(p) # p /\ Other(p) \in Peers
  BY Ends DEF Inv
<1>2. /\ Main(p) = "receive" /\ channel[Other(p)] # << >>
      /\ channel' = [channel EXCEPT ![Other(p)] = Tail(channel[Other(p)])]
      /\ Step(p, "main", at, FALSE)
      /\ UNCHANGED <<local_open, local_gathering_complete, acknowledgement_sent,
                     handshake_complete, error, link>>
  BY DEF Receive
<1>3. /\ remote_description' = IF f = "description" THEN [remote_description EXCEPT ![p] = "set"]
                               ELSE remote_description
      /\ candidate' = [candidate EXCEPT ![p] =
                         IF f = "candidate" /\ remote_description[p] = "none" THEN "pending"
                         ELSE IF f = "candidate" \/ (f = "description" /\ candidate[p] = "pending")
                              THEN "added"
                         ELSE candidate[p]]
      /\ remote_ready' = [remote_ready EXCEPT ![p] = remote_ready[p] \/ f = "ready"]
      /\ remote_acknowledged' =
            [remote_acknowledged EXCEPT ![p] = remote_acknowledged[p] \/ f = "acknowledged"]
  BY DEF Receive
<1>4. /\ f \in Frames \ Taken(p) /\ Tail(channel[Other(p)]) \in Seq(Frames)
      /\ Orderly(Tail(channel[Other(p)]), Past(Other(p)), Taken(p) \cup {f})
      /\ signalingOpen => Kept(Tail(channel[Other(p)]), Past(Other(p)), Taken(p) \cup {f})
  BY <1>1, <1>2, NextFrame
<1>5. at \in MainPlaces /\ at \notin Acking /\ at \notin Leaving
  BY DEF MainPlaces, Acking, Leaving
<1> HIDE DEF f, at
<1>6. /\ pc' \in [Peers -> [Threads -> Places]] /\ Main(p)' = at /\ pc'[Other(p)] = pc[Other(p)]
      /\ pc'[p]["opener"] = pc[p]["opener"] /\ pc'[p]["gatherer"] = pc[p]["gatherer"]
  BY <1>1, <1>2, <1>5, MainGoes
<1>7. /\ remote_description' \in [Peers -> {"none", "applying", "set"}]
      /\ remote_description'[Other(p)] = remote_description[Other(p)]
      /\ remote_description'[p] = IF f = "description" THEN "set" ELSE remote_description[p]
  BY <1>1, <1>3 DEF Typed
<1>8. /\ candidate' \in [Peers -> {"none", "pending", "added"}]
      /\ candidate'[Other(p)] = candidate[Other(p)]
      /\ candidate'[p] = IF f = "candidate" /\ remote_description[p] = "none" THEN "pending"
                         ELSE IF f = "candidate" \/ (f = "description" /\ candidate[p] = "pending")
                              THEN "added"
                         ELSE candidate[p]
  BY <1>1, <1>3 DEF Typed
<1>9. /\ remote_ready' \in [Peers -> BOOLEAN] /\ remote_ready'[Other(p)] = remote_ready[Other(p)]
      /\ remote_ready'[p] <=> (remote_ready[p] \/ f = "ready")
  BY <1>1, <1>3 DEF Typed
<1>10. /\ remote_acknowledged' \in [Peers -> BOOLEAN]
       /\ remote_acknowledged'[Other(p)] = remote_acknowledged[Other(p)]
       /\ remote_acknowledged'[p] <=> (remote_acknowledged[p] \/ f = "acknowledged")
  BY <1>1, <1>3 DEF Typed
<1>11. /\ channel' \in [Peers -> Seq(Frames)] /\ channel'[p] = channel[p]
       /\ channel'[Other(p)] = Tail(channel[Other(p)])
  BY <1>1, <1>2, <1>4 DEF Typed
<1>12. \A t \in Threads : pc'[p][t] \in Acking <=> pc[p][t] \in Acking
  BY <1>2, <1>5, <1>6 DEF Threads, Main, Acking
<1>13. Past(p)' = Past(p)
  BY <1>2, <1>6, <1>12 DEF Past
<1>14. Taken(p)' = Taken(p) \cup {f}
  <2>1. \A g \in Frames : g \in Taken(p)' <=> g \in Taken(p) \/ g = f
    BY <1>1, <1>4, <1>7, <1>8, <1>9, <1>10 DEF Taken, Frames, Typed
  <2>2. Taken(p) \subseteq Frames /\ Taken(p)' \subseteq Frames
    BY DEF Taken
  <2> QED
    BY <1>4, <2>1, <2>2
<1>15. View(Other(p))' = View(Other(p))
  BY <1>2, <1>6, <1>7, <1>8, <1>9, <1>10 DEF View
<1>16. WireInv(p)'
  BY <1>2, <1>11, <1>13, <1>15, NothingSent DEF link
<1>17. WireInv(Other(p))'
  <2>1. Past(Other(p))' = Past(Other(p)) /\ Other(Other(p)) = p
    BY <1>1, <1>15, Ends, SameSets
  <2> QED
    BY <1>2, <1>4, <1>11, <1>14, <2>1 DEF WireInv, link
<1>18. EndInv(p)'
  <2>1. PlacesOK(p)'
    BY <1>1, <1>2, <1>5, <1>6 DEF EndInv, PlacesOK, link
  <2>2. OneAcknowledges(p)'
    BY <1>1, <1>2, <1>9, <1>12 DEF EndInv, OneAcknowledges, AckDue
  <2>3. FlagsTrue(p)'
    <3>1. local_open'[p] => \A q \in Peers : remote_description'[q] = "set"
      BY <1>1, <1>2, <1>7, Ends DEF EndInv, FlagsTrue
    <3>2. candidate'[p] = "pending" => remote_description'[p] # "set"
      BY <1>1, <1>7, <1>8 DEF EndInv, FlagsTrue, Frames
    <3> QED
      BY <1>1, <1>2, <1>5, <1>6, <3>1, <3>2 DEF EndInv, FlagsTrue, Main, Returned, Leaving, link
  <2> QED
    BY <2>1, <2>2, <2>3 DEF EndInv
<1>19. Typed'
  BY <1>1, <1>2, <1>6, <1>7, <1>8, <1>9, <1>10, <1>11 DEF Typed, link
<1> QED
  BY <1>1, <1>2, <1>7, <1>15, <1>16, <1>17, <1>18, <1>19, OtherKept DEF link

---------------------------------------------------------------------------
(* A browser end *)

\* Where a browser's flags and handlers leave it
LEMMA BrowserPast ==
    ASSUME NEW p \in browsers, PlacesOK(p)
    PROVE  /\ Main(p) \notin Acking /\ \A t \in Threads : pc[p][t] \notin Acking
           /\ "ready" \in Past(p) <=> local_open[p]
           /\ "acknowledged" \in Past(p) <=> acknowledgement_sent[p]
BY DEF PlacesOK, Past, Main, Acking, Threads, Frames

\* The frames a handler sends at its end, one after the other
LEMMA SentOrderly ==
    ASSUME NEW c \in Seq(Frames), NEW past, NEW taken, NEW ready \in BOOLEAN, NEW acks \in BOOLEAN,
           Orderly(c, past, taken), signalingOpen => Kept(c, past, taken),
           ready => signalingOpen /\ "ready" \notin past,
           acks => /\ signalingOpen
                   /\ "acknowledged" \notin past
                   /\ "candidate" \in past
    PROVE  LET frames == (c \o IF ready THEN <<"ready">> ELSE << >>)
                            \o IF acks THEN <<"acknowledged">> ELSE << >>
               passed == (past \cup IF ready THEN {"ready"} ELSE {})
                            \cup IF acks THEN {"acknowledged"} ELSE {}
           IN  /\ frames \in Seq(Frames) /\ Orderly(frames, passed, taken)
               /\ signalingOpen => Kept(frames, passed, taken)
<1> DEFINE c1 == c \o IF ready THEN <<"ready">> ELSE << >>
           p1 == past \cup IF ready THEN {"ready"} ELSE {}
           c2 == c1 \o IF acks THEN <<"acknowledged">> ELSE << >>
           p2 == p1 \cup IF acks THEN {"acknowledged"} ELSE {}
<1>1. "ready" \in Frames /\ "acknowledged" \in Frames /\ "ready" # "acknowledged"
  BY DEF Frames
<1>2. /\ c1 \in Seq(Frames) /\ Orderly(c1, p1, taken) /\ (signalingOpen => Kept(c1, p1, taken))
  <2>1. CASE ready
    <3>1. c1 = Append(c, "ready") /\ Append(c, "ready") \in Seq(Frames) /\ p1 = past \cup {"ready"}
      BY <1>1, <2>1
    <3>2. /\ Orderly(Append(c, "ready"), past \cup {"ready"}, taken)
          /\ Kept(Append(c, "ready"), past \cup {"ready"}, taken)
      BY <1>1, <2>1, SendOrderly
    <3> QED
      BY <3>1, <3>2
  <2>2. CASE ~ready
    <3>1. c1 = c /\ p1 = past
      BY <2>2
    <3> QED
      BY <3>1
  <2> QED
    BY <2>1, <2>2
<1>3. acks => "acknowledged" \notin p1 /\ "candidate" \in p1
  BY <1>1
<1> HIDE DEF c1, p1
<1>4. c2 \in Seq(Frames) /\ Orderly(c2, p2, taken) /\ (signalingOpen => Kept(c2, p2, taken))
  <2>1. CASE acks
    <3>1. /\ c2 = Append(c1, "acknowledged") /\ Append(c1, "acknowledged") \in Seq(Frames)
          /\ p2 = p1 \cup {"acknowledged"}
      BY <1>1, <1>2, <2>1
    <3>2. /\ Orderly(Append(c1, "acknowledged"), p1 \cup {"acknowledged"}, taken)
          /\ Kept(Append(c1, "acknowledged"), p1 \cup {"acknowledged"}, taken)
      BY <1>1, <1>2, <1>3, <2>1, SendOrderly
    <3> QED
      BY <3>1, <3>2
  <2>2. CASE ~acks
    <3>1. c2 = c1 /\ p2 = p1
      BY <1>2, <2>2
    <3> QED
      BY <1>2, <3>1
  <2> QED
    BY <2>1, <2>2
<1> QED
  BY <1>4 DEF c1, p1

\* A handler that opened the end or not, took a frame or not, and changed flags of its
\* own end at will, but none back.
LEMMA ConcludeInv ==
    ASSUME Inv, NEW p \in browsers, Running(p), NEW opens \in BOOLEAN, NEW frames,
           NEW rest \in Seq(Frames), Conclude(p, frames, rest),
           frames = IF opens THEN <<"ready">> ELSE << >>,
           local_open' \in [Peers -> BOOLEAN], local_gathering_complete' \in [Peers -> BOOLEAN],
           remote_ready' \in [Peers -> BOOLEAN], remote_acknowledged' \in [Peers -> BOOLEAN],
           remote_description' \in [Peers -> {"none", "applying", "set"}],
           candidate' \in [Peers -> {"none", "pending", "added"}],
           local_open'[Other(p)] = local_open[Other(p)],
           local_gathering_complete'[Other(p)] = local_gathering_complete[Other(p)],
           remote_ready'[Other(p)] = remote_ready[Other(p)],
           remote_acknowledged'[Other(p)] = remote_acknowledged[Other(p)],
           remote_description'[Other(p)] = remote_description[Other(p)],
           candidate'[Other(p)] = candidate[Other(p)],
           opens => signalingOpen /\ ~local_open[p],
           local_open'[p] <=> (local_open[p] \/ opens),
           local_gathering_complete[p] => local_gathering_complete'[p],
           remote_ready[p] => remote_ready'[p], remote_acknowledged[p] => remote_acknowledged'[p],
           remote_description[p] = "set" => remote_description'[p] = "set",
           local_gathering_complete'[p] => pc[p]["gatherer"] \notin {"idle", "candidate"},
           local_open'[p] => \A q \in Peers : remote_description'[q] = "set",
           candidate'[p] = "pending" => remote_description'[p] # "set",
           Orderly(rest, Past(Other(p)), Taken(p)'),
           signalingOpen => Kept(rest, Past(Other(p)), Taken(p)')
    PROVE  Inv'
<1>1. /\ Typed /\ EndInv(p) /\ WireInv(p) /\ p \in Peers /\ Other(p) # p /\ Other(p) \in Peers
      /\ Other(Other(p)) = p
  <2>1. p \in Peers
    BY EndsAssumption DEF Inv, Typed
  <2> QED
    BY <2>1, Ends DEF Inv
<1>2. PICK acks \in BOOLEAN :
        /\ acks <=> (AckDue(p)' /\ ~acknowledgement_sent[p])
        /\ acknowledgement_sent' = [acknowledgement_sent EXCEPT ![p] = acknowledgement_sent[p] \/ acks]
        /\ acks => signalingOpen
        /\ channel' = [channel EXCEPT
                         ![p] = (channel[p] \o IF opens THEN <<"ready">> ELSE << >>)
                                   \o IF acks THEN <<"acknowledged">> ELSE << >>,
                         ![Other(p)] = rest]
        /\ Step(p, "main", IF local_open'[p] /\ (acknowledgement_sent[p] \/ acks)
                              /\ remote_acknowledged'[p]
                           THEN "returned" ELSE Main(p), FALSE)
        /\ UNCHANGED <<handshake_complete, error, link>>
  <2> WITNESS (AckDue(p)' /\ ~acknowledgement_sent[p]) \in BOOLEAN
  <2> QED
    BY DEF Conclude
<1> DEFINE sent == (channel[p] \o IF opens THEN <<"ready">> ELSE << >>)
                      \o IF acks THEN <<"acknowledged">> ELSE << >>
           passed == (Past(p) \cup IF opens THEN {"ready"} ELSE {})
                        \cup IF acks THEN {"acknowledged"} ELSE {}
<1>3. PICK at \in MainPlaces :
      /\ Step(p, "main", at, FALSE)
      /\ at \in {"loop", "returned"} /\ at \notin Acking
      /\ at = "returned" => \/ Main(p) = "returned"
                            \/ local_open'[p] /\ (acknowledgement_sent[p] \/ acks) /\ remote_acknowledged'[p]
  BY <1>1, <1>2 DEF EndInv, PlacesOK, Running, Failed, MainPlaces, Acking
<1>4. /\ pc' \in [Peers -> [Threads -> Places]] /\ Main(p)' = at /\ pc'[Other(p)] = pc[Other(p)]
      /\ pc'[p]["opener"] = pc[p]["opener"] /\ pc'[p]["gatherer"] = pc[p]["gatherer"]
  BY <1>1, <1>3, MainGoes
<1>5. /\ acknowledgement_sent' \in [Peers -> BOOLEAN]
      /\ acknowledgement_sent'[Other(p)] = acknowledgement_sent[Other(p)]
      /\ acknowledgement_sent'[p] <=> (acknowledgement_sent[p] \/ acks)
  BY <1>1, <1>2 DEF Typed
<1>6. PlacesOK(p) /\ PlacesOK(p)'
  BY <1>1, <1>2, <1>3, <1>4 DEF EndInv, PlacesOK, link
<1>7. /\ "ready" \in Past(p) <=> local_open[p]
      /\ "acknowledged" \in Past(p) <=> acknowledgement_sent[p]
      /\ \A t \in Threads : pc[p][t] \notin Acking
      /\ \A t \in Threads : pc'[p][t] \notin Acking
  <2>1. \A t \in Threads : pc'[p][t] \notin Acking
    BY <1>1, <1>4, <1>3, <1>6 DEF PlacesOK, Threads, Main, Acking
  <2> QED
    BY <1>6, <2>1, BrowserPast
<1>8. Past(p)' = passed
  <2>1. /\ passed \subseteq Frames /\ Past(p)' \subseteq Frames
    BY DEF Past, Frames
  <2>2. \A g \in Frames : g \in Past(p)' <=> g \in passed
    BY <1>4, <1>5, <1>6, <1>7 DEF Past, PlacesOK, Frames
  <2> QED
    BY <2>1, <2>2
<1>9. OneAcknowledges(p)'
  <2>1. acks => AckDue(p)'
    BY <1>2
  <2>2. acknowledgement_sent[p] => AckDue(p)'
    BY <1>1 DEF EndInv, OneAcknowledges, AckDue
  <2> QED
    BY <1>5, <1>7, <2>1, <2>2 DEF OneAcknowledges
<1>10. FlagsTrue(p)'
  <2>1. /\ Main(p)' = "returned" => LoopDone(p)' /\ acknowledgement_sent'[p]
        /\ Main(p)' \in {"loop", "returned"}
    <3>1. Main(p) = "returned" => LoopDone(p)' /\ acknowledgement_sent'[p]
      BY <1>1, <1>5 DEF EndInv, FlagsTrue, Returned, LoopDone
    <3> QED
      BY <1>3, <1>4, <1>5, <3>1 DEF LoopDone
  <2>2. browsers' = browsers
    BY <1>2 DEF link
  <2> QED
    BY <1>4, <2>1, <2>2 DEF FlagsTrue, Returned
<1>11. EndInv(p)'
  BY <1>6, <1>9, <1>10 DEF EndInv
<1>12. View(Other(p))' = View(Other(p))
  BY <1>4, <1>5 DEF View
<1>13. /\ sent \in Seq(Frames) /\ Orderly(sent, passed, Taken(Other(p)))
       /\ signalingOpen => Kept(sent, passed, Taken(Other(p)))
  <2>1. acks => "acknowledged" \notin Past(p) /\ "candidate" \in Past(p)
    BY <1>2, <1>7 DEF AckDue, Past, Frames
  <2>2. /\ channel[p] \in Seq(Frames) /\ Orderly(channel[p], Past(p), Taken(Other(p)))
        /\ signalingOpen => Kept(channel[p], Past(p), Taken(Other(p)))
    BY <1>1 DEF Typed, WireInv
  <2>3. opens => signalingOpen /\ "ready" \notin Past(p)
    BY <1>7
  <2> QED
    BY <1>2, <2>1, <2>2, <2>3, SentOrderly
<1> HIDE DEF sent, passed
<1>14. channel' \in [Peers -> Seq(Frames)] /\ channel'[p] = sent /\ channel'[Other(p)] = rest
  <2>1. channel' = [channel EXCEPT ![p] = sent, ![Other(p)] = rest]
    BY <1>2 DEF sent
  <2> QED
    BY <1>1, <1>13, <2>1 DEF Typed
<1>15. WireInv(p)'
  <2>1. Taken(Other(p))' = Taken(Other(p))
    BY <1>1, <1>12, SameSets
  <2> QED
    BY <1>2, <1>8, <1>13, <1>14, <2>1 DEF WireInv, link
<1>16. WireInv(Other(p))'
  <2>1. Past(Other(p))' = Past(Other(p))
    BY <1>1, <1>12, SameSets
  <2> QED
    BY <1>1, <1>2, <1>14, <2>1 DEF WireInv, link
<1>17. Typed'
  BY <1>1, <1>2, <1>4, <1>5, <1>14 DEF Typed, link
<1> QED
  BY <1>1, <1>2, <1>11, <1>12, <1>15, <1>16, <1>17, OtherKept DEF link

LEMMA BrowserSendsInv ==
    ASSUME Inv, NEW p \in browsers, NEW f \in Frames, NEW before, NEW after,
           \/ f = "description" /\ before = "idle" /\ after = "candidate"
           \/ f = "candidate" /\ before = "candidate" /\ after = "complete",
           BrowserSends(p, f, before, after)
    PROVE  Inv'
<1>1. Typed /\ EndInv(p) /\ p \in Peers
  BY EndsAssumption DEF Inv, Typed
<1>2. /\ Main(p) # "failed" /\ signalingOpen /\ pc[p]["gatherer"] = before
      /\ channel' = [channel EXCEPT ![p] = Append(channel[p], f)]
      /\ Step(p, "gatherer", after, FALSE)
      /\ UNCHANGED <<flags, acknowledgement_sent, handshake_complete, error, remote, link>>
  BY DEF BrowserSends, Running, Failed
<1>3. /\ pc' \in [Peers -> [Threads -> Places]]
      /\ pc'[p]["gatherer"] = after /\ pc'[p]["opener"] = pc[p]["opener"]
      /\ pc'[Other(p)] = pc[Other(p)] /\ MainStays(p)
  <2>1. after \in GathererPlaces /\ FALSE \in BOOLEAN
    BY DEF GathererPlaces
  <2> QED
    BY <1>1, <1>2, <2>1, GathererMoves, Zenon
<1>4. Main(p)' = Main(p)
  BY <1>1, <1>3 DEF EndInv, PlacesOK, MainStays
<1>5. Past(p)' = Past(p) \cup {f} /\ f \notin Past(p) /\ f # "acknowledged"
  BY <1>2, <1>3, <1>4 DEF Past, Main, flags, Threads, Acking, Frames
<1>6. EndInv(p)'
  <2>1. PlacesOK(p)'
    BY <1>1, <1>2, <1>3, <1>4 DEF EndInv, PlacesOK, GathererPlaces, link
  <2>2. OneAcknowledges(p)'
    BY <1>1, <1>2, <1>3, <1>4 DEF EndInv, OneAcknowledges, AckDue, Main, Threads, Acking, flags
  <2>3. FlagsTrue(p)'
    BY <1>1, <1>2, <1>3, <1>4 DEF EndInv, FlagsTrue, Main, Returned, LoopDone, flags, remote, link
  <2> QED
    BY <2>1, <2>2, <2>3 DEF EndInv
<1>7. SendFrame(p, f)
  BY <1>2 DEF SendFrame
<1> QED
  BY <1>1, <1>2, <1>3, <1>5, <1>6, <1>7, SendingStep

LEMMA BrowserGatheredInv ==
    ASSUME Inv, NEW p \in browsers, BrowserGathered(p) PROVE Inv'
<1> DEFINE rest == channel[Other(p)]
<1>1. /\ Typed /\ EndInv(p) /\ p \in Peers /\ Other(p) # p /\ Other(p) \in Peers
  BY Ends, EndsAssumption DEF Inv, Typed
<1>2. /\ Running(p) /\ pc[p]["gatherer"] = "complete"
      /\ local_gathering_complete' = [local_gathering_complete EXCEPT ![p] = TRUE]
      /\ UNCHANGED <<local_open, remote_ready, remote_acknowledged, remote_description, candidate>>
      /\ Conclude(p, << >>, rest)
  BY DEF BrowserGathered, remote
<1>3. /\ local_gathering_complete' \in [Peers -> BOOLEAN]
      /\ local_gathering_complete'[Other(p)] = local_gathering_complete[Other(p)]
  BY <1>1, <1>2 DEF Typed
<1>4. /\ local_open' \in [Peers -> BOOLEAN]
      /\ remote_ready' \in [Peers -> BOOLEAN] /\ remote_acknowledged' \in [Peers -> BOOLEAN]
      /\ remote_description' \in [Peers -> {"none", "applying", "set"}]
      /\ candidate' \in [Peers -> {"none", "pending", "added"}]
  BY <1>1, <1>2 DEF Typed
<1>5. /\ rest \in Seq(Frames) /\ Orderly(rest, Past(Other(p)), Taken(p)')
      /\ signalingOpen => Kept(rest, Past(Other(p)), Taken(p)')
  <2>1. Taken(p)' = Taken(p) /\ Other(Other(p)) = p
    BY <1>1, <1>2, Ends DEF Taken
  <2> QED
    BY <1>1, <2>1 DEF Inv, WireInv, Typed
<1>6. /\ local_open'[p] => \A q \in Peers : remote_description'[q] = "set"
      /\ candidate'[p] = "pending" => remote_description'[p] # "set"
      /\ local_open'[p] <=> (local_open[p] \/ FALSE)
      /\ local_gathering_complete'[p] => pc[p]["gatherer"] \notin {"idle", "candidate"}
  BY <1>1, <1>2 DEF EndInv, FlagsTrue
<1>7. /\ local_open'[Other(p)] = local_open[Other(p)] /\ remote_ready'[Other(p)] = remote_ready[Other(p)]
      /\ remote_acknowledged'[Other(p)] = remote_acknowledged[Other(p)]
      /\ remote_description'[Other(p)] = remote_description[Other(p)]
      /\ candidate'[Other(p)] = candidate[Other(p)]
      /\ remote_ready[p] => remote_ready'[p]
      /\ remote_acknowledged[p] => remote_acknowledged'[p]
      /\ remote_description[p] = "set" => remote_description'[p] = "set"
      /\ local_gathering_complete[p] => local_gathering_complete'[p]
      /\ Running(p) /\ Conclude(p, << >>, rest)
  BY <1>1, <1>2 DEF Typed
<1>8. FALSE \in BOOLEAN /\ << >> = IF FALSE THEN <<"ready">> ELSE << >>
  OBVIOUS
<1> HIDE DEF rest
<1> QED
  BY <1>3, <1>4, <1>5, <1>6, <1>7, <1>8, ConcludeInv

LEMMA BrowserOpenInv ==
    ASSUME Inv, NEW p \in browsers, BrowserOpen(p) PROVE Inv'
<1> DEFINE rest == channel[Other(p)]
<1>1. /\ Typed /\ EndInv(p) /\ p \in Peers /\ Other(p) # p /\ Other(p) \in Peers
  BY Ends, EndsAssumption DEF Inv, Typed
<1>2. /\ Running(p) /\ ~local_open[p] /\ signalingOpen
      /\ \A q \in Peers : remote_description[q] = "set"
      /\ local_open' = [local_open EXCEPT ![p] = TRUE]
      /\ UNCHANGED <<local_gathering_complete, remote_ready, remote_acknowledged,
                     remote_description, candidate>>
      /\ Conclude(p, <<"ready">>, rest)
  BY DEF BrowserOpen, Connectable, remote
<1>3. local_open' \in [Peers -> BOOLEAN] /\ local_open'[Other(p)] = local_open[Other(p)] /\ local_open'[p]
  BY <1>1, <1>2 DEF Typed
<1>4. /\ local_gathering_complete' \in [Peers -> BOOLEAN]
      /\ remote_ready' \in [Peers -> BOOLEAN] /\ remote_acknowledged' \in [Peers -> BOOLEAN]
      /\ remote_description' \in [Peers -> {"none", "applying", "set"}]
      /\ candidate' \in [Peers -> {"none", "pending", "added"}]
  BY <1>1, <1>2 DEF Typed
<1>5. /\ rest \in Seq(Frames) /\ Orderly(rest, Past(Other(p)), Taken(p)')
      /\ signalingOpen => Kept(rest, Past(Other(p)), Taken(p)')
  <2>1. Taken(p)' = Taken(p) /\ Other(Other(p)) = p
    BY <1>1, <1>2, Ends DEF Taken
  <2> QED
    BY <1>1, <2>1 DEF Inv, WireInv, Typed
<1>6. /\ local_open'[p] => \A q \in Peers : remote_description'[q] = "set"
      /\ candidate'[p] = "pending" => remote_description'[p] # "set"
      /\ local_gathering_complete'[p] => pc[p]["gatherer"] \notin {"idle", "candidate"}
  BY <1>1, <1>2 DEF EndInv, FlagsTrue
<1> HIDE DEF rest
<1> QED
  BY <1>2, <1>3, <1>4, <1>5, <1>6, ConcludeInv

LEMMA BrowserReceiveInv ==
    ASSUME Inv, NEW p \in browsers, BrowserReceive(p) PROVE Inv'
<1> DEFINE f == Head(channel[Other(p)])
           rest == Tail(channel[Other(p)])
<1>1. Typed /\ EndInv(p) /\ p \in Peers /\ Other(p) # p /\ Other(p) \in Peers
  BY Ends, EndsAssumption DEF Inv, Typed
<1>2. /\ Running(p) /\ channel[Other(p)] # << >> /\ Conclude(p, << >>, rest)
      /\ UNCHANGED <<local_open, local_gathering_complete>>
  BY DEF BrowserReceive
<1>3. /\ remote_description' = IF f = "description"
                               THEN [remote_description EXCEPT ![p] = "applying"]
                               ELSE remote_description
      /\ candidate' = IF f = "candidate"
                      THEN [candidate EXCEPT ![p] =
                              IF remote_description[p] = "set" THEN "added" ELSE "pending"]
                      ELSE candidate
      /\ remote_ready' = [remote_ready EXCEPT ![p] = remote_ready[p] \/ f = "ready"]
      /\ remote_acknowledged' =
            [remote_acknowledged EXCEPT ![p] = remote_acknowledged[p] \/ f = "acknowledged"]
  BY DEF BrowserReceive
<1>4. /\ f \in Frames \ Taken(p) /\ rest \in Seq(Frames)
      /\ Orderly(rest, Past(Other(p)), Taken(p) \cup {f})
      /\ signalingOpen => Kept(rest, Past(Other(p)), Taken(p) \cup {f})
  BY <1>1, <1>2, NextFrame
<1> HIDE DEF f, rest
<1>5. /\ remote_description' \in [Peers -> {"none", "applying", "set"}]
      /\ remote_description'[Other(p)] = remote_description[Other(p)]
      /\ remote_description'[p] = IF f = "description" THEN "applying" ELSE remote_description[p]
  BY <1>1, <1>3 DEF Typed
<1>6. /\ candidate' \in [Peers -> {"none", "pending", "added"}]
      /\ candidate'[Other(p)] = candidate[Other(p)]
      /\ candidate'[p] = IF f = "candidate"
                         THEN IF remote_description[p] = "set" THEN "added" ELSE "pending"
                         ELSE candidate[p]
  BY <1>1, <1>3 DEF Typed
<1>7. /\ remote_ready' \in [Peers -> BOOLEAN] /\ remote_ready'[Other(p)] = remote_ready[Other(p)]
      /\ remote_ready'[p] <=> (remote_ready[p] \/ f = "ready")
  BY <1>1, <1>3 DEF Typed
<1>8. /\ remote_acknowledged' \in [Peers -> BOOLEAN]
      /\ remote_acknowledged'[Other(p)] = remote_acknowledged[Other(p)]
      /\ remote_acknowledged'[p] <=> (remote_acknowledged[p] \/ f = "acknowledged")
  BY <1>1, <1>3 DEF Typed
<1>9. Taken(p)' = Taken(p) \cup {f}
  <2>1. \A g \in Frames : g \in Taken(p)' <=> g \in Taken(p) \/ g = f
    BY <1>1, <1>4, <1>5, <1>6, <1>7, <1>8 DEF Taken, Frames, Typed
  <2>2. Taken(p) \subseteq Frames /\ Taken(p)' \subseteq Frames
    BY DEF Taken
  <2> QED
    BY <1>4, <2>1, <2>2
\* A description is taken once, so that one that is set stays so.
<1>10. remote_description[p] # "none" => f # "description"
  BY <1>4 DEF Taken, Frames
<1>11. /\ local_open'[p] => \A q \in Peers : remote_description'[q] = "set"
       /\ candidate'[p] = "pending" => remote_description'[p] # "set"
       /\ local_gathering_complete'[p] => pc[p]["gatherer"] \notin {"idle", "candidate"}
  <2>1. local_open'[p] => \A q \in Peers : remote_description'[q] = "set"
    BY <1>1, <1>2, <1>5, <1>10, Ends DEF EndInv, FlagsTrue
  <2>2. candidate'[p] = "pending" => remote_description'[p] # "set"
    BY <1>1, <1>5, <1>6 DEF EndInv, FlagsTrue
  <2> QED
    BY <1>1, <1>2, <2>1, <2>2 DEF EndInv, FlagsTrue
<1>12. /\ local_open' \in [Peers -> BOOLEAN] /\ local_gathering_complete' \in [Peers -> BOOLEAN]
       /\ local_open'[Other(p)] = local_open[Other(p)]
       /\ local_gathering_complete'[Other(p)] = local_gathering_complete[Other(p)]
       /\ local_open'[p] <=> (local_open[p] \/ FALSE)
       /\ local_gathering_complete[p] => local_gathering_complete'[p]
       /\ remote_ready[p] => remote_ready'[p]
       /\ remote_acknowledged[p] => remote_acknowledged'[p]
       /\ remote_description[p] = "set" => remote_description'[p] = "set"
  BY <1>1, <1>2, <1>5, <1>7, <1>8, <1>10 DEF Typed
<1>13. /\ rest \in Seq(Frames) /\ Orderly(rest, Past(Other(p)), Taken(p)')
       /\ signalingOpen => Kept(rest, Past(Other(p)), Taken(p)')
  BY <1>4, <1>9
<1>14. FALSE \in BOOLEAN /\ << >> = IF FALSE THEN <<"ready">> ELSE << >>
  OBVIOUS
<1>15. /\ remote_description'[Other(p)] = remote_description[Other(p)]
       /\ candidate'[Other(p)] = candidate[Other(p)]
       /\ remote_ready'[Other(p)] = remote_ready[Other(p)]
       /\ remote_acknowledged'[Other(p)] = remote_acknowledged[Other(p)]
       /\ remote_description' \in [Peers -> {"none", "applying", "set"}]
       /\ candidate' \in [Peers -> {"none", "pending", "added"}]
       /\ remote_ready' \in [Peers -> BOOLEAN] /\ remote_acknowledged' \in [Peers -> BOOLEAN]
       /\ Running(p) /\ Conclude(p, << >>, rest)
  BY <1>2, <1>5, <1>6, <1>7, <1>8
<1> QED
  BY <1>11, <1>12, <1>13, <1>14, <1>15, ConcludeInv

LEMMA BrowserDescribedInv ==
    ASSUME Inv, NEW p \in browsers, BrowserDescribed(p) PROVE Inv'
<1>1. Typed /\ EndInv(p) /\ p \in Peers /\ Other(p) # p /\ Other(p) \in Peers
  BY Ends, EndsAssumption DEF Inv, Typed
<1>2. /\ remote_description[p] = "applying"
      /\ remote_description' = [remote_description EXCEPT ![p] = "set"]
      /\ candidate' = [candidate EXCEPT ![p] = IF candidate[p] = "pending" THEN "added" ELSE candidate[p]]
      /\ UNCHANGED <<pc, flags, acknowledgement_sent, handshake_complete, error, channel, link>>
  BY DEF BrowserDescribed
<1>3. /\ remote_description' \in [Peers -> {"none", "applying", "set"}]
      /\ remote_description'[Other(p)] = remote_description[Other(p)] /\ remote_description'[p] = "set"
  BY <1>1, <1>2 DEF Typed
<1>4. /\ candidate' \in [Peers -> {"none", "pending", "added"}]
      /\ candidate'[Other(p)] = candidate[Other(p)]
      /\ candidate'[p] = IF candidate[p] = "pending" THEN "added" ELSE candidate[p]
  BY <1>1, <1>2 DEF Typed
<1>5. Past(p)' = Past(p) /\ Taken(p)' = Taken(p)
  BY <1>2, <1>3, <1>4 DEF Past, Taken, flags
<1>6. View(Other(p))' = View(Other(p))
  BY <1>2, <1>3, <1>4 DEF View, flags
<1>7. EndInv(p)'
  <2>1. PlacesOK(p)' /\ OneAcknowledges(p)'
    BY <1>1, <1>2 DEF EndInv, PlacesOK, OneAcknowledges, AckDue, Main, flags, link
  <2>2. FlagsTrue(p)'
    BY <1>1, <1>2, <1>3, <1>4 DEF EndInv, FlagsTrue, Main, Returned, LoopDone, flags, link
  <2> QED
    BY <2>1, <2>2 DEF EndInv
<1>8. Typed'
  BY <1>1, <1>2, <1>3, <1>4 DEF Typed, flags, link
<1>9. WireInv(p)' /\ WireInv(Other(p))'
  BY <1>1, <1>2, <1>5, <1>6, NothingSent, NothingTaken DEF link
<1> QED
  BY <1>1, <1>2, <1>3, <1>6, <1>7, <1>8, <1>9, OtherKept DEF link

LEMMA BrowserClosedInv ==
    ASSUME Inv, NEW p \in browsers, BrowserClosed(p) PROVE Inv'
<1>1. p \in Peers
  BY EndsAssumption DEF Inv, Typed
<1> QED
  BY <1>1, FailInv DEF BrowserClosed, Acking

---------------------------------------------------------------------------
(* The relay and the clock *)

LEMMA SignalingLostInv ==
    ASSUME Inv, SignalingLost PROVE Inv'
<1>1. /\ signalingOpen' = FALSE
      /\ UNCHANGED <<pc, flags, acknowledgement_sent, handshake_complete, error, remote,
                     browsers, expired>>
      /\ channel' = channel \/ channel' = [q \in Peers |-> << >>]
  BY DEF SignalingLost
<1>2. channel' \in [Peers -> Seq(Frames)]
  <2>1. << >> \in Seq(Frames)
    OBVIOUS
  <2> QED
    BY <1>1, <2>1 DEF Inv, Typed
<1>3. Typed'
  BY <1>1, <1>2 DEF Inv, Typed, flags, remote
<1>4. ASSUME NEW p \in Peers PROVE EndInv(p)' /\ WireInv(p)'
  <2>1. View(p)' = View(p) /\ View(Other(p))' = View(Other(p))
    BY <1>1 DEF View, flags, remote
  <2>2. EndInv(p)'
    BY <1>1 DEF Inv, EndInv, PlacesOK, OneAcknowledges, AckDue, FlagsTrue, Main, Returned, LoopDone,
                flags, remote
  <2>3. Orderly(channel[p], Past(p)', Taken(Other(p))')
    BY <2>1, SameSets, Ends DEF Inv, WireInv
  <2>4. channel'[p] = channel[p] \/ channel'[p] = << >>
    BY <1>1
  <2>5. Orderly(channel'[p], Past(p)', Taken(Other(p))')
    BY <2>3, <2>4, LostOrderly
  <2> QED
    BY <1>1, <2>2, <2>5 DEF WireInv
<1> QED
  BY <1>3, <1>4 DEF Inv

LEMMA ExpireInv ==
    ASSUME Inv, NEW p \in Timed, Expire(p) PROVE Inv'
<1>1. /\ expired' = expired \cup {p} /\ p \in Timed \ browsers
      /\ UNCHANGED <<pc, flags, acknowledgement_sent, handshake_complete, error, remote,
                     channel, browsers, signalingOpen>>
  BY DEF Expire
<1>2. Typed'
  BY <1>1 DEF Inv, Typed, flags, remote
<1>3. ASSUME NEW q \in Peers PROVE EndInv(q)' /\ WireInv(q)'
  <2>1. View(q)' = View(q) /\ View(Other(q))' = View(Other(q))
    BY <1>1 DEF View, flags, remote
  <2>2. EndInv(q)'
    BY <1>1 DEF Inv, EndInv, PlacesOK, OneAcknowledges, AckDue, FlagsTrue, Main, Returned, LoopDone,
                flags, remote
  <2>3. Past(q)' = Past(q) /\ Taken(Other(q))' = Taken(Other(q))
    BY <2>1, SameSets, Ends
  <2> QED
    BY <1>1, <2>2, <2>3 DEF Inv, WireInv
<1> QED
  BY <1>2, <1>3 DEF Inv

LEMMA StutterInv ==
    ASSUME Inv, UNCHANGED vars PROVE Inv'
<1>1. UNCHANGED <<pc, local_open, local_gathering_complete, remote_ready, remote_acknowledged,
                  acknowledgement_sent, handshake_complete, error, remote_description, candidate,
                  channel, browsers, signalingOpen, expired>>
  BY DEF vars, flags, remote, link
<1>2. Typed'
  BY <1>1 DEF Inv, Typed
<1>3. ASSUME NEW q \in Peers PROVE EndInv(q)' /\ WireInv(q)'
  <2>1. EndInv(q)'
    BY <1>1 DEF Inv, EndInv, PlacesOK, OneAcknowledges, AckDue, FlagsTrue, Main, Returned, LoopDone
  <2>2. Past(q)' = Past(q) /\ Taken(Other(q))' = Taken(Other(q))
    BY <1>1 DEF Past, Taken
  <2> QED
    BY <1>1, <2>1, <2>2 DEF Inv, WireInv
<1> QED
  BY <1>2, <1>3 DEF Inv

---------------------------------------------------------------------------
(* The whole *)

LEMMA InitInv == Init => Inv
<1> SUFFICES ASSUME Init PROVE Inv
  OBVIOUS
<1>1. Typed
  <2>1. << >> \in Seq(Frames)
    OBVIOUS
  <2>2. pc \in [Peers -> [Threads -> Places]]
    BY DEF Init, Places, MainPlaces, OpenerPlaces
  <2> QED
    BY <2>1, <2>2 DEF Init, Typed
<1>2. ASSUME NEW p \in Peers PROVE EndInv(p) /\ WireInv(p)
  <2>1. /\ pc[p]["main"] = "loop" /\ pc[p]["opener"] = "idle" /\ pc[p]["gatherer"] = "idle"
        /\ ~local_open[p] /\ ~local_gathering_complete[p] /\ ~acknowledgement_sent[p]
        /\ candidate[p] = "none" /\ channel[p] = << >>
    BY DEF Init, Threads
  <2>2. \A t \in Threads : pc[p][t] \notin Acking
    BY <2>1 DEF Threads, Acking
  <2>3. EndInv(p)
    BY <2>1, <2>2 DEF EndInv, PlacesOK, OneAcknowledges, FlagsTrue, Main, Returned,
                      MainPlaces, OpenerPlaces, GathererPlaces
  <2>4. Past(p) = {} /\ Taken(Other(p)) = {}
    <3>1. /\ remote_description[Other(p)] = "none" /\ candidate[Other(p)] = "none"
          /\ ~remote_ready[Other(p)] /\ ~remote_acknowledged[Other(p)]
      BY Ends DEF Init
    <3> QED
      BY <2>1, <3>1 DEF Past, Taken, Frames
  <2>5. Len(<< >>) = 0
    OBVIOUS
  <2> QED
    BY <2>1, <2>3, <2>4, <2>5 DEF WireInv, Orderly, Kept
<1> QED
  BY <1>1, <1>2 DEF Inv

LEMMA NextInv == Inv /\ [Next]_vars => Inv'
<1> SUFFICES ASSUME Inv, [Next]_vars PROVE Inv'
  OBVIOUS
<1>1. ASSUME NEW p \in Peers \ browsers, NEW t \in Threads, AcknowledgeStep(p, t) PROVE Inv'
  BY <1>1, TakeOnAckInv, CheckCompleteInv, SendAckInv DEF AcknowledgeStep
<1>2. "main" \in Threads /\ "opener" \in Threads /\ "gatherer" \in Threads
  BY DEF Threads
<1>3. ASSUME NEW p \in Peers \ browsers, MainStep(p) PROVE Inv'
  BY <1>1, <1>2, <1>3, LoopInv, ReceiveInv, ReceiveFailsInv, WaitInv DEF MainStep
<1>4. ASSUME NEW p \in Peers \ browsers, OpenerStep(p) PROVE Inv'
  BY <1>1, <1>2, <1>4, SendReadyInv, NotifyProgressInv DEF OpenerStep
<1>5. ASSUME NEW p \in Peers \ browsers, GathererStep(p) PROVE Inv'
  BY <1>1, <1>2, <1>5, LocalDescriptionInv, LocalCandidateInv, GatheringCompleteInv,
     NotifyProgressInv DEF GathererStep
<1>6. ASSUME NEW p \in browsers, BrowserStep(p) PROVE Inv'
  <2>1. "description" \in Frames /\ "candidate" \in Frames
    BY DEF Frames
  <2>2. CASE BrowserSends(p, "description", "idle", "candidate")
    BY <2>1, <2>2, BrowserSendsInv
  <2>3. CASE BrowserSends(p, "candidate", "candidate", "complete")
    BY <2>1, <2>3, BrowserSendsInv
  <2> QED
    BY <1>6, <2>2, <2>3, BrowserGatheredInv, BrowserReceiveInv, BrowserDescribedInv,
       BrowserClosedInv DEF BrowserStep
<1> QED
  BY <1>3, <1>4, <1>5, <1>6, OpenInv, BrowserOpenInv, SignalingLostInv, ExpireInv, StutterInv
     DEF Next

LEMMA Invariant == Spec => []Inv
BY InitInv, NextInv, PTL DEF Spec

\* TypeOK of Bootstrap, whose bound on the frames under way follows from each being sent
\* once (send_signal is called once for each by webrtc_tcp_bootstrap.cpp and remoe-client.js).
THEOREM TypeCorrect == Spec => []TypeOK
<1>1. Inv => TypeOK
  <2> SUFFICES ASSUME Inv PROVE TypeOK
    OBVIOUS
  <2>1. ASSUME NEW p \in Peers
        PROVE  /\ pc[p]["main"] \in MainPlaces /\ pc[p]["opener"] \in OpenerPlaces
               /\ pc[p]["gatherer"] \in GathererPlaces
               /\ remote_description[p] \in {"none", "applying", "set"}
               /\ candidate[p] \in {"none", "pending", "added"}
               /\ channel[p] \in Seq(Frames)
    BY DEF Inv, EndInv, PlacesOK, Typed, Main
  <2>2. ASSUME NEW p \in Peers PROVE Len(channel[p]) <= MaxFrames
    BY <2>1, OrderlyBound DEF Inv, WireInv
  <2>3. \A f \in {local_open, local_gathering_complete, remote_ready, remote_acknowledged,
                  acknowledgement_sent, handshake_complete, error} : f \in [Peers -> BOOLEAN]
    BY DEF Inv, Typed
  <2> QED
    BY <2>1, <2>2, <2>3 DEF Inv, Typed, TypeOK, MainPlaces, OpenerPlaces, GathererPlaces
<1> QED
  BY <1>1, Invariant, PTL

\* An end that returned acknowledged, for which it had the other's Ready: the other is open.
LEMMA ReadyFromOpen ==
    ASSUME Inv, NEW p \in Peers, Returned(p)
    PROVE  /\ local_open[p] /\ local_open[Other(p)]
           /\ remote_acknowledged[p] /\ remote_ready[p]
<1>1. LoopDone(p) /\ AckDue(p)
  BY DEF Inv, EndInv, FlagsTrue, OneAcknowledges, Returned
<1>2. "ready" \in Taken(p)
  BY <1>1 DEF AckDue, Taken, Frames
<1>3. "ready" \in Past(Other(p))
  <2>1. Orderly(channel[Other(p)], Past(Other(p)), Taken(p))
    BY Ends DEF Inv, WireInv
  <2> QED
    BY <1>2, <2>1 DEF Orderly
<1>4. local_open[Other(p)]
  BY <1>3 DEF Past
<1> QED
  BY <1>1, <1>4 DEF LoopDone, AckDue

\* The other's candidate was taken, before its acknowledgement, and is not left pending.
LEMMA CandidateAdded ==
    ASSUME Inv, NEW p \in Peers, Returned(p)
    PROVE  candidate[p] = "added" /\ remote_description[p] = "set"
<1>1. "acknowledged" \in Taken(p) /\ remote_description[p] = "set"
  BY ReadyFromOpen DEF Taken, Frames, Inv, EndInv, FlagsTrue
<1>2. "candidate" \in Taken(p)
  <2>1. Orderly(channel[Other(p)], Past(Other(p)), Taken(p))
    BY Ends DEF Inv, WireInv
  <2> QED
    BY <1>1, <2>1 DEF Orderly
<1>3. candidate[p] # "none" /\ candidate[p] # "pending"
  BY <1>1, <1>2 DEF Taken, Inv, EndInv, FlagsTrue
<1> QED
  BY <1>1, <1>3 DEF Inv, Typed

\* CandidatesApplied of Bootstrap.
THEOREM NoCandidateLeft == Spec => []CandidatesApplied
<1>1. Inv => CandidatesApplied
  BY CandidateAdded DEF CandidatesApplied
<1> QED
  BY <1>1, Invariant, PTL

\* ReturnedOpen of Bootstrap: establish returns and startBootstrap resolves with both
\* channels open and, at both ends, with no signaling frame left in the stream.
THEOREM ReturnsOpen == Spec => []ReturnedOpen
<1>1. Inv => ReturnedOpen
  <2> SUFFICES ASSUME Inv PROVE ReturnedOpen
    OBVIOUS
  <2>1. ASSUME NEW p \in Peers, Returned(p) PROVE \A q \in Peers : local_open[q]
    BY <2>1, ReadyFromOpen, Ends
  <2>2. ASSUME \A p \in Peers : Returned(p), NEW p \in Peers PROVE channel[p] = << >>
    <3> DEFINE q == Other(p)
    <3>1. q \in Peers /\ Returned(q) /\ Other(p) = q
      BY <2>2, Ends
    <3>2. Taken(q) = Frames
      BY <3>1, ReadyFromOpen, CandidateAdded DEF Taken, Frames
    <3>3. channel[p] \in Seq(Frames) /\ Orderly(channel[p], Past(p), Taken(q))
      BY DEF Inv, Typed, WireInv
    <3> HIDE DEF q
    <3>4. Past(p) \subseteq Frames
      BY DEF Past
    <3>5. \A i \in 1 .. Len(channel[p]) : FALSE
      BY <3>2, <3>3, <3>4 DEF Orderly
    <3>6. Len(channel[p]) = 0
      <4>1. Len(channel[p]) \in Nat /\ ~(1 \in 1 .. Len(channel[p]))
        BY <3>3, <3>5
      <4> QED
        BY <4>1
    <3> QED
      BY <3>3, <3>6
  <2> QED
    BY <2>1, <2>2 DEF ReturnedOpen
<1> QED
  BY <1>1, Invariant, PTL
===========================================================================
