----------------------------- MODULE Bootstrap -----------------------------
(***************************************************************************)
(* How two ends agree, over the signaling relay, that their WebRTC control *)
(* channel is up: establish_webrtc_over_tcp (src/webrtc_tcp_bootstrap.cpp) *)
(* and the same protocol in RemoeBrowserClient (remoe-client.js).          *)
(*                                                                         *)
(* Each end sends its description and candidates, then Ready once its      *)
(* channel is open, and Acknowledged once it is open, has sent all its     *)
(* candidates and has the other's Ready.  It is done when it is open, has  *)
(* acknowledged and is acknowledged.                                       *)
(*                                                                         *)
(* A native end runs this on three threads: the caller of establish, the   *)
(* thread libdatachannel opens the channel on, and the one it gathers      *)
(* candidates on.  Their only shared lock guards the sending of a frame.   *)
(* A browser end has one thread, so that each event handler is a step.     *)
(***************************************************************************)
EXTENDS Naturals, Sequences

CONSTANTS
    Host, Client,   \* the answerer and the offerer
    Deployments,    \* which ends run in a browser: a set of sets of ends
    Timed           \* the ends that have a timeout when they are native

Peers == {Host, Client}
Other(p) == IF p = Host THEN Client ELSE Host
Threads == {"main", "opener", "gatherer"}
Frames == {"description", "candidate", "ready", "acknowledged"}
MaxFrames == 4  \* an end sends each frame once

ASSUME EndsAssumption == Host # Client /\ Deployments \subseteq SUBSET Peers /\ Timed \subseteq Peers

VARIABLES
    browsers,             \* the ends that run in a browser; it never changes
    pc,                   \* where each thread of an end is
    local_open, local_gathering_complete, remote_ready,
    acknowledgement_sent, \* set when a thread takes on the sending
    remote_acknowledged,
    handshake_complete,
    error,                \* whether the first error was recorded
    remote_description,   \* "none", "applying" (while a browser awaits), "set"
    candidate,            \* the other end's candidate: "none", "pending", "added"
    channel,              \* frames each end sent that the other did not take yet
    signalingOpen,
    expired               \* ends whose deadline has passed

flags == <<local_open, local_gathering_complete, remote_ready, remote_acknowledged>>
remote == <<remote_description, candidate>>
link == <<browsers, signalingOpen, expired>>
vars == <<pc, flags, acknowledgement_sent, handshake_complete, error, remote, channel, link>>

Init ==
    /\ browsers \in Deployments
    /\ pc = [p \in Peers |-> [t \in Threads |-> IF t = "main" THEN "loop" ELSE "idle"]]
    /\ local_open = [p \in Peers |-> FALSE]
    /\ local_gathering_complete = [p \in Peers |-> FALSE]
    /\ remote_ready = [p \in Peers |-> FALSE]
    /\ acknowledgement_sent = [p \in Peers |-> FALSE]
    /\ remote_acknowledged = [p \in Peers |-> FALSE]
    /\ handshake_complete = [p \in Peers |-> FALSE]
    /\ error = [p \in Peers |-> FALSE]
    /\ remote_description = [p \in Peers |-> "none"]
    /\ candidate = [p \in Peers |-> "none"]
    /\ channel = [p \in Peers |-> << >>]
    /\ signalingOpen = TRUE
    /\ expired = {}

---------------------------------------------------------------------------
(* Helpers *)

Main(p) == pc[p]["main"]
Failed(p) == Main(p) = "failed"
Returned(p) == Main(p) = "returned"

\* Thread t of p goes to `at`; if it notifies, it wakes a main thread that is
\* already blocked, and no other.
Woken(p, u, notifies) == u = "main" /\ notifies /\ pc[p][u] = "blocked"
Step(p, t, at, notifies) ==
    pc' = [pc EXCEPT ![p] =
             [u \in Threads |-> IF u = t THEN at
                                ELSE IF Woken(p, u, notifies) THEN "predicate" ELSE pc[p][u]]]

\* Where a thread goes on after maybe_send_acknowledgement.  Slip: always as in a
\* callback.
AfterAckInCallback(t) == "notify"
AfterAck(t) == IF t = "main" THEN "loop" ELSE "notify"

\* send_signal, once it holds the lock: a frame that cannot be sent is an error,
\* which is notified like progress.
SendFrame(p, f) ==
    IF signalingOpen
    THEN channel' = [channel EXCEPT ![p] = Append(@, f)] /\ UNCHANGED error
    ELSE error' = [error EXCEPT ![p] = TRUE] /\ UNCHANGED channel

\* The condition under which an end acknowledges.  Slips: some of its three parts
\* are not asked.
AckDueGathered(p) == local_gathering_complete[p]
AckDueEarly(p)    == local_open[p] /\ remote_ready[p]
AckDue(p) == local_open[p] /\ local_gathering_complete[p] /\ remote_ready[p]

\* Both descriptions are known and one end can try the other's candidate: ICE may
\* succeed and the channel open.
Connectable(p) ==
    /\ \A q \in Peers : remote_description[q] = "set"
    /\ \E q \in Peers : candidate[q] = "added"
    /\ ~Failed(p) /\ ~Failed(Other(p))

---------------------------------------------------------------------------
(* The callbacks of a native end *)

\* on_local_description: the offer, or the answer to one.
LocalDescription(p) ==
    /\ pc[p]["gatherer"] = "idle"
    /\ p = Client \/ remote_description[p] = "set"
    /\ SendFrame(p, "description")
    /\ Step(p, "gatherer", "candidate", ~signalingOpen)
    /\ UNCHANGED <<flags, acknowledgement_sent, handshake_complete, remote, link>>

\* on_local_candidate, for all candidates
LocalCandidate(p) ==
    /\ pc[p]["gatherer"] = "candidate"
    /\ SendFrame(p, "candidate")
    /\ Step(p, "gatherer", "complete", ~signalingOpen)
    /\ UNCHANGED <<flags, acknowledgement_sent, handshake_complete, remote, link>>

\* on_gathering_state_changed(Complete)
GatheringComplete(p) ==
    /\ pc[p]["gatherer"] = "complete"
    /\ local_gathering_complete' = [local_gathering_complete EXCEPT ![p] = TRUE]
    /\ Step(p, "gatherer", "ack", FALSE)
    /\ UNCHANGED <<local_open, remote_ready, remote_acknowledged, acknowledgement_sent,
                   handshake_complete, error, remote, channel, link>>

\* on_open: local_open is visible to the other threads before Ready is sent.
Open(p) ==
    /\ pc[p]["opener"] = "idle" /\ Connectable(p)
    /\ local_open' = [local_open EXCEPT ![p] = TRUE]
    /\ Step(p, "opener", "ready", FALSE)
    /\ UNCHANGED <<local_gathering_complete, remote_ready, remote_acknowledged,
                   acknowledgement_sent, handshake_complete, error, remote, channel, link>>

\* send_ready.  The handshake is not complete yet: the other end acknowledges after
\* it had this frame.
SendReady(p) ==
    /\ pc[p]["opener"] = "ready"
    /\ SendFrame(p, "ready")
    /\ Step(p, "opener", "ack", ~signalingOpen)
    /\ UNCHANGED <<flags, acknowledgement_sent, handshake_complete, remote, link>>

\* maybe_send_acknowledgement, on any thread: one thread takes it on (exchange),
\* then finds the handshake complete or sends.  Its notify_all is left out: a callback
\* goes on to another, and the main thread has nobody to wake.
TakeOnAck(p, t) ==
    /\ pc[p][t] = "ack"
    /\ IF AckDue(p) /\ ~acknowledgement_sent[p]
       THEN /\ acknowledgement_sent' = [acknowledgement_sent EXCEPT ![p] = TRUE]
            /\ Step(p, t, "check", FALSE)
       ELSE /\ Step(p, t, AfterAck(t), FALSE)
            /\ UNCHANGED acknowledgement_sent
    /\ UNCHANGED <<flags, handshake_complete, error, remote, channel, link>>

CheckComplete(p, t) ==
    /\ pc[p][t] = "check"
    /\ Step(p, t, IF handshake_complete[p] THEN AfterAck(t) ELSE "send", FALSE)
    /\ UNCHANGED <<flags, acknowledgement_sent, handshake_complete, error, remote,
                   channel, link>>

SendAck(p, t) ==
    /\ pc[p][t] = "send"
    /\ SendFrame(p, "acknowledged")
    /\ Step(p, t, AfterAck(t), ~signalingOpen)
    /\ UNCHANGED <<flags, acknowledgement_sent, handshake_complete, remote, link>>

\* notify_all at the end of a callback
NotifyProgress(p, t) ==
    /\ pc[p][t] = "notify"
    /\ Step(p, t, "done", TRUE)
    /\ UNCHANGED <<flags, acknowledgement_sent, handshake_complete, error, remote,
                   channel, link>>

AcknowledgeStep(p, t) ==
    TakeOnAck(p, t) \/ CheckComplete(p, t) \/ SendAck(p, t)

\* The callbacks of an end that failed are left out: its transport and its stream
\* are closed, and what they do concerns nobody.
OpenerStep(p) ==
    /\ ~Failed(p)
    /\ SendReady(p) \/ AcknowledgeStep(p, "opener") \/ NotifyProgress(p, "opener")

GathererStep(p) ==
    /\ ~Failed(p)
    /\ \/ LocalDescription(p) \/ LocalCandidate(p) \/ GatheringComplete(p)
       \/ AcknowledgeStep(p, "gatherer") \/ NotifyProgress(p, "gatherer")

---------------------------------------------------------------------------
(* The thread that called establish *)

\* establish throws: the transport and the signaling stream are closed.
Fail(p) ==
    /\ Step(p, "main", "failed", FALSE)
    /\ signalingOpen' = FALSE
    /\ UNCHANGED <<flags, acknowledgement_sent, handshake_complete, error, remote,
                   channel, browsers, expired>>

\* Slip: the loop ends with the other's Ready.
LoopDoneWhenReady(p) == local_open[p] /\ remote_ready[p]
LoopDone(p) == local_open[p] /\ remote_acknowledged[p]

\* The head of the loop.
Loop(p) ==
    /\ Main(p) = "loop"
    /\ \/ /\ LoopDone(p) \/ ~(error[p] \/ p \in expired)
          /\ Step(p, "main", IF LoopDone(p) THEN "predicate" ELSE "receive", FALSE)
          /\ UNCHANGED <<flags, acknowledgement_sent, handshake_complete, error, remote,
                         channel, link>>
       \/ ~LoopDone(p) /\ (error[p] \/ p \in expired) /\ Fail(p)

\* A frame that is there is read; without one, receive_all ends when the stream
\* closes or at the deadline.  An end sends one description only, so that the error
\* of a second one does not arise.
Receive(p) ==
    /\ Main(p) = "receive"
    /\ channel[Other(p)] # << >>
    /\ LET f == Head(channel[Other(p)]) IN
         /\ channel' = [channel EXCEPT ![Other(p)] = Tail(@)]
         /\ remote_description' =
              IF f = "description" THEN [remote_description EXCEPT ![p] = "set"]
              ELSE remote_description
         /\ candidate' =
              [candidate EXCEPT ![p] =
                 IF f = "candidate" /\ remote_description[p] = "none" THEN "pending"
                 ELSE IF f = "candidate" \/ (f = "description" /\ @ = "pending") THEN "added"
                 ELSE @]
         /\ remote_ready' = [remote_ready EXCEPT ![p] = @ \/ f = "ready"]
         /\ remote_acknowledged' = [remote_acknowledged EXCEPT ![p] = @ \/ f = "acknowledged"]
         /\ Step(p, "main", IF f = "ready" THEN "ack" ELSE "loop", FALSE)
    /\ UNCHANGED <<local_open, local_gathering_complete, acknowledgement_sent,
                   handshake_complete, error, link>>

ReceiveFails(p) ==
    /\ Main(p) = "receive"
    /\ channel[Other(p)] = << >>
    /\ ~signalingOpen \/ p \in expired
    /\ Fail(p)

\* progress.wait_until.  The predicate is evaluated with progress_mutex held and
\* the thread then blocks; a notification in between is lost, because none of the
\* notifying threads takes that mutex.
EvaluatePredicate(p) ==
    /\ Main(p) = "predicate"
    /\ Step(p, "main", IF acknowledgement_sent[p] \/ error[p] THEN "after" ELSE "block", FALSE)
    /\ UNCHANGED <<flags, acknowledgement_sent, handshake_complete, error, remote,
                   channel, link>>

Block(p) ==
    /\ Main(p) = "block"
    /\ Step(p, "main", "blocked", FALSE)
    /\ UNCHANGED <<flags, acknowledgement_sent, handshake_complete, error, remote,
                   channel, link>>

\* The deadline of wait_until.  Slip: the wait has none.
WaitForEver(p) == FALSE /\ UNCHANGED vars
WaitExpires(p) ==
    /\ Main(p) = "blocked" /\ p \in expired
    /\ Step(p, "main", "after", FALSE)
    /\ UNCHANGED <<flags, acknowledgement_sent, handshake_complete, error, remote,
                   channel, link>>

Finish(p) ==
    /\ Main(p) = "after"
    /\ \/ /\ acknowledgement_sent[p]
          /\ handshake_complete' = [handshake_complete EXCEPT ![p] = TRUE]
          /\ Step(p, "main", "returned", FALSE)
          /\ UNCHANGED <<flags, acknowledgement_sent, error, remote, channel, link>>
       \/ ~acknowledgement_sent[p] /\ Fail(p)

MainStep(p) ==
    \/ Loop(p) \/ Receive(p) \/ ReceiveFails(p)
    \/ AcknowledgeStep(p, "main")
    \/ EvaluatePredicate(p) \/ Block(p) \/ WaitExpires(p) \/ Finish(p)

---------------------------------------------------------------------------
(* A browser end.  A handler that sends while the socket is closed throws, and *)
(* the close event that follows ends the session: such a step is left out.     *)

Running(p) == p \in browsers /\ ~Failed(p)

\* The end of a handler that sent `frames` and left `rest` of the other end's:
\* maybeAcknowledge and maybeFinishBootstrap.
Conclude(p, frames, rest) ==
    LET acks == AckDue(p)' /\ ~acknowledgement_sent[p]
        sent == acknowledgement_sent[p] \/ acks
    IN /\ acknowledgement_sent' = [acknowledgement_sent EXCEPT ![p] = sent]
       /\ acks => signalingOpen
       /\ channel' = [channel EXCEPT
                        ![p] = @ \o frames \o IF acks THEN <<"acknowledged">> ELSE << >>,
                        ![Other(p)] = rest]
       /\ Step(p, "main",
               IF local_open'[p] /\ sent /\ remote_acknowledged'[p] THEN "returned" ELSE Main(p),
               FALSE)
       /\ UNCHANGED <<handshake_complete, error, link>>

\* connect after createOffer, then onicecandidate with a candidate
BrowserSends(p, f, before, after) ==
    /\ Running(p) /\ signalingOpen
    /\ pc[p]["gatherer"] = before
    /\ channel' = [channel EXCEPT ![p] = Append(@, f)]
    /\ Step(p, "gatherer", after, FALSE)
    /\ UNCHANGED <<flags, acknowledgement_sent, handshake_complete, error, remote, link>>

\* onicecandidate without one
BrowserGathered(p) ==
    /\ Running(p) /\ ~local_gathering_complete[p]
    /\ pc[p]["gatherer"] = "complete"
    /\ local_gathering_complete' = [local_gathering_complete EXCEPT ![p] = TRUE]
    /\ UNCHANGED <<local_open, remote_ready, remote_acknowledged, remote>>
    /\ Conclude(p, << >>, channel[Other(p)])

\* The control channel's onopen
BrowserOpen(p) ==
    /\ Running(p) /\ Connectable(p) /\ ~local_open[p] /\ signalingOpen
    /\ local_open' = [local_open EXCEPT ![p] = TRUE]
    /\ UNCHANGED <<local_gathering_complete, remote_ready, remote_acknowledged, remote>>
    /\ Conclude(p, <<"ready">>, channel[Other(p)])

\* handleSignalBytes, up to its first await; frames that come during the await of
\* setRemoteDescription are handled before it ends.
BrowserReceive(p) ==
    /\ Running(p)
    /\ channel[Other(p)] # << >>
    /\ LET f == Head(channel[Other(p)]) IN
         /\ remote_description' =
              IF f = "description" THEN [remote_description EXCEPT ![p] = "applying"]
              ELSE remote_description
         /\ candidate' =
              IF f = "candidate"
              THEN [candidate EXCEPT ![p] =
                      IF remote_description[p] = "set" THEN "added" ELSE "pending"]
              ELSE candidate
         /\ remote_ready' = [remote_ready EXCEPT ![p] = @ \/ f = "ready"]
         /\ remote_acknowledged' = [remote_acknowledged EXCEPT ![p] = @ \/ f = "acknowledged"]
    /\ UNCHANGED <<local_open, local_gathering_complete>>
    /\ Conclude(p, << >>, Tail(channel[Other(p)]))

\* setRemoteDescription resolves.
BrowserDescribed(p) ==
    /\ Running(p)
    /\ remote_description[p] = "applying"
    /\ remote_description' = [remote_description EXCEPT ![p] = "set"]
    /\ candidate' = [candidate EXCEPT ![p] = IF @ = "pending" THEN "added" ELSE @]
    /\ UNCHANGED <<pc, flags, acknowledgement_sent, handshake_complete, error, channel, link>>

\* The socket's onclose, before the bootstrap is complete
BrowserClosed(p) ==
    /\ p \in browsers /\ Main(p) = "loop" /\ ~signalingOpen
    /\ Fail(p)

BrowserStep(p) ==
    \/ BrowserSends(p, "description", "idle", "candidate")
    \/ BrowserSends(p, "candidate", "candidate", "complete")
    \/ BrowserGathered(p) \/ BrowserReceive(p) \/ BrowserDescribed(p) \/ BrowserClosed(p)

---------------------------------------------------------------------------
(* The relay, the clock, and the whole *)

\* The stream closes or breaks; what an end sent and the other did not take yet may
\* be lost.
SignalingLost ==
    /\ signalingOpen
    /\ signalingOpen' = FALSE
    /\ channel' = channel \/ channel' = [q \in Peers |-> << >>]
    /\ UNCHANGED <<pc, flags, acknowledgement_sent, handshake_complete, error, remote,
                   browsers, expired>>

Expire(p) ==
    /\ p \in Timed \ (browsers \cup expired)
    /\ expired' = expired \cup {p}
    /\ UNCHANGED <<pc, flags, acknowledgement_sent, handshake_complete, error, remote,
                   channel, browsers, signalingOpen>>

Next ==
    \/ \E p \in Peers \ browsers : MainStep(p) \/ OpenerStep(p) \/ GathererStep(p) \/ Open(p)
    \/ \E p \in browsers : BrowserStep(p) \/ BrowserOpen(p)
    \/ SignalingLost
    \/ \E p \in Timed : Expire(p)

NativeMain(p) == p \notin browsers /\ MainStep(p)

Spec == Init /\ [][Next]_vars

\* Threads that can run do and callbacks are called.  Nothing makes ICE succeed and
\* nothing makes the relay last.
FairSpec ==
    /\ Spec
    /\ \A p \in Peers :
         /\ WF_vars(NativeMain(p))
         /\ WF_vars(p \notin browsers /\ OpenerStep(p))
         /\ WF_vars(p \notin browsers /\ GathererStep(p))
         /\ WF_vars(BrowserStep(p))

\* Only the callers of establish with a timeout run, and time passes.
TimedSpec ==
    /\ Spec
    /\ \A p \in Timed : WF_vars(NativeMain(p)) /\ WF_vars(Expire(p))

---------------------------------------------------------------------------
(* Properties *)

\* The type of the state.  A thread's place says which thread it is: only a main
\* thread waits, only callbacks notify.
TypeOK ==
    /\ \A p \in Peers :
         /\ pc[p]["main"] \in {"loop", "receive", "ack", "check", "send", "predicate",
                               "block", "blocked", "after", "returned", "failed"}
         /\ pc[p]["opener"] \in {"idle", "ready", "ack", "check", "send", "notify", "done"}
         /\ pc[p]["gatherer"] \in {"idle", "candidate", "complete", "ack", "check", "send",
                                   "notify", "done"}
         /\ remote_description[p] \in {"none", "applying", "set"}
         /\ candidate[p] \in {"none", "pending", "added"}
         /\ channel[p] \in Seq(Frames) /\ Len(channel[p]) <= MaxFrames
    /\ \A f \in {local_open, local_gathering_complete, remote_ready, remote_acknowledged,
                 acknowledgement_sent, handshake_complete, error} : f \in [Peers -> BOOLEAN]
    /\ signalingOpen \in BOOLEAN
    /\ expired \subseteq Timed \ browsers
    /\ browsers \in Deployments

\* An end whose bootstrap returned has both data channels open, its own and the
\* other end's (webrtc_tcp_bootstrap_smoke.cpp: "bootstrap returned before the
\* DataChannel opened"); nothing but the order of frames tells it of the latter.  When
\* both have returned no frame of the handshake is left to be taken for something
\* else (the same test: "bootstrap left signaling bytes in the TCP stream").
ReturnedOpen ==
    /\ \A p \in Peers : Returned(p) => \A q \in Peers : local_open[q]
    /\ (\A p \in Peers : Returned(p)) => \A p \in Peers : channel[p] = << >>

\* An end that returned has the other's candidates: none was left pending behind a
\* late description, and none is still to come after it stops reading.
CandidatesApplied ==
    \A p \in Peers : Returned(p) => candidate[p] = "added"

\* A native end with a timeout returns or fails, whatever the other end and the
\* relay do and however its own threads interleave.
TimedEnds ==
    \A p \in Timed : p \notin browsers ~> (Returned(p) \/ Failed(p))

\* After the client's bootstrap failed, the host leaves its own: README.md says that
\* after a disconnection the host listens again and serves later clients.
HostReleased ==
    Failed(Client) ~> (Returned(Host) \/ Failed(Host))
=============================================================================
