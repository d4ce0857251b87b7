---------------------------- MODULE HostSession ----------------------------
(***************************************************************************)
(* The sessions a host serves, one after the other: the loop of run in     *)
(* src/main.cpp with the callbacks of a session's transport.               *)
(*                                                                         *)
(* The main thread establishes a transport, waits for the client's request *)
(* and its channels, sends a StreamHeader, waits for StreamReady, sends    *)
(* frames, and closes.  Meanwhile libdatachannel calls on_binary,          *)
(* on_video_open, on_video_data_open and on_closed on threads of its own.  *)
(* They share handshake.mutex, and flags that are outside any lock.        *)
(* close() takes each callback away under that callback's own lock         *)
(* (rtc::synchronized_callback), so it waits for one that is being called. *)
(* on_video_keyframe_requested and on_video_feedback are called from the   *)
(* track's RTCP handlers, which test `closing` and which nobody waits for. *)
(*                                                                         *)
(* input_mutex is left out: main takes it only after close(), when no      *)
(* callback runs.  Of on_binary only what needs handshake.mutex takes more *)
(* than one step.                                                          *)
(***************************************************************************)
CONSTANTS
    Inputs,       \* keys and mouse buttons
    Configs,      \* requests a client may send
    Valid,        \* those the host accepts
    LowLatency,   \* those for the low-latency video channel
    Flagged,      \* those with clipboard and text input
    Behaviours,   \* whether clients keep to the protocol: a subset of BOOLEAN
    None          \* no request

ASSUME ConfigsAssumption ==
    /\ Valid \cup LowLatency \cup Flagged \subseteq Configs
    /\ {None, "idle", "ready", "open", "feedback"} \cap Configs = {}
    /\ Behaviours \subseteq BOOLEAN

Channels == {"control", "track", "data"}
Threads == Channels \cup {"rtcp"}
Waits == {"config", "data", "ready"}

VARIABLES
    running,          \* g_running
    phase,            \* what the main thread does
    at,               \* where in a wait, or on which of its ways to close
    session_running,
    request,          \* handshake.request
    video_open, video_data_open, client_ready,   \* the rest of handshake
    enabled,          \* clipboard_enabled and text_input_enabled
    callback,         \* what each thread is about to do, once it has handshake.mutex
                      \*   unless it is a handler of the track's RTCP
    transport,        \* "none", "open", "failed"
    pressed,          \* pressed_keys and pressed_buttons
    down,             \* the inputs that are down on the host's desktop
    client, conforming,   \* what the client sent, and whether it keeps to the protocol
    header_sent,      \* whether it was sent a StreamHeader
    served, inherited \* history: the session reached the frame loop; down before it

handshake == <<request, video_open, video_data_open, client_ready>>
inputs == <<pressed, down>>
peer == <<client, conforming>>
history == <<served, inherited>>
vars == <<running, phase, at, session_running, handshake, enabled, callback, transport,
          inputs, peer, header_sent, history>>

Init ==
    /\ running = TRUE /\ session_running = TRUE
    /\ phase = "listening" /\ at = "test"
    /\ request = None
    /\ video_open = FALSE /\ video_data_open = FALSE /\ client_ready = FALSE
    /\ enabled = FALSE /\ header_sent = FALSE
    /\ callback = [t \in Threads |-> "idle"]
    /\ transport = "none"
    /\ pressed = {} /\ down = {}
    /\ client = "connected" /\ conforming = TRUE
    /\ served = FALSE /\ inherited = {}

---------------------------------------------------------------------------
(* Locks and callbacks *)

\* Callbacks are called until close() sets `closing`.
Live == phase \notin {"listening", "closing", "release", "stopped"}

\* main owns handshake.mutex from the test of a wait until it blocks, and while it
\* closes the transport inside the block of the wait.
MainHolds == at \in {"sleep", "locked"}

\* handshake.changed.notify_all: nobody is woken who does not block yet.
Notified == IF at = "blocked" THEN "test" ELSE at

\* All callbacks of the channels have returned: resetCallbacks has had all their
\* locks, and takes no notice of the RTCP handlers.  Slip: those of the video channels
\* are not taken away.
QuietOnControl == callback["control"] = "idle"
Quiet == \A t \in Channels : callback[t] = "idle"

\* main closes the transport: inside the block of a wait, after it, or at the end
\* of the frame loop.
CloseFrom(way) == phase' = "closing" /\ at' = way

---------------------------------------------------------------------------
(* The main thread *)

\* A client's bootstrap opens a transport; the session's variables are new.
Connect ==
    /\ phase = "listening" /\ running
    /\ phase' = "establishing" /\ at' = "test"
    /\ session_running' = TRUE
    /\ request' = None
    /\ video_open' = FALSE /\ video_data_open' = FALSE /\ client_ready' = FALSE
    /\ enabled' = FALSE /\ header_sent' = FALSE
    /\ transport' = "open"
    /\ client' = "connected" /\ conforming' \in Behaviours
    /\ served' = FALSE /\ inherited' = down
    /\ UNCHANGED <<running, callback, inputs>>

\* establish_* returns, or throws, as it does when the signaling connection breaks or
\* the host is stopped: then it closes its transport.
Established ==
    /\ phase = "establishing"
    /\ phase' = "config"
    /\ UNCHANGED <<running, at, session_running, handshake, enabled, callback, transport,
                   inputs, peer, header_sent, history>>

EstablishFails ==
    /\ phase = "establishing"
    /\ session_running' = FALSE
    /\ CloseFrom("unlocked")
    /\ UNCHANGED <<running, handshake, enabled, callback, transport, inputs, peer,
                   header_sent, history>>

\* What each wait is for
Awaited(wait) ==
    CASE wait = "config" -> request # None /\ video_open
      [] wait = "data" -> video_data_open
      [] wait = "ready" -> client_ready

\* Whether the block of the wait contains the close() of a session that ended
ClosesInBlock(wait) == wait \in {"config", "data"}

AfterWait(wait) ==
    CASE wait = "config" -> "validate"
      [] wait = "data" -> "setup"
      [] wait = "ready" -> "frames"

\* The test of a wait: the session has ended, or what it is for has come, or not.
Test ==
    /\ phase \in Waits /\ at = "test"
    /\ IF ~(running /\ session_running)
       THEN CloseFrom(IF ClosesInBlock(phase) THEN "locked" ELSE "unlocked")
       ELSE IF Awaited(phase) THEN phase' = AfterWait(phase) /\ UNCHANGED at
       ELSE at' = "sleep" /\ UNCHANGED phase
    /\ served' = (served \/ phase' = "frames")
    /\ UNCHANGED <<running, session_running, handshake, enabled, callback, transport,
                   inputs, peer, header_sent, inherited>>

\* wait_for releases the mutex and blocks; 250 ms pass.
Block ==
    /\ at = "sleep" /\ at' = "blocked"
    /\ UNCHANGED <<running, phase, session_running, handshake, enabled, callback,
                   transport, inputs, peer, header_sent, history>>

WaitExpires ==
    /\ at = "blocked" /\ at' = "test"
    /\ UNCHANGED <<running, phase, session_running, handshake, enabled, callback,
                   transport, inputs, peer, header_sent, history>>

\* validate_client_settings
Validate ==
    /\ phase = "validate"
    /\ IF request \notin Valid THEN CloseFrom("unlocked")
       ELSE /\ phase' = IF request \in LowLatency THEN "data" ELSE "setup"
            /\ UNCHANGED at
    /\ UNCHANGED <<running, session_running, handshake, enabled, callback, transport,
                   inputs, peer, header_sent, history>>

\* What the client asked for is enabled, the encoder made, the StreamHeader sent: a
\* client that has it may use what it asked for.  It may go out although another
\* channel has failed, and fail although none has.  Slip: nothing is enabled.
SetupDisabled ==
    /\ phase = "setup"
    /\ \/ phase' = "ready" /\ header_sent' = TRUE /\ UNCHANGED at
       \/ CloseFrom("unlocked") /\ UNCHANGED header_sent
    /\ UNCHANGED <<running, session_running, handshake, enabled, callback, transport,
                   inputs, peer, history>>
Setup ==
    /\ phase = "setup"
    /\ enabled' = (request \in Flagged)
    /\ \/ phase' = "ready" /\ header_sent' = TRUE /\ UNCHANGED at
       \/ CloseFrom("unlocked") /\ UNCHANGED header_sent
    /\ UNCHANGED <<running, session_running, handshake, callback, transport, inputs,
                   peer, history>>

\* The frame loop ends at its head, or by a break when something cannot be sent.
\* Slips: a break leaves the session like the waits do; the loop watches the
\* transport only.
StopsStreamingIfLost == ~running \/ transport # "open"
StopsStreaming == ~(running /\ session_running /\ transport = "open")
LoopBroken ==
    /\ phase = "frames" /\ StopsStreaming
    /\ session_running' = FALSE
    /\ CloseFrom(IF transport = "failed" THEN "unlocked" ELSE "loop")
    /\ UNCHANGED <<running, handshake, enabled, callback, transport, inputs, peer,
                   header_sent, history>>
LoopEnds ==
    /\ phase = "frames" /\ StopsStreaming
    /\ session_running' = FALSE
    /\ CloseFrom("loop")
    /\ UNCHANGED <<running, handshake, enabled, callback, transport, inputs, peer,
                   header_sent, history>>

\* The while (g_running) of run; the locks of the session are free.  Slip: a mutex
\* that main holds stays locked.
NextSessionLocked ==
    /\ phase' = (IF running THEN "listening" ELSE "stopped")
    /\ at' = IF at = "locked" THEN at ELSE "test"
NextSession == phase' = (IF running THEN "listening" ELSE "stopped") /\ at' = "test"

\* close() is done.  After the frame loop the inputs are still to be released; from
\* elsewhere the session's variables go, and with them what was known to be pressed.
Closed ==
    /\ phase = "closing" /\ Quiet
    /\ session_running' = FALSE
    /\ transport' = "none"
    /\ IF at = "loop"
       THEN phase' = "release" /\ UNCHANGED <<at, pressed>>
       ELSE NextSession /\ pressed' = {}
    /\ UNCHANGED <<running, handshake, enabled, callback, down, peer, header_sent, history>>

\* release_remote_inputs
Release ==
    /\ phase = "release"
    /\ down' = down \ pressed
    /\ pressed' = {}
    /\ NextSession
    /\ UNCHANGED <<running, session_running, handshake, enabled, callback, transport,
                   peer, header_sent, history>>

\* console_handler, or the service's stop event.  Nobody is notified.
Stop ==
    /\ running /\ running' = FALSE
    /\ phase' = IF phase = "listening" THEN "stopped" ELSE phase
    /\ UNCHANGED <<at, session_running, handshake, enabled, callback, transport, inputs,
                   peer, header_sent, history>>

---------------------------------------------------------------------------
(* Callbacks of the control channel.  A message is sent as it is received: what a
   client knows only grows. *)

\* on_binary is called with a message that the client sends when `turn`, if it keeps
\* to the protocol, and returns at once when the session has ended.
Sends(turn) ==
    /\ Live /\ session_running /\ transport = "open"
    /\ callback["control"] = "idle"
    /\ conforming => turn

\* A message that ends the session
Refuse ==
    /\ session_running' = FALSE
    /\ at' = Notified

\* ClientConfig and StreamReady wait for handshake.mutex.
Config(r) ==
    /\ Sends(client = "connected")
    /\ client' = "configured"
    /\ callback' = [callback EXCEPT !["control"] = r]
    /\ UNCHANGED <<running, phase, at, session_running, handshake, enabled, transport,
                   inputs, conforming, header_sent, history>>

Ready ==
    /\ Sends(client = "configured" /\ header_sent)
    /\ client' = "ready"
    /\ callback' = [callback EXCEPT !["control"] = "ready"]
    /\ UNCHANGED <<running, phase, at, session_running, handshake, enabled, transport,
                   inputs, conforming, header_sent, history>>

\* A second request ends the session.
Requested ==
    /\ callback["control"] \in Configs /\ ~MainHolds
    /\ request' = IF request = None THEN callback["control"] ELSE request
    /\ session_running' = (session_running /\ request = None)
    /\ at' = Notified
    /\ callback' = [callback EXCEPT !["control"] = "idle"]
    /\ UNCHANGED <<running, phase, video_open, video_data_open, client_ready, enabled,
                   transport, inputs, peer, header_sent, history>>

ReadyNoted ==
    /\ callback["control"] = "ready" /\ ~MainHolds
    /\ client_ready' = TRUE
    /\ at' = Notified
    /\ callback' = [callback EXCEPT !["control"] = "idle"]
    /\ UNCHANGED <<running, phase, session_running, request, video_open, video_data_open,
                   enabled, transport, inputs, peer, header_sent, history>>

\* inject_input_event
Press(i) ==
    /\ Sends(header_sent)
    /\ pressed' = pressed \cup {i} /\ down' = down \cup {i}
    /\ UNCHANGED <<running, phase, at, session_running, handshake, enabled, callback,
                   transport, peer, header_sent, history>>

Lift(i) ==
    /\ Sends(header_sent)
    /\ pressed' = pressed \ {i} /\ down' = down \ {i}
    /\ UNCHANGED <<running, phase, at, session_running, handshake, enabled, callback,
                   transport, peer, header_sent, history>>

\* Clipboard and text input are refused unless they are enabled, a clock request is
\* unless active_transport is set; another message is not understood.
FlaggedRefused ==
    /\ Sends(client = "ready" /\ request \in Flagged)
    /\ ~enabled
    /\ Refuse
    /\ UNCHANGED <<running, phase, handshake, enabled, callback, transport, inputs, peer,
                   header_sent, history>>

ClockRefused ==
    /\ Sends(header_sent) /\ phase = "establishing"
    /\ Refuse
    /\ UNCHANGED <<running, phase, handshake, enabled, callback, transport, inputs, peer,
                   header_sent, history>>

Malformed ==
    /\ Sends(FALSE)
    /\ Refuse
    /\ UNCHANGED <<running, phase, handshake, enabled, callback, transport, inputs, peer,
                   header_sent, history>>

---------------------------------------------------------------------------
(* Other callbacks *)

\* on_video_open and on_video_data_open are called; each then waits for
\* handshake.mutex.
ChannelOpens(t, open) ==
    /\ Live /\ transport = "open" /\ ~open /\ callback[t] = "idle"
    /\ callback' = [callback EXCEPT ![t] = "open"]
    /\ UNCHANGED <<running, phase, at, session_running, handshake, enabled, transport,
                   inputs, peer, header_sent, history>>

OpenNoted(t) ==
    /\ callback[t] = "open" /\ ~MainHolds
    /\ video_open' = (video_open \/ t = "track")
    /\ video_data_open' = (video_data_open \/ t = "data")
    /\ at' = Notified
    /\ callback' = [callback EXCEPT ![t] = "idle"]
    /\ UNCHANGED <<running, phase, session_running, request, client_ready, enabled,
                   transport, inputs, peer, header_sent, history>>

\* PliHandler and RtcpFeedbackObserver test `closing` and call back; they write the
\* session's key_frame_requested and its adaptive controller, and take none of these
\* locks.
RtcpArrives ==
    /\ Live /\ callback["rtcp"] = "idle"
    /\ callback' = [callback EXCEPT !["rtcp"] = "feedback"]
    /\ UNCHANGED <<running, phase, at, session_running, handshake, enabled, transport,
                   inputs, peer, header_sent, history>>

RtcpHandled ==
    /\ callback["rtcp"] = "feedback"
    /\ callback' = [callback EXCEPT !["rtcp"] = "idle"]
    /\ UNCHANGED <<running, phase, at, session_running, handshake, enabled, transport,
                   inputs, peer, header_sent, history>>

\* A channel closes or breaks: on_closed or on_error, which take no lock.
TransportFails ==
    /\ Live /\ transport = "open"
    /\ transport' = "failed"
    /\ Refuse
    /\ UNCHANGED <<running, phase, handshake, enabled, callback, inputs, peer,
                   header_sent, history>>

---------------------------------------------------------------------------

Main ==
    \/ Established \/ EstablishFails
    \/ Test \/ Block \/ WaitExpires
    \/ Validate \/ Setup \/ LoopEnds \/ Closed \/ Release

Noted == Requested \/ ReadyNoted \/ \E t \in {"track", "data"} : OpenNoted(t)

Called ==
    \/ \E r \in Configs : Config(r)
    \/ Ready
    \/ \E i \in Inputs : Press(i) \/ Lift(i)
    \/ FlaggedRefused \/ ClockRefused \/ Malformed
    \/ ChannelOpens("track", video_open) \/ ChannelOpens("data", video_data_open)
    \/ RtcpArrives

Next == Connect \/ Main \/ Noted \/ Called \/ RtcpHandled \/ TransportFails \/ Stop

Spec == Init /\ [][Next]_vars

\* Threads run; close() waits for no RTCP handler, and nothing is asked of those.
\* Clients need not come, send anything or stay.
FairSpec == Spec /\ WF_vars(Main) /\ WF_vars(Noted)

---------------------------------------------------------------------------
(* Properties *)

\* The type of the state.  Only a wait blocks, and main closes on one of three ways.
PlacesOK ==
    /\ phase \in {"listening", "establishing", "config", "validate", "data", "setup",
                  "ready", "frames", "closing", "release", "stopped"}
    /\ at \in {"test", "sleep", "blocked", "locked", "unlocked", "loop"}
    /\ at \in {"sleep", "blocked"} => phase \in Waits
    /\ at \in {"locked", "unlocked"} => phase = "closing"
    /\ at = "loop" => phase \in {"closing", "release"}

SessionOK ==
    /\ running \in BOOLEAN /\ session_running \in BOOLEAN
    /\ request \in Configs \cup {None}
    /\ video_open \in BOOLEAN /\ video_data_open \in BOOLEAN /\ client_ready \in BOOLEAN
    /\ enabled \in BOOLEAN /\ header_sent \in BOOLEAN
    /\ callback \in [Threads -> {"idle", "ready", "open", "feedback"} \cup Configs]
    /\ transport \in {"none", "open", "failed"}

PeerOK ==
    /\ pressed \subseteq Inputs /\ down \subseteq Inputs
    /\ client \in {"connected", "configured", "ready"} /\ conforming \in BOOLEAN
    /\ served \in BOOLEAN /\ inherited \subseteq Inputs

TypeOK == PlacesOK /\ SessionOK /\ PeerOK

\* After a session that reached the frame loop no input it pressed stays down,
\* whatever ended it and whatever its callbacks did meanwhile.
InputsReleased ==
    phase \in {"listening", "stopped"} /\ served => down \subseteq inherited

\* A session's variables live as long as a callback of one of its channels, which
\* refers to them, is being called.  (Of the track's RTCP handlers the code does not
\* see to it: NoFeedbackAfterSession.)
NoDanglingCallback ==
    phase \in {"listening", "stopped"} => \A t \in Channels : callback[t] = "idle"

\* A client that keeps to the protocol is not refused: what it may send, once it has
\* the StreamHeader, the host is ready for.
ConformingServed ==
    conforming /\ Live /\ transport = "open" => session_running

\* A session that streams and is told to end does end, and the host goes on.
StreamEnds ==
    (phase = "frames" /\ ~session_running) ~> phase \in {"listening", "stopped"}

\* docs/webrtc-evaluation.md: when a channel or the PeerConnection disconnects, the
\* host must release all remote keys and buttons.
AllInputsReleased ==
    phase = "listening" => down = {}

\* src/webrtc_transport.cpp, close(): the pacing worker is joined "before its Track
\* callbacks disappear"; after close() none of them should come.
NoFeedbackAfterSession ==
    phase \in {"listening", "stopped"} => callback["rtcp"] = "idle"

\* README.md: after a disconnection the host returns to listening and serves later
\* clients.
ListensAgain ==
    transport = "failed" ~> phase \in {"listening", "stopped"}
=============================================================================
