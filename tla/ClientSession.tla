--------------------------- MODULE ClientSession ---------------------------
(***************************************************************************)
(* One remote session of the native client after the other: run in         *)
(* src/client_main.cpp, with its window (src/video_window.cpp), its decode *)
(* thread and its clock and clipboard threads.                             *)
(*                                                                         *)
(* The session's own thread establishes the transport, waits for the       *)
(* StreamHeader, makes the window, runs the message loop, and takes        *)
(* everything down again.  std::async runs it on a thread of a pool, whose *)
(* message queue outlives the session.                                     *)
(*                                                                         *)
(* The transport's callbacks hold ClientSessionState::mutex, and each is   *)
(* one step; close() waits for one that is being called.  The control and  *)
(* the video channel close apart, and on_closed is called once for the two *)
(* and close().  What becomes of a frame before the decode queue is        *)
(* VideoRecovery's.                                                        *)
(***************************************************************************)
CONSTANTS
    Pool,       \* threads the sessions run on
    Inputs,     \* keys and mouse buttons
    NoThread

ASSUME PoolAssumption == NoThread \notin Pool

VARIABLES
    thread,         \* the thread of the session that runs
    quit,           \* the threads with a WM_QUIT in their queue
    at,             \* where run is
    transport,      \* the control channel: "none", "open", "lost", "closed" (by close())
    video_lost,     \* the video channel has closed
    header,         \* stream_header: "none", "good", "bad"
    error, closed,  \* of ClientSessionState; closed is WebRtcTransport's closed_notified too
    published,      \* its window and queue are set
    unheard,        \* (history) on_closed was called before they were
    view,           \* the window: "none", "open", "destroyed", "gone" (with its object)
    running,        \* VideoWindow::running_
    close_posted,   \* a WM_CLOSE in its queue
    queue,          \* EncodedFrameQueue: "stopped", "empty", "frame"
    decoder,        \* the decode thread: "none", "create", "pop", "decode", "present", "drain",
                    \* "ended"
    pipeline_error, \* PipelineState::error_
    monitors,       \* of the clock and clipboard threads, those that run
    pressed,        \* pressed_keys_ and pressed_buttons_
    down            \* the inputs the host was told are down

channels == <<transport, video_lost>>
state == <<header, error, closed, published, unheard>>
viewVars == <<view, running, close_posted, pressed, down>>
threads == <<decoder, pipeline_error, monitors>>
sessionVars == <<thread, quit, at, channels, state, viewVars, queue, threads>>

Clock == "clock"
Clipboard == "clipboard"

SessionInit ==
    /\ thread = NoThread /\ quit = {} /\ at = "ended" /\ transport = "none" /\ video_lost = FALSE
    /\ header = "none" /\ error = FALSE /\ closed = FALSE /\ published = FALSE /\ unheard = FALSE
    /\ view = "none" /\ running = FALSE /\ close_posted = FALSE
    /\ queue = "empty" /\ decoder = "none" /\ pipeline_error = FALSE /\ monitors = {}
    /\ pressed = {} /\ down = {}

Fresh(t, place) ==
    /\ at' = place /\ thread' = t /\ transport' = "none" /\ video_lost' = FALSE
    /\ header' = "none" /\ error' = FALSE /\ closed' = FALSE
    /\ published' = FALSE /\ unheard' = FALSE
    /\ view' = "none" /\ running' = FALSE /\ close_posted' = FALSE
    /\ queue' = "empty" /\ decoder' = "none" /\ pipeline_error' = FALSE /\ monitors' = {}
    /\ pressed' = {} /\ down' = {}

\* A thread of the pool begins run, with a state of its own; or is done with it.
Run(t, place) == at = "ended" /\ Fresh(t, place) /\ UNCHANGED quit

Goto(place) == at' = place

\* VideoWindow::request_close
RequestClose == running' = FALSE /\ close_posted' = (close_posted \/ view = "open")

\* What fail and on_closed do once the window and the queue are published.
CloseView ==
    IF published THEN RequestClose /\ queue' = "stopped"
    ELSE UNCHANGED <<running, close_posted, queue>>

-----------------------------------------------------------------------------
(* The transport's callbacks *)

CallbackStep ==
    UNCHANGED <<thread, quit, at, published, unheard, view, pressed, down, threads>>
ClosesNothing == UNCHANGED <<running, close_posted, queue>>

\* The peer connection is there, whatever became of its control channel.
Receives == transport \in {"open", "lost"}

\* on_binary: a StreamHeader, which must be the only one.
OnStreamHeader ==
    /\ transport = "open"
    /\ IF header = "none"
       THEN header' \in {"good", "bad"} /\ UNCHANGED error
       ELSE error' = TRUE /\ UNCHANGED header
    /\ CallbackStep /\ ClosesNothing /\ UNCHANGED <<channels, closed>>

\* fail: on_error, and what on_binary and the video callbacks find wrong.
Fail == error' = TRUE /\ CloseView

OnError ==
    /\ Receives /\ Fail
    /\ CallbackStep /\ UNCHANGED <<channels, header, closed>>

\* The peer or the network ends a channel.
ControlLost ==
    /\ transport = "open" /\ transport' = "lost"
    /\ CallbackStep /\ ClosesNothing /\ UNCHANGED <<video_lost, header, error, closed>>

VideoLost ==
    /\ Receives /\ ~video_lost /\ video_lost' = TRUE
    /\ CallbackStep /\ ClosesNothing /\ UNCHANGED <<transport, header, error, closed>>

\* notify_closed, for the channel of which it is told first.
OnClosed ==
    /\ Receives /\ (transport = "lost" \/ video_lost)
    /\ ~closed /\ closed' = TRUE /\ CloseView
    /\ CallbackStep /\ UNCHANGED <<channels, header, error>>

\* on_video_binary and on_video_frame: a frame for the decode queue.
OnVideo ==
    /\ Receives /\ published /\ queue = "empty" /\ queue' = "frame"
    /\ CallbackStep /\ UNCHANGED <<channels, header, error, closed, running, close_posted>>

-----------------------------------------------------------------------------
(* run, up to the message loop *)

SetUp == UNCHANGED <<thread, close_posted, pressed, down, threads>>
NothingShown == UNCHANGED <<video_lost, view, running, published, unheard, queue, quit>>

\* establish_webrtc_over_websocket, and the request.
Connect ==
    /\ at = "connecting"
    /\ \/ transport' = "open" /\ Goto("header")
       \/ Goto("ended") /\ UNCHANGED transport
    /\ SetUp /\ NothingShown /\ UNCHANGED <<header, error, closed>>

\* The wait for the header, its validation, and eight clock requests.
HeaderArrived ==
    /\ at = "header" /\ (header # "none" \/ closed \/ error)
    /\ Goto(IF ~error /\ header = "good" /\ transport = "open" THEN "view" ELSE "throw")
    /\ SetUp /\ NothingShown /\ UNCHANGED <<transport, header, error, closed>>

\* The window, its swap chain, the decode queue; each may fail.
MakeView ==
    /\ at = "view"
    /\ \/ Goto("publish") /\ view' = "open" /\ running' = TRUE
       \/ Goto("throw") /\ UNCHANGED <<view, running>>
    /\ SetUp /\ UNCHANGED <<channels, state, queue, quit>>

Publish ==
    /\ at = "publish" /\ Goto("ready") /\ published' = TRUE /\ unheard' = closed
    /\ SetUp /\ UNCHANGED <<channels, header, error, closed, view, running, queue, quit>>

\* StreamReady; then the threads.
SendReady ==
    /\ at = "ready"
    /\ IF transport = "open"
       THEN /\ Goto("loop") /\ decoder' = "create" /\ monitors' = {Clock, Clipboard}
       ELSE Goto("throw") /\ UNCHANGED <<decoder, monitors>>
    /\ UNCHANGED <<thread, quit, channels, state, viewVars, queue, pipeline_error>>

\* An exception leaves run: the window goes with its object, ...
Throw ==
    /\ at = "throw" /\ Goto("unwind")
    /\ view' = IF view = "none" THEN "none" ELSE "gone"
    /\ quit' = IF view = "open" THEN quit \cup {thread} ELSE quit
    /\ running' = FALSE /\ close_posted' = FALSE
    /\ UNCHANGED <<thread, channels, state, queue, threads, pressed, down>>

\* ... then the transport, whose callbacks have its address until then, the
\* on_closed of its close() among them.
Unwind ==
    /\ at = "unwind" /\ Goto("ended") /\ transport' = "closed" /\ closed' = TRUE
    /\ published' = FALSE
    /\ UNCHANGED <<thread, quit, video_lost, header, error, unheard, viewVars, queue, threads>>

-----------------------------------------------------------------------------
(* The message loop and the window's procedure *)

LoopStep == UNCHANGED <<thread, channels, header, closed, published, unheard, threads>>

\* send_input: nothing is sent once the window is to close; a send that fails
\* asks for that.
Sent(now) ==
    \/ running /\ transport = "open" /\ down' = now /\ UNCHANGED <<running, close_posted>>
    \/ running /\ transport # "open" /\ RequestClose /\ UNCHANGED down
    \/ ~running /\ UNCHANGED <<down, running, close_posted>>

\* A posted WM_CLOSE comes before a WM_QUIT, and that before input.
Dispatches == at = "loop" /\ running

Press(k) ==
    /\ Dispatches /\ ~close_posted /\ thread \notin quit
    /\ pressed' = pressed \cup {k} /\ Sent(down \cup {k})
    /\ LoopStep /\ UNCHANGED <<quit, at, view, queue, error>>

Release(k) ==
    /\ Dispatches /\ ~close_posted /\ thread \notin quit /\ k \in pressed
    /\ pressed' = pressed \ {k} /\ Sent(down \ {k})
    /\ LoopStep /\ UNCHANGED <<quit, at, view, queue, error>>

\* (mutant) The inputs are forgotten, and the host not told.
KillFocusSilent ==
    /\ Dispatches /\ ~close_posted /\ thread \notin quit
    /\ pressed' = {} /\ UNCHANGED <<down, running, close_posted>>
    /\ LoopStep /\ UNCHANGED <<quit, at, view, queue, error>>

\* WM_KILLFOCUS: release_local_inputs
KillFocus ==
    /\ Dispatches /\ ~close_posted /\ thread \notin quit
    /\ pressed' = {} /\ Sent(down \ pressed)
    /\ LoopStep /\ UNCHANGED <<quit, at, view, queue, error>>

\* WM_CLOSE, the user's or a posted one: the inputs are released, if they can
\* still be sent, and DestroyWindow posts a WM_QUIT.
Close ==
    /\ at = "loop" /\ view = "open" /\ (running \/ close_posted)
    /\ pressed' = {} /\ running' = FALSE /\ close_posted' = FALSE
    /\ down' = IF running /\ transport = "open" THEN down \ pressed ELSE down
    /\ view' = "destroyed" /\ quit' = quit \cup {thread}
    /\ LoopStep /\ UNCHANGED <<at, queue, error>>

\* GetMessageW returns 0, and takes the WM_QUIT.
Quit ==
    /\ Dispatches /\ ~close_posted /\ thread \in quit
    /\ quit' = quit \ {thread} /\ running' = FALSE /\ Goto("stop")
    /\ LoopStep /\ UNCHANGED <<view, close_posted, pressed, down, queue, error>>

\* The loop looks at running_ before it asks for another message.  A thread that
\* waits in GetMessageW is woken by the WM_CLOSE that comes with it.
LeaveLoop ==
    /\ at = "loop" /\ ~running /\ Goto("stop")
    /\ LoopStep /\ UNCHANGED <<quit, view, running, close_posted, pressed, down, queue, error>>

-----------------------------------------------------------------------------
(* The other threads *)

MonitorStep == UNCHANGED <<thread, quit, at, channels, header, closed, published, unheard, view,
                           pressed, down, decoder, pipeline_error>>

\* The transport is closed, or the flag is down; the clipboard's may fail to send.
MonitorEnds(m) ==
    /\ m \in monitors /\ monitors' = monitors \ {m}
    /\ \/ at = "join_monitors" \/ transport # "open"
       \/ m = Clock
    /\ MonitorStep /\ UNCHANGED <<running, close_posted, queue, error>>

ClipboardFails ==
    /\ Clipboard \in monitors /\ monitors' = monitors \ {Clipboard}
    /\ Fail /\ MonitorStep

DecoderStep == UNCHANGED <<thread, quit, at, channels, header, error, closed, published,
                           unheard, view, pressed, down, monitors>>

\* VplAv1Decoder::VplAv1Decoder
CreateDecoder ==
    /\ decoder = "create" /\ decoder' = "pop"
    /\ DecoderStep /\ UNCHANGED <<pipeline_error, running, close_posted, queue>>

\* EncodedFrameQueue::pop
Pop ==
    /\ decoder = "pop"
    /\ \/ running /\ queue = "frame" /\ queue' = "empty" /\ decoder' = "decode"
       \/ (queue = "stopped" \/ (~running /\ queue = "frame")) /\ decoder' = "drain"
          /\ UNCHANGED queue
    /\ DecoderStep /\ UNCHANGED <<pipeline_error, running, close_posted>>

\* VplAv1Decoder::submit: a surface, or none yet.
Decode ==
    /\ decoder = "decode" /\ decoder' \in {"present", "pop"}
    /\ DecoderStep /\ UNCHANGED <<pipeline_error, running, close_posted, queue>>

\* handle_surface, and VideoWindow::present, which shows it or not.
Present ==
    /\ decoder = "present" /\ decoder' = "pop"
    /\ DecoderStep /\ UNCHANGED <<pipeline_error, running, close_posted, queue>>

\* PipelineState::fail, for what the decoder or the swap chain throws.
PipelineFails ==
    /\ decoder \in {"create", "decode", "present"} \/ (decoder = "drain" /\ running)
    /\ decoder' = "ended" /\ pipeline_error' = TRUE /\ queue' = "stopped" /\ RequestClose
    /\ DecoderStep

Drain ==
    /\ decoder = "drain" /\ decoder' = "ended"
    /\ DecoderStep /\ UNCHANGED <<pipeline_error, running, close_posted, queue>>

-----------------------------------------------------------------------------
(* run, after the message loop *)

TearDown == UNCHANGED <<thread, video_lost, header, error, unheard, pressed, down,
                        pipeline_error, monitors>>

\* (mutant) The decode queue is left to the transport.
StopWindowOnly ==
    /\ at = "stop" /\ Goto("join_monitors") /\ running' = FALSE
    /\ TearDown
    /\ UNCHANGED <<quit, transport, closed, published, view, close_posted, queue, decoder>>

Stop ==
    /\ at = "stop" /\ Goto("join_monitors") /\ running' = FALSE /\ queue' = "stopped"
    /\ TearDown /\ UNCHANGED <<quit, transport, closed, published, view, close_posted, decoder>>

\* The two joins, and close(), which calls on_closed if nothing has.
CloseTransport ==
    /\ at = "join_monitors" /\ monitors = {} /\ Goto("join_decoder")
    /\ transport' = "closed" /\ closed' = TRUE
    /\ IF closed THEN ClosesNothing ELSE CloseView
    /\ TearDown /\ UNCHANGED <<quit, published, view, decoder>>

\* (mutant) The decode thread is not waited for.
JoinNothing ==
    /\ at = "join_decoder" /\ Goto("leave") /\ published' = FALSE
    /\ TearDown
    /\ UNCHANGED <<quit, transport, closed, view, running, close_posted, queue, decoder>>

JoinDecoder ==
    /\ at = "join_decoder" /\ decoder = "ended" /\ Goto("leave") /\ published' = FALSE
    /\ TearDown
    /\ UNCHANGED <<quit, transport, closed, view, running, close_posted, queue, decoder>>

\* ~VideoWindow destroys a window the loop left open.
Leave ==
    /\ at = "leave" /\ Goto("ended") /\ view' = "gone" /\ close_posted' = FALSE
    /\ quit' = IF view = "open" THEN quit \cup {thread} ELSE quit
    /\ TearDown /\ UNCHANGED <<transport, closed, published, running, queue, decoder>>

-----------------------------------------------------------------------------
Callbacks == OnStreamHeader \/ OnError \/ ControlLost \/ VideoLost \/ OnVideo
SessionThread ==
    \/ Connect \/ HeaderArrived \/ MakeView \/ Publish \/ SendReady \/ Throw \/ Unwind
    \/ (close_posted /\ Close) \/ Quit \/ LeaveLoop
    \/ Stop \/ CloseTransport \/ JoinDecoder \/ Leave
SessionUser == KillFocus \/ Close \/ \E k \in Inputs : Press(k) \/ Release(k)
DecodeThread == CreateDecoder \/ Pop \/ Decode \/ Present \/ PipelineFails \/ Drain
Monitors == ClipboardFails \/ \E m \in {Clock, Clipboard} : MonitorEnds(m)

SessionTypeOK ==
    /\ thread \in Pool \cup {NoThread} /\ quit \subseteq Pool
    /\ at \in {"connecting", "header", "view", "publish", "ready", "throw", "unwind", "loop", "stop",
               "join_monitors", "join_decoder", "leave", "ended"}
    /\ transport \in {"none", "open", "lost", "closed"} /\ header \in {"none", "good", "bad"}
    /\ {video_lost, error, closed, published, unheard, running, close_posted, pipeline_error}
         \subseteq BOOLEAN
    /\ view \in {"none", "open", "destroyed", "gone"}
    /\ queue \in {"empty", "frame", "stopped"}
    /\ decoder \in {"none", "create", "pop", "decode", "present", "drain", "ended"}
    /\ monitors \subseteq {Clock, Clipboard} /\ pressed \subseteq Inputs /\ down \subseteq Inputs
=============================================================================
