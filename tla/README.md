# Verification of remoe

remoe streams a Windows desktop to a native, web or Android client over WebRTC.
A small Node service introduces the two ends to each other. This directory
holds TLA+ models of the parts whose correctness depends on the order of
events, the TLC runs that check them, and proofs checked by TLAPS.

    tlc -config SignalingManaged.cfg MCSignaling      # a run
    tlapm SignalingProofs.tla                         # the proofs

`PROJECT.json` lists components, runs, mutants (a plausible slip of the code
for each property, which the run must notice), the lines each definition
stands for, findings, hazards and theorems.

## 1. The system

| Component | State it keeps | Operations | Talks to |
|---|---|---|---|
| Signaling relay, `signaling-server/server.mjs` 890-1223 | `sessions`, `managedHosts`, per session `host`, `client`, pending queues, `lastActivity`; per socket `isAlive`, `managedSession` | upgrades to `/host` and `/signal`, `/connect`, frames, pongs, close events, 30 s heartbeat | hosts and clients over WebSocket; the hosts table |
| Accounts, same file 130-850, `lib/database.mjs` | users, passkeys, recovery codes, browser sessions; ceremonies in memory | registration, login, recovery, each in two requests with an await between check and write; deletion, rotation, logout | browsers; grants and pairings ask it who is signed in |
| Device sessions, same files | device authorizations, Android bindings, ceremonies and devices, refresh and access tokens | start, approve, poll, claim, decide, complete, register, refresh, revoke | native and Android clients, browsers |
| Host pairing, `server.mjs` 780-890 and 1050-1080 | pairing sockets, hosts and their token hashes | open, pair, delete | hosts, browsers; closes sockets of the relay |
| Signaling stream, `src/webrtc_websocket_signaling.cpp` | incoming bytes, open, closed, error | send, receive with a deadline, close | relay; bootstrap |
| Bootstrap, `src/webrtc_tcp_bootstrap.cpp` | the flags of `BootstrapState`, pending candidates | `establish`, callbacks on two more threads | stream; transport |
| Browser bootstrap, `web-client/src/core/remoe-client.js` 100-300 | the same flags as private fields | event handlers, one at a time | relay; RTCPeerConnection |
| WebRtcTransport, `src/webrtc_transport.cpp` | channels, `closing`, `closed_notified`, AV1 depacketizer, pacing queue and its worker | send, receive callbacks, close | libdatachannel |
| Low-latency video, `src/main.cpp` 575-610 and 1400-1450, `src/video_chunk_assembler.h`, `src/client_main.cpp` 290-460 and 600-660, `protocol.js` 340-435, `remoe-client.js` 412-527 | frame number, key frame flag; assemblies, gate, decoder queue | encode and send, deliver a chunk, decode, request a key frame | `remoe-video` channel (unordered, no retransmission), control channel |
| Host session, `src/main.cpp` 870-1470 | phase of the session, pressed keys and buttons, clipboard sequence | control messages, frame loop | transport, desktop |
| Adaptive controller, `src/adaptive_stream_controller.cpp` | rate, pending decision, clean reports, last decrease | feedback from network and pacer, decisions taken by the frame loop | host session |
| Capture and encoders, `src/desktop_capture.cpp`, `src/vpl_encoder.cpp`, `src/nvenc_encoder.cpp`, `src/x264_encoder.cpp` | the duplication, the imported input surface, pictures held back | acquire, input, encode, discard, drain, set the bit rate | host session, recorder |
| Native client, `src/client_main.cpp`, `src/video_window.cpp` | session state under a mutex, window, pressed inputs, decode queue, decoder, monitors | callbacks, message loop, decode thread, tear-down | transport; launcher |
| Launcher, `src/launcher_window.cpp`, `src/account_client.cpp`, `src/client_identity.cpp` | the window's task, identity, authorization, the identity file | buttons, a timer, HTTP tasks on a thread | account server, native client |
| Service supervisor, `src/windows_service.cpp`, start of `run` in `src/main.cpp`, `src/host_identity.cpp` | worker process, stop and session events, the host's identity file | start, follow the active session, restart, stop, install, uninstall | Windows SCM; worker process |
| Recorder, `src/recorder_main.cpp` | window and error boxes, the recording thread, IVF and MP4 files | start, stop, hot key, close, record, remux | capture, encoders, FFmpeg |
| Web shell, `web-client/src` | clipboard generations, last frame, pressed inputs | browser events | browser client |
| Android client, `android-client/app/src/main` | `RtcSession`, binding, gestures | WebRTC and WebSocket threads, UI | relay, host |

Not part of the running product: `src/tcp_server.cpp`, `tools/capture_probe`,
build scripts, `third_party`.

### What is hard, and what correct means

*Relay.* Node runs a handler to its end, but a socket that is closed emits
`close` later, and its handler acts on the session it captured when it was
registered. Meanwhile the session may have been reclaimed, its id reused, its
host leased to someone else. Correct: a managed host is leased to one session
at a time and is never left leased to nobody's; a client's session is not ended
by someone else's close event; frames reach only the peer they were meant for;
a revoked host gets no lease; queue accounting does not drift; abandoned
leases end.

*Accounts and grants.* The WebAuthn handlers check, await a verification, and
write, while other requests are served; the process may restart between the two
requests of a ceremony, and then the Maps are gone and the tables are not.
Bindings and logins are claimed, approved, polled, completed, expired and
revoked by several parties. Correct: no account is locked out; a code, binding
or pairing gives one credential at most, for the user who approved it; a phone
whose binding the user was shown is the one that is bound; a session that is
revoked gives no access.

*Bootstrap.* Each native end has three threads that share atomics; the only
shared lock guards sending. The stream may break at any point; only the client
has a timeout. Correct: an end that returns has an open channel at both ends
and all candidates, no bytes of the handshake are left, and everyone ends.

*Video.* Chunks are lost and reordered; frames refer to the frames before them;
the encoder makes a key frame only when told to. Correct: the decoder never
crosses a hole, memory is bounded, and a client that throws frames away has a
key frame coming.

*Host session.* One thread establishes, waits and streams; libdatachannel's
threads call back into its local variables, and closing waits for those of the
channels, not for those of RTCP. Correct: a session that ends, however it ends,
leaves no input down and no callback running; a client that keeps to the protocol is not refused, whichever
way its messages overlap the phases; the host listens again.

*Frame loop and controller.* The pacer drops a frame when its queue is full, the
controller overwrites a decision nobody took yet, encoders hold pictures back
and the input a turn imported must be given back on every way out. Correct: what
follows a dropped frame is a key frame; a request for one is served.

*Native client and launcher.* Five threads and a window whose message queue
outlives it share a session either of whose channels may be lost in any phase; the
launcher's tasks race the server, which acts although an answer is lost, and a
file that may not be written or deleted. Correct: nobody uses a window that is
gone; the release of an input is never lost; the window works with no login but
the file's, and a login that was left is revoked; every session that is over ends.

*Service.* A supervisor, its control handler, worker processes that are told to
stop and then terminated, an install tool and Windows act on one another with
no common lock. Correct: one worker at a time and none after a stop or an
exception; a saved identity survives any end of a worker; the host is where the
user is.

*Recorder.* A modal error box dispatches messages while the window that shows it
closes; the encoder fails with pictures in it. Correct: what is recorded is
whole, in order, and kept.

*Web shell, Android.* Clipboard echoes and flags shared by threads; see section 6.

## 2. Modules

    HostLease          what the relay promises about a managed host
      ^ refined by
    Signaling          the relay                 <- MCSignaling, SignalingProofs

    Accounts           users, passkeys, recovery
      ^ extended by
    DeviceGrants, HostPairing      logins and bindings; hosts
      ^ composed by
    AccountServer      the account side          <- MCAccountServer, AccountServerProofs
      v refines
    LoginGrant         what a credential goes through

    Bootstrap          both ends' handshake      <- MCBootstrap, BootstrapProofs
    HostSession        sessions of a host        <- MCHostSession, HostSessionProofs
    HostService        supervisor and workers    <- MCHostService, HostServiceProofs

    DecodableStream    what a decoder may be given
      ^ refined by
    VideoRecovery      host, channel, client     <- MCVideoRecovery, VideoRecoveryProofs

    Launcher, ClientSession        the window; a session of it
      ^ composed by
    NativeClient       the client's process      <- MCNativeClient, NativeClientProofs

    VideoEncoder       capture and encoders, as operators
      ^ extended by
    HostVideo, Recorder            frame loop, pacer, controller; recorder
      ^ composed by
    Media              the program that encodes  <- MCMedia, MediaProofs

A definition marked as a slip or a mutant in its comment is the mistake a
property is measured against and is used by no action.

### Signaling

One action per handler, since Node does not interleave them. `state` is the
`readyState` of each connection: `close()` and `terminate()` move it to CLOSING
(`StateAfter`), and the close event is an action of its own (`RejectedClosed`,
`SignalClosed`, `ManagedHostClosed`) that may come any time later. `sess` is the
session a handler captured, or `managedSession` of a managed host. Session
objects live on after `removeSession` took them out of the Map `sessions`,
because handlers still hold them. `/connect` gives a session a random id, which
is modelled by the object itself; an invite's id is chosen by the host and is
used again.

A frame is one unit of the byte limits. A queue is the sequence of the sockets
its frames were queued for, so that a frame delivered to another one is visible.
`age` abstracts `lastActivity` to the two thresholds the code compares it with.
`hostRow` and `revoked` stand for the hosts table and its device tokens: a
connection is revoked when its token was replaced or its row deleted.

Left out: HTTP routing and authentication (a request of someone without access
changes nothing), texts of errors; pairing sockets are HostPairing's.

### Accounts, DeviceGrants, HostPairing

The account side of the same process. In Accounts each ceremony takes two
requests: the first puts it in the Map `ceremonies` and names it by the
browser's cookie (`ceremony`), the second takes it, checks it, and awaits the
verification with what it took in `verifying`. The effects come in `Registered`
and `LoggedIn`, by when codes may have been rotated, passkeys deleted and the
browser signed out. `session` is the user of the browser's cookie. What the
WebAuthn library computes is a choice between verified and refused. The lookups
before a ceremony begins are one action with it: nothing is kept between them.

The handlers of DeviceGrants and HostPairing do not await once they have read
their request, so each is one action. `requireUser` runs before the body is
awaited, so handlers with a body act for any user, not only for one who is
still signed in. A row with a refresh token is numbered, and its access tokens
are counted. What is past its expiry is treated by every handler as gone, so
that expiring and being swept are one action. A pairing socket may be closing
when its token is sent: then the table has a token that no host `known`.

`AccountServer` composes them: they share the users and who is signed in, and
`Restart`, which empties the Maps and keeps the tables. What a revoked token or
a deleted host does to the connections of the relay is in Signaling
(`RebindHost`, `DeleteHost`).

### Bootstrap

`pc` holds the place of each of the three threads of a native end: `main` runs
the loop of `establish`, `opener` runs `on_open`, `gatherer` the local
description, the candidates and the end of gathering. Reads and writes of
shared flags are separate steps, down to the `exchange` in
`maybe_send_acknowledgement`, the test of `handshake_complete` under the send
lock, and the send. The wait is three steps: the predicate, blocking, waking;
a notification moves only a thread that is already blocked.

Which ends are browsers is `browsers`, chosen at the start from `Deployments`.
A browser end runs each handler as one step; `setRemoteDescription` is awaited,
so frames arrive while it is `applying`.

All candidates of an end are one, since only the first and the last matter. The
relay is a FIFO queue per direction that may break once, when what is under way
survives or is lost as a whole. Callbacks of a native end that failed are
frozen: its transport is closed. Spurious wake-ups of the wait are not
modelled. They are permitted, but nothing guarantees one, so nothing may depend
on them.

### HostSession

`phase` and `at` are the place of the main thread in the loop of `run`: `phase`
says which statement it is at, `at` where in one of the three waits it is, or
from where it closes. A wait is a test under `handshake.mutex`, the interval
before it blocks (`sleep`), and being blocked; a notification moves it only from
there, and 250 ms do (`WaitExpires`). `MainHolds` says when main owns the mutex:
in a wait until it blocks, and in `close()` when that is called inside the block
(`locked`), which the first two waits do and the third does not.

`callback[t]` is what the thread of the control channel, the video track or the
video DataChannel waits to do under `handshake.mutex`. Each callback runs under
the lock of its `rtc::synchronized_callback`, which `resetCallbacks` takes, so
`Closed` has to wait until all have returned (`Quiet`). The callbacks of the
track's RTCP handlers (`callback["rtcp"]`) have no such lock: they test `closing`
(`RtcpArrives`), are called, and return (`RtcpHandled`) whenever they do, which
may be after `close()`. Messages that need no other lock are one step.
`input_mutex` is left out: only callbacks of one channel, which exclude each other
already, take it, and main after `close()`.

A client is `conforming` or not. One that is sends its request, waits for the
StreamHeader, sends StreamReady, and only uses what it asked for; one that is
not sends anything in any phase. `down` is the desktop's state and `pressed`
the session's knowledge of it; `inherited` and `served` are history, read by
properties only.

Left out: an exception of the encoder or of capture, which ends `run` (it is in
HostVideo); a rejected `SendInput`; clipboard contents, the cursor, and what the
RTCP callbacks do with key frames and the adaptive rate (HostVideo's), which do
not change the phase. Destroying a transport, at the `continue` after a failed
send and when `establish` throws, is its `close()`.

### VideoRecovery

The host numbers frames whether or not it drops them (`sent`), the network is a
set of chunks, and the client is of one of two kinds, chosen at the start. An
action per chunk delivered does the whole of `on_video_binary` or
`#handleVideo`: assembler, gate, reset, queue, request. The definitions
between (`Stale`, `Completes`, `Gap`, `Waits`, `Passes`, `Overflows`) are the
conditions of the code by name. `decoder` records the last frame it was given,
whether it was a key frame, and how many it had since it was made or reset.

The control channel is reliable: requests are counted, not lost. The rate limit
of the browser is the flag `recent`, which time clears (`MayAskAgain`). Frames
of duplicate chunks or inconsistent headers do not occur: a chunk is delivered
once and the host writes the headers. The encoder returns one packet for a
frame, as it is configured without look-ahead. The byte limit of the queue
coincides with its frame limit. Chunks before the decoder exists are left out:
the host sends none before StreamReady.

### HostService

Five actors: the thread of `service_main` (`proc` is its place), the control
handler on the dispatcher's thread (`handler`), the worker processes, the tool of
`--install-service` and `--uninstall-service`, and Windows. An event is "none"
before it is created and after its handle was reset. A worker's `state` goes
from its creation through pairing and saving its identity to hosting; the
supervisor may terminate it after any step, so the save is two steps
(`SaveTemporary`, `ActivateIdentity`). Any call of `service_main` may throw
(`LaunchFails`, `ServiceFails`), with a worker alive or without; the exception
takes it to the second `stop_worker`. What the module assumes of Windows is in
its header. The stream the worker serves is HostSession's.

### Launcher, ClientSession, NativeClient

`Launcher` is the login window: one `task` at a time on a thread, whose `result` a
timer of the window picks up, and the server's view of each login (`grants`),
which an HTTP request may change although its answer is lost. The identity file
(`saved`) may be left behind by a deletion (`Forgotten`) or be unreadable after a
write, since the code looks at neither; `left` is history. `ClientSession` is a
run of `client_main.cpp`: `at` is the place of its thread, `view` the window,
`decoder` the decode thread, `monitors` the clock and clipboard threads, and each
callback of the transport is one step, since it holds the state's mutex. The
control and the video channel close apart (`ControlLost`, `VideoLost`) and share
`closed_notified`, so `OnClosed` comes once; `unheard` records that it came before
the window was published. `close()` calls it if nothing has, and waits for the
channels' callbacks, so none follows `CloseTransport`. Sessions run on the threads
of a pool, whose message queues outlive them: `quit` is the threads with a WM_QUIT
nobody took. `NativeClient` joins them: starting and finishing a session are steps
of both, and so is the end of the process, when the launcher is closed, when it
cannot save a login (`FinishLoginUnsaved`), or when a callback of a run that
throws after `Publish` uses the window that went before the transport (`Crash`).

### VideoEncoder, HostVideo, Recorder, Media

`VideoEncoder` has the encoders' interface as operators for the actions of two
programs: the input surface that oneVPL imports and that must be encoded or
discarded, pictures held back (oneVPL gives one packet per call at most, the
others what they have), draining, the duplication that is lost and made anew.
Rates below 1 Mbps, which oneVPL alone refuses, do not occur:
`validate_client_settings` rejects them. `HostVideo` is the frame loop for the RTP track: `at` is its place between
two calls, the pacer's `queue` counts packets, the controller's rates are ranks,
and its measurements are congested or clean. `gap` and `owed` are history.
`Recorder` has the recording thread and its window, whose error box dispatches
messages (`boxes`); a picture in `file` is the picture and the timestamp it got.
`Media` runs either program.

## 3. Runs

| Run | Shows |
|---|---|
| `signaling_managed` | two connections of a paired host, two clients, two session objects: `LeaseConsistent`, `RevokedHostOffline`, `PendingAccounted`, refinement of HostLease |
| `signaling_live` | an invite host, a managed host and a client: `AbandonedLeaseEnds`, `BrokenSessionEnds` (a client its host left, a managed host its client left), `HostReachable` |
| `signaling_reclaim` | violation: a reclaimed client's late close disconnects the host of the next lease |
| `accounts` | accounts, logins, bindings and pairings of two users across expiry and restarts: `AccountReachable`, `BindingHonoured`, `AccessFollowsSession`, refinement of LoginGrant |
| `bootstrap` | a native host with a native client that has a timeout, or with a browser client: `ReturnedOpen`, `CandidatesApplied`, and `TimedEnds` |
| `bootstrap_host` | violation: the host's last wait can miss its only notification and has no deadline |
| `host_session` | session after session of any clients, with callbacks of channels and of RTCP: `InputsReleased`, `NoDanglingCallback`, `ConformingServed`, and `StreamEnds` |
| `host_session_stuck` | violation: main closes the transport with the mutex a callback waits for |
| `service` | supervisor with calls that fail, handler, workers, tool and two interactive sessions: `WorkersAccounted`, `IdentityKept`, `FollowsSession`, `StopHonoured` |
| `video_recovery` | native and browser client: refinement of DecodableStream, `NoDeltaAfterDrop` |
| `client` | launcher with a file that fails, server, and one session after the other over two channels: `LoginConsistent`, `ViewInUse`, `DownIsKnown`, `ApprovedLoginEnds`, `SessionEnds` |
| `media` | frame loop with controller and pacer, or recorder: `NextAcceptedIsKey`, `KeyRequestServed`, `RecordingComplete` |

Every passing run but `signaling_live` checks its `TypeOK` as well, which also
holds the bounds of buffers (VideoRecovery), the events that exist while
`service_main` uses them (HostService) and the input surface that is free
whenever it is asked for (Media).

**Bounds.** *Signaling.* Every property relates one host, its current session
and at most one older session or connection, so two session objects, two
connections and two clients show each interleaving of an old object with a new
one; a third session of the same host repeats the relation of the second to the
first. `MaxPending` 1 and `MaxTotalPending` 1 or 2 make both limits bind. In
`signaling_live` the two hosts compete for one place among the sessions and for
one frame of the total; with its one invite socket no id is used twice, which is
the theorem `Reachable`'s. Symmetry is used for safety only. *Accounts.* Two users
with two browsers and two passkeys give two requests of one user, or of two, in
their awaits at once. `MaxCodes` 3 is a code for each and a rotation; two
bindings, two ceremonies and one phone let a phone be registered twice, by one user or by
both, and log in; two refresh tokens, two pairings and two host ids let one replace
the other. The constraint `OnePart` explores the three parts one at a time, the
last two with both users signed in: the parts share only `users`, `session` and
`Restart`, so that interleaving them shows nothing more. *Bootstrap.* The state
is finite: each end sends every kind of frame once. *Video.* `Window` is 1 for
the code's 8, a key frame has 2 chunks for any number, and the decoder queue
holds `QueueLimit` frames for two seconds of them (native, also limited to 8 to
64 MiB) or for the browser's limit: with six frames, of which two may be lost at
the host, each buffer can overflow, recover and overflow again. *Host session.* Sessions follow each other without
a bound, since the state of one is new; two inputs show one released and one
not, and the three requests are one for each video path and one that is refused.
*Service.* Two sessions, one of them at the console, and two worker slots, one
more than may be alive. *Client.* Two logins, so that one can replace another;
one pool thread, which every session then shares with the one before, and one
input. *Media.* Two rates, a key frame of 3 packets for a queue of 1 or 2, so that
a key frame alone exceeds it, one picture held back, two recordings of up to two
pictures. `MaxFrames`, `MaxLost`, `MaxCodes`, `MaxTokens`, `MaxLogins`,
`MaxRecordings` and `MaxTicks` bound counters; `MaxPending`, `MaxTotalPending`,
`MaxSessions`, `MaxRate`, `MaxQueue` and `Latency` are the program's.

**Deadlock** is checked in Signaling, whose timers never stop, in AccountServer,
which may always restart, and in HostService, where users come and go. A
handshake ends, the frames of VideoRecovery are used up, a host may be stopped,
the server has no more logins for the client, and either program of Media ends;
those runs say `CHECK_DEADLOCK FALSE`.

**Fairness.** Signaling: `setInterval` fires and time passes (weak fairness of
`Heartbeat` and `Tick`), and `ws` emits `close` at the latest when its close
timeout expires (weak fairness of `CloseEvent`). No fairness is assumed of
peers. `TimedSpec` of Bootstrap: the thread of an end with a timeout runs and
its deadline passes; callbacks and the other end owe nothing. `FairSpec`: every
thread that can run does; ICE need not succeed and the relay need not last.
The violation of `HostReleased` needs that much, so that the host is not just
idle. HostSession: the main thread runs and so does a callback that can have
the mutex (weak fairness of `Main` and `Noted`); clients need not come, send or
stay. HostService: the supervisor's and the handler's threads run, and the
session event is not signalled so often that the end of the worker, which the
wait looks at after it, is never seen (strong fairness of `WaitWorkerExited`).
Nothing is asked of workers, which the supervisor terminates, of the tool or of
Windows. NativeClient: the threads run, HTTP requests end because they have a
timeout, the window's timer ticks, and the user does not start something between
any two ticks for ever (strong fairness of `BeginPoll`). Nothing is asked of the
peer. Media: the loop and the pacer's worker run, and the desktop changes and capture sees
it in the end (strong fairness of `Acquire`): without a change nothing is
encoded and no request can be served.

**Abstract specifications.** HostLease says what a caller of `/connect` relies
on: grants of fresh sessions, one at a time, never while a client is engaged,
and one client per session, ever. The mapping takes the lease from
`managedSession` of the registered connection, engagement from the client's
`readyState`. LoginGrant says what a user relies on who types a code: each code,
binding, ceremony and pairing is asked for, approved by one user, used once for
that user, and never comes back. The mapping of a login, a binding, a device's
ceremony and a host's pairing is one function over all of them; two rows of one grant would
map to a stage LoginGrant does not have. DecodableStream says what a decoder
tolerates: the first frame of a new or reset decoder is a key frame and the
others follow without a hole.

## 4. Findings

The violation runs are disagreements of the code with what the repository says:

1. *Reclaimed clients* (`server.mjs:1155`). The close handler of a reclaimed client closes
   `session.host`, which serves the newer session. `README.md` 544: the host
   goes back to listening and serves later clients.
2. *Waiting host* (`webrtc_tcp_bootstrap.cpp:297`). A lost notification leaves the
   host in a wait without deadline after its client failed.
3. *Stuck host* (`main.cpp:1162`, also 1182). `close()` is called with
   `handshake.mutex` held and waits for callbacks that wait for that mutex.
   `README.md` 544 again. `StreamEnds`, which holds, says that from the frame
   loop the host does return.

### Stated and refuted

The modules also state what the following places say. TLC refutes each on the
instances above (add it to the `.cfg` named to see the trace); they have no run of their own. What
the code does keep, next to each, is checked.

| Property (cfg) | Says so | Refuted by |
|---|---|---|
| `NoResidualFrames` (SignalingManaged) | `docs/signaling-server-deployment.md` 391: residual signaling frames are cleared | a client's close drops `pendingHost` only (`server.mjs:1149`): frames for a client that was leaving reach the next one |
| `RegisteredHostFound` (SignalingLive, with two invite hosts and two clients) | `README.md` 544: a host that listens again serves later clients | `removeSession` deletes by id (`server.mjs:961`): a late handler of the old object removes the session of a host that registered again; `HostReachable` says that nothing else takes a host from its clients |
| `AllInputsReleased` (HostSession) | `docs/webrtc-evaluation.md` 134: on a disconnection the host must release all | input is injected from the first control message on, but the exits before the frame loop do not release it (`main.cpp:1288`); `InputsReleased` says it of sessions that streamed |
| `NoFeedbackAfterSession` (HostSession) | `webrtc_transport.cpp` 1275: what calls the track's callbacks is stopped before they disappear | the RTCP handlers test `closing` and call afterwards (`webrtc_transport.cpp:1156-1166`); nothing waits for them, and they refer to locals of the session (`main.cpp:932-943`). `NoDanglingCallback` says it of the channels' callbacks |
| `DiscardsWithReason` (VideoRecovery) | `README.md` 280: a client that throws frames away asks for a key frame | the gates ask when recovery starts; when that key frame, or the first one, is lost, frames are discarded and nothing is requested (`protocol.js:413`) |
| `ClosesOnlyItself` (NativeClient) | `README.md` 276-277: closing the play window ends that session | the loop looks at `running_` before it asks for another message (`video_window.cpp:271`): the WM_QUIT of the window's end may stay in the pool thread's queue for the next session |
| `LostSessionEnds` (NativeClient) | `launcher_window.cpp` 353: the launcher says the session is disconnected and can be started again | the video channel's end before the window is published uses up `closed_notified` (`webrtc_transport.cpp:1064-1069`, 1265), and the control channel's then wakes nobody; `SessionEnds` has every other case |
| `ViewOutlivesCallbacks` (NativeClient) | `client_main.cpp` 832-834: the two pointers are taken back before the window goes | a StreamReady that cannot be sent throws (`client_main.cpp:787-790`) and destroys window and queue before the transport, whose `on_closed` then has their addresses; `ViewInUse` says it of runs that return |
| `LogoutDeletesFile` (NativeClient) | `README.md` 283-285: logging out revokes the session and deletes the local credential | `delete_client_identity` does not look at what DeleteFileW returns (`client_identity.cpp:111-113`); `LoginConsistent` says that such a file holds a revoked login |
| `RecoveryCodeOnce` (AccountServer) | `README.md` 551-552: a recovery code is single-use | the code is checked before the await and not again (`server.mjs:703`, `database.mjs:280`): two recoveries with one code both succeed. `AccountReachable` says that nobody is locked out |
| `RunsInActiveSession` (HostService) | `windows_service.cpp` 531, `README.md` 217: the host runs in the active session | the session is read before RUNNING is reported, and the SCM tells the service of no change until then (`windows_service.cpp:426`); `FollowsSession` says it of changes the supervisor was told of |
| `StagesWhenGone` (HostService) | `README.md` 231: the install command stops the service, then copies the new build | STOPPED is reported before the process is gone (`windows_service.cpp:510`) |
| `ClosesWhenSaved` (Media) | `README.md` 605: closing the window saves the recording | the hot key starts a recording while an error box is up, and the handler below it destroys the window (`recorder_main.cpp:210-215`) |

## 5. Proofs

`SignalingProofs` proves for any sets of connections, sessions and hosts and
any limits, from `SocketsAssumption` (the three kinds of connections are
disjoint, `None` is none of the objects, random ids are no invites) and
`LimitsAssumption`:

| Theorem | States |
|---|---|
| `TypeCorrect` | `Spec => []TypeOK` |
| `LeaseSafety` | `Spec => []LeaseConsistent` |
| `RevokedOffline` | `Spec => []RevokedHostOffline` |
| `Reachable` | `Spec => []HostReachable` |
| `PendingSafety` | `Spec => []PendingAccounted` |
| `ImplementsLease` | `Spec => RefinesLease` |
| `ClientSafety` | `Spec => []ClientsAttended` |

`LeaseConsistent` is not inductive. `SignalClosed` frees the host of the session
its connection captured, so one must know that a managed session has an id of
its own, that its host, once attached, stays, and that a connection which is
not closed is the one its host id is registered with. `Links` says so, in two
parts (`HostLinks`, `SessionLinks`), and `Inv == TypeOK /\ Links /\
LeaseConsistent` is inductive. The proof has a lemma per handler. Most handlers
fall under one of two frames: `QuietInv` for those that leave sessions and hosts
alone, and `RemovalInv` for those that call `removeSession`. `Connect` and the
two close handlers are proved conjunct by conjunct. `RevokedOffline` needs `Inv` as
well: a revoked connection was registered, and a registered connection that is
not closed is the only one of its host.

`Reachable` needs `Placed`: a connection to `/signal` that has not closed is the
one its session names for its role. It settles what `removeSession` may do by
deleting an id: only another object that had the same id, hence a former session
of the same invite, can take a waiting host from its clients. `PendingSafety`
counts frames as the cardinality of the set of their places, so that no sum over
sessions is needed; `Counted` adds that the set is finite, for any number of
sessions. A forgotten session may keep frames because of `Hosted`: an invite
session has its host, still connected, for as long as it names one, and a
session in the Map names one. `ImplementsLease` maps each handler to steps of
HostLease: `ReleaseStep`, `EngageStep` and `GrantStep` say which changes of the
mapped variables (`LeaseOf`, `Engaged`, `Spent`) are steps of it, `QuietLease` and
`RemovalLease` cover most handlers, and each other one has a lemma.
`ClientSafety` needs `Accompanied`: the session an open client is in has a host, and
if it is managed it is still the lease of that host. A handler that takes either away
closes the client before it returns. With `Hosted` for invite sessions and
`LeaseConsistent` for managed ones that host is connected, and its close handler
acts on the same session: the client's half of `BrokenSessionEnds` waits for nothing
else. (What the half of the managed host waits for is `LeaseConsistent`'s.)

`HostSessionProofs` proves for any inputs, requests and clients, from
`ConfigsAssumption` (what the host accepts and what needs a flag are requests,
and no request is taken for another value of `callback`):

| Theorem | States |
|---|---|
| `TypeCorrect` | `Spec => []TypeOK` |
| `ReleaseSafety` | `Spec => []InputsReleased` |
| `CallbackSafety` | `Spec => []NoDanglingCallback` |
| `ServiceSafety` | `Spec => []ConformingServed` |
| `StreamNotLocked` | `Spec => []StreamUnlocked` |

There are three invariants. `Tracked`: what is down and
not inherited is in `pressed`, so that the release at the end of the frame loop
reaches it. `Silent`: from the end of `close()` until the next session no
callback of a channel runs. `InStep`: how far main is with a session tells how far its client
can be. A client that sends its request has not sent one before and none is under way, and one
that has the StreamHeader finds enabled what it asked for. `ServiceSafety` rests on
it, on `TypeCorrect` and on `SilentInvariant`. `StreamNotLocked` follows from `Tracked`
and the places of `TypeOK`: main holds `handshake.mutex` in the waits before the frame
loop, and in a `close()` reached from one of them; a session that was served closes
by way of the frame loop. It is why `StreamEnds` holds where `ListensAgain`
(section 4, the stuck host) does not.

`AccountServerProofs` proves for any users, browsers, passkeys, devices, logins,
bindings and pairings, from `AccountsAssumption` and `DeviceGrantsAssumption`
(`None` is none of the objects and not `"pending"`; logins, bindings and
ceremonies are told apart; the bounds are naturals) and, for the refinement,
`HostPairingAssumption` (`None` is no row of `hosts`):

| Theorem | States |
|---|---|
| `TypeCorrect` | `Spec => []TypeOK` |
| `ReachabilitySafety` | `Spec => []AccountReachable` |
| `BindingSafety` | `Spec => []BindingHonoured` |
| `AccessSafety` | `Spec => []AccessFollowsSession` |
| `ImplementsGrant` | `Spec => RefinesGrant` |

Accounts and devices have an invariant each, which a step of the other leaves
alone. `CeremonyLinks`: a ceremony that adds a passkey or recovers, and the
verification it is in, are for an account there is; without it the answer that
comes after an await could give a passkey to nobody. `CodesMade`: no account has a
recovery code that is yet to be made. On the device side `RowsInOrder` says that
the rows of `native_sessions` are the first ones, so that the next is new, and
`DeviceLinks` that a ceremony for a binding, and a row that came of one, name a
binding that exists. A step that makes no row, registers no device and completes
no binding is covered by `QuietInv`; claims, approvals, registrations and logins
are proved one by one. The refinement adds `GrantLinks`, that a login or ceremony
which made a row asks for no other, and `PairingLinks`, that a code which made a
host's token is gone and the token that host's alone. `StagesByRow` computes the
stage of a grant from its own entry and its row, so that a handler is looked at
for the one grant it touches; every other one keeps its stage.

`NativeClientProofs` proves for any number of logins, threads and inputs, from
`LauncherAssumption` and `PoolAssumption`:

| Theorem | States |
|---|---|
| `TypeCorrect` | `Spec => []TypeOK` |
| `LoginSafety` | `Spec => []LoginConsistent` |
| `ViewSafety` | `Spec => []ViewInUse` |
| `ReleaseSafety` | `Spec => []DownIsKnown` |
| `EndSafety` | `Spec => []SessionWoken` |

The launcher's invariant adds `TaskFits`: which tasks need an identity, and that
none runs beside a session or a closed window, and that a logout that succeeded has
revoked the login it is about to forget. The session's adds `Places`, where
the session's thread must be for the window to be open, published, or used by the
decoder and the monitors, and `Known`: what is down has been noted by the window,
which is `DownIsKnown` at the places where the window is yet to send. The two are tied by
`session_running <=> thread # NoThread`. `EndSafety` is about the waits of a session that
ends: `GetMessageW` has a message that gets it out, and a thread that is joined was
created and finds its queue stopped. It needs `Begun`: the loop begins with a
published window, and `on_closed`, unless it was called before there was one
(`unheard`), finds it.

`HostServiceProofs` proves for any sessions and worker processes, from
`SessionsAssumption`:

| Theorem | States |
|---|---|
| `TypeCorrect` | `Spec => []TypeOK` |
| `WorkerSafety` | `Spec => []WorkersAccounted` |
| `IdentitySafety` | `Spec => []IdentityKept` |
| `StopSafety` | `Spec => []StopKept` |

`Held` says at which places of `service_main` it has no worker, so that a launch
never loses one; `Stopped` that a service reported as STOPPED, or taken to be so
by the tool between its wait and its start, is over. An exception goes by way of
`stop_worker`, from which `Cleanup` is reached with no worker alive. `Saved` is what
`IdentityKept` lacks: a worker about to move its temporary file has written all
of it, and `OneWorker` makes it the only one with that file. `StopSafety`: an accepted
stop is with the handler, in the event, or taken by the supervisor; it adds to
`StopKept` where `service_main` is while RUNNING is reported and while the handler
is at work, so that the event is there when the handler sets it.

`BootstrapProofs` proves for any two ends, each native or a browser, with or
without a timeout, from `EndsAssumption`:

| Theorem | States |
|---|---|
| `TypeCorrect` | `Spec => []TypeOK` |
| `NoCandidateLeft` | `Spec => []CandidatesApplied` |
| `ReturnsOpen` | `Spec => []ReturnedOpen` |

The invariant has a part for each end and a part for each direction of the wire.
`EndInv`: where its threads may be, that one of them at most takes on the
acknowledgement and not before it is due, and what its flags say of the places.
`WireInv` compares what an end is `Past` the sending of with what the other one has
`Taken`: the frames under way are sent once each, not taken yet, and the candidate is
ahead of the acknowledgement (`Orderly`); while the signaling lasts none is lost
(`Kept`). An end that has the acknowledgement therefore had the candidate, and two
ends that returned have taken all there was.

`VideoRecoveryProofs` proves for any number of frames and losses, any window,
limit and size of key frames, from `BoundsAssumption`:

| Theorem | States |
|---|---|
| `TypeCorrect` | `Spec => []TypeOK` |
| `KeyFrameAfterDrop` | `Spec => []NoDeltaAfterDrop` |
| `ImplementsStream` | `Spec => RefinesStream` |

`TypeOK`, with the bounds of the buffers, is nearly inductive; `DropRequests` adds
that the request a drop leaves stands until the next frame. The refinement needs
`StreamInv`: the queue starts where the decoder goes on, at a key frame if it is
to start anew (`QueueDecodable`), ascends (`QueueAscends`), and the gate and the
assembler are never behind it (`GateAhead`); a native decoder follows the gate
(`NativeFollows`), a browser's is new, with nothing queued, while the gate waits (`BrowserFollows`).

`MediaProofs` proves for any rates, packets, queue limits, latencies and numbers
of recordings, from `EncoderAssumption`, `HostVideoAssumption` (a key frame has
packets) and `RecorderAssumption` (its bounds are numbers):

| Theorem | States |
|---|---|
| `TypeCorrect` | `Spec => []TypeOK` |
| `RecordingKept` | `Spec => []RecordingComplete` |
| `KeyFrameFirst` | `Spec => NextAcceptedIsKey` |
| `RequestSafety` | `Spec => []RequestHeld` |

`TypeOK` says that the input surface is free when it is asked for, which needs
`InputHeld`: it is imported only between `input_texture` and what encodes or discards it,
on every way out. `KeyDue`: after a drop a key frame is requested, encoded, or at hand
until one is accepted. `FixedWaits`: in fixed quality a frame meets an empty
queue. `Written` relates the file, the pictures held back and the ticks;
`FilesKept` says which file exists in which step of the worker. `RequestSafety`: a
request not answered yet is in `key_frame_requested` or in the key frame about to
be sent, and a drop puts it back into the flag.

Every invariant and the action property the passing runs check are proved, and so
are the three refinements. Of five liveness properties the safety part is proved,
that is, that what a wait is for cannot get lost; each has a definition of its own in
its proof module:

| Liveness property | What it waits for is never lost |
|---|---|
| `BrokenSessionEnds` (a client its host left) | `ClientsAttended` |
| `StreamEnds` | `StreamUnlocked` |
| `SessionEnds` | `SessionWoken` |
| `StopHonoured` | `StopKept` |
| `KeyRequestServed` | `RequestHeld` |

Only model-checked: the liveness properties themselves, since fairness and ENABLED
are beyond the prover, and what the violation runs and the table of section 4
refute.

## 6. Not modelled, and what is left

Not modelled, and why:

- *Web shell.* Layout, but for the clipboard's generations; and
  `remoe-client.js` 353, where `stop()` may come during the await of
  `isConfigSupported`, so that the decoder made afterwards belongs to nobody.
- *Android client.* `RtcSession.kt` is a third kind of end for Bootstrap,
  with flags that WebRTC's and the WebSocket's threads share (line 259); gestures
  are arithmetic.
- *Clipboard contents.* `main.cpp` 1361 compares a sequence number read before
  the exchange with the one `on_binary` stored, which may send an echo back. It
  does not touch a session's phases.
- *WinHTTP stream.* Only what the bootstrap sees of it; the host's loop that
  registers again after a failure is part of HostService's worker (`Reconnect`).
- *WebRtcTransport.* What forwards to libdatachannel (tracks, statistics,
  parsing of RTCP). Its flags are where they matter: `closing` in HostSession,
  `closed_notified` in ClientSession.
- *The pacer's delay.* `README.md` 363 of the repository skips frames when the oldest
  packet waited 50 ms, the code at 100 ms (`main.cpp` 1402); no property depends on
  the number.
- *GPU and codec libraries, the frame renderer* (`vpl_decoder.cpp`, the shaders): what
  they compute is a choice.
- *`tcp_server.cpp`, `capture_probe`, builds, deployment.* See section 1.

Left to prove: the safety part of the other liveness properties, `FollowsSession`,
`TimedEnds` and `ApprovedLoginEnds` (that of `AbandonedLeaseEnds` is
`LeaseConsistent`).
