------------------------- MODULE NativeClientProofs -------------------------
(***************************************************************************)
(* TypeOK, LoginConsistent, ViewInUse, DownIsKnown and SessionWoken hold   *)
(* of NativeClient for any number of logins, threads and inputs.           *)
(***************************************************************************)
EXTENDS NativeClient, TLAPS

LEMMA Numbers == \A l \in Logins : l # None
BY LauncherAssumption DEF Logins, None

(***************************************************************************)
(* The launcher                                                            *)
(***************************************************************************)

\* A task needs the identity, or that there is none; no task runs beside a session
\* but what it was made for, and nothing of a window is left when it is closed.
TaskFits ==
    /\ task # "none" => ~session_running
    /\ task = "none" => result = "none"
    /\ shell = "open" /\ task \in {"restore", "refresh", "connect", "logout"} => identity # None
    /\ shell = "open" /\ task \in {"start", "poll"} => identity = None
    /\ shell # "open" => ~session_running
    /\ shell = "closed" => task = "none" /\ identity = None /\ authorization = None
    /\ shell = "open" /\ task = "logout" /\ result = "ok" => grants[identity] = "revoked"

LauncherInv == LauncherTypeOK /\ TaskFits /\ LoginConsistent

LEMMA UserInv == ASSUME LauncherInv, User PROVE LauncherInv'
<1> USE Numbers DEF LauncherInv, LauncherTypeOK, TaskFits, LoginConsistent, Tasks
<1>1. CASE Start
  BY <1>1 DEF Start
<1>2. CASE CloseLauncher
  BY <1>2 DEF CloseLauncher
<1>3. CASE Approve \/ Expire
  BY <1>3 DEF Approve, Expire
<1>4. CASE \E kind \in Tasks : Click(kind)
  BY <1>4 DEF Click, Idle
<1> QED BY <1>1, <1>2, <1>3, <1>4 DEF User

LEMMA TaskInv == ASSUME LauncherInv, Task PROVE LauncherInv'
<1> USE Numbers DEF LauncherInv, LauncherTypeOK, TaskFits, LoginConsistent, Tasks,
                    Running, TaskStep, Answers, NoEffect
<1>1. CASE RequestFails
  BY <1>1 DEF RequestFails
<1>2. CASE StartAuthorization
  BY <1>2 DEF StartAuthorization
<1>3. CASE PollAuthorization
  BY <1>3 DEF PollAuthorization
<1>4. CASE UseToken
  BY <1>4 DEF UseToken
<1>5. CASE RevokeToken
  BY <1>5 DEF RevokeToken
<1> QED BY <1>1, <1>2, <1>3, <1>4, <1>5 DEF Task

LEMMA TimerInv == ASSUME LauncherInv, Timer \/ FinishConnect PROVE LauncherInv'
<1> USE Numbers DEF LauncherInv, LauncherTypeOK, TaskFits, LoginConsistent, Tasks, Finished
<1>1. CASE FinishRestoreError
  BY <1>1 DEF FinishRestoreError, Forgotten
<1>2. CASE FinishError
  BY <1>2 DEF FinishError
<1>3. CASE FinishStart
  BY <1>3 DEF FinishStart
<1>4. CASE FinishLogin
  BY <1>4 DEF FinishLogin
<1>5. CASE FinishPending
  BY <1>5 DEF FinishPending
<1>6. CASE FinishHosts
  BY <1>6 DEF FinishHosts
<1>7. CASE FinishLogout
  BY <1>7 DEF FinishLogout, Forgotten
<1>8. CASE BeginPoll
  BY <1>8 DEF BeginPoll
<1>9. CASE FinishConnect
  BY <1>9 DEF FinishConnect
<1> QED BY <1>1, <1>2, <1>3, <1>4, <1>5, <1>6, <1>7, <1>8, <1>9 DEF Timer

LEMMA FinishSessionInv == ASSUME LauncherInv, FinishSession PROVE LauncherInv'
BY DEF LauncherInv, LauncherTypeOK, TaskFits, LoginConsistent, FinishSession

LEMMA ExitedInv == ASSUME LauncherInv, Exited, UNCHANGED saved PROVE LauncherInv'
BY Numbers DEF LauncherInv, LauncherTypeOK, TaskFits, LoginConsistent, Tasks, Exited

(***************************************************************************)
(* The session                                                             *)
(***************************************************************************)

\* Where the window is when run is at each of its places, and who is still there.
Places ==
    /\ at \in {"publish", "ready"} \/ (at = "throw" /\ published) => view = "open"
    /\ at \in {"loop", "stop", "join_monitors", "join_decoder", "leave"}
         => view \in {"open", "destroyed"}
    /\ published => at \in {"ready", "throw", "unwind", "loop", "stop", "join_monitors",
                            "join_decoder"}
    /\ decoder \notin {"none", "ended"} => at \in {"loop", "stop", "join_monitors", "join_decoder"}
    /\ monitors # {} => at \in {"loop", "stop", "join_monitors"}

\* Until the loop nothing is down.
Known ==
    \/ at \in {"connecting", "header", "view", "publish", "ready"}
    \/ at = "loop" /\ running
    => down \subseteq pressed

SessionInv == SessionTypeOK /\ Places /\ Known

LEMMA FreshInv ==
    ASSUME NEW t \in Pool \cup {NoThread}, NEW place \in {"connecting", "ended"},
           Fresh(t, place), quit' \subseteq Pool
    PROVE  SessionInv'
BY DEF Fresh, SessionInv, SessionTypeOK, Places, Known

LEMMA RunInv ==
    ASSUME NEW t \in Pool \cup {NoThread}, NEW place \in {"connecting", "ended"}, Run(t, place),
           SessionInv
    PROVE  SessionInv'
BY FreshInv DEF Run, SessionInv, SessionTypeOK

\* A step that leaves run, the window and the inputs where they are, and does not
\* bring the loop back.
LEMMA AsideInv ==
    ASSUME SessionInv, SessionTypeOK', UNCHANGED <<at, published, view, pressed, down, decoder>>,
           running' => running, monitors' \subseteq monitors
    PROVE  SessionInv'
BY DEF SessionInv, Places, Known

LEMMA CloseViewTypes ==
    ASSUME SessionTypeOK, CloseView
    PROVE  /\ running' \in BOOLEAN /\ close_posted' \in BOOLEAN
           /\ queue' \in {"empty", "frame", "stopped"}
           /\ running' => running
BY DEF SessionTypeOK, CloseView, RequestClose

LEMMA CallbackInv == ASSUME SessionInv, Callbacks \/ OnClosed PROVE SessionInv'
<1> USE DEF CallbackStep, ClosesNothing, Receives, channels, threads
<1>0. SessionTypeOK
  BY DEF SessionInv
<1>1. CASE OnStreamHeader
  <2>1. header' \in {"none", "good", "bad"} /\ error' \in BOOLEAN
    BY <1>0, <1>1 DEF OnStreamHeader, SessionTypeOK
  <2>2. /\ UNCHANGED <<transport, video_lost, closed, running, close_posted, queue, thread, quit,
                       at, published, unheard, view, pressed, down, decoder, pipeline_error, monitors>>
    BY <1>1 DEF OnStreamHeader
  <2>3. SessionTypeOK'
    BY <1>0, <2>1, <2>2 DEF SessionTypeOK
  <2> QED BY <2>2, <2>3, AsideInv
<1>2. CASE OnError
  BY <1>0, <1>2, CloseViewTypes, AsideInv DEF OnError, Fail, SessionTypeOK
<1>3. CASE ControlLost \/ VideoLost
  <2>1. /\ transport' \in {"none", "open", "lost", "closed"} /\ video_lost' \in BOOLEAN
        /\ UNCHANGED <<thread, quit, at, header, error, closed, published, unheard, view,
                       running, close_posted, queue, decoder, pipeline_error, monitors,
                       pressed, down>>
    BY <1>0, <1>3 DEF ControlLost, VideoLost, SessionTypeOK
  <2>2. SessionTypeOK'
    BY <1>0, <2>1 DEF SessionTypeOK
  <2> QED BY <2>1, <2>2, AsideInv
<1>4. CASE OnVideo
  BY <1>0, <1>4, AsideInv DEF OnVideo, SessionTypeOK
<1>5. CASE OnClosed
  BY <1>0, <1>5, CloseViewTypes, AsideInv DEF OnClosed, SessionTypeOK
<1> QED BY <1>1, <1>2, <1>3, <1>4, <1>5 DEF Callbacks

LEMMA SetUpInv ==
    ASSUME SessionInv, thread # NoThread,
           Connect \/ HeaderArrived \/ MakeView \/ Publish \/ SendReady \/ Throw \/ Unwind
    PROVE  SessionInv'
<1> USE DEF SessionInv, SetUp, NothingShown, Goto, channels, threads, state, viewVars
<1>1. CASE Connect
  <2>1. SessionTypeOK'
    BY <1>1 DEF Connect, SessionTypeOK
  <2>2. Places'
    BY <1>1 DEF Connect, Places
  <2>3. Known'
    BY <1>1 DEF Connect, Known
  <2> QED BY <2>1, <2>2, <2>3
<1>2. CASE HeaderArrived
  <2>1. SessionTypeOK'
    BY <1>2 DEF HeaderArrived, SessionTypeOK
  <2>2. Places'
    BY <1>2 DEF HeaderArrived, Places
  <2>3. Known'
    BY <1>2 DEF HeaderArrived, Known
  <2> QED BY <2>1, <2>2, <2>3
<1>3. CASE MakeView
  <2>1. SessionTypeOK'
    BY <1>3 DEF MakeView, SessionTypeOK
  <2>2. Places'
    BY <1>3 DEF MakeView, Places
  <2>3. Known'
    BY <1>3 DEF MakeView, Known
  <2> QED BY <2>1, <2>2, <2>3
<1>4. CASE Publish
  <2>1. SessionTypeOK'
    BY <1>4 DEF Publish, SessionTypeOK
  <2>2. Places'
    BY <1>4 DEF Publish, Places
  <2>3. Known'
    BY <1>4 DEF Publish, Known
  <2> QED BY <2>1, <2>2, <2>3
<1>5. CASE SendReady
  <2>1. SessionTypeOK'
    <3>1. /\ at' \in {"loop", "throw"} /\ decoder' \in {decoder, "create"}
          /\ monitors' = monitors \/ monitors' = {Clock, Clipboard}
      BY <1>5 DEF SendReady
    <3>2. UNCHANGED <<thread, quit, transport, video_lost, header, error, closed, published,
                      unheard, view, running, close_posted, pressed, down, queue, pipeline_error>>
      BY <1>5 DEF SendReady
    <3>3. monitors' \subseteq {Clock, Clipboard}
      BY <3>1 DEF SessionTypeOK
    <3> QED BY <3>1, <3>2, <3>3 DEF SessionTypeOK
  <2>2. Places'
    BY <1>5 DEF SendReady, Clock, Clipboard, Places
  <2>3. Known'
    BY <1>5 DEF SendReady, Clock, Clipboard, Known
  <2> QED BY <2>1, <2>2, <2>3
<1>6. CASE Throw
  <2>1. SessionTypeOK'
    BY <1>6 DEF Throw, SessionTypeOK
  <2>2. Places'
    BY <1>6 DEF Throw, Places
  <2>3. Known'
    BY <1>6 DEF Throw, Known
  <2> QED BY <2>1, <2>2, <2>3
<1>7. CASE Unwind
  <2>1. SessionTypeOK'
    BY <1>7 DEF Unwind, SessionTypeOK
  <2>2. Places'
    BY <1>7 DEF Unwind, Places
  <2>3. Known'
    BY <1>7 DEF Unwind, Known
  <2> QED BY <2>1, <2>2, <2>3
<1> QED BY <1>1, <1>2, <1>3, <1>4, <1>5, <1>6, <1>7

LEMMA LoopInv ==
    ASSUME SessionInv, thread # NoThread,
           Close \/ Quit \/ LeaveLoop \/ KillFocus \/ \E k \in Inputs : Press(k) \/ Release(k)
    PROVE  SessionInv'
<1> USE DEF SessionInv, LoopStep, Goto, channels, threads, Sent, Dispatches, RequestClose
<1>1. CASE Close
  <2>1. SessionTypeOK'
    BY <1>1 DEF Close, SessionTypeOK
  <2>2. Places'
    BY <1>1 DEF Close, Places
  <2>3. Known'
    BY <1>1 DEF Close, Known
  <2> QED BY <2>1, <2>2, <2>3
<1>2. CASE Quit
  <2>1. SessionTypeOK'
    BY <1>2 DEF Quit, SessionTypeOK
  <2>2. Places'
    BY <1>2 DEF Quit, Places
  <2>3. Known'
    BY <1>2 DEF Quit, Known
  <2> QED BY <2>1, <2>2, <2>3
<1>3. CASE LeaveLoop
  <2>1. SessionTypeOK'
    BY <1>3 DEF LeaveLoop, SessionTypeOK
  <2>2. Places'
    BY <1>3 DEF LeaveLoop, Places
  <2>3. Known'
    BY <1>3 DEF LeaveLoop, Known
  <2> QED BY <2>1, <2>2, <2>3
<1>4. CASE KillFocus
  <2>1. SessionTypeOK'
    BY <1>4 DEF KillFocus, SessionTypeOK
  <2>2. Places'
    BY <1>4 DEF KillFocus, Places
  <2>3. Known'
    BY <1>4 DEF KillFocus, Known
  <2> QED BY <2>1, <2>2, <2>3
<1>5. CASE \E k \in Inputs : Press(k)
  <2>1. SessionTypeOK'
    <3>1. PICK k \in Inputs : Press(k)
      BY <1>5
    <3>2. /\ pressed' = pressed \cup {k} /\ down' \in {down, down \cup {k}}
          /\ running' \in {running, FALSE} /\ close_posted' \in {close_posted, view = "open", TRUE}
      BY <3>1 DEF Press, SessionTypeOK
    <3>3. UNCHANGED <<thread, quit, at, transport, video_lost, header, error, closed, published,
                      unheard, view, queue, decoder, pipeline_error, monitors>>
      BY <3>1 DEF Press
    <3>4. /\ pressed' \subseteq Inputs /\ down' \subseteq Inputs
          /\ running' \in BOOLEAN /\ close_posted' \in BOOLEAN
      BY <3>2 DEF SessionTypeOK
    <3> QED BY <3>3, <3>4 DEF SessionTypeOK
  <2>2. Places'
    BY <1>5 DEF Press, Places
  <2>3. Known'
    BY <1>5 DEF Press, Known
  <2> QED BY <2>1, <2>2, <2>3
<1>6. CASE \E k \in Inputs : Release(k)
  <2>1. SessionTypeOK'
    <3>1. PICK k \in Inputs : Release(k)
      BY <1>6
    <3>2. /\ pressed' = pressed \ {k} /\ down' \in {down, down \ {k}}
          /\ running' \in {running, FALSE} /\ close_posted' \in {close_posted, view = "open", TRUE}
      BY <3>1 DEF Release, SessionTypeOK
    <3>3. UNCHANGED <<thread, quit, at, transport, video_lost, header, error, closed, published,
                      unheard, view, queue, decoder, pipeline_error, monitors>>
      BY <3>1 DEF Release
    <3>4. /\ pressed' \subseteq Inputs /\ down' \subseteq Inputs
          /\ running' \in BOOLEAN /\ close_posted' \in BOOLEAN
      BY <3>2 DEF SessionTypeOK
    <3> QED BY <3>3, <3>4 DEF SessionTypeOK
  <2>2. Places'
    BY <1>6 DEF Release, Places
  <2>3. Known'
    BY <1>6 DEF Release, Known
  <2> QED BY <2>1, <2>2, <2>3
<1> QED BY <1>1, <1>2, <1>3, <1>4, <1>5, <1>6

LEMMA ThreadInv == ASSUME SessionInv, DecodeThread \/ Monitors PROVE SessionInv'
<1> USE DEF SessionInv, SessionTypeOK, Places, Known, DecoderStep, MonitorStep, RequestClose,
           channels, ClosesNothing
<1>1. CASE CreateDecoder \/ Pop \/ Decode \/ Present \/ Drain
  BY <1>1 DEF CreateDecoder, Pop, Decode, Present, Drain
<1>2. CASE PipelineFails
  BY <1>2 DEF PipelineFails
<1>3. CASE ClipboardFails
  <2>1. CloseView /\ SessionTypeOK /\ error' = TRUE
    BY <1>3 DEF ClipboardFails, Fail
  <2>2. SessionTypeOK'
    BY <1>3, <2>1, CloseViewTypes DEF ClipboardFails
  <2> QED BY <1>3, <2>1, <2>2, CloseViewTypes, AsideInv DEF ClipboardFails
<1>4. CASE \E m \in {Clock, Clipboard} : MonitorEnds(m)
  BY <1>4 DEF MonitorEnds
<1> QED BY <1>1, <1>2, <1>3, <1>4 DEF DecodeThread, Monitors

LEMMA TearDownInv ==
    ASSUME SessionInv, thread # NoThread, Stop \/ CloseTransport \/ JoinDecoder \/ Leave
    PROVE  SessionInv'
<1> USE DEF SessionInv, TearDown, Goto, threads
<1>1. CASE Stop
  <2>1. SessionTypeOK'
    BY <1>1 DEF Stop, SessionTypeOK
  <2>2. Places'
    BY <1>1 DEF Stop, Places
  <2>3. Known'
    BY <1>1 DEF Stop, Known
  <2> QED BY <2>1, <2>2, <2>3
<1>2. CASE CloseTransport
  <2>1. SessionTypeOK'
    <3>1. /\ running' \in BOOLEAN /\ close_posted' \in BOOLEAN
          /\ queue' \in {"empty", "frame", "stopped"}
      BY <1>2, CloseViewTypes DEF CloseTransport, ClosesNothing, SessionTypeOK
    <3> QED BY <1>2, <3>1 DEF CloseTransport, SessionTypeOK
  <2>2. Places'
    BY <1>2 DEF CloseTransport, Places
  <2>3. Known'
    BY <1>2 DEF CloseTransport, Known
  <2> QED BY <2>1, <2>2, <2>3
<1>3. CASE JoinDecoder
  <2>1. SessionTypeOK'
    BY <1>3 DEF JoinDecoder, SessionTypeOK
  <2>2. Places'
    BY <1>3 DEF JoinDecoder, Places
  <2>3. Known'
    BY <1>3 DEF JoinDecoder, Known
  <2> QED BY <2>1, <2>2, <2>3
<1>4. CASE Leave
  <2>1. SessionTypeOK'
    BY <1>4 DEF Leave, SessionTypeOK
  <2>2. Places'
    BY <1>4 DEF Leave, Places
  <2>3. Known'
    BY <1>4 DEF Leave, Known
  <2> QED BY <2>1, <2>2, <2>3
<1> QED BY <1>1, <1>2, <1>3, <1>4

(***************************************************************************)
(* The client                                                              *)
(***************************************************************************)

Inv ==
    /\ LauncherInv /\ SessionInv
    /\ session_running <=> thread # NoThread

LEMMA InitInv == Init => Inv
<1> SUFFICES ASSUME Init PROVE Inv
  OBVIOUS
<1> USE DEF Init
<1>1. LauncherInv
  BY LauncherAssumption DEF LauncherInit, LauncherInv, LauncherTypeOK, TaskFits, LoginConsistent,
                            Tasks, None
<1>2. SessionInv
  BY DEF SessionInit, SessionInv, SessionTypeOK, Places, Known
<1>3. session_running <=> thread # NoThread
  BY DEF LauncherInit, SessionInit
<1> QED BY <1>1, <1>2, <1>3 DEF Inv

LEMMA LauncherUnchanged == LauncherInv /\ UNCHANGED launcherVars => LauncherInv'
BY DEF LauncherInv, LauncherTypeOK, TaskFits, LoginConsistent, launcherVars

LEMMA SessionUnchanged == SessionInv /\ UNCHANGED sessionVars => SessionInv'
BY DEF SessionInv, SessionTypeOK, Places, Known, sessionVars, channels, state, viewVars, threads

\* The launcher's own steps change neither the flag nor the thread.
LEMMA LauncherFlag ==
    ASSUME LauncherInv, User \/ Task \/ Timer
    PROVE  session_running' = session_running
BY DEF User, Task, Timer, Start, CloseLauncher, Approve, Expire, Click, RequestFails,
       StartAuthorization, PollAuthorization, UseToken, RevokeToken, TaskStep, FinishRestoreError,
       FinishError, FinishStart, FinishLogin, FinishPending, FinishHosts,
       FinishLogout, BeginPoll

LEMMA SessionThreadKept ==
    ASSUME Session
    PROVE  thread' = thread
<1>1. CASE Callbacks \/ OnClosed
  BY <1>1 DEF Callbacks, OnStreamHeader, OnError, ControlLost, VideoLost, OnVideo, OnClosed,
              CallbackStep
<1>2. CASE Connect \/ HeaderArrived \/ MakeView \/ Publish \/ SendReady \/ Throw \/ Unwind
  BY <1>2 DEF Connect, HeaderArrived, MakeView, Publish, SendReady, Throw, Unwind, SetUp
<1>3. CASE Close \/ Quit \/ LeaveLoop \/ KillFocus \/ \E k \in Inputs : Press(k) \/ Release(k)
  BY <1>3 DEF Close, Quit, LeaveLoop, KillFocus, Press, Release, LoopStep
<1>4. CASE DecodeThread \/ Monitors
  BY <1>4 DEF DecodeThread, Monitors, CreateDecoder, Pop, Decode, Present, PipelineFails, Drain,
              DecoderStep, ClipboardFails, MonitorEnds, MonitorStep
<1>5. CASE Stop \/ CloseTransport \/ JoinDecoder \/ Leave
  BY <1>5 DEF Stop, CloseTransport, JoinDecoder, Leave, TearDown
<1> QED BY <1>1, <1>2, <1>3, <1>4, <1>5 DEF Session, SessionThread, SessionUser

LEMMA NextInv == Inv /\ [Next]_vars => Inv'
<1> SUFFICES ASSUME Inv, [Next]_vars PROVE Inv'
  OBVIOUS
<1> USE DEF Inv
<1>1. CASE (User \/ Task \/ Timer) /\ UNCHANGED sessionVars
  <2>1. LauncherInv'
    BY <1>1, UserInv, TaskInv, TimerInv
  <2>2. session_running' = session_running /\ thread' = thread
    BY <1>1, LauncherFlag DEF sessionVars
  <2> QED BY <1>1, <2>1, <2>2, SessionUnchanged
<1>2. CASE session_running /\ Session /\ UNCHANGED launcherVars
  <2>1. session_running' = session_running /\ thread' = thread
    BY <1>2, SessionThreadKept DEF launcherVars
  <2>2. SessionInv'
    BY <1>2, CallbackInv, SetUpInv, LoopInv, ThreadInv, TearDownInv
       DEF Session, SessionThread, SessionUser
  <2> QED BY <1>2, <2>1, <2>2, LauncherUnchanged
<1>3. CASE StartSession
  <2>1. LauncherInv' /\ session_running'
    BY <1>3, TimerInv DEF StartSession, FinishConnect
  <2>2. PICK t \in Pool : Run(t, "connecting")
    BY <1>3 DEF StartSession
  <2>3. SessionInv' /\ thread' # NoThread
    BY <2>2, RunInv, PoolAssumption DEF Run, Fresh
  <2> QED BY <2>1, <2>3
<1>4. CASE EndSession
  <2>1. LauncherInv' /\ ~session_running'
    BY <1>4, FinishSessionInv DEF EndSession, FinishSession
  <2>2. SessionInv' /\ thread' = NoThread
    BY <1>4, RunInv DEF EndSession, Run, Fresh
  <2> QED BY <2>1, <2>2
<1>5. CASE ProcessEnds
  <2>1. Exited /\ UNCHANGED saved
    BY <1>5 DEF ProcessEnds, Ends, Exit, FinishLoginUnsaved, Crash
  <2>2. LauncherInv' /\ ~session_running'
    BY <2>1, ExitedInv DEF Exited
  <2>3. SessionInv' /\ thread' = NoThread
    BY <1>5, FreshInv DEF ProcessEnds, Fresh
  <2> QED BY <2>2, <2>3
<1>6. CASE UNCHANGED vars
  <2>1. UNCHANGED launcherVars /\ UNCHANGED sessionVars
    BY <1>6 DEF vars
  <2>2. session_running' = session_running /\ thread' = thread
    BY <2>1 DEF launcherVars, sessionVars
  <2> QED BY <2>1, <2>2, LauncherUnchanged, SessionUnchanged
<1> QED BY <1>1, <1>2, <1>3, <1>4, <1>5, <1>6 DEF Next

\* What the argument rests on holds in every state of the client.
THEOREM Invariance == Spec => []Inv
BY InitInv, NextInv, PTL DEF Spec

\* The state of launcher and session keeps its type, and a thread is set exactly
\* while the launcher counts a session as running.
THEOREM TypeCorrect == Spec => []TypeOK
<1>1. Inv => TypeOK
  BY DEF Inv, LauncherInv, SessionInv, TypeOK
<1> QED BY <1>1, Invariance, PTL

\* The identity file holds the window's login or nothing, a login the user left is
\* revoked, and a pending login excludes a finished one, however requests fail, the
\* file is damaged or stays, and logins are revoked.
THEOREM LoginSafety == Spec => []LoginConsistent
<1>1. Inv => LoginConsistent
  BY DEF Inv, LauncherInv
<1> QED BY <1>1, Invariance, PTL

\* No callback or thread uses a window that is gone, in whatever phase a session
\* ends whose run returns; a run that throws after it published the window is the
\* exception the formula names.
THEOREM ViewSafety == Spec => []ViewInUse
<1>1. Inv => ViewInUse
  BY DEF Inv, SessionInv, SessionTypeOK, Places, ViewInUse
<1> QED BY <1>1, Invariance, PTL

\* No release of an input is lost while the window sends, for any inputs.
THEOREM ReleaseSafety == Spec => []DownIsKnown
<1>1. Inv => DownIsKnown
  BY DEF Inv, SessionInv, Known, DownIsKnown
<1> QED BY <1>1, Invariance, PTL

(***************************************************************************)
(* The end of a session                                                    *)
(***************************************************************************)

\* Nothing waits for what will not come: a message loop that is to end has left
\* GetMessageW or has a message that gets it out, and the decode thread that run
\* joins was created and finds its queue stopped.  A loop whose on_closed was called
\* before there was a window learns of no loss: LostSessionEnds says what it costs.
SessionWoken ==
    /\ at = "loop" /\ ((closed /\ ~unheard) \/ pipeline_error \/ view # "open") => ~running
    /\ at = "loop" /\ ~running => close_posted \/ thread \in quit
    /\ at \in {"join_monitors", "join_decoder"} =>
         queue = "stopped" /\ ~running /\ decoder # "none"

\* The loop begins with a transport that close() has not closed, with no error, and
\* with the window published, so that an on_closed still to come finds it.
Begun ==
    /\ at \in {"connecting", "header", "view", "publish"} => ~unheard
    /\ at \in {"ready", "loop"} => published
    /\ at \in {"connecting", "header", "view", "publish", "ready"}
         => decoder = "none" /\ ~pipeline_error
    /\ at \in {"loop", "stop"} => decoder # "none"
    /\ at \in {"publish", "ready"} /\ ~running => close_posted
    /\ at = "ready" /\ closed /\ ~unheard => ~running

Woken == Begun /\ SessionWoken

\* A step that leaves run where it is, and may ask the window to close
LEMMA AsideWoken ==
    ASSUME Woken, SessionInv,
           UNCHANGED <<thread, quit, at, published, view>>,
           UNCHANGED <<running, close_posted>> \/ RequestClose,
           queue' = queue \/ queue' = "stopped" \/ queue # "stopped",
           decoder' = decoder \/ (decoder # "none" /\ decoder' # "none"),
           unheard' = unheard, closed => closed',
           closed' /\ ~closed /\ published => ~running',
           pipeline_error' /\ ~pipeline_error => ~running' /\ decoder # "none"
    PROVE  Woken'
<1>1. /\ running' => running
      /\ close_posted => close_posted'
      /\ running /\ ~running' /\ view = "open" => close_posted'
  <2>1. CASE UNCHANGED <<running, close_posted>>
    BY <2>1
  <2>2. CASE RequestClose
    <3>1. ~running' /\ (close_posted' <=> (close_posted \/ view = "open"))
      <4>1. close_posted \in BOOLEAN
        BY DEF SessionInv, SessionTypeOK
      <4> QED BY <2>2, <4>1 DEF RequestClose
    <3> QED BY <3>1
  <2> QED BY <2>1, <2>2
<1>2. at \in {"publish", "ready"} => view = "open"
  BY DEF SessionInv, Places
<1>3. Begun'
  BY <1>1, <1>2 DEF Woken, Begun
<1>4. (/\ at = "loop" /\ ((closed /\ ~unheard) \/ pipeline_error \/ view # "open")
        => ~running)'
  BY <1>1 DEF Woken, Begun, SessionWoken
<1>5. (at = "loop" /\ ~running => close_posted \/ thread \in quit)'
  BY <1>1 DEF Woken, SessionWoken
<1>6. (at \in {"join_monitors", "join_decoder"} =>
         queue = "stopped" /\ ~running /\ decoder # "none")'
  BY <1>1 DEF Woken, SessionWoken
<1> QED BY <1>3, <1>4, <1>5, <1>6 DEF Woken, SessionWoken

LEMMA CallbackWoken == ASSUME Woken, SessionInv, Callbacks \/ OnClosed PROVE Woken'
<1> USE DEF CallbackStep, ClosesNothing, channels, threads
<1>1. CASE OnStreamHeader
  BY <1>1, AsideWoken DEF OnStreamHeader
<1>2. CASE OnError
  BY <1>2, AsideWoken DEF OnError, Fail, CloseView
<1>3. CASE ControlLost \/ VideoLost
  BY <1>3, AsideWoken DEF ControlLost, VideoLost
<1>4. CASE OnVideo
  BY <1>4, AsideWoken DEF OnVideo
<1>5. CASE OnClosed
  <2>1. closed' = TRUE
    BY <1>5 DEF OnClosed
  <2>2. /\ UNCHANGED <<running, close_posted>> \/ RequestClose
        /\ published => ~running'
        /\ queue' = queue \/ queue' = "stopped"
    BY <1>5 DEF OnClosed, CloseView, RequestClose
  <2>3. UNCHANGED <<thread, quit, at, published, unheard, view, decoder, pipeline_error>>
    BY <1>5 DEF OnClosed
  <2> QED BY <2>1, <2>2, <2>3, AsideWoken
<1> QED BY <1>1, <1>2, <1>3, <1>4, <1>5 DEF Callbacks

LEMMA SetUpWoken ==
    ASSUME Woken, SessionInv,
           Connect \/ HeaderArrived \/ MakeView \/ Publish \/ SendReady \/ Throw \/ Unwind
    PROVE  Woken'
<1> USE DEF SetUp, NothingShown, Goto, channels, threads, state, viewVars, Woken, Begun, SessionWoken
<1>1. CASE Connect
  BY <1>1 DEF Connect
<1>2. CASE HeaderArrived
  BY <1>2 DEF HeaderArrived
<1>3. CASE MakeView
  BY <1>3 DEF MakeView
<1>4. CASE Publish
  BY <1>4 DEF Publish
<1>5. CASE SendReady
  <2>1. at = "ready" /\ view = "open" /\ published
    BY <1>5 DEF SendReady, SessionInv, Places
  <2>2. UNCHANGED <<thread, quit, published, closed, unheard, view, running, close_posted,
                    queue, pipeline_error>>
    BY <1>5 DEF SendReady
  <2>3. \/ at' = "loop" /\ decoder' = "create"
        \/ at' = "throw" /\ decoder' = decoder
    BY <1>5 DEF SendReady
  <2> QED BY <2>1, <2>2, <2>3
<1>6. CASE Throw
  BY <1>6 DEF Throw
<1>7. CASE Unwind
  BY <1>7 DEF Unwind
<1> QED BY <1>1, <1>2, <1>3, <1>4, <1>5, <1>6, <1>7

LEMMA LoopWoken ==
    ASSUME Woken, SessionInv,
           Close \/ Quit \/ LeaveLoop \/ KillFocus \/ \E k \in Inputs : Press(k) \/ Release(k)
    PROVE  Woken'
<1> USE DEF LoopStep, Goto, channels, threads
<1>1. CASE Close
  <2>1. /\ at = "loop" /\ at' = at /\ running' = FALSE /\ quit' = quit \cup {thread}
        /\ UNCHANGED <<thread, closed, published, unheard, queue, decoder, pipeline_error>>
    BY <1>1 DEF Close
  <2>2. thread' \in quit'
    BY <2>1
  <2>3. Begun'
    BY <2>1 DEF Woken, Begun
  <2> QED BY <2>1, <2>2, <2>3 DEF Woken, SessionWoken
<1>2. CASE Quit \/ LeaveLoop
  <2>1. /\ at = "loop" /\ at' = "stop"
        /\ UNCHANGED <<closed, published, unheard, decoder, pipeline_error>>
    BY <1>2 DEF Quit, Dispatches, LeaveLoop
  <2> QED BY <2>1 DEF Woken, Begun, SessionWoken
<1>3. CASE KillFocus \/ \E k \in Inputs : Press(k) \/ Release(k)
  <2>1. UNCHANGED <<thread, quit, at, published, view, queue, closed, unheard, decoder,
                    pipeline_error>>
    BY <1>3 DEF KillFocus, Press, Release
  <2>2. UNCHANGED <<running, close_posted>> \/ RequestClose
    BY <1>3 DEF KillFocus, Press, Release, Sent
  <2> QED BY <2>1, <2>2, AsideWoken
<1> QED BY <1>1, <1>2, <1>3

LEMMA ThreadWoken == ASSUME Woken, SessionInv, DecodeThread \/ Monitors PROVE Woken'
<1>1. CASE CreateDecoder \/ Decode \/ Present \/ Drain
  <2>1. /\ UNCHANGED <<thread, quit, at, closed, published, unheard, view, pipeline_error,
                       running, close_posted, queue>>
        /\ decoder # "none" /\ decoder' # "none"
    BY <1>1 DEF CreateDecoder, Decode, Present, Drain, DecoderStep
  <2> QED BY <2>1, AsideWoken
<1>2. CASE Pop
  <2>1. /\ UNCHANGED <<thread, quit, at, closed, published, unheard, view, pipeline_error,
                       running, close_posted>>
        /\ decoder # "none" /\ decoder' # "none" /\ (queue' = queue \/ queue # "stopped")
    BY <1>2 DEF Pop, DecoderStep
  <2> QED BY <2>1, AsideWoken
<1>3. CASE PipelineFails
  <2>1. /\ UNCHANGED <<thread, quit, at, closed, published, unheard, view>>
        /\ decoder # "none" /\ decoder' # "none" /\ queue' = "stopped"
        /\ RequestClose /\ ~running'
    BY <1>3 DEF PipelineFails, DecoderStep, RequestClose
  <2> QED BY <2>1, AsideWoken
<1>4. CASE Monitors
  <2>1. /\ UNCHANGED <<thread, quit, at, closed, published, unheard, view, decoder,
                       pipeline_error>>
        /\ UNCHANGED <<running, close_posted>> \/ RequestClose
        /\ queue' = queue \/ queue' = "stopped"
    BY <1>4 DEF Monitors, ClipboardFails, MonitorEnds, MonitorStep, Fail, CloseView,
              ClosesNothing
  <2> QED BY <2>1, AsideWoken
<1> QED BY <1>1, <1>2, <1>3, <1>4 DEF DecodeThread

LEMMA TearDownWoken ==
    ASSUME Woken, SessionInv, Stop \/ CloseTransport \/ JoinDecoder \/ Leave
    PROVE  Woken'
<1> USE DEF TearDown, Goto, channels, threads, Woken, Begun, SessionWoken
<1>1. CASE Stop
  BY <1>1 DEF Stop
<1>2. CASE CloseTransport
  BY <1>2 DEF CloseTransport, ClosesNothing, CloseView, RequestClose
<1>3. CASE JoinDecoder
  BY <1>3 DEF JoinDecoder
<1>4. CASE Leave
  BY <1>4 DEF Leave
<1> QED BY <1>1, <1>2, <1>3, <1>4

\* Whatever ends a session, when and in whichever thread, its message loop and its
\* joins learn of it, a lost connection excepted whose on_closed was used up before
\* there was a window; this is what SessionEnds rests on.
THEOREM EndSafety == Spec => []SessionWoken
<1>1. Init => Woken
  BY DEF Init, SessionInit, Woken, Begun, SessionWoken
<1>2. Inv /\ Woken /\ [Next]_vars => Woken'
  <2> SUFFICES ASSUME Inv, Woken, [Next]_vars PROVE Woken'
    OBVIOUS
  <2>1. SessionInv
    BY DEF Inv
  <2>2. CASE Session
    BY <2>1, <2>2, CallbackWoken, SetUpWoken, LoopWoken, ThreadWoken, TearDownWoken
       DEF Session, SessionThread, SessionUser
  <2>3. CASE StartSession \/ EndSession \/ ProcessEnds
    <3>1. PICK t \in Pool \cup {NoThread}, place \in {"connecting", "ended"} : Fresh(t, place)
      BY <2>3 DEF StartSession, EndSession, ProcessEnds, Run
    <3> QED BY <3>1 DEF Fresh, Woken, Begun, SessionWoken
  <2>4. CASE UNCHANGED sessionVars
    BY <2>4 DEF sessionVars, channels, state, viewVars, threads, Woken, Begun, SessionWoken
  <2> QED BY <2>2, <2>3, <2>4 DEF Next, vars
<1>3. Woken => SessionWoken
  BY DEF Woken
<1> QED BY <1>1, <1>2, <1>3, Invariance, PTL DEF Spec
=============================================================================
