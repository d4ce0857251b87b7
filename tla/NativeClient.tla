---------------------------- MODULE NativeClient ----------------------------
(***************************************************************************)
(* The native client: its launcher, and the sessions it starts.            *)
(*                                                                         *)
(* The launcher hands a session its invite and learns that it ended from   *)
(* its future; while it runs, no button is enabled and the launcher does   *)
(* not close.                                                              *)
(***************************************************************************)
EXTENDS Launcher, ClientSession

vars == <<launcherVars, sessionVars>>

Init == LauncherInit /\ SessionInit

\* start_remote_session and finish_remote_session are the only steps of both.
StartSession == FinishConnect /\ \E t \in Pool : Run(t, "connecting")
EndSession == FinishSession /\ Run(NoThread, "ended")

Session == Callbacks \/ OnClosed \/ SessionThread \/ SessionUser \/ DecodeThread \/ Monitors

\* The process ends, and the next one has another message queue: Exit,
\* FinishLoginUnsaved, or a callback in an unwinding run, whose window and decode
\* queue are destroyed before the transport that has their addresses.
Crash ==
    /\ session_running /\ at = "unwind" /\ published
    /\ Exited /\ UNCHANGED saved

ProcessEnds == (Ends \/ Crash) /\ Fresh(NoThread, "ended") /\ quit' = {}

Next ==
    \/ (User \/ Task \/ Timer) /\ UNCHANGED sessionVars
    \/ session_running /\ Session /\ UNCHANGED launcherVars
    \/ StartSession \/ EndSession \/ ProcessEnds

Spec == Init /\ [][Next]_vars

\* The threads run, HTTP requests end (they time out), and the window's timer
\* ticks.  Nothing is asked of the peer, and of the user only not to start a login
\* between any two ticks for ever: the poll of the one before would never begin.
FairSpec ==
    /\ Spec
    /\ WF_vars(Task /\ UNCHANGED sessionVars) /\ WF_vars(Timer /\ UNCHANGED sessionVars)
    /\ SF_vars(BeginPoll /\ UNCHANGED sessionVars)
    /\ WF_vars(StartSession) /\ WF_vars(EndSession)
    /\ \A part \in {1, 2, 3, 4} :
         WF_vars(/\ session_running /\ UNCHANGED launcherVars
                 /\ CASE part = 1 -> SessionThread [] part = 2 -> OnClosed
                      [] part = 3 -> DecodeThread [] part = 4 -> Monitors)

-----------------------------------------------------------------------------
\* Every variable has its type; a session's thread is set exactly while the
\* launcher counts it as running.
TypeOK ==
    /\ LauncherTypeOK /\ SessionTypeOK
    /\ session_running <=> thread # NoThread

\* A login the window works with is the one in the identity file, if the file could
\* be written, and never a login other than it; a login the user left is revoked,
\* so that a file that could not be deleted restores nothing.  And a pending login
\* excludes a finished one, so that no poll can replace the identity the user has,
\* or a session of it.
LoginConsistent ==
    /\ shell = "open" /\ identity # None => saved \in {identity, None}
    /\ authorization # None => identity = None /\ ~session_running
    /\ \A l \in left : grants[l] = "revoked"

\* The window and the queue are there for as long as a callback or a thread may
\* use them: callbacks while they are published, the decode thread until it is
\* joined.  This is so in a run that returns; one that throws after it published
\* them takes them down first (ViewOutlivesCallbacks).
ViewInUse ==
    (published /\ at # "unwind") \/ decoder \notin {"none", "ended"} \/ monitors # {}
        => view \in {"open", "destroyed"}

\* An input the host was told is down is one the window knows to be pressed and
\* will release: no release is lost as long as the window sends at all.
DownIsKnown == at = "loop" /\ running => down \subseteq pressed

\* A login the user approved ends with the identity, or is seen to have failed.
ApprovedLoginEnds == \A l \in Logins :
    (shell = "open" /\ authorization = l /\ grants[l] = "approved")
        ~> (identity = l \/ authorization # l \/ shell # "open")

\* A session whose control channel is lost, whose window is closed or whose decoder
\* fails comes to an end, and the launcher takes over again.  A loss does not end a
\* session whose on_closed was called, for the video channel, before there was a
\* window to close (LostSessionEnds).
SessionEnds ==
    ((transport = "lost" /\ ~unheard) \/ view = "destroyed" \/ pipeline_error)
        ~> ~session_running

(* What the code does not keep, although its texts say so *)

\* README.md: logging out deletes the local credential.
LogoutDeletesFile == saved \notin left

\* A session whose connection is lost ends, and the launcher says so.
LostSessionEnds == transport = "lost" ~> ~session_running

\* The window outlives the callbacks that have its address.
ViewOutlivesCallbacks == published => view \in {"open", "destroyed"}

\* Closing a play window ends its own session only: the loop of a later one has
\* no WM_QUIT in its queue before its own window is destroyed.
ClosesOnlyItself == at = "loop" /\ view = "open" => thread \notin quit
=============================================================================
