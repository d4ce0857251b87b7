---------------------------- MODULE HostService ----------------------------
(***************************************************************************)
(* The host as a Windows service: the supervisor of                        *)
(* src/windows_service.cpp, the worker process it keeps in the interactive *)
(* session (run_service_worker and the start of run in src/main.cpp), and  *)
(* the tool that installs and removes the service.                         *)
(*                                                                         *)
(* Five actors take steps: the thread of service_main (proc), the control  *)
(* handler on the dispatcher's thread (handler), the workers, the tool     *)
(* (--install-service, --uninstall-service), and Windows: sessions become  *)
(* active, the SCM starts the service and delivers controls.               *)
(*                                                                         *)
(* Assumed of Windows: a terminated process is gone within the 2 s that    *)
(* stop_worker allows it; a service process that reported STOPPED ends     *)
(* before the SCM starts the next; nobody else starts the service while    *)
(* the tool is at work; the temporary file's data reach the disk; events   *)
(* can be created.                                                         *)
(***************************************************************************)
CONSTANTS
    Sessions,   \* interactive sessions
    Console,    \* the one at the physical console
    Slots,      \* worker processes told apart
    None

ASSUME SessionsAssumption == Console \in Sessions /\ None \notin Sessions \cup Slots

VARIABLES
    active,         \* the sessions that are WTSActive
    notice,         \* a session change the SCM has yet to deliver
    installed,      \* the SCM knows the service
    status,         \* dwCurrentState as last reported
    proc,           \* where service_main is; "none" when there is no process
    seen,           \* the session it last read as active
    worker,         \* its WorkerProcess: a slot, or None
    stop_event, session_event,      \* g_service_stop_event, g_service_session_event
    handler,        \* what service_control_handler still has to do
    workers,        \* the worker processes
    identity, temporary,            \* the saved host identity, and its .tmp
    tool            \* where the tool is, and for which of its modes

service == <<status, proc, seen, worker, stop_event, session_event>>
files == <<identity, temporary>>
vars == <<active, notice, installed, service, handler, workers, files, tool>>

NoWorker == [state |-> "none", session |-> None, stop |-> FALSE, running |-> FALSE]
Alive(w) == workers[w].state # "none"
\* A process that ended; the supervisor's record still says which session it had.
Ended(w) == [workers EXCEPT ![w] = [NoWorker EXCEPT !.session = workers[w].session]]
NoneAlive == \A w \in Slots : ~Alive(w)

\* The console's session when it is active, else the first that is.
Interactive ==
    IF Console \in active THEN Console
    ELSE IF active = {} THEN None ELSE CHOOSE s \in active : TRUE

Init ==
    /\ active \in SUBSET Sessions /\ notice = FALSE
    /\ installed \in BOOLEAN /\ status = "stopped" /\ proc = "none"
    /\ seen = None /\ worker = None /\ stop_event = "none" /\ session_event = "none"
    /\ handler = "idle" /\ workers = [w \in Slots |-> NoWorker]
    /\ identity \in {"none", "whole"} /\ temporary = "none"
    /\ tool = [at |-> "idle", install |-> FALSE]

-----------------------------------------------------------------------------
(* Windows *)

\* Users log on and off, switch and lock; the SCM tells the services that
\* accept SESSIONCHANGE at that moment, which is while they are RUNNING.
ActiveChange ==
    /\ \E a \in SUBSET Sessions : a # active /\ active' = a
    /\ notice' = (notice \/ status = "running")
    /\ UNCHANGED <<installed, service, handler, workers, files, tool>>

\* StartServiceW, and main with --service up to service_main.
Started ==
    /\ installed /\ status = "stopped" /\ proc = "none"
    /\ status' = "start_pending" /\ proc' = "init"
    /\ UNCHANGED <<seen, worker, stop_event, session_event>>

\* The automatic start, or an administrator's.
ScmStart ==
    /\ tool.at = "idle" /\ Started
    /\ UNCHANGED <<active, notice, installed, handler, workers, files, tool>>

\* A stop or a shutdown that does not come from the tool.
ScmStop ==
    /\ status = "running" /\ handler = "idle" /\ handler' = "stop"
    /\ UNCHANGED <<active, notice, installed, service, workers, files, tool>>

-----------------------------------------------------------------------------
(* service_control_handler *)

HandlerReport ==
    /\ handler = "stop" /\ handler' = "signal"
    /\ status' = "stop_pending"
    /\ UNCHANGED <<active, notice, installed, proc, seen, worker, stop_event, session_event,
                   workers, files, tool>>

\* (mutants) The handle is not looked at, or not signalled.
HandlerSignalBlind ==
    /\ handler = "signal" /\ handler' = "idle" /\ stop_event' = "set"
    /\ UNCHANGED <<active, notice, installed, status, proc, seen, worker, session_event,
                   workers, files, tool>>
HandlerSignalLost ==
    /\ handler = "signal" /\ handler' = "idle"
    /\ UNCHANGED <<active, notice, installed, service, workers, files, tool>>

\* SetEvent, when service_main has not reset the handle yet.
HandlerSignal ==
    /\ handler = "signal" /\ handler' = "idle"
    /\ stop_event' = IF stop_event = "none" THEN "none" ELSE "set"
    /\ UNCHANGED <<active, notice, installed, status, proc, seen, worker, session_event,
                   workers, files, tool>>

HandlerSession ==
    /\ notice /\ handler = "idle" /\ proc # "none" /\ notice' = FALSE
    /\ session_event' = IF session_event = "none" THEN "none" ELSE "set"
    /\ UNCHANGED <<active, installed, status, proc, seen, worker, stop_event, handler,
                   workers, files, tool>>

-----------------------------------------------------------------------------
(* service_main *)

ServiceStep == UNCHANGED <<active, notice, installed, handler, files, tool>>

\* RegisterServiceCtrlHandlerExW, START_PENDING and the two events.
ServiceInit ==
    /\ proc = "init" /\ proc' = "first"
    /\ status' = "start_pending" /\ stop_event' = "clear" /\ session_event' = "clear"
    /\ ServiceStep /\ UNCHANGED <<seen, worker, workers>>

\* The session to run in, before RUNNING is reported.
FirstSession ==
    /\ proc = "first" /\ seen' = Interactive
    /\ proc' = IF Interactive = None THEN "report" ELSE "launch_first"
    /\ ServiceStep /\ UNCHANGED <<status, worker, stop_event, session_event, workers>>

\* launch_worker: a stop event of its own, and CreateProcessAsUserW.
LaunchWorker ==
    /\ proc \in {"launch_first", "launch"}
    /\ \E w \in Slots :
         /\ ~Alive(w) /\ worker' = w
         /\ workers' = [workers EXCEPT ![w] =
                [state |-> "created", session |-> seen, stop |-> FALSE, running |-> TRUE]]
    /\ proc' = IF proc = "launch_first" THEN "report" ELSE "wait"
    /\ ServiceStep /\ UNCHANGED <<status, seen, stop_event, session_event>>

\* One of its calls fails, and the Win32Error ends service_main.
LaunchFails ==
    /\ proc \in {"launch_first", "launch"} /\ proc' = "stop_cleanup"
    /\ ServiceStep /\ UNCHANGED <<status, seen, worker, stop_event, session_event, workers>>

\* (mutant) The worker is stopped on the way out of the loop only.
ServiceFailsHasty ==
    /\ proc \in {"first", "wait", "grace"} /\ proc' = "cleanup"
    /\ ServiceStep /\ UNCHANGED <<status, seen, worker, stop_event, session_event, workers>>

\* active_interactive_session or WaitForMultipleObjects fails; in the loop, also
\* while there is a worker.
ServiceFails ==
    /\ proc \in {"first", "wait", "grace"} /\ proc' = "stop_cleanup"
    /\ ServiceStep /\ UNCHANGED <<status, seen, worker, stop_event, session_event, workers>>

ReportRunning ==
    /\ proc = "report" /\ proc' = "wait" /\ status' = "running"
    /\ ServiceStep /\ UNCHANGED <<seen, worker, stop_event, session_event, workers>>

\* WaitForMultipleObjects: the stop event comes first, then the session event,
\* which resets itself, then the worker's process.
WaitStop ==
    /\ proc = "wait" /\ stop_event = "set"
    /\ proc' = "stop_cleanup" /\ status' = "stop_pending"
    /\ ServiceStep /\ UNCHANGED <<seen, worker, stop_event, session_event, workers>>

\* (mutants) The worker of the old session is left, or none is launched.
WaitSessionKeep ==
    /\ proc = "wait" /\ stop_event # "set" /\ session_event = "set"
    /\ session_event' = "clear" /\ seen' = Interactive
    /\ proc' = IF Interactive # None /\ (worker = None \/ Interactive # workers[worker].session)
               THEN "launch" ELSE "wait"
    /\ ServiceStep /\ UNCHANGED <<status, worker, stop_event, workers>>
WaitSessionIdle ==
    /\ proc = "wait" /\ stop_event # "set" /\ session_event = "set"
    /\ session_event' = "clear" /\ seen' = Interactive
    /\ proc' = IF worker # None /\ Interactive # workers[worker].session
               THEN "stop_moved" ELSE "wait"
    /\ ServiceStep /\ UNCHANGED <<status, worker, stop_event, workers>>

WaitSession ==
    /\ proc = "wait" /\ stop_event # "set" /\ session_event = "set"
    /\ session_event' = "clear" /\ seen' = Interactive
    /\ proc' = IF worker # None
               THEN IF Interactive # workers[worker].session THEN "stop_moved" ELSE "wait"
               ELSE IF Interactive # None THEN "launch" ELSE "wait"
    /\ ServiceStep /\ UNCHANGED <<status, worker, stop_event, workers>>

WaitWorkerExited ==
    /\ proc = "wait" /\ stop_event # "set" /\ session_event # "set"
    /\ worker # None /\ ~Alive(worker)
    /\ worker' = None /\ workers' = [workers EXCEPT ![worker] = NoWorker]
    /\ proc' = "grace"
    /\ ServiceStep /\ UNCHANGED <<status, seen, stop_event, session_event>>

\* The 2 s before a worker that ended is replaced, which a stop cuts short.
Grace ==
    /\ proc = "grace"
    /\ IF stop_event = "set"
       THEN proc' = "stop_cleanup" /\ status' = "stop_pending" /\ UNCHANGED seen
       ELSE /\ seen' = Interactive /\ UNCHANGED status
            /\ proc' = IF Interactive = None THEN "wait" ELSE "launch"
    /\ ServiceStep /\ UNCHANGED <<worker, stop_event, session_event, workers>>

\* (mutant) The service does not wait for its worker.
StopWorkerHasty ==
    /\ proc \in {"stop_moved", "stop_cleanup"}
    /\ workers' = IF worker = None THEN workers ELSE [workers EXCEPT ![worker].stop = TRUE]
    /\ proc' = IF proc = "stop_moved" THEN "await_moved" ELSE "cleanup"
    /\ ServiceStep /\ UNCHANGED <<status, seen, worker, stop_event, session_event>>

\* stop_worker: the worker is asked to end, and after 5 s made to.
StopWorker ==
    /\ proc \in {"stop_moved", "stop_cleanup"}
    /\ IF worker = None
       THEN proc' = "cleanup" /\ UNCHANGED workers
       ELSE /\ workers' = [workers EXCEPT ![worker].stop = TRUE]
            /\ proc' = IF proc = "stop_moved" THEN "await_moved" ELSE "await_cleanup"
    /\ ServiceStep /\ UNCHANGED <<status, seen, worker, stop_event, session_event>>

\* ... and its handles are dropped: with another session active a worker starts
\* there, and without one the loop goes on.
WorkerStopped ==
    /\ proc \in {"await_moved", "await_cleanup"} /\ ~Alive(worker)
    /\ workers' = [workers EXCEPT ![worker] = NoWorker] /\ worker' = None
    /\ proc' = IF proc = "await_cleanup" THEN "cleanup"
               ELSE IF seen = None THEN "wait" ELSE "launch"
    /\ ServiceStep /\ UNCHANGED <<status, seen, stop_event, session_event>>

TerminateWorker ==
    /\ proc \in {"await_moved", "await_cleanup"} /\ Alive(worker)
    /\ workers' = Ended(worker)
    /\ ServiceStep /\ UNCHANGED <<status, proc, seen, worker, stop_event, session_event>>

\* The events go, and STOPPED is reported.
Cleanup ==
    /\ proc = "cleanup" /\ proc' = "exiting"
    /\ stop_event' = "none" /\ session_event' = "none" /\ seen' = None
    /\ status' = "stopped"
    /\ ServiceStep /\ UNCHANGED <<worker, workers>>

\* The dispatcher returns, when the handler has, and the process ends.
ServiceExit ==
    /\ proc = "exiting" /\ handler = "idle"
    /\ proc' = "none" /\ status' = "stopped" /\ notice' = FALSE
    /\ UNCHANGED <<active, installed, seen, worker, stop_event, session_event, handler,
                   workers, files, tool>>

-----------------------------------------------------------------------------
(* A worker *)

WorkerStep == UNCHANGED <<active, notice, installed, service, handler, tool>>
Becomes(w, state) == workers' = [workers EXCEPT ![w].state = state]

\* main with --system-worker: it is LocalSystem, and opens its stop event.
OpenStopEvent(w) ==
    /\ workers[w].state = "created" /\ Becomes(w, "starting")
    /\ WorkerStep /\ UNCHANGED files

\* stop_watcher
Watch(w) ==
    /\ workers[w].state \notin {"none", "created"} /\ workers[w].stop /\ workers[w].running
    /\ workers' = [workers EXCEPT ![w].running = FALSE]
    /\ WorkerStep /\ UNCHANGED files

\* (mutant) A saved identity does not keep the worker from pairing.
LoadIdentityRepair(w) ==
    /\ workers[w].state = "starting" /\ identity # "partial" /\ Becomes(w, "pairing")
    /\ WorkerStep /\ UNCHANGED files

\* The capture is made, the firewall rule ensured and the identity loaded; a
\* damaged one ends the worker, as it runs without --repair.
LoadIdentity(w) ==
    /\ workers[w].state = "starting" /\ identity # "partial"
    /\ Becomes(w, IF identity = "whole" THEN "connecting" ELSE "pairing")
    /\ WorkerStep /\ UNCHANGED files

\* pair_managed_webrtc_host looks at g_running every 250 ms ...
PairingCancelled(w) ==
    /\ workers[w].state = "pairing" /\ ~workers[w].running /\ Becomes(w, "cancelled")
    /\ WorkerStep /\ UNCHANGED files

\* ... and returns a result that came before the callbacks were reset.
Paired(w) ==
    /\ workers[w].state \in {"pairing", "cancelled"} /\ Becomes(w, "paired")
    /\ WorkerStep /\ UNCHANGED files

\* (mutant) The identity is written where it is loaded.
SaveTemporaryInPlace(w) ==
    /\ workers[w].state = "paired"
    /\ \/ identity' = "partial" /\ UNCHANGED <<temporary, workers>>
       \/ temporary' = "whole" /\ Becomes(w, "saving") /\ UNCHANGED identity
    /\ WorkerStep

\* save_host_identity: a temporary file beside the old one ...
SaveTemporary(w) ==
    /\ workers[w].state = "paired"
    /\ \/ temporary' = "partial" /\ UNCHANGED workers
       \/ temporary' = "whole" /\ Becomes(w, "saving")
    /\ WorkerStep /\ UNCHANGED identity

\* ... that is moved over it.
ActivateIdentity(w) ==
    /\ workers[w].state = "saving" /\ Becomes(w, "connecting")
    /\ identity' = temporary /\ temporary' = "none"
    /\ WorkerStep

\* WebSocketSignalingStream::connect: registered, or closed, an error or a
\* timeout.  It does not ask whether to stop; the loop of run around it does.
Connect(w) ==
    /\ workers[w].state = "connecting"
    /\ \E state \in {"hosting", "retrying"} : Becomes(w, state)
    /\ WorkerStep /\ UNCHANGED files

Reconnect(w) ==
    /\ workers[w].state \in {"hosting", "retrying"} /\ workers[w].running
    /\ Becomes(w, "connecting")
    /\ WorkerStep /\ UNCHANGED files

\* run returns.
Finish(w) ==
    /\ workers[w].state \in {"hosting", "retrying"} /\ ~workers[w].running
    /\ workers' = Ended(w)
    /\ WorkerStep /\ UNCHANGED files

\* run throws, or the process crashes; a failed move deletes the temporary file.
Throw(w) ==
    /\ Alive(w) /\ workers' = Ended(w)
    /\ \/ UNCHANGED files
       \/ workers[w].state = "saving" /\ temporary' = "none" /\ UNCHANGED identity
    /\ WorkerStep

-----------------------------------------------------------------------------
(* The tool *)

ToolStep == UNCHANGED <<active, notice, workers, files>>
ToolAt(at) == tool' = [tool EXCEPT !.at = at]
ToolEnds == tool' = [at |-> "idle", install |-> FALSE]

\* main, elevated by relaunch_as_admin_if_requested; and OpenServiceW.
Invoke ==
    /\ tool.at = "idle"
    /\ \E install \in BOOLEAN :
         /\ install \/ installed
         /\ tool' = [at |-> IF installed THEN "query" ELSE "stage", install |-> install]
    /\ ToolStep /\ UNCHANGED <<installed, service, handler>>

\* stop_service_if_running: nothing to do when it is stopped; the SCM delivers
\* the stop to a service that accepts it, and refuses it to one that is
\* starting or stopping, which ends the tool.
AfterStop(t) == IF t.install THEN "stage" ELSE "delete"

QueryStatus ==
    /\ tool.at = "query"
    /\ ToolAt(IF status = "stopped" THEN AfterStop(tool) ELSE "control")
    /\ ToolStep /\ UNCHANGED <<installed, service, handler>>

ControlStop ==
    /\ tool.at = "control"
    /\ \/ status = "running" /\ handler = "idle" /\ handler' = "stop" /\ ToolAt("stopping")
       \/ status = "stopped" /\ ToolAt("stopping") /\ UNCHANGED handler
       \/ status \in {"start_pending", "stop_pending"} /\ ToolEnds /\ UNCHANGED handler
    /\ ToolStep /\ UNCHANGED <<installed, service>>

\* wait_for_service_state(SERVICE_STOPPED), or its 20 s pass.
WaitStopped ==
    /\ tool.at = "stopping"
    /\ IF status = "stopped" THEN ToolAt(AfterStop(tool)) ELSE ToolEnds
    /\ ToolStep /\ UNCHANGED <<installed, service, handler>>

\* stage_service_files: Windows does not let it replace the executable of a
\* process, unless the tool runs from the installed one and copies nothing.
StageFiles ==
    /\ tool.at = "stage"
    /\ \/ proc = "none" /\ NoneAlive /\ ToolAt("configure")
       \/ installed /\ ToolAt("configure")
       \/ ToolEnds
    /\ ToolStep /\ UNCHANGED <<installed, service, handler>>

\* CreateServiceW, or ChangeServiceConfigW.
Configure ==
    /\ tool.at = "configure" /\ installed' = TRUE /\ ToolAt("start")
    /\ ToolStep /\ UNCHANGED <<service, handler>>

StartService ==
    /\ tool.at = "start" /\ Started /\ ToolAt("started")
    /\ ToolStep /\ UNCHANGED <<installed, handler>>

\* wait_for_service_state(SERVICE_RUNNING), which STOPPED ends too, or its 20 s.
WaitRunning ==
    /\ tool.at = "started" /\ ToolEnds
    /\ ToolStep /\ UNCHANGED <<installed, service, handler>>

DeleteService ==
    /\ tool.at = "delete" /\ installed' = FALSE /\ ToolEnds
    /\ ToolStep /\ UNCHANGED <<service, handler>>

-----------------------------------------------------------------------------
Windows == ActiveChange \/ ScmStart \/ ScmStop
Handler == HandlerReport \/ HandlerSignal \/ HandlerSession
Supervisor ==
    \/ ServiceInit \/ FirstSession \/ LaunchWorker \/ LaunchFails \/ ServiceFails
    \/ ReportRunning \/ WaitStop \/ WaitSession \/ WaitWorkerExited \/ Grace
    \/ StopWorker \/ WorkerStopped \/ TerminateWorker \/ Cleanup \/ ServiceExit
Worker(w) ==
    \/ OpenStopEvent(w) \/ Watch(w) \/ LoadIdentity(w) \/ PairingCancelled(w) \/ Paired(w)
    \/ SaveTemporary(w) \/ ActivateIdentity(w) \/ Connect(w) \/ Reconnect(w)
    \/ Finish(w) \/ Throw(w)
Tool ==
    \/ Invoke \/ QueryStatus \/ ControlStop \/ WaitStopped \/ StageFiles \/ Configure
    \/ StartService \/ WaitRunning \/ DeleteService

Next == Windows \/ Handler \/ Supervisor \/ Tool \/ \E w \in Slots : Worker(w)
Spec == Init /\ [][Next]_vars

\* The two threads of the service run, and sessions do not change so fast that
\* the session event always hides the end of the worker.  Nothing is asked of
\* the workers, which the supervisor terminates, of the tool, or of Windows.
FairSpec == Spec /\ WF_vars(Supervisor) /\ WF_vars(Handler) /\ SF_vars(WaitWorkerExited)

-----------------------------------------------------------------------------
States == {"none", "created", "starting", "pairing", "cancelled", "paired", "saving",
           "connecting", "retrying", "hosting"}
Procs == {"none", "init", "first", "launch_first", "report", "wait", "launch", "grace",
          "stop_moved", "stop_cleanup", "await_moved", "await_cleanup", "cleanup", "exiting"}

\* Every variable has its type, and there are no events without a service_main
\* that uses them.
TypeOK ==
    /\ active \subseteq Sessions /\ notice \in BOOLEAN /\ installed \in BOOLEAN
    /\ status \in {"stopped", "start_pending", "running", "stop_pending"} /\ proc \in Procs
    /\ seen \in Sessions \cup {None} /\ worker \in Slots \cup {None}
    /\ {stop_event, session_event} \subseteq {"none", "clear", "set"}
    /\ stop_event = "none" <=> proc \in {"none", "init", "exiting"}
    /\ handler \in {"idle", "stop", "signal"}
    /\ workers \in [Slots -> [state : States, session : Sessions \cup {None},
                              stop : BOOLEAN, running : BOOLEAN]]
    /\ identity \in {"none", "whole", "partial"}
    /\ temporary \in {"none", "whole", "partial"}
    /\ tool \in [at : {"idle", "query", "control", "stopping", "stage", "configure", "start",
                       "started", "delete"}, install : BOOLEAN]

\* A worker that is alive is the one the supervisor has a handle of, so that
\* there is at most one, whatever sessions come and go: two would register the
\* same host, and the second would throw the first off.  A service that reports
\* STOPPED, or that the tool removed, has left none, whether service_main ended
\* by a stop or by an exception, with a worker running or without.
OneWorker == \A w \in Slots : Alive(w) => worker = w
StoppedIsQuiet == status = "stopped" \/ ~installed => NoneAlive
WorkersAccounted == OneWorker /\ StoppedIsQuiet

\* A worker pairs only while the host has no saved identity, so that it never
\* pairs a host anew over one that is saved; and a worker that is terminated, or
\* fails, while it saves an identity leaves no part of it where the next one loads
\* it.  (An identity that the server granted is lost when its worker goes before it
\* is moved into place: the next worker pairs again.)
IdentityKept ==
    /\ identity # "partial"
    /\ \A w \in Slots : workers[w].state \in {"pairing", "cancelled", "paired", "saving"}
                          => identity = "none"

Ending == proc \in {"stop_cleanup", "await_cleanup", "cleanup", "exiting", "none"}
Serves(s) == worker # None /\ Alive(worker) /\ workers[worker].session = s

\* Once the supervisor has been told, by the session event or by its worker's
\* end, it brings a worker to the active session, unless that changes again or
\* the service ends.
FollowsSession == \A s \in Sessions :
    (Interactive = s /\ (session_event = "set" \/ (worker # None /\ ~Alive(worker))))
        ~> (Interactive # s \/ Serves(s) \/ Ending)

\* A stop that was delivered ends the service's process and its worker, even a
\* worker that does not look at its stop event.
StopHonoured == (handler = "signal") ~> (proc = "none" /\ NoneAlive)

\* What the service's description says: it runs the host in the active
\* interactive session.
RunsInActiveSession == \A s \in Sessions :
    (proc = "wait" /\ Interactive = s) ~> (Interactive # s \/ Serves(s) \/ Ending)

\* The tool replaces the files of a service it stopped, and so of one whose
\* process is gone.
StagesWhenGone == tool.at = "stage" => proc = "none"
=============================================================================
