------------------------- MODULE HostServiceProofs -------------------------
(***************************************************************************)
(* TypeOK, WorkersAccounted, IdentityKept and StopKept hold of HostService *)
(* for any sets of interactive sessions and of worker processes.           *)
(***************************************************************************)
EXTENDS HostService, TLAPS

\* Where the supervisor has a worker, and where it has none.
Held ==
    /\ proc \in {"none", "init", "first", "launch_first", "launch", "grace", "cleanup", "exiting"}
         => worker = None
    /\ proc \in {"await_moved", "await_cleanup"} => worker # None

\* The service is over whenever it is reported or taken to be; what the tool
\* found stopped stays so until the tool starts it.
Over == proc \in {"none", "exiting"}
Stopped ==
    /\ status = "stopped" \/ ~installed => Over
    /\ tool.at \in {"stage", "configure", "start", "delete"} => Over

\* A worker that is to move its temporary file has written all of it.
Saved == \A w \in Slots : workers[w].state = "saving" => temporary = "whole"

Inv == TypeOK /\ Held /\ Stopped /\ OneWorker /\ IdentityKept /\ Saved

LEMMA InitInv == Init => Inv
<1> SUFFICES ASSUME Init PROVE Inv
  OBVIOUS
<1> USE DEF Init
<1>1. NoWorker \in [state : States, session : Sessions \cup {None}, stop : BOOLEAN,
                   running : BOOLEAN]
  BY DEF NoWorker, States
<1>2. TypeOK
  BY <1>1 DEF TypeOK, Procs
<1>3. \A w \in Slots : workers[w].state = "none"
  BY DEF NoWorker
<1>4. Held /\ Stopped /\ OneWorker /\ IdentityKept /\ Saved
  BY <1>3 DEF Held, Stopped, Over, OneWorker, Alive, IdentityKept, Saved
<1> QED BY <1>2, <1>4 DEF Inv

LEMMA InteractiveType == ASSUME TypeOK PROVE Interactive \in Sessions \cup {None}
BY SessionsAssumption DEF TypeOK, Interactive

\* Nothing is known of a service that Windows and the tool leave alone.
LEMMA WindowsInv == ASSUME Inv, Windows PROVE Inv'
<1> USE DEF Inv, service, files
<1>1. CASE ActiveChange
  BY <1>1 DEF ActiveChange, TypeOK, Held, Stopped, Over, OneWorker, Alive, IdentityKept, Saved
<1>2. CASE ScmStart
  BY <1>2 DEF ScmStart, Started, TypeOK, Held, Stopped, Over, OneWorker, Alive, IdentityKept,
              Saved, Procs
<1>3. CASE ScmStop
  BY <1>3 DEF ScmStop, TypeOK, Held, Stopped, Over, OneWorker, Alive, IdentityKept, Saved
<1> QED BY <1>1, <1>2, <1>3 DEF Windows

LEMMA HandlerInv == ASSUME Inv, Handler PROVE Inv'
<1> USE DEF Inv, service, files, TypeOK, Held, Stopped, Over, OneWorker, Alive, IdentityKept, Saved
<1>1. CASE HandlerReport
  BY <1>1 DEF HandlerReport
<1>2. CASE HandlerSignal
  BY <1>2 DEF HandlerSignal
<1>3. CASE HandlerSession
  <2>1. session_event' \in {"none", "clear", "set"} /\ notice' \in BOOLEAN
    BY <1>3 DEF HandlerSession
  <2>2. UNCHANGED <<active, installed, status, proc, seen, worker, stop_event, handler, workers,
                    identity, temporary, tool>>
    BY <1>3 DEF HandlerSession
  <2> QED BY <2>1, <2>2
<1> QED BY <1>1, <1>2, <1>3 DEF Handler

LEMMA ToolMoves ==
    ASSUME TypeOK, NEW at, ToolAt(at)
    PROVE  tool' = [at |-> at, install |-> tool.install] /\ tool.install \in BOOLEAN
BY DEF TypeOK, ToolAt

LEMMA ToolInv == ASSUME Inv, Tool PROVE Inv'
<1> USE DEF Inv, service, files, ToolStep
<1>1. UNCHANGED <<active, notice, seen, worker, stop_event, session_event, workers, identity,
                  temporary>>
  BY DEF Tool, Invoke, QueryStatus, ControlStop, WaitStopped, StageFiles, Configure, StartService,
         Started, WaitRunning, DeleteService
<1>2. OneWorker' /\ IdentityKept' /\ Saved'
  BY <1>1 DEF OneWorker, Alive, IdentityKept, Saved
<1>3. ASSUME NEW at, ToolAt(at) PROVE tool' \in [at : {at}, install : BOOLEAN]
  BY <1>3, ToolMoves
<1>4. ToolEnds => tool' \in [at : {"idle"}, install : BOOLEAN]
  BY DEF ToolEnds
<1>5. TypeOK' /\ Held' /\ Stopped'
  <2> USE <1>1 DEF TypeOK, Held, Stopped, Over
  <2>1. CASE Invoke
    BY <2>1 DEF Invoke
  <2>2. CASE QueryStatus
    BY <2>2 DEF QueryStatus, AfterStop, ToolAt
  <2>3. CASE ControlStop
    <3>1. ToolEnds \/ ToolAt("stopping")
      BY <2>3 DEF ControlStop
    <3>2. UNCHANGED <<installed, status, proc>> /\ handler' \in {"idle", "stop", "signal"}
      BY <2>3 DEF ControlStop
    <3>3. tool' \in [at : {"idle", "stopping"}, install : BOOLEAN]
      BY <3>1, <1>3, <1>4
    <3> QED BY <3>2, <3>3
  <2>4. CASE WaitStopped
    <3>1. ToolEnds \/ (status = "stopped" /\ ToolAt(AfterStop(tool)))
      BY <2>4 DEF WaitStopped
    <3>2. UNCHANGED <<installed, status, proc, handler>>
      BY <2>4 DEF WaitStopped
    <3>3. /\ tool' \in [at : {"idle", "stage", "delete"}, install : BOOLEAN]
          /\ tool'.at = "idle" \/ status = "stopped"
      <4>1. AfterStop(tool) \in {"stage", "delete"}
        BY DEF AfterStop
      <4> QED BY <3>1, <4>1, <1>3, <1>4
    <3> QED BY <3>2, <3>3
  <2>5. CASE StageFiles
    <3>1. tool.at = "stage" /\ (ToolEnds \/ ToolAt("configure"))
      BY <2>5 DEF StageFiles
    <3>2. UNCHANGED <<installed, status, proc, handler>>
      BY <2>5 DEF StageFiles
    <3>3. tool' \in [at : {"idle", "configure"}, install : BOOLEAN]
      BY <3>1, <1>3, <1>4
    <3> QED BY <3>1, <3>2, <3>3
  <2>6. CASE Configure
    BY <2>6 DEF Configure, ToolAt
  <2>7. CASE StartService
    BY <2>7 DEF StartService, Started, Procs, ToolAt
  <2>8. CASE WaitRunning
    BY <2>8 DEF WaitRunning, ToolEnds
  <2>9. CASE DeleteService
    <3>1. tool' \in [at : {"idle"}, install : BOOLEAN]
      BY <2>9, <1>4 DEF DeleteService
    <3>2. installed' \in BOOLEAN /\ UNCHANGED <<status, proc, handler>>
      BY <2>9 DEF DeleteService
    <3>3. tool.at = "delete"
      BY <2>9 DEF DeleteService
    <3> QED BY <3>1, <3>2, <3>3
  <2> QED BY <2>1, <2>2, <2>3, <2>4, <2>5, <2>6, <2>7, <2>8, <2>9 DEF Tool
<1> QED BY <1>2, <1>5

\* What an ended process leaves is a record of the type.
LEMMA EndedType ==
    ASSUME TypeOK, NEW w \in Slots
    PROVE  /\ Ended(w) \in [Slots -> [state : States, session : Sessions \cup {None},
                                     stop : BOOLEAN, running : BOOLEAN]]
           /\ Ended(w)[w].state = "none"
           /\ \A v \in Slots \ {w} : Ended(w)[v] = workers[v]
<1>1. [NoWorker EXCEPT !.session = workers[w].session] \in
          [state : {"none"}, session : Sessions \cup {None}, stop : BOOLEAN, running : BOOLEAN]
  BY DEF NoWorker, TypeOK
<1> QED BY <1>1 DEF Ended, TypeOK, States

\* A step of the supervisor that starts and ends no worker.
LEMMA PlainSupervisorInv ==
    ASSUME Inv, ServiceStep, UNCHANGED <<worker, workers>>, TypeOK', Held', Stopped'
    PROVE  Inv'
BY DEF Inv, ServiceStep, files, OneWorker, Alive, IdentityKept, Saved

LEMMA SupervisorInv == ASSUME Inv, Supervisor PROVE Inv'
<1> USE DEF Inv, files, ServiceStep
<1>0. Interactive \in Sessions \cup {None} /\ None \notin Slots
  BY InteractiveType, SessionsAssumption
<1>1. CASE \/ ServiceInit \/ FirstSession \/ LaunchFails \/ ServiceFails \/ ReportRunning
           \/ WaitStop \/ WaitSession \/ Grace \/ Cleanup
  <2> USE <1>0 DEF TypeOK, Held, Stopped, Over, Procs
  <2>1. CASE ServiceInit
    BY <2>1, PlainSupervisorInv DEF ServiceInit
  <2>2. CASE FirstSession
    BY <2>2, PlainSupervisorInv DEF FirstSession
  <2>3. CASE LaunchFails
    BY <2>3, PlainSupervisorInv DEF LaunchFails
  <2>4. CASE ReportRunning
    BY <2>4, PlainSupervisorInv DEF ReportRunning
  <2>5. CASE WaitStop
    BY <2>5, PlainSupervisorInv DEF WaitStop
  <2>6. CASE WaitSession
    BY <2>6, PlainSupervisorInv DEF WaitSession
  <2>7. CASE Grace
    BY <2>7, PlainSupervisorInv DEF Grace
  <2>8. CASE Cleanup
    BY <2>8, PlainSupervisorInv DEF Cleanup
  <2>9. CASE ServiceFails
    BY <2>9, PlainSupervisorInv DEF ServiceFails
  <2> QED BY <1>1, <2>1, <2>2, <2>3, <2>4, <2>5, <2>6, <2>7, <2>8, <2>9
<1>2. CASE LaunchWorker
  <2>1. PICK w \in Slots :
          /\ ~Alive(w) /\ worker' = w
          /\ workers' = [workers EXCEPT ![w] =
                [state |-> "created", session |-> seen, stop |-> FALSE, running |-> TRUE]]
    BY <1>2 DEF LaunchWorker
  <2>2. worker = None /\ \A v \in Slots : ~Alive(v)
    BY <1>0, <1>2 DEF LaunchWorker, Held, OneWorker
  <2>3. TypeOK' /\ Held' /\ Stopped'
    BY <1>0, <1>2, <2>1 DEF LaunchWorker, TypeOK, Held, Stopped, Over, States, Procs
  <2>4. OneWorker' /\ IdentityKept' /\ Saved'
    BY <1>2, <2>1, <2>2 DEF LaunchWorker, TypeOK, OneWorker, Alive, IdentityKept, Saved
  <2> QED BY <2>3, <2>4
<1>3. CASE StopWorker
  <2>1. TypeOK' /\ Held' /\ Stopped'
    <3>1. /\ proc \in {"stop_moved", "stop_cleanup"}
          /\ proc' \in {"cleanup", "await_moved", "await_cleanup"}
          /\ proc' = "cleanup" <=> worker = None
      BY <1>3 DEF StopWorker
    <3>2. workers' \in [Slots -> [state : States, session : Sessions \cup {None},
                                  stop : BOOLEAN, running : BOOLEAN]]
      <4>1. CASE worker = None
        BY <1>3, <4>1 DEF StopWorker, TypeOK
      <4>2. CASE worker # None
        <5>1. worker \in Slots
          BY <4>2 DEF TypeOK
        <5>2. [workers[worker] EXCEPT !.stop = TRUE] \in
                  [state : States, session : Sessions \cup {None}, stop : BOOLEAN,
                   running : BOOLEAN]
          BY <5>1 DEF TypeOK
        <5> QED BY <1>3, <4>2, <5>1, <5>2 DEF StopWorker, TypeOK
      <4> QED BY <4>1, <4>2
    <3>3. UNCHANGED <<active, notice, installed, status, seen, worker, stop_event, session_event,
                      handler, identity, temporary, tool>>
      BY <1>3 DEF StopWorker
    <3> QED BY <3>1, <3>2, <3>3 DEF TypeOK, Held, Stopped, Over, Procs
  <2>2. \A v \in Slots : workers'[v].state = workers[v].state
    BY <1>3 DEF StopWorker, TypeOK
  <2>3. OneWorker' /\ IdentityKept' /\ Saved'
    BY <1>3, <2>2 DEF StopWorker, OneWorker, Alive, IdentityKept, Saved
  <2> QED BY <2>1, <2>3
<1>4. CASE WaitWorkerExited \/ WorkerStopped
  <2>1. /\ worker \in Slots /\ ~Alive(worker) /\ worker' = None
        /\ workers' = [workers EXCEPT ![worker] = NoWorker]
    BY <1>4 DEF WaitWorkerExited, WorkerStopped, Held, TypeOK
  <2>2. TypeOK' /\ Held' /\ Stopped'
    BY <1>0, <1>4, <2>1 DEF WaitWorkerExited, WorkerStopped, TypeOK, Held, Stopped, Over, Procs,
                            NoWorker, States
  <2>3. \A v \in Slots : workers'[v].state = "none"
    BY <2>1 DEF TypeOK, OneWorker, Alive, NoWorker
  <2>4. OneWorker' /\ IdentityKept' /\ Saved'
    BY <1>4, <2>3 DEF WaitWorkerExited, WorkerStopped, OneWorker, Alive, IdentityKept, Saved
  <2> QED BY <2>2, <2>4
<1>5. CASE TerminateWorker
  <2>1. worker \in Slots
    BY <1>5 DEF TerminateWorker, Held, TypeOK
  <2>2. workers' = Ended(worker)
    BY <1>5 DEF TerminateWorker
  <2>3. TypeOK' /\ Held' /\ Stopped'
    <3>1. workers' \in [Slots -> [state : States, session : Sessions \cup {None},
                                  stop : BOOLEAN, running : BOOLEAN]]
      BY <2>1, <2>2, EndedType
    <3>2. UNCHANGED <<active, notice, installed, status, proc, seen, worker, stop_event,
                      session_event, handler, identity, temporary, tool>>
      BY <1>5 DEF TerminateWorker
    <3> QED BY <3>1, <3>2 DEF TypeOK, Held, Stopped, Over
  <2>4. \A v \in Slots : workers'[v].state \in {"none", workers[v].state}
    BY <2>1, <2>2 DEF Ended, NoWorker, TypeOK
  <2>5. OneWorker' /\ IdentityKept' /\ Saved'
    BY <1>5, <2>4 DEF TerminateWorker, OneWorker, Alive, IdentityKept, Saved
  <2> QED BY <2>3, <2>5
<1>6. CASE ServiceExit
  <2>1. /\ proc = "exiting" /\ proc' = "none" /\ status' = "stopped" /\ notice' = FALSE
        /\ UNCHANGED <<active, installed, seen, worker, stop_event, session_event, handler, workers,
                       identity, temporary, tool>>
    BY <1>6 DEF ServiceExit
  <2>2. TypeOK'
    <3>1. stop_event = "none"
      BY <2>1 DEF TypeOK
    <3>2. proc' \in Procs /\ status' = "stopped" /\ notice' \in BOOLEAN
      BY <2>1 DEF Procs
    <3>3. UNCHANGED <<active, installed, seen, worker, stop_event, session_event, handler, workers,
                      identity, temporary, tool>>
      BY <2>1
    <3> QED BY <2>1, <3>1, <3>2, <3>3 DEF TypeOK
  <2>3. Held' /\ Stopped'
    BY <2>1 DEF Held, Stopped, Over
  <2>4. OneWorker' /\ IdentityKept' /\ Saved'
    BY <2>1 DEF OneWorker, Alive, IdentityKept, Saved
  <2> QED BY <2>2, <2>3, <2>4
<1> QED BY <1>1, <1>2, <1>3, <1>4, <1>5, <1>6 DEF Supervisor

\* A worker that goes on, having changed no file: it pairs only without an
\* identity, and saves only what it has written.
LEMMA OnlyWorkerInv ==
    ASSUME Inv, NEW w \in Slots, Alive(w),
           UNCHANGED <<active, notice, installed, service, handler, tool>>,
           workers' \in [Slots -> [state : States, session : Sessions \cup {None},
                                  stop : BOOLEAN, running : BOOLEAN]],
           \A v \in Slots \ {w} : workers'[v] = workers[v],
           temporary' \in {"none", "whole", "partial"}, identity' \in {"none", "whole"},
           workers'[w].state \in {"pairing", "cancelled", "paired", "saving"}
             => identity' = "none",
           workers'[w].state = "saving" => temporary' = "whole"
    PROVE  Inv'
<1> USE DEF Inv, service
<1>1. worker = w /\ \A v \in Slots \ {w} : workers[v].state = "none"
  BY DEF OneWorker, Alive
<1>2. TypeOK' /\ Held' /\ Stopped'
  BY DEF TypeOK, Held, Stopped, Over
<1>3. OneWorker' /\ IdentityKept' /\ Saved'
  BY <1>1 DEF OneWorker, Alive, IdentityKept, Saved
<1> QED BY <1>2, <1>3

LEMMA WorkerInv == ASSUME Inv, NEW w \in Slots, Worker(w) PROVE Inv'
<1> USE DEF Inv, service, files, WorkerStep, Becomes
<1> DEFINE Record == [state : States, session : Sessions \cup {None}, stop : BOOLEAN,
                      running : BOOLEAN]
<1>1. workers \in [Slots -> Record] /\ identity \in {"none", "whole"}
      /\ temporary \in {"none", "whole", "partial"}
  BY DEF TypeOK, IdentityKept
<1>2. /\ workers[w].state = "saving" => temporary = "whole"
      /\ workers[w].state \in {"pairing", "cancelled", "paired", "saving"} => identity = "none"
  BY DEF Saved, IdentityKept
<1>3. ASSUME NEW state \in States, workers' = [workers EXCEPT ![w].state = state]
      PROVE  /\ workers' \in [Slots -> Record] /\ workers'[w].state = state
             /\ \A v \in Slots \ {w} : workers'[v] = workers[v]
  <2>1. [workers[w] EXCEPT !.state = state] \in Record
    BY <1>1
  <2> QED BY <1>1, <1>3, <2>1
<1>4. ASSUME NEW state \in States, Alive(w), UNCHANGED <<identity, temporary>>,
             workers' = [workers EXCEPT ![w].state = state],
             UNCHANGED <<active, notice, installed, service, handler, tool>>,
             state \in {"pairing", "cancelled", "paired"} => identity = "none",
             state # "saving"
      PROVE  Inv'
  BY <1>1, <1>3, <1>4, OnlyWorkerInv
<1>5. CASE OpenStopEvent(w)
  BY <1>4, <1>5 DEF OpenStopEvent, Alive, States
<1>6. CASE Watch(w)
  <2>1. [workers[w] EXCEPT !.running = FALSE] \in Record
    BY <1>1
  <2>2. /\ workers' \in [Slots -> Record] /\ workers'[w].state = workers[w].state
        /\ \A v \in Slots \ {w} : workers'[v] = workers[v]
    BY <1>1, <1>6, <2>1 DEF Watch
  <2>3. Alive(w) /\ UNCHANGED <<active, notice, installed, service, handler, tool, identity,
                                temporary>>
    BY <1>6 DEF Watch, Alive
  <2> QED BY <1>1, <1>2, <2>2, <2>3, OnlyWorkerInv
<1>7. CASE LoadIdentity(w)
  BY <1>1, <1>4, <1>7 DEF LoadIdentity, Alive, States
<1>8. CASE PairingCancelled(w) \/ Paired(w)
  BY <1>2, <1>4, <1>8 DEF PairingCancelled, Paired, Alive, States
<1>9. CASE SaveTemporary(w)
  <2>1. CASE temporary' = "partial" /\ UNCHANGED workers
    BY <1>1, <1>2, <1>9, <2>1, OnlyWorkerInv DEF SaveTemporary, Alive
  <2>2. CASE temporary' = "whole" /\ workers' = [workers EXCEPT ![w].state = "saving"]
    <3>1. /\ workers' \in [Slots -> Record] /\ workers'[w].state = "saving"
          /\ \A v \in Slots \ {w} : workers'[v] = workers[v]
      BY <1>3, <2>2 DEF States
    <3> QED BY <1>1, <1>2, <1>9, <2>2, <3>1, OnlyWorkerInv DEF SaveTemporary, Alive
  <2> QED BY <1>9, <2>1, <2>2 DEF SaveTemporary
<1>10. CASE ActivateIdentity(w)
  <2>1. /\ workers' \in [Slots -> Record] /\ workers'[w].state = "connecting"
        /\ \A v \in Slots \ {w} : workers'[v] = workers[v]
    BY <1>3, <1>10 DEF ActivateIdentity, States
  <2> QED BY <1>2, <1>10, <2>1, OnlyWorkerInv DEF ActivateIdentity, Alive
<1>11. CASE Connect(w) \/ Reconnect(w)
  BY <1>4, <1>11 DEF Connect, Reconnect, Alive, States
<1>12. CASE Finish(w) \/ Throw(w)
  <2>1. Alive(w) /\ workers' = Ended(w) /\ identity' = identity
        /\ temporary' \in {"none", temporary}
        /\ UNCHANGED <<active, notice, installed, service, handler, tool>>
    BY <1>12 DEF Finish, Throw, Alive
  <2>2. /\ workers' \in [Slots -> Record] /\ workers'[w].state = "none"
        /\ \A v \in Slots \ {w} : workers'[v] = workers[v]
    BY <2>1, EndedType
  <2> QED BY <1>1, <2>1, <2>2, OnlyWorkerInv
<1> QED BY <1>5, <1>6, <1>7, <1>8, <1>9, <1>10, <1>11, <1>12 DEF Worker

LEMMA NextInv == ASSUME Inv, [Next]_vars PROVE Inv'
<1>1. CASE Next
  BY <1>1, WindowsInv, HandlerInv, SupervisorInv, ToolInv, WorkerInv DEF Next
<1>2. CASE UNCHANGED vars
  BY <1>2 DEF vars, service, files, Inv, TypeOK, Held, Stopped, Over, OneWorker, Alive,
              IdentityKept, Saved
<1> QED BY <1>1, <1>2

\* The invariant holds of every behaviour of the service.
THEOREM Invariance == Spec => []Inv
BY InitInv, NextInv, PTL DEF Spec

\* Every variable of the service keeps its type.
THEOREM TypeCorrect == Spec => []TypeOK
<1>1. Inv => TypeOK
  BY DEF Inv
<1> QED BY <1>1, Invariance, PTL

\* However sessions change, at most the worker the supervisor has a handle of is
\* alive, and none once STOPPED is reported or the service is removed, also when
\* an exception ends service_main while its worker runs.
THEOREM WorkerSafety == Spec => []WorkersAccounted
<1>1. Inv => WorkersAccounted
  BY SessionsAssumption
     DEF Inv, Held, Stopped, Over, OneWorker, WorkersAccounted, StoppedIsQuiet, NoneAlive
<1> QED BY <1>1, Invariance, PTL

\* No worker pairs a host that has a saved identity, and no part of an identity
\* is left where it is loaded, at whatever step a worker is terminated or fails.
THEOREM IdentitySafety == Spec => []IdentityKept
<1>1. Inv => IdentityKept
  BY DEF Inv
<1> QED BY <1>1, Invariance, PTL

---------------------------------------------------------------------------
(* A stop that was delivered *)

\* Where service_main is before it reports RUNNING, and the handler is told nothing.
Unstarted == {"none", "init", "first", "launch_first", "report"}

\* STOP_PENDING is on its way to the supervisor: the handler has yet to set the stop
\* event, or it is set, or the supervisor has left its loop.  The event is there
\* when the handler sets it, as the service runs.
StopKept ==
    /\ status = "running" => proc \notin Unstarted \cup {"exiting"}
    /\ handler # "idle" => proc \notin Unstarted
    /\ status = "stop_pending" => handler = "signal" \/ stop_event = "set" \/ Ending

LEMMA StopKeptStep == ASSUME TypeOK, StopKept, [Next]_vars PROVE StopKept'
<1> USE DEF StopKept, Unstarted, Ending, service, files
<1>1. CASE Windows
  BY <1>1 DEF Windows, ActiveChange, ScmStart, Started, ScmStop
<1>2. CASE Handler
  <2>1. CASE HandlerReport
    BY <2>1 DEF HandlerReport
  <2>2. CASE HandlerSignal
    <3>1. stop_event = "none" => proc = "exiting"
      BY <2>2 DEF HandlerSignal, TypeOK
    <3> QED BY <2>2, <3>1 DEF HandlerSignal
  <2>3. CASE HandlerSession
    BY <2>3 DEF HandlerSession
  <2> QED BY <1>2, <2>1, <2>2, <2>3 DEF Handler
<1>3. CASE Supervisor
  <2>1. CASE ServiceInit \/ FirstSession
    BY <2>1 DEF ServiceInit, FirstSession, ServiceStep
  <2>2. CASE LaunchWorker \/ LaunchFails \/ ServiceFails \/ ReportRunning
    BY <2>2 DEF LaunchWorker, LaunchFails, ServiceFails, ReportRunning, ServiceStep
  <2>3. CASE WaitStop \/ WaitSession
    BY <2>3 DEF WaitStop, WaitSession, ServiceStep
  <2>4. CASE WaitWorkerExited \/ Grace
    BY <2>4 DEF WaitWorkerExited, Grace, ServiceStep
  <2>5. CASE StopWorker \/ WorkerStopped \/ TerminateWorker
    BY <2>5 DEF StopWorker, WorkerStopped, TerminateWorker, ServiceStep
  <2>6. CASE Cleanup \/ ServiceExit
    BY <2>6 DEF Cleanup, ServiceExit, ServiceStep
  <2> QED BY <1>3, <2>1, <2>2, <2>3, <2>4, <2>5, <2>6 DEF Supervisor
<1>4. CASE Tool
  <2>1. CASE ControlStop
    BY <2>1 DEF ControlStop, ToolStep
  <2>2. CASE StartService
    BY <2>2 DEF StartService, Started, ToolStep
  <2>3. CASE Invoke \/ QueryStatus \/ WaitStopped \/ StageFiles \/ Configure \/ WaitRunning
             \/ DeleteService
    <3>1. UNCHANGED <<service, handler>>
      BY <2>3 DEF Invoke, QueryStatus, WaitStopped, StageFiles, Configure, WaitRunning,
                  DeleteService
    <3> QED BY <3>1
  <2> QED BY <1>4, <2>1, <2>2, <2>3 DEF Tool
<1>5. CASE \E w \in Slots : Worker(w)
  <2>1. UNCHANGED <<service, handler>>
    BY <1>5 DEF Worker, WorkerStep, OpenStopEvent, Watch, LoadIdentity, PairingCancelled, Paired,
                SaveTemporary, ActivateIdentity, Connect, Reconnect, Finish, Throw
  <2> QED BY <2>1
<1>6. CASE UNCHANGED vars
  BY <1>6 DEF vars
<1> QED BY <1>1, <1>2, <1>3, <1>4, <1>5, <1>6 DEF Next

\* No stop is lost between the handler and the supervisor, at whatever step of
\* service_main it comes; this is what StopHonoured rests on.
THEOREM StopSafety == Spec => []StopKept
<1>1. Init => StopKept
  BY DEF Init, StopKept
<1>2. TypeOK /\ StopKept /\ [Next]_vars => StopKept'
  BY StopKeptStep
<1> QED BY <1>1, <1>2, TypeCorrect, PTL DEF Spec
=============================================================================
