------------------------------ MODULE Launcher ------------------------------
(***************************************************************************)
(* The native client's login window, src/launcher_window.cpp, with the     *)
(* account client and the identity file it uses.                           *)
(*                                                                         *)
(* The window has one task at a time on a thread of its own; a timer of    *)
(* the window finishes the task, finishes the remote session, or starts    *)
(* the next poll of a login.  A task makes HTTP requests, each of which    *)
(* may fail before or after the server acted on it.                        *)
(*                                                                         *)
(* A login is numbered by its device authorization, and so is the refresh  *)
(* token the server gives for it.                                          *)
(***************************************************************************)
EXTENDS Naturals, FiniteSets

CONSTANTS MaxLogins     \* authorizations the user starts

ASSUME LauncherAssumption == MaxLogins \in Nat

None == 0
Logins == 1..MaxLogins

VARIABLES
    shell,          \* the window: "closed" (no process), "open", "destroyed"
    task,           \* task_kind_, "none" for TaskKind::None
    result,         \* what task_ holds: "none" while it runs
    identity,       \* identity_: a login whose token the window has, or None
    authorization,  \* authorization_
    polled,         \* what the poll asks about, or the login a start has made
    host_online,    \* the host selected in the list is online
    session_running,
    saved,          \* the identity file; None also when it cannot be read
    grants,         \* the server: what became of each login
    left            \* (history) the logins the user logged out of

launcherVars == <<shell, task, result, identity, authorization, polled, host_online,
                  session_running, saved, grants, left>>

Tasks == {"none", "restore", "start", "poll", "refresh", "connect", "logout"}

LauncherInit ==
    /\ shell = "closed" /\ task = "none" /\ result = "none"
    /\ identity = None /\ authorization = None /\ polled = None
    /\ host_online = FALSE /\ session_running = FALSE
    /\ saved = None /\ grants = [l \in Logins |-> "none"] /\ left = {}

Idle == shell = "open" /\ task = "none" /\ ~session_running

-----------------------------------------------------------------------------
(* The user *)

\* create_controls: a saved identity is loaded, and the login restored.
Start ==
    /\ shell = "closed" /\ shell' = "open"
    /\ identity' = saved /\ task' = IF saved = None THEN "none" ELSE "restore"
    /\ UNCHANGED <<result, authorization, polled, host_online, session_running, saved, grants,
                   left>>

\* The buttons update_controls leaves enabled.
Click(kind) ==
    /\ Idle /\ task' = kind
    /\ kind = "start" <=> identity = None
    /\ kind = "connect" => host_online
    /\ kind \in {"start", "refresh", "connect", "logout"}
    /\ UNCHANGED <<shell, result, identity, authorization, polled, host_online,
                   session_running, saved, grants, left>>

\* WM_CLOSE and WM_DESTROY; show then waits for the task, whose result is dropped.
CloseLauncher ==
    /\ shell = "open" /\ ~session_running /\ shell' = "destroyed"
    /\ UNCHANGED <<task, result, identity, authorization, polled, host_online,
                   session_running, saved, grants, left>>

Exited ==
    /\ shell' = "closed" /\ task' = "none" /\ result' = "none"
    /\ identity' = None /\ authorization' = None /\ polled' = None /\ host_online' = FALSE
    /\ session_running' = FALSE /\ UNCHANGED <<grants, left>>

Exit ==
    /\ shell = "destroyed" /\ (task = "none" \/ result # "none")
    /\ Exited /\ UNCHANGED saved

\* The user approves a login in the browser.
Approve ==
    /\ \E l \in Logins :
         grants[l] = "pending" /\ grants' = [grants EXCEPT ![l] = "approved"]
    /\ UNCHANGED <<shell, task, result, identity, authorization, polled, host_online,
                   session_running, saved, left>>

\* The server forgets it: a request expires, a session is revoked elsewhere.
Expire ==
    /\ \E l \in Logins :
         /\ grants[l] \in {"pending", "approved", "valid"}
         /\ grants' = [grants EXCEPT ![l] = "revoked"]
    /\ UNCHANGED <<shell, task, result, identity, authorization, polled, host_online,
                   session_running, saved, left>>

-----------------------------------------------------------------------------
(* The tasks *)

Running(kind) == task = kind /\ result = "none" /\ shell # "closed"
TaskStep == UNCHANGED <<shell, task, identity, authorization, host_online,
                        session_running, saved, left>>
Answers(r) == result' = r
NoEffect == UNCHANGED <<polled, grants>>

\* http_request throws, or require_success does.
RequestFails ==
    /\ task # "none" /\ Running(task) /\ Answers("error") /\ NoEffect /\ TaskStep

\* start_device_authorization
StartAuthorization ==
    /\ Running("start")
    /\ \E l \in Logins :
         /\ grants[l] = "none" /\ \A k \in 1..(l - 1) : grants[k] # "none"
         /\ grants' = [grants EXCEPT ![l] = "pending"]
         /\ \/ Answers("ok") /\ polled' = l
            \/ Answers("error") /\ UNCHANGED polled
    /\ TaskStep

\* poll_device_authorization, and the hosts with the access token it gave: the
\* server gives the tokens of an approved login once.
PollAuthorization ==
    /\ Running("poll")
    /\ \/ grants[polled] = "pending" /\ Answers("pending") /\ UNCHANGED grants
       \/ /\ grants[polled] = "approved" /\ grants' = [grants EXCEPT ![polled] = "valid"]
          /\ Answers("ok") \/ Answers("error")
    /\ TaskStep /\ UNCHANGED polled

\* refresh keeps the refresh token; then the hosts, or an invite to one.
UseToken ==
    /\ Running("restore") \/ Running("refresh") \/ Running("connect")
    /\ grants[identity] = "valid" /\ Answers("ok")
    /\ NoEffect /\ TaskStep

RevokeToken ==
    /\ Running("logout")
    /\ grants[identity] \in {"valid", "revoked"}
    /\ grants' = [grants EXCEPT ![identity] = "revoked"]
    /\ Answers("ok") \/ Answers("error")
    /\ TaskStep /\ UNCHANGED polled

-----------------------------------------------------------------------------
(* The timer *)

\* finish_task, as far as it is the same for every task.
Finished(kind) ==
    /\ shell = "open" /\ task = kind /\ result # "none"
    /\ task' = "none" /\ result' = "none" /\ polled' = None
    /\ UNCHANGED <<shell, grants>>

\* delete_client_identity does not look whether the file could be deleted.
Forgotten ==
    identity' = None /\ host_online' = FALSE /\ saved' \in {None, saved}

\* A login that cannot be restored, for whatever reason, is forgotten.
FinishRestoreError ==
    /\ Finished("restore") /\ result = "error"
    /\ Forgotten /\ UNCHANGED <<authorization, session_running, left>>

\* (mutant) A poll that failed is made again.
FinishErrorKeep ==
    /\ \E kind \in Tasks \ {"none", "restore"} : Finished(kind)
    /\ result = "error"
    /\ UNCHANGED <<identity, authorization, saved, host_online, session_running, left>>

\* Another task's error ends the login it polls for, and changes nothing else.
FinishError ==
    /\ \E kind \in Tasks \ {"none", "restore"} : Finished(kind)
    /\ result = "error"
    /\ authorization' = IF task = "poll" THEN None ELSE authorization
    /\ UNCHANGED <<identity, saved, host_online, session_running, left>>

\* The browser is opened, or cannot be.
FinishStart ==
    /\ Finished("start") /\ result = "ok"
    /\ authorization' \in {polled, None}
    /\ UNCHANGED <<identity, saved, host_online, session_running, left>>

\* (mutant) The authorization outlives the login it made.
FinishLoginKeep ==
    /\ Finished("poll") /\ result = "ok"
    /\ identity' = polled /\ saved' \in {polled, None} /\ host_online' \in BOOLEAN
    /\ UNCHANGED <<authorization, session_running, left>>

\* save_client_identity does not look whether the file was written whole.
FinishLogin ==
    /\ Finished("poll") /\ result = "ok"
    /\ identity' = polled /\ saved' \in {polled, None}
    /\ authorization' = None /\ host_online' \in BOOLEAN
    /\ UNCHANGED <<session_running, left>>

\* save_client_identity throws out of the window's procedure, and the process ends.
FinishLoginUnsaved ==
    /\ shell = "open" /\ task = "poll" /\ result = "ok"
    /\ Exited /\ UNCHANGED saved

FinishPending ==
    /\ Finished("poll") /\ result = "pending"
    /\ UNCHANGED <<identity, authorization, saved, host_online, session_running, left>>

FinishHosts ==
    /\ Finished("restore") \/ Finished("refresh")
    /\ result = "ok" /\ host_online' \in BOOLEAN
    /\ UNCHANGED <<identity, authorization, saved, session_running, left>>

FinishLogout ==
    /\ Finished("logout") /\ result = "ok"
    /\ Forgotten /\ left' = left \cup {identity}
    /\ UNCHANGED <<authorization, session_running>>

\* start_remote_session; what the session does is ClientSession's.
FinishConnect ==
    /\ Finished("connect") /\ result = "ok" /\ session_running' = TRUE
    /\ UNCHANGED <<identity, authorization, saved, host_online, left>>

\* (mutant) The flag stays up.
FinishSessionKeep ==
    /\ shell = "open" /\ task = "none" /\ session_running
    /\ UNCHANGED launcherVars

\* finish_remote_session, once its future is ready.
FinishSession ==
    /\ shell = "open" /\ task = "none" /\ session_running /\ session_running' = FALSE
    /\ UNCHANGED <<shell, task, result, identity, authorization, polled, host_online,
                   saved, grants, left>>

\* begin_poll, when it is time.
BeginPoll ==
    /\ shell = "open" /\ task = "none" /\ authorization # None
    /\ task' = "poll" /\ polled' = authorization
    /\ UNCHANGED <<shell, result, identity, authorization, host_online, session_running,
                   saved, grants, left>>

-----------------------------------------------------------------------------
User == Start \/ CloseLauncher \/ Approve \/ Expire \/ \E kind \in Tasks : Click(kind)
Task == RequestFails \/ StartAuthorization \/ PollAuthorization \/ UseToken \/ RevokeToken
Timer == \/ FinishRestoreError \/ FinishError \/ FinishStart \/ FinishLogin
         \/ FinishPending \/ FinishHosts \/ FinishLogout \/ BeginPoll
Ends == Exit \/ FinishLoginUnsaved

LauncherTypeOK ==
    /\ shell \in {"closed", "open", "destroyed"} /\ task \in Tasks
    /\ result \in {"none", "ok", "error", "pending"}
    /\ {identity, authorization, polled, saved} \subseteq Logins \cup {None}
    /\ host_online \in BOOLEAN /\ session_running \in BOOLEAN
    /\ grants \in [Logins -> {"none", "pending", "approved", "valid", "revoked"}]
    /\ left \subseteq Logins
=============================================================================
