----------------------------- MODULE Signaling -----------------------------
(***************************************************************************)
(* The signaling relay of signaling-server/server.mjs: WebSocket           *)
(* connections, the sessions that pair a host with a client, managed hosts *)
(* and the leases /connect gives on them, the frames kept for a peer that  *)
(* is not there yet, the heartbeat and the idle sweep.                     *)
(*                                                                         *)
(* Node runs each handler to its end, so a handler is one action.  What    *)
(* interleaves is the 'close' event: close() and terminate() only move a   *)
(* socket to CLOSING, and its close handler runs some time later, with the *)
(* session it captured when it registered.                                 *)
(***************************************************************************)
EXTENDS Integers, Sequences, FiniteSets

CONSTANTS
    ManagedSockets,   \* connections a paired host makes to /host
    InviteSockets,    \* connections a host makes to /signal with role=host
    ClientSockets,    \* connections a client makes to /signal with role=client
    Sessions,         \* session objects
    HostIds,          \* ids of paired hosts
    InviteIds,        \* session ids chosen by hosts that run with an invite
    MaxSessions,      \* maxSessions
    MaxPending,       \* maxPendingBytes, in frames of one size
    MaxTotalPending,  \* maxTotalPendingBytes, in frames of one size
    None

Sockets == ManagedSockets \cup InviteSockets \cup ClientSockets
Roles == {"host", "client"}

\* The id of a session /connect creates is random, hence its own: the object.
Ids == InviteIds \cup Sessions

ASSUME SocketsAssumption ==
    /\ ManagedSockets \cap InviteSockets = {}
    /\ ManagedSockets \cap ClientSockets = {}
    /\ InviteSockets \cap ClientSockets = {}
    /\ None \notin Sockets \cup Sessions \cup HostIds \cup Ids
    /\ InviteIds \cap Sessions = {}

ASSUME LimitsAssumption ==
    MaxSessions \in Nat /\ MaxPending \in Nat /\ MaxTotalPending \in Nat

VARIABLES
    state,              \* readyState of a connection; "free" before its upgrade
    isAlive,            \* socket.isAlive
    sess,               \* socket.managedSession, or the session a handler captured
    hostId,             \* socket.hostId of a registered managed host
    managedHosts,       \* managedHosts: host id -> socket
    hostRow,            \* whether the hosts table has a row for the id
    revoked,            \* connections whose device token was replaced or deleted
    sessions,           \* the sessions Map: id -> session object
    id,                 \* session.id; None until the object is created
    attached,           \* session.host and session.client
    managedHostId,      \* session.managedHostId
    pending,            \* session.pendingHost and session.pendingClient: the
                        \*   socket each frame was queued for (None: nobody there)
    age,                \* time since lastActivity: 0 within staleConnectGraceMs,
                        \*   1 past it, 2 past sessionIdleTimeoutMs
    totalPendingBytes

socketVars  == <<state, isAlive, hostId>>
hostVars    == <<managedHosts, hostRow, revoked>>
sessionVars == <<sessions, id, attached, managedHostId>>
queueVars   == <<pending, totalPendingBytes>>
vars == <<state, isAlive, sess, hostId, managedHosts, hostRow, revoked, sessions, id,
          attached, managedHostId, pending, age, totalPendingBytes>>

NoFrames == [r \in Roles |-> << >>]
PeerRole(r) == IF r = "host" THEN "client" ELSE "host"

Init ==
    /\ state = [k \in Sockets |-> "free"]
    /\ isAlive = [k \in Sockets |-> FALSE]
    /\ sess = [k \in Sockets |-> None]
    /\ hostId = [k \in Sockets |-> None]
    /\ managedHosts = [h \in HostIds |-> None]
    /\ hostRow = [h \in HostIds |-> TRUE]
    /\ revoked = {}
    /\ sessions = [i \in Ids |-> None]
    /\ id = [s \in Sessions |-> None]
    /\ attached = [s \in Sessions |-> [r \in Roles |-> None]]
    /\ managedHostId = [s \in Sessions |-> None]
    /\ pending = [s \in Sessions |-> NoFrames]
    /\ age = [s \in Sessions |-> 0]
    /\ totalPendingBytes = 0

---------------------------------------------------------------------------
(* Helpers *)

IsOpen(k) == k # None /\ state[k] = "OPEN"

Role(k) == IF k \in ClientSockets THEN "client" ELSE "host"

\* readyState once the sockets of `closed` have emitted 'close' and close() or
\* terminate() was called on those of `closing`.
StateAfter(closed, closing) ==
    [k \in Sockets |->
        IF k \in closed THEN "CLOSED"
        ELSE IF k \in closing /\ state[k] = "OPEN" THEN "CLOSING"
        ELSE state[k]]

\* The frames that wait in the sessions of S, each at its place, and their number.
QueuedFrames(S) ==
    UNION {{q} \X DOMAIN pending[q[1]][q[2]] : q \in S \X Roles}
Queued(S) == Cardinality(QueuedFrames(S))

\* The sessions of the Map, found by id, that are these very objects.
InMap(s) == id[s] # None /\ sessions[id[s]] = s

Full == Cardinality({i \in Ids : sessions[i] # None}) >= MaxSessions

\* removeSession for each session of S, whose host and client are then `att`:
\* the Map forgets their ids, their queues are dropped, and a managed host that
\* is still theirs is free.
SessionsWithout(S) ==
    [i \in Ids |-> IF \E s \in S : id[s] = i THEN None ELSE sessions[i]]

\* Slip of discardPending: it does not count.
DiscardedUncounted(S) == 0
Discarded(S) == Queued(S)

PendingWithout(S) == [s \in Sessions |-> IF s \in S THEN NoFrames ELSE pending[s]]

\* Slip: the removed session stays the host's managedSession.
FreedHostsForgotten(S, att) == {}
FreedHosts(S, att) ==
    {k \in ManagedSockets : /\ sess[k] \in S
                            /\ managedHostId[sess[k]] # None
                            /\ att[sess[k]]["host"] = k}
RemoveSessions(S, att) ==
    /\ sessions' = SessionsWithout(S)
    /\ pending' = PendingWithout(S)
    /\ totalPendingBytes' = totalPendingBytes - Discarded(S)
    /\ sess' = [k \in Sockets |-> IF k \in FreedHosts(S, att) THEN None ELSE sess[k]]
    /\ attached' = att

\* managedSessionInUse.  Slip: only the grace period counts.
InUseInGraceOnly(s) == age[s] = 0
InUse(s) == IsOpen(attached[s]["client"]) \/ age[s] = 0

---------------------------------------------------------------------------
(* Upgrades, and the handlers of new connections *)

\* A connection that is told error:... and closed: it gets no handlers.
Reject(k) ==
    /\ state[k] = "free"
    /\ state' = [state EXCEPT ![k] = "CLOSING"]
    /\ UNCHANGED <<isAlive, hostId, sess, hostVars, sessionVars, queueVars, age>>

\* handleSignalSocket: k takes role r of session s and receives what waited for
\* it; `objs` is the id of each session object once s exists.
Attach(k, r, s, objs) ==
    /\ state[k] = "free"
    /\ state' = [state EXCEPT ![k] = "OPEN"]
    /\ isAlive' = [isAlive EXCEPT ![k] = TRUE]
    /\ sess' = [sess EXCEPT ![k] = s]
    /\ id' = objs
    /\ attached' = [attached EXCEPT ![s][r] = k]
    /\ pending' = [pending EXCEPT ![s][r] = << >>]
    /\ totalPendingBytes' = totalPendingBytes - Len(pending[s][r])
    /\ age' = [age EXCEPT ![s] = 0]
    /\ UNCHANGED <<hostId, hostVars, managedHostId>>

\* GET /signal?role=host: k becomes the host of the invite i, whose session it opens,
\* unless it has one.
InviteHostUpgrade(k, i) ==
    LET s == sessions[i]
        rejected == IF s = None THEN Full ELSE attached[s]["host"] # None
    IN  \/ /\ ~rejected
           /\ \E joined \in Sessions :
                /\ IF s = None THEN id[joined] = None ELSE joined = s
                /\ sessions' = [sessions EXCEPT ![i] = joined]
                /\ Attach(k, "host", joined, [id EXCEPT ![joined] = i])
        \/ rejected /\ Reject(k)

\* GET /signal?role=client: needs an open host and no other client.
ClientUpgrade(k, i) ==
    LET s == sessions[i]
        admitted == /\ s # None
                    /\ IsOpen(attached[s]["host"])
                    /\ attached[s]["client"] = None
    IN  IF admitted
        THEN Attach(k, "client", s, id) /\ UNCHANGED sessions
        ELSE Reject(k)

\* handleManagedHost: k becomes the connection of host h.
RegisterHost(k, h) ==
    /\ state[k] = "free" /\ managedHosts[h] = None
    /\ state' = [state EXCEPT ![k] = "OPEN"]
    /\ isAlive' = [isAlive EXCEPT ![k] = TRUE]
    /\ hostId' = [hostId EXCEPT ![k] = h]
    /\ managedHosts' = [managedHosts EXCEPT ![h] = k]
    /\ UNCHANGED <<sess, hostRow, revoked, sessionVars, queueVars, age>>

\* GET /host with the host's current device token, while it is not yet online.
ManagedHostUpgrade(k, h) ==
    /\ hostRow[h]
    /\ IF managedHosts[h] = None THEN RegisterHost(k, h) ELSE Reject(k)

---------------------------------------------------------------------------
(* HTTP requests that touch sessions and hosts *)

\* POST /api/hosts/:id/connect and /api/client/hosts/:id/connect: leases the host
\* to a new session, after reclaiming one that nobody uses.
Connect(h) ==
    LET k == managedHosts[h]
        old == IF k = None THEN None ELSE sess[k]
    IN  /\ hostRow[h] /\ IsOpen(k)
        /\ old # None => ~InUse(old)
        /\ old = None => ~Full
        /\ \E new \in Sessions :
             LET gone == IF old = None THEN {} ELSE {old}
                 client == {attached[s]["client"] : s \in gone}
             IN  /\ id[new] = None
                 /\ id' = [id EXCEPT ![new] = new]
                 /\ sessions' = [SessionsWithout(gone) EXCEPT ![new] = new]
                 /\ attached' = [attached EXCEPT ![new]["host"] = k]
                 /\ managedHostId' = [managedHostId EXCEPT ![new] = h]
                 /\ sess' = [sess EXCEPT ![k] = new]
                 /\ age' = [age EXCEPT ![new] = 0]
                 /\ pending' = PendingWithout(gone)
                 /\ totalPendingBytes' = totalPendingBytes - Discarded(gone)
                 /\ state' = StateAfter({}, client)
        /\ UNCHANGED <<isAlive, hostId, hostVars>>

\* Slips of the next handler: a token is replaced and the connection stays open;
\* the connection is used without asking whether there is one.
ReplaceTokenOnly(h, present) ==
    /\ hostRow' = [hostRow EXCEPT ![h] = present]
    /\ revoked' = revoked \cup {k \in ManagedSockets : hostId[k] = h}
    /\ UNCHANGED <<socketVars, sess, managedHosts, sessionVars, queueVars, age>>
ReplaceTokenUnguarded(h, present) ==
    /\ hostRow' = [hostRow EXCEPT ![h] = present]
    /\ revoked' = revoked \cup {managedHosts[h]}
    /\ state' = StateAfter({}, {managedHosts[h]})
    /\ UNCHANGED <<isAlive, hostId, sess, managedHosts, sessionVars, queueVars, age>>

\* The host row gets a new token (present = TRUE) or is deleted; either way the
\* connection made with the old token is closed.
ReplaceToken(h, present) ==
    /\ hostRow' = [hostRow EXCEPT ![h] = present]
    /\ revoked' = revoked \cup {k \in ManagedSockets : hostId[k] = h}
    /\ state' = StateAfter({}, IF hostRow[h] THEN {managedHosts[h]} ELSE {})
    /\ UNCHANGED <<isAlive, hostId, sess, managedHosts, sessionVars, queueVars, age>>

\* POST /api/hosts/pair for a host that pairs again, and DELETE /api/hosts/:id.
RebindHost(h) == ReplaceToken(h, TRUE)
DeleteHost(h) == hostRow[h] /\ ReplaceToken(h, FALSE)

---------------------------------------------------------------------------
(* Messages *)

\* relayMessage for a frame of k, which has role r in s.
Relay(k, s, r) ==
    LET dest == PeerRole(r)
        to == attached[s][dest]
        fits == /\ Len(pending[s][dest]) < MaxPending
                /\ totalPendingBytes < MaxTotalPending
    IN  /\ age' = [age EXCEPT ![s] = 0]
        /\ \/ \* delivered, or queued for an end that is not open
              /\ IsOpen(to) \/ fits
              /\ state' = state
              /\ IF IsOpen(to) THEN UNCHANGED queueVars
                 ELSE /\ pending' = [pending EXCEPT ![s][dest] = Append(@, to)]
                      /\ totalPendingBytes' = totalPendingBytes + 1
           \/ \* a text frame, or a queue at its limit
              /\ state' = StateAfter({}, {k})
              /\ UNCHANGED queueVars
        /\ UNCHANGED <<isAlive, hostId, sess, hostVars, sessionVars>>

\* Frames still arrive after close() until the peer answers it.
Message(k) ==
    /\ state[k] \in {"OPEN", "CLOSING"}
    /\ sess[k] # None
    /\ Relay(k, sess[k], Role(k))

\* A managed host without a session has nobody to talk to.
UnexpectedMessage(k) ==
    /\ state[k] = "OPEN" /\ hostId[k] # None /\ sess[k] = None
    /\ state' = StateAfter({}, {k})
    /\ UNCHANGED <<isAlive, hostId, sess, hostVars, sessionVars, queueVars, age>>

Pong(k) ==
    /\ state[k] \in {"OPEN", "CLOSING"}
    /\ sess[k] # None \/ hostId[k] # None
    /\ isAlive' = [isAlive EXCEPT ![k] = TRUE]
    /\ age' = IF k \in ManagedSockets THEN age ELSE [age EXCEPT ![sess[k]] = 0]
    /\ UNCHANGED <<state, hostId, sess, hostVars, sessionVars, queueVars>>

---------------------------------------------------------------------------
(* The end of a connection *)

\* The peer's close frame, or a failure of the TCP connection.
PeerCloses(k) ==
    /\ state[k] = "OPEN"
    /\ state' = StateAfter({}, {k})
    /\ UNCHANGED <<isAlive, hostId, sess, hostVars, sessionVars, queueVars, age>>

\* 'close' of a rejected connection: no handler runs.
RejectedClosed(k) ==
    /\ state[k] = "CLOSING"
    /\ IF k \in ManagedSockets THEN hostId[k] = None ELSE sess[k] = None
    /\ state' = StateAfter({k}, {})
    /\ UNCHANGED <<isAlive, hostId, sess, hostVars, sessionVars, queueVars, age>>

\* 'close' of a /signal connection.  The handler acts on the session it captured,
\* whatever became of that session since.
SignalClosed(k) ==
    LET s == sess[k]
        r == Role(k)
        mine == attached[s][r] = k
        att == IF mine THEN [attached EXCEPT ![s][r] = None] ELSE attached
        tellPeer == r = "host" \/ managedHostId[s] # None
        stale == IF mine THEN pending[s][PeerRole(r)] ELSE << >>
    IN  /\ state[k] = "CLOSING" /\ k \notin ManagedSockets /\ s # None
        /\ state' = StateAfter({k}, IF tellPeer THEN {att[s][PeerRole(r)]} ELSE {})
        /\ IF tellPeer \/ att[s]["host"] = None
           THEN RemoveSessions({s}, att)
           ELSE /\ attached' = att
                /\ pending' = IF mine THEN [pending EXCEPT ![s][PeerRole(r)] = << >>]
                              ELSE pending
                /\ totalPendingBytes' = totalPendingBytes - Len(stale)
                /\ UNCHANGED <<sess, sessions>>
        /\ UNCHANGED <<isAlive, hostId, hostVars, id, managedHostId, age>>

\* Slip: the client is not told that its host is gone.
ManagedHostClosedSilently(k) ==
    /\ state[k] = "CLOSING" /\ hostId[k] # None
    /\ managedHosts' = [managedHosts EXCEPT ![hostId[k]] = IF @ = k THEN None ELSE @]
    /\ state' = StateAfter({k}, {})
    /\ RemoveSessions({sess[k]} \ {None}, attached)
    /\ UNCHANGED <<isAlive, hostId, hostRow, revoked, id, managedHostId, age>>

\* 'close' of a registered managed host: its lease ends with it.
ManagedHostClosed(k) ==
    LET h == hostId[k]
        leases == {sess[k]} \ {None}
    IN  /\ state[k] = "CLOSING" /\ h # None
        /\ managedHosts' = [managedHosts EXCEPT ![h] = IF @ = k THEN None ELSE @]
        /\ state' = StateAfter({k}, {attached[s]["client"] : s \in leases})
        /\ RemoveSessions(leases, attached)
        /\ UNCHANGED <<isAlive, hostId, hostRow, revoked, id, managedHostId, age>>

---------------------------------------------------------------------------
(* Time *)

\* The sessions of the Map past sessionIdleTimeoutMs.  Slip: only those of invites.
IdleInvites == {s \in Sessions : InMap(s) /\ age[s] = 2 /\ managedHostId[s] = None}
Idle == {s \in Sessions : InMap(s) /\ age[s] = 2}

\* What the sweep terminates.  Slip: the host that waits for clients is kept.
SweptClients == {attached[s]["client"] : s \in Idle}
Swept == {attached[s]["client"] : s \in Idle}
           \cup {attached[s]["host"] : s \in {t \in Idle : managedHostId[t] = None}}

\* The 30 s interval: connections that did not answer the last ping are
\* terminated, idle sessions are removed.
Heartbeat ==
    LET clients == {k \in Sockets : state[k] \in {"OPEN", "CLOSING"}} IN
    /\ state' = StateAfter({}, {k \in clients : ~isAlive[k]} \cup Swept)
    /\ isAlive' = [k \in Sockets |-> k \notin clients /\ isAlive[k]]
    /\ RemoveSessions(Idle, attached)
    /\ UNCHANGED <<hostId, hostVars, id, managedHostId, age>>

\* Time passes for all sessions alike.
Tick ==
    /\ age' = [s \in Sessions |-> IF id[s] # None /\ age[s] < 2 THEN age[s] + 1 ELSE age[s]]
    /\ UNCHANGED <<socketVars, sess, hostVars, sessionVars, queueVars>>

---------------------------------------------------------------------------
CloseEvent(k) == RejectedClosed(k) \/ SignalClosed(k) \/ ManagedHostClosed(k)

Next ==
    \/ \E k \in InviteSockets, i \in InviteIds : InviteHostUpgrade(k, i)
    \/ \E k \in ClientSockets, i \in Ids :
         (i \in Sessions => id[i] # None) /\ ClientUpgrade(k, i)
    \/ \E k \in ManagedSockets, h \in HostIds : ManagedHostUpgrade(k, h)
    \/ \E h \in HostIds : Connect(h) \/ RebindHost(h) \/ DeleteHost(h)
    \/ \E k \in Sockets :
         \/ Message(k) \/ UnexpectedMessage(k) \/ Pong(k) \/ PeerCloses(k)
         \/ RejectedClosed(k) \/ SignalClosed(k) \/ ManagedHostClosed(k)
    \/ Heartbeat
    \/ Tick

Spec == Init /\ [][Next]_vars

\* Timers fire, and ws emits 'close' at most closeTimeout after close(); what the
\* peers do is their own affair.
FairSpec ==
    /\ Spec
    /\ WF_vars(Heartbeat) /\ WF_vars(Tick)
    /\ \A k \in Sockets : WF_vars(CloseEvent(k))

---------------------------------------------------------------------------
(* Properties *)

\* The type of the state: in particular a managed host is only ever a connection to
\* /host, and whatever handlers find through a session is a connection or nothing.
TypeOK ==
    /\ state \in [Sockets -> {"free", "OPEN", "CLOSING", "CLOSED"}]
    /\ isAlive \in [Sockets -> BOOLEAN]
    /\ sess \in [Sockets -> Sessions \cup {None}]
    /\ hostId \in [Sockets -> HostIds \cup {None}]
    /\ managedHosts \in [HostIds -> ManagedSockets \cup {None}]
    /\ hostRow \in [HostIds -> BOOLEAN]
    /\ revoked \subseteq ManagedSockets
    /\ sessions \in [Ids -> Sessions \cup {None}]
    /\ id \in [Sessions -> Ids \cup {None}]
    /\ attached \in [Sessions -> [Roles -> Sockets \cup {None}]]
    /\ managedHostId \in [Sessions -> HostIds \cup {None}]
    /\ pending \in [Sessions -> [Roles -> Seq(Sockets \cup {None})]]
    /\ age \in [Sessions -> 0..2]

\* The lease of a managed host and the sessions Map agree: the session a
\* registered host serves is in the Map and names that connection as its host,
\* and a managed session in the Map is the one its host serves.  So no host is
\* ever leased to two sessions, and no lease is left on a session nobody finds.
LeaseConsistent ==
    /\ \A k \in ManagedSockets : sess[k] # None =>
         /\ InMap(sess[k])
         /\ attached[sess[k]]["host"] = k
         /\ hostId[k] # None /\ managedHostId[sess[k]] = hostId[k]
         /\ managedHosts[hostId[k]] = k
    /\ \A s \in Sessions : InMap(s) /\ managedHostId[s] # None =>
         /\ managedHosts[managedHostId[s]] # None
         /\ sess[managedHosts[managedHostId[s]]] = s

\* How connections and session objects refer to each other; LeaseConsistent is
\* inductive together with these.
HostLinks ==
    /\ \A h \in HostIds : managedHosts[h] # None =>
         /\ hostId[managedHosts[h]] = h
         /\ state[managedHosts[h]] \in {"OPEN", "CLOSING"}
    /\ \A k \in Sockets : hostId[k] # None =>
         /\ k \in ManagedSockets /\ state[k] # "free"
         /\ state[k] # "CLOSED" => managedHosts[hostId[k]] = k
    /\ \A k \in revoked : hostId[k] # None

SessionLinks ==
    /\ \A i \in Ids : sessions[i] # None => id[sessions[i]] = i
    /\ \A k \in Sockets : sess[k] # None => id[sess[k]] # None /\ state[k] # "free"
    /\ \A s \in Sessions :
         /\ id[s] \in InviteIds \cup {s, None}
         /\ attached[s]["client"] \in ClientSockets \cup {None}
         /\ IF managedHostId[s] = None
            THEN attached[s]["host"] \in InviteSockets \cup {None}
            ELSE attached[s]["host"] \in ManagedSockets /\ id[s] = s
         /\ id[s] = None => attached[s]["client"] = None /\ attached[s]["host"] = None

\* Both, for the proof.
Links == HostLinks /\ SessionLinks

\* A host whose token was rotated or deleted takes no new lease: its connection
\* is no longer open once the request that replaced the token has ended.
RevokedHostOffline ==
    \A h \in HostIds : IsOpen(managedHosts[h]) => /\ managedHosts[h] \notin revoked
                                                  /\ hostRow[h]

\* The global count is the frames queued in all session objects, also in those
\* the Map forgot, it stays within its limits, and a forgotten session keeps
\* frames only while one of its connections may still send.
PendingAccounted ==
    /\ totalPendingBytes = Queued(Sessions)
    /\ totalPendingBytes <= MaxTotalPending
    /\ \A s \in Sessions, r \in Roles :
         /\ Len(pending[s][r]) <= MaxPending
         /\ pending[s][r] # << >> /\ ~InMap(s) =>
              \E k \in Sockets \ ManagedSockets : sess[k] = s /\ state[k] # "CLOSED"

\* An open host that waits for invited clients is found under its id, as long as no
\* other session object had that id: what is left of an earlier session of the same
\* invite can take its id from it (removeSession deletes by id), nothing else can.
HostReachable ==
    \A k \in InviteSockets : IsOpen(k) =>
        InMap(sess[k]) \/ \E s \in Sessions \ {sess[k]} : id[s] = id[sess[k]]

\* An open host that waits for invited clients is found under its id.  The code does not
\* keep to it: see HostReachable.
RegisteredHostFound ==
    \A k \in InviteSockets : IsOpen(k) => InMap(sess[k])

\* A client that takes its place receives no frame that was queued for another
\* client of the same invite.
NoResidualFrames ==
    [][\A s \in Sessions, r \in Roles :
         attached'[s][r] \notin {None, attached[s][r]} =>
           \A n \in DOMAIN pending[s][r] : pending[s][r][n] = None]_vars

\* The end of a client's connection closes no host that meanwhile serves another
\* session: a session reclaimed from that client is over for good.
ReclaimedClientHarmless ==
    [][\A c \in ClientSockets, k \in ManagedSockets :
         (/\ state[c] = "CLOSING" /\ state'[c] = "CLOSED"
          /\ IsOpen(k) /\ sess[k] # None /\ sess[k] # sess[c])
         => state'[k] = "OPEN"]_vars

\* The lease a client sees implements the promise of HostLease.
Lease == INSTANCE HostLease WITH
    lease <- [h \in HostIds |-> IF managedHosts[h] = None THEN None
                                ELSE sess[managedHosts[h]]],
    engaged <- {h \in HostIds : /\ managedHosts[h] # None
                                /\ sess[managedHosts[h]] # None
                                /\ IsOpen(attached[sess[managedHosts[h]]]["client"])},
    granted <- {s \in Sessions : managedHostId[s] # None},
    spent <- {s \in Sessions : /\ managedHostId[s] # None
                               /\ ~InMap(s) \/ attached[s]["client"] # None}
RefinesLease == Lease!Spec

\* A managed session without a connected client does not hold its host for ever:
\* a client joins it or the host is free again.
AbandonedLeaseEnds ==
    \A k \in ManagedSockets, s \in Sessions :
        (sess[k] = s /\ ~IsOpen(attached[s]["client"]))
          ~> (sess[k] # s \/ IsOpen(attached[s]["client"]))

\* A connection that closes ends its session for the other side as well.  A client
\* whose host is gone is closed.  A managed host whose client is gone serves that
\* session no more: its connection is closed with the session, or it is free again
\* when the sweep or the next /connect comes first.  (A host of an invite waits for
\* the next client instead.)
BrokenSessionEnds ==
    /\ \A s \in Sessions, c \in ClientSockets :
         (sess[c] = s /\ IsOpen(c) /\ ~IsOpen(attached[s]["host"])) ~> ~IsOpen(c)
    /\ \A s \in Sessions, c \in ClientSockets, k \in ManagedSockets :
         (sess[c] = s /\ sess[k] = s /\ ~IsOpen(c)) ~> sess[k] # s
=============================================================================
