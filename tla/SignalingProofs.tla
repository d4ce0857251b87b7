-------------------------- MODULE SignalingProofs --------------------------
(***************************************************************************)
(* TypeOK, LeaseConsistent, RevokedHostOffline, HostReachable,             *)
(* PendingAccounted and ClientsAttended hold of Signaling for any sets of  *)
(* connections, sessions and hosts, and Signaling implements HostLease.    *)
(***************************************************************************)
EXTENDS Signaling, FiniteSetTheorems, TLAPS

Inv == TypeOK /\ Links /\ LeaseConsistent

\* The kinds of connections are disjoint, and None is no object.
LEMMA Kinds ==
    /\ ManagedSockets \subseteq Sockets /\ InviteSockets \subseteq Sockets
    /\ ClientSockets \subseteq Sockets
    /\ \A k \in ManagedSockets : k \notin InviteSockets /\ k \notin ClientSockets
    /\ \A k \in InviteSockets : k \notin ClientSockets
    /\ \A k \in Sockets : k # None
    /\ \A h \in HostIds : h # None
    /\ \A s \in Sessions : s # None /\ s \in Ids /\ s \notin InviteIds
    /\ \A i \in Ids : i # None
    /\ InviteIds \subseteq Ids
BY SocketsAssumption DEF Sockets, Ids

\* A handler that closes connections moves each forward by one step at most.
LEMMA StateAfterStep ==
    ASSUME state \in [Sockets -> {"free", "OPEN", "CLOSING", "CLOSED"}],
           NEW A, NEW B
    PROVE  /\ StateAfter(A, B) \in [Sockets -> {"free", "OPEN", "CLOSING", "CLOSED"}]
           /\ \A k \in Sockets : k \in A => StateAfter(A, B)[k] = "CLOSED"
           /\ \A k \in Sockets : k \notin A =>
                \/ StateAfter(A, B)[k] = state[k]
                \/ /\ state[k] = "OPEN" /\ k \in B
                   /\ StateAfter(A, B)[k] = "CLOSING"
BY DEF StateAfter

\* The initial state satisfies all that is inductive.
LEMMA InitInv == Init => Inv /\ RevokedHostOffline
<1> SUFFICES ASSUME Init PROVE Inv /\ RevokedHostOffline
  OBVIOUS
<1> USE DEF Init
<1>1. TypeOK
  BY DEF TypeOK, Roles, NoFrames
<1>2. HostLinks
  BY DEF HostLinks
<1>3. SessionLinks
  BY DEF SessionLinks, Roles
<1>4. LeaseConsistent
  BY DEF LeaseConsistent, InMap, Sockets
<1>5. RevokedHostOffline
  BY DEF RevokedHostOffline, IsOpen
<1> QED
  BY <1>1, <1>2, <1>3, <1>4, <1>5 DEF Inv, Links

\* A rejected connection disturbs nothing: it has no handlers.
LEMMA RejectInv ==
    ASSUME Inv, NEW k \in Sockets, Reject(k)
    PROVE  Inv'
<1> USE DEF Inv, Links, Reject, hostVars, sessionVars, queueVars
<1>1. TypeOK'
  BY DEF TypeOK
<1>2. HostLinks'
  BY DEF TypeOK, HostLinks
<1>3. SessionLinks'
  BY DEF TypeOK, SessionLinks
<1>4. LeaseConsistent'
  BY DEF TypeOK, LeaseConsistent, InMap
<1> QED
  BY <1>1, <1>2, <1>3, <1>4

\* Pairing again and deleting a host leave sessions and leases as they are.
LEMMA ReplaceTokenInv ==
    ASSUME Inv, NEW h \in HostIds, NEW b \in BOOLEAN, ReplaceToken(h, b)
    PROVE  Inv'
<1> USE DEF Inv, Links, ReplaceToken, hostVars, sessionVars, queueVars
<1>1. TypeOK'
  BY StateAfterStep DEF TypeOK
<1>2. HostLinks'
  BY Kinds, StateAfterStep DEF TypeOK, HostLinks
<1>3. SessionLinks'
  BY Kinds, StateAfterStep DEF TypeOK, SessionLinks
<1>4. LeaseConsistent'
  BY DEF TypeOK, LeaseConsistent, InMap
<1> QED
  BY <1>1, <1>2, <1>3, <1>4

\* A managed host that connects takes the place of none: its id was free.
LEMMA RegisterHostInv ==
    ASSUME Inv, NEW k \in ManagedSockets, NEW h \in HostIds, RegisterHost(k, h)
    PROVE  Inv'
<1> USE DEF Inv, Links, RegisterHost, sessionVars, queueVars
<1>2. TypeOK'
  BY Kinds DEF TypeOK
<1>3. HostLinks'
  BY Kinds DEF TypeOK, HostLinks
<1>4. SessionLinks'
  BY Kinds DEF TypeOK, SessionLinks
<1>5. LeaseConsistent'
  BY Kinds DEF TypeOK, HostLinks, SessionLinks, LeaseConsistent, InMap
<1> QED
  BY <1>2, <1>3, <1>4, <1>5

\* handleSignalSocket links a free connection with a session that is not managed by
\* another one.
LEMMA AttachInv ==
    ASSUME Inv, NEW k \in InviteSockets \cup ClientSockets, NEW s \in Sessions,
           NEW objs \in [Sessions -> Ids \cup {None}],
           Attach(k, Role(k), s, objs),
           objs[s] # None, (managedHostId[s] = None \/ k \in ClientSockets),
           \A t \in Sessions : t # s => objs[t] = id[t],
           id[s] # None => objs = id,
           objs[s] \in InviteIds \/ objs = id,
           sessions' = IF id[s] = None THEN [sessions EXCEPT ![objs[s]] = s] ELSE sessions
    PROVE  Inv'
<1> USE DEF Inv, Links, Attach, hostVars
<1>1. k \in Sockets /\ k \notin ManagedSockets /\ Role(k) \in Roles
  BY Kinds DEF Role, Roles
<1>2. TypeOK'
  BY <1>1, Kinds DEF TypeOK
<1>3. HostLinks'
  BY <1>1, Kinds DEF TypeOK, HostLinks
<1>4. SessionLinks'
  BY <1>1, Kinds DEF TypeOK, SessionLinks, Role, Roles
<1>5. LeaseConsistent'
  BY <1>1, Kinds DEF TypeOK, SessionLinks, LeaseConsistent, InMap, Role, Roles
<1> QED
  BY <1>2, <1>3, <1>4, <1>5

\* An invite host joins its own session, whether that existed or not.
LEMMA InviteHostUpgradeInv ==
    ASSUME Inv, NEW k \in InviteSockets, NEW i \in InviteIds, InviteHostUpgrade(k, i)
    PROVE  Inv'
<1> DEFINE s == sessions[i]
<1>1. i \in Ids /\ k \in Sockets /\ Role(k) = "host"
  BY Kinds DEF Role
<1>2. ASSUME NEW new \in Sessions, id[new] = None,
             sessions' = [sessions EXCEPT ![i] = new],
             Attach(k, "host", new, [id EXCEPT ![new] = i])
      PROVE  Inv'
  <2> DEFINE objs == [id EXCEPT ![new] = i]
  <2>1. objs \in [Sessions -> Ids \cup {None}] /\ objs[new] = i
    BY <1>1 DEF Inv, TypeOK
  <2>2. managedHostId[new] = None
    BY <1>2, Kinds DEF Inv, Links, SessionLinks, TypeOK
  <2>3. \A t \in Sessions : t # new => objs[t] = id[t]
    BY DEF Inv, TypeOK
  <2>4. /\ k \in InviteSockets \cup ClientSockets
        /\ objs[new] \in InviteIds /\ objs[new] # None
        /\ Attach(k, Role(k), new, objs)
        /\ sessions' = IF id[new] = None THEN [sessions EXCEPT ![objs[new]] = new]
                       ELSE sessions
    BY <1>1, <1>2, <2>1, Kinds
  <2> HIDE DEF objs
  <2> QED
    BY <1>2, <2>1, <2>2, <2>3, <2>4, AttachInv
<1>3. ASSUME s # None, sessions' = [sessions EXCEPT ![i] = s],
             Attach(k, "host", s, [id EXCEPT ![s] = i])
      PROVE  Inv'
  <2>1. s \in Sessions /\ id[s] = i /\ managedHostId[s] = None
    BY <1>1, <1>3, Kinds DEF Inv, Links, SessionLinks, TypeOK
  <2>2. id \in [Sessions -> Ids \cup {None}]
    BY DEF Inv, TypeOK
  <2>3. sessions' = sessions /\ [id EXCEPT ![s] = i] = id
    BY <1>1, <1>3, <2>1, <2>2 DEF Inv, TypeOK
  <2>4. /\ k \in InviteSockets \cup ClientSockets
        /\ id[s] # None /\ Attach(k, Role(k), s, id)
        /\ sessions' = IF id[s] = None THEN [sessions EXCEPT ![id[s]] = s] ELSE sessions
    BY <1>1, <1>3, <2>1, <2>3, Kinds
  <2> HIDE DEF s
  <2> QED
    BY <2>1, <2>2, <2>4, AttachInv
<1> QED
  BY <1>1, <1>2, <1>3, RejectInv DEF InviteHostUpgrade

\* A client joins a session as its client only.
LEMMA ClientUpgradeInv ==
    ASSUME Inv, NEW k \in ClientSockets, NEW i \in Ids, ClientUpgrade(k, i)
    PROVE  Inv'
<1> DEFINE s == sessions[i]
<1>1. k \in Sockets /\ Role(k) = "client"
  BY Kinds DEF Role
<1>2. ASSUME s # None, Attach(k, "client", s, id), UNCHANGED sessions
      PROVE  Inv'
  <2>1. s \in Sessions /\ id[s] = i
    BY <1>2, Kinds DEF Inv, Links, SessionLinks, TypeOK
  <2>2. id \in [Sessions -> Ids \cup {None}]
    BY DEF Inv, TypeOK
  <2>3. /\ k \in InviteSockets \cup ClientSockets
        /\ id[s] # None /\ Attach(k, Role(k), s, id)
        /\ sessions' = IF id[s] = None THEN [sessions EXCEPT ![id[s]] = s] ELSE sessions
    BY <1>1, <1>2, <2>1, Kinds
  <2> HIDE DEF s
  <2> QED
    BY <2>1, <2>2, <2>3, AttachInv
<1> QED
  BY <1>1, <1>2, RejectInv DEF ClientUpgrade

\* What removeSession changes: the connections of removed managed sessions are
\* free, no other lease is touched, and a managed session, having an id of its
\* own, leaves the Map only when it is removed itself.
LEMMA RemovalFrame ==
    ASSUME Inv, NEW S \in SUBSET Sessions,
           NEW att \in [Sessions -> [Roles -> Sockets \cup {None}]],
           \A s \in Sessions : managedHostId[s] # None
                                 => att[s]["host"] = attached[s]["host"],
           RemoveSessions(S, att), id' = id
    PROVE  /\ sess' \in [Sockets -> Sessions \cup {None}]
           /\ sessions' \in [Ids -> Sessions \cup {None}]
           /\ pending' \in [Sessions -> [Roles -> Seq(Sockets \cup {None})]]
           /\ attached' = att
           /\ \A k \in Sockets : sess'[k] \in {sess[k], None}
           /\ \A k \in ManagedSockets : sess'[k] # None => sess'[k] \notin S
           /\ \A k \in Sockets : sess[k] \notin S => sess'[k] = sess[k]
           /\ \A i \in Ids : sessions'[i] \in {sessions[i], None}
           /\ \A s \in Sessions : InMap(s)' => InMap(s) /\ s \notin S
           /\ \A s \in Sessions \ S : managedHostId[s] # None /\ InMap(s) => InMap(s)'
<1> USE DEF Inv, Links, RemoveSessions
<1>1. sess' \in [Sockets -> Sessions \cup {None}]
  BY DEF TypeOK
<1>2. sessions' \in [Ids -> Sessions \cup {None}]
  BY DEF TypeOK, SessionsWithout
<1>3. pending' \in [Sessions -> [Roles -> Seq(Sockets \cup {None})]]
  BY DEF TypeOK, PendingWithout, NoFrames
<1>4. \A k \in Sockets : sess'[k] \in {sess[k], None}
  BY DEF TypeOK
<1>5. \A k \in ManagedSockets : sess'[k] # None => sess'[k] \notin S
  BY Kinds DEF TypeOK, LeaseConsistent, FreedHosts
<1>6. \A k \in Sockets : sess[k] \notin S => sess'[k] = sess[k]
  BY DEF TypeOK, FreedHosts
<1>7. \A i \in Ids : sessions'[i] \in {sessions[i], None}
  BY DEF TypeOK, SessionsWithout
<1>8. \A s \in Sessions : InMap(s)' => InMap(s) /\ s \notin S
  BY Kinds DEF TypeOK, SessionsWithout, InMap
<1>9. \A s \in Sessions \ S : managedHostId[s] # None /\ InMap(s) => InMap(s)'
  BY Kinds DEF TypeOK, SessionLinks, SessionsWithout, InMap
<1> QED
  BY <1>1, <1>2, <1>3, <1>4, <1>5, <1>6, <1>7, <1>8, <1>9

\* A handler that removes the sessions S and leaves the registered hosts alone.
LEMMA RemovalInv ==
    ASSUME Inv, NEW S \in SUBSET Sessions,
           NEW att \in [Sessions -> [Roles -> Sockets \cup {None}]],
           \A s \in Sessions, r \in Roles : att[s][r] \in {attached[s][r], None},
           \A s \in Sessions : managedHostId[s] # None
                                 => att[s]["host"] = attached[s]["host"],
           RemoveSessions(S, att),
           NEW A, NEW B, state' = StateAfter(A, B),
           \A k \in A : k \in Sockets /\ state[k] = "CLOSING" /\ k \notin ManagedSockets,
           isAlive' \in [Sockets -> BOOLEAN],
           UNCHANGED <<hostId, hostVars, id, managedHostId, age>>
    PROVE  Inv'
<1> USE DEF Inv, Links, hostVars
<1>1. /\ sess' \in [Sockets -> Sessions \cup {None}]
      /\ sessions' \in [Ids -> Sessions \cup {None}]
      /\ pending' \in [Sessions -> [Roles -> Seq(Sockets \cup {None})]]
      /\ attached' = att
      /\ \A k \in Sockets : sess'[k] \in {sess[k], None}
      /\ \A k \in ManagedSockets : sess'[k] # None => sess'[k] \notin S
      /\ \A k \in Sockets : sess[k] \notin S => sess'[k] = sess[k]
      /\ \A i \in Ids : sessions'[i] \in {sessions[i], None}
      /\ \A s \in Sessions : InMap(s)' => InMap(s) /\ s \notin S
      /\ \A s \in Sessions \ S : managedHostId[s] # None /\ InMap(s) => InMap(s)'
  BY RemovalFrame
<1>2. TypeOK'
  BY <1>1, StateAfterStep DEF TypeOK
<1>3. HostLinks'
  BY Kinds, StateAfterStep DEF TypeOK, HostLinks
<1>3a. \A k \in Sockets : state[k] # "free" => state'[k] # "free"
  BY StateAfterStep DEF TypeOK
<1>3b. \A i \in Ids : sessions'[i] # None => id'[sessions'[i]] = i
  BY <1>1 DEF SessionLinks
<1>3c. \A k \in Sockets : sess'[k] # None => id'[sess'[k]] # None /\ state'[k] # "free"
  <2> SUFFICES ASSUME NEW k \in Sockets, sess'[k] # None
               PROVE  id'[sess'[k]] # None /\ state'[k] # "free"
    OBVIOUS
  <2>1. sess'[k] = sess[k]
    BY <1>1
  <2>2. id[sess[k]] # None /\ state[k] # "free"
    BY <2>1 DEF SessionLinks
  <2>3. id' = id
    OBVIOUS
  <2> QED
    BY <1>3a, <2>1, <2>2, <2>3
<1>3d. \A s \in Sessions :
         /\ attached'[s]["client"] \in {attached[s]["client"], None}
         /\ attached'[s]["host"] \in {attached[s]["host"], None}
         /\ managedHostId[s] # None => attached'[s]["host"] = attached[s]["host"]
  BY <1>1 DEF Roles
<1>4. SessionLinks'
  BY <1>3b, <1>3c, <1>3d, Kinds DEF SessionLinks
<1>5. ASSUME NEW k \in ManagedSockets, sess'[k] # None
      PROVE  /\ InMap(sess[k])'
             /\ attached'[sess'[k]]["host"] = k
             /\ hostId'[k] # None /\ managedHostId'[sess'[k]] = hostId'[k]
             /\ managedHosts'[hostId'[k]] = k
  <2>1. sess[k] \in Sessions \ S /\ sess'[k] = sess[k]
    BY <1>1, <1>5, Kinds DEF TypeOK
  <2>2. InMap(sess[k]) /\ attached[sess[k]]["host"] = k
        /\ hostId[k] # None /\ managedHostId[sess[k]] = hostId[k]
        /\ managedHosts[hostId[k]] = k
    BY <2>1, Kinds DEF LeaseConsistent
  <2>3. \A s \in Sessions \ S : managedHostId[s] # None /\ InMap(s) => InMap(s)'
    BY <1>1
  <2>4. PICK t \in Sessions : t = sess[k]
    BY <2>1
  <2>5. InMap(t)'
    BY <1>1, Kinds, <2>1, <2>2, <2>4 DEF TypeOK
  <2>6. InMap(sess[k])'
    BY <2>1, <2>4, <2>5 DEF InMap
  <2> QED
    BY <1>1, <2>1, <2>2, <2>6
<1>6. ASSUME NEW s \in Sessions, InMap(s)', managedHostId'[s] # None
      PROVE  /\ managedHosts'[managedHostId'[s]] # None
             /\ sess'[managedHosts'[managedHostId'[s]]] = s
  <2>1. InMap(s) /\ s \notin S /\ managedHostId[s] # None
    BY <1>1, <1>6
  <2>2. managedHosts[managedHostId[s]] # None /\ sess[managedHosts[managedHostId[s]]] = s
    BY <2>1 DEF LeaseConsistent
  <2>3. managedHosts[managedHostId[s]] \in Sockets
    BY <2>1, <2>2, Kinds DEF TypeOK
  <2> QED
    BY <1>1, <2>1, <2>2, <2>3
<1>7. LeaseConsistent'
  BY <1>5, <1>6 DEF LeaseConsistent
<1> QED
  BY <1>2, <1>3, <1>4, <1>7

\* A handler that leaves sessions and hosts alone, whatever it does to
\* readyState and to the queues.
LEMMA QuietInv ==
    ASSUME Inv,
           state' \in [Sockets -> {"free", "OPEN", "CLOSING", "CLOSED"}],
           \A k \in Sockets : \/ state'[k] = state[k]
                              \/ state[k] = "OPEN" /\ state'[k] = "CLOSING"
                              \/ state[k] = "CLOSING" /\ hostId[k] = None
                                   /\ state'[k] = "CLOSED",
           isAlive' \in [Sockets -> BOOLEAN],
           pending' \in [Sessions -> [Roles -> Seq(Sockets \cup {None})]],
           age' \in [Sessions -> 0..2],
           UNCHANGED <<hostId, sess, hostVars, sessionVars>>
    PROVE  Inv'
<1> USE DEF Inv, Links, hostVars, sessionVars
<1>1. TypeOK'
  BY DEF TypeOK
<1>2. HostLinks'
  <2>1. /\ \A k \in Sockets : state[k] # "free" => state'[k] # "free"
        /\ \A k \in Sockets : hostId[k] # None =>
             /\ state'[k] # "CLOSED" => state[k] # "CLOSED"
             /\ state[k] \in {"OPEN", "CLOSING"} => state'[k] \in {"OPEN", "CLOSING"}
    OBVIOUS
  <2>2. \A h \in HostIds : managedHosts[h] # None => managedHosts[h] \in Sockets
    BY Kinds DEF TypeOK
  <2>3. \A h \in HostIds : managedHosts[h] # None =>
           hostId[managedHosts[h]] # None
    BY Kinds DEF HostLinks
  <2> QED
    BY <2>1, <2>2, <2>3 DEF HostLinks
<1>3. SessionLinks'
  <2>1. \A k \in Sockets : state[k] # "free" => state'[k] # "free"
    OBVIOUS
  <2> QED
    BY <2>1 DEF SessionLinks
<1>4. LeaseConsistent'
  BY DEF LeaseConsistent, InMap
<1> QED
  BY <1>1, <1>2, <1>3, <1>4

\* Frames, relayed, queued or refused, disturb no lease.
LEMMA MessageInv ==
    ASSUME Inv, NEW k \in Sockets, Message(k)
    PROVE  Inv'
<1> DEFINE s == sess[k]
           r == Role(k)
<1>1. Relay(k, s, r) /\ s \in Sessions /\ r \in Roles /\ PeerRole(r) \in Roles
  BY DEF Message, Inv, TypeOK, Role, Roles, PeerRole
<1>2. UNCHANGED <<isAlive, hostId, sess, hostVars, sessionVars>>
  BY <1>1 DEF Relay
<1>3. age' \in [Sessions -> 0..2] /\ isAlive' \in [Sockets -> BOOLEAN]
  BY <1>1 DEF Relay, Inv, TypeOK
<1>4. attached[s][PeerRole(r)] \in Sockets \cup {None}
  BY <1>1 DEF Inv, TypeOK
<1>5. pending' \in [Sessions -> [Roles -> Seq(Sockets \cup {None})]]
  <2>1. CASE UNCHANGED queueVars
    BY <2>1 DEF queueVars, Inv, TypeOK
  <2>2. CASE pending' = [pending EXCEPT ![s][PeerRole(r)] =
                           Append(@, attached[s][PeerRole(r)])]
    BY <1>1, <1>4, <2>2 DEF Inv, TypeOK
  <2> QED
    BY <1>1, <2>1, <2>2 DEF Relay
<1>6. state' = state \/ state' = StateAfter({}, {k})
  BY <1>1 DEF Relay
<1> HIDE DEF s, r
<1>7. /\ state' \in [Sockets -> {"free", "OPEN", "CLOSING", "CLOSED"}]
      /\ \A c \in Sockets : \/ state'[c] = state[c]
                            \/ state[c] = "OPEN" /\ state'[c] = "CLOSING"
  BY <1>6, StateAfterStep DEF Inv, TypeOK
<1> QED
  BY <1>2, <1>3, <1>5, <1>7, QuietInv

\* A peer's close and the close event of a rejected connection disturb no lease.
LEMMA EndOfConnectionInv ==
    ASSUME Inv, NEW k \in Sockets,
           UnexpectedMessage(k) \/ PeerCloses(k) \/ RejectedClosed(k)
    PROVE  Inv'
<1>1. /\ UNCHANGED <<isAlive, pending, age, hostId, sess, hostVars, sessionVars>>
      /\ \/ state' = StateAfter({}, {k})
         \/ state' = StateAfter({k}, {}) /\ state[k] = "CLOSING" /\ hostId[k] = None
  BY Kinds DEF UnexpectedMessage, PeerCloses, RejectedClosed, queueVars,
               Inv, Links, HostLinks
<1>2. /\ state' \in [Sockets -> {"free", "OPEN", "CLOSING", "CLOSED"}]
      /\ \A c \in Sockets : \/ state'[c] = state[c]
                            \/ state[c] = "OPEN" /\ state'[c] = "CLOSING"
                            \/ state[c] = "CLOSING" /\ hostId[c] = None
                                 /\ state'[c] = "CLOSED"
  BY <1>1, StateAfterStep DEF Inv, TypeOK
<1>3. /\ isAlive' \in [Sockets -> BOOLEAN] /\ age' \in [Sessions -> 0..2]
      /\ pending' \in [Sessions -> [Roles -> Seq(Sockets \cup {None})]]
      /\ UNCHANGED <<hostId, sess, hostVars, sessionVars>>
  BY <1>1 DEF Inv, TypeOK
<1> QED
  BY <1>2, <1>3, QuietInv

\* A pong disturbs no lease.
LEMMA PongInv ==
    ASSUME Inv, NEW k \in Sockets, Pong(k)
    PROVE  Inv'
<1>1. UNCHANGED <<state, pending, hostId, sess, hostVars, sessionVars>>
  BY DEF Pong, queueVars
<1>2. age' \in [Sessions -> 0..2]
  <2>1. k \notin ManagedSockets => sess[k] \in Sessions
    BY Kinds DEF Pong, Inv, Links, HostLinks, TypeOK
  <2> QED
    BY <2>1 DEF Pong, Inv, TypeOK
<1>3. /\ isAlive' \in [Sockets -> BOOLEAN]
      /\ state' \in [Sockets -> {"free", "OPEN", "CLOSING", "CLOSED"}]
      /\ pending' \in [Sessions -> [Roles -> Seq(Sockets \cup {None})]]
      /\ \A c \in Sockets : state'[c] = state[c]
      /\ UNCHANGED <<hostId, sess, hostVars, sessionVars>>
  BY <1>1 DEF Pong, Inv, TypeOK
<1> QED
  BY <1>2, <1>3, QuietInv

\* Time disturbs no lease.
LEMMA TickInv ==
    ASSUME Inv, Tick
    PROVE  Inv'
<1>1. age' \in [Sessions -> 0..2]
  BY DEF Tick, Inv, TypeOK
<1>2. /\ isAlive' \in [Sockets -> BOOLEAN]
      /\ state' \in [Sockets -> {"free", "OPEN", "CLOSING", "CLOSED"}]
      /\ pending' \in [Sessions -> [Roles -> Seq(Sockets \cup {None})]]
      /\ \A c \in Sockets : state'[c] = state[c]
      /\ UNCHANGED <<hostId, sess, hostVars, sessionVars>>
  BY DEF Tick, socketVars, queueVars, Inv, TypeOK
<1> QED
  BY <1>1, <1>2, QuietInv

\* The idle sweep removes sessions together with the leases on them.
LEMMA HeartbeatInv ==
    ASSUME Inv, Heartbeat
    PROVE  Inv'
<1>1. PICK B : state' = StateAfter({}, B)
  BY DEF Heartbeat
<1>2. /\ RemoveSessions(Idle, attached)
      /\ UNCHANGED <<hostId, hostVars, id, managedHostId, age>>
      /\ isAlive' \in [Sockets -> BOOLEAN]
  BY DEF Heartbeat, Inv, TypeOK
<1>3. /\ Idle \in SUBSET Sessions
      /\ attached \in [Sessions -> [Roles -> Sockets \cup {None}]]
  BY DEF Idle, Inv, TypeOK
<1> QED
  BY <1>1, <1>2, <1>3, RemovalInv

\* The close handler of a /signal connection, run late on a captured session, ends
\* that session's lease and no other.
LEMMA SignalClosedInv ==
    ASSUME Inv, NEW k \in Sockets, SignalClosed(k)
    PROVE  Inv'
<1> DEFINE s == sess[k]
           r == Role(k)
           att == IF attached[s][r] = k THEN [attached EXCEPT ![s][r] = None] ELSE attached
<1>1. /\ s \in Sessions /\ r \in Roles /\ k \notin ManagedSockets
      /\ state[k] = "CLOSING" /\ PeerRole(r) \in Roles
  BY DEF SignalClosed, Inv, TypeOK, Role, Roles, PeerRole
<1>2. PICK B : state' = StateAfter({k}, B)
  BY DEF SignalClosed
<1>3. /\ UNCHANGED <<hostId, hostVars, id, managedHostId, age>>
      /\ isAlive' \in [Sockets -> BOOLEAN]
  BY DEF SignalClosed, Inv, TypeOK
<1>4. /\ att \in [Sessions -> [Roles -> Sockets \cup {None}]]
      /\ \A t \in Sessions, q \in Roles : att[t][q] \in {attached[t][q], None}
      /\ \A t \in Sessions : managedHostId[t] # None
                               => att[t]["host"] = attached[t]["host"]
  <2>1. attached \in [Sessions -> [Roles -> Sockets \cup {None}]]
    BY DEF Inv, TypeOK
  <2>2. attached[s][r] = k => r = "client" \/ managedHostId[s] = None
    BY <1>1, Kinds DEF Inv, Links, SessionLinks, Roles
  <2> HIDE DEF s, r
  <2>3. att \in [Sessions -> [Roles -> Sockets \cup {None}]]
    BY <1>1, <2>1
  <2>4. \A t \in Sessions, q \in Roles : att[t][q] \in {attached[t][q], None}
    BY <1>1, <2>1
  <2>5. \A t \in Sessions : managedHostId[t] # None
                              => att[t]["host"] = attached[t]["host"]
    BY <1>1, <2>1, <2>2 DEF Roles
  <2> QED
    BY <2>3, <2>4, <2>5
<1>5. CASE RemoveSessions({s}, att)
  <2>1. {s} \in SUBSET Sessions
    BY <1>1
  <2>2. \A c \in {k} : c \in Sockets /\ state[c] = "CLOSING" /\ c \notin ManagedSockets
    BY <1>1
  <2> HIDE DEF s, r, att
  <2> QED
    BY <1>2, <1>3, <1>4, <1>5, <2>1, <2>2, RemovalInv
\* The client of an invite leaves and its host waits for the next one: the
\* removal of no session at all.
<1>6. CASE /\ attached' = att
           /\ pending' = IF attached[s][r] = k
                         THEN [pending EXCEPT ![s][PeerRole(r)] = << >>] ELSE pending
           /\ UNCHANGED <<sess, sessions>>
  <2>1. TypeOK'
    <3>1. state' \in [Sockets -> {"free", "OPEN", "CLOSING", "CLOSED"}]
      BY <1>2, StateAfterStep DEF Inv, TypeOK
    <3>2. pending' \in [Sessions -> [Roles -> Seq(Sockets \cup {None})]]
      <4>1. pending \in [Sessions -> [Roles -> Seq(Sockets \cup {None})]]
        BY DEF Inv, TypeOK
      <4> DEFINE p == PeerRole(r)
      <4>2. p \in Roles
        BY <1>1
      <4> HIDE DEF s, p
      <4>3. [pending EXCEPT ![s][p] = << >>] \in [Sessions -> [Roles -> Seq(Sockets \cup {None})]]
        BY <1>1, <4>1, <4>2
      <4> QED
        BY <1>6, <4>1, <4>3 DEF p
    <3>3. attached' \in [Sessions -> [Roles -> Sockets \cup {None}]]
      BY <1>4, <1>6
    <3> QED
      BY <1>3, <1>6, <3>1, <3>2, <3>3 DEF Inv, TypeOK, hostVars
  <2>2. HostLinks'
    <3>1. \A c \in Sockets : /\ state[c] # "free" => state'[c] # "free"
                             /\ c # k /\ state[c] # "CLOSED" => state'[c] # "CLOSED"
                             /\ state[c] = "CLOSED" => state'[c] = "CLOSED"
                             /\ state'[c] \in {"free", "OPEN", "CLOSING", "CLOSED"}
      BY <1>2, StateAfterStep DEF Inv, TypeOK
    <3>2. \A h \in HostIds : managedHosts[h] # None =>
             managedHosts[h] \in Sockets /\ managedHosts[h] # k
      BY <1>1, Kinds DEF Inv, TypeOK
    <3> QED
      BY <1>3, <3>1, <3>2 DEF Inv, Links, HostLinks, hostVars
  <2>3. SessionLinks'
    <3>1. \A c \in Sockets : state[c] # "free" => state'[c] # "free"
      BY <1>2, StateAfterStep DEF Inv, TypeOK
    <3>2. \A t \in Sessions :
            /\ attached'[t]["client"] \in {attached[t]["client"], None}
            /\ attached'[t]["host"] \in {attached[t]["host"], None}
            /\ managedHostId[t] # None => attached'[t]["host"] = attached[t]["host"]
      BY <1>4, <1>6 DEF Roles
    <3> QED
      BY <1>3, <1>6, <3>1, <3>2, Kinds DEF Inv, Links, SessionLinks
  <2>4. LeaseConsistent'
    <3>1. \A t \in Sessions : managedHostId[t] # None
                                => attached'[t]["host"] = attached[t]["host"]
      BY <1>4, <1>6
    <3>2. \A c \in Sockets : sess[c] # None => sess[c] \in Sessions
      BY DEF Inv, TypeOK
    <3>3. \A h \in HostIds : h # None
      BY Kinds
    <3> QED
      BY <1>3, <1>6, <3>1, <3>2, <3>3, Kinds DEF Inv, LeaseConsistent, InMap, hostVars
  <2> QED
    BY <2>1, <2>2, <2>3, <2>4 DEF Inv, Links
<1> QED
  BY <1>5, <1>6 DEF SignalClosed

\* With the connection of a managed host its lease and its registration end.
LEMMA ManagedHostClosedInv ==
    ASSUME Inv, NEW k \in ManagedSockets, ManagedHostClosed(k)
    PROVE  Inv'
<1> DEFINE h == hostId[k]
           S == {sess[k]} \ {None}
<1>1. /\ h \in HostIds /\ k \in Sockets /\ state[k] = "CLOSING"
      /\ managedHosts[h] = k /\ h # None
  BY Kinds DEF ManagedHostClosed, Inv, Links, HostLinks, TypeOK
<1>2. managedHosts' = [managedHosts EXCEPT ![h] = None]
  BY <1>1 DEF ManagedHostClosed
<1>3. PICK B : state' = StateAfter({k}, B)
  BY DEF ManagedHostClosed
<1>4. /\ RemoveSessions(S, attached)
      /\ UNCHANGED <<isAlive, hostId, hostRow, revoked, id, managedHostId, age>>
  BY DEF ManagedHostClosed
<1>5. /\ S \in SUBSET Sessions
      /\ attached \in [Sessions -> [Roles -> Sockets \cup {None}]]
  BY <1>1 DEF Inv, TypeOK
<1>6. /\ sess' \in [Sockets -> Sessions \cup {None}]
      /\ sessions' \in [Ids -> Sessions \cup {None}]
      /\ pending' \in [Sessions -> [Roles -> Seq(Sockets \cup {None})]]
      /\ attached' = attached
      /\ \A c \in Sockets : sess'[c] \in {sess[c], None}
      /\ \A c \in ManagedSockets : sess'[c] # None => sess'[c] \notin S
      /\ \A c \in Sockets : sess[c] \notin S => sess'[c] = sess[c]
      /\ \A i \in Ids : sessions'[i] \in {sessions[i], None}
      /\ \A s \in Sessions : InMap(s)' => InMap(s) /\ s \notin S
      /\ \A s \in Sessions \ S : managedHostId[s] # None /\ InMap(s) => InMap(s)'
  <2> HIDE DEF S
  <2> QED
    BY <1>4, <1>5, RemovalFrame
<1>7. /\ state' \in [Sockets -> {"free", "OPEN", "CLOSING", "CLOSED"}]
      /\ state'[k] = "CLOSED"
      /\ \A c \in Sockets : /\ state[c] # "free" => state'[c] # "free"
                            /\ c # k /\ state[c] # "CLOSED" => state'[c] # "CLOSED"
                            /\ state[c] = "CLOSED" => state'[c] = "CLOSED"
  BY <1>1, <1>3, StateAfterStep DEF Inv, TypeOK
<1>8. sess'[k] = None
  BY <1>1, <1>6 DEF Inv, TypeOK
<1>9. /\ \A g \in HostIds : g # h => managedHosts'[g] = managedHosts[g]
      /\ managedHosts'[h] = None
      /\ managedHosts' \in [HostIds -> ManagedSockets \cup {None}]
  BY <1>1, <1>2 DEF Inv, TypeOK
<1> HIDE DEF h
<1>10. TypeOK'
  BY <1>4, <1>6, <1>7, <1>9 DEF Inv, TypeOK
<1>11. HostLinks'
  <2>1. \A g \in HostIds : managedHosts'[g] # None =>
          /\ hostId'[managedHosts'[g]] = g
          /\ state'[managedHosts'[g]] \in {"OPEN", "CLOSING"}
    <3> SUFFICES ASSUME NEW g \in HostIds, managedHosts'[g] # None
                 PROVE  /\ hostId[managedHosts[g]] = g
                        /\ state'[managedHosts[g]] \in {"OPEN", "CLOSING"}
      BY <1>4, <1>9
    <3>1. g # h /\ managedHosts[g] # None /\ managedHosts[g] \in Sockets
      BY <1>9, Kinds DEF Inv, TypeOK
    <3>2. hostId[managedHosts[g]] = g /\ state[managedHosts[g]] \in {"OPEN", "CLOSING"}
      BY <3>1 DEF Inv, Links, HostLinks
    <3>3. managedHosts[g] # k
      BY <3>1, <3>2 DEF h
    <3> QED
      BY <1>7, <3>1, <3>2, <3>3
  <2>2. \A c \in Sockets : hostId'[c] # None =>
          /\ c \in ManagedSockets /\ state'[c] # "free"
          /\ state'[c] # "CLOSED" => managedHosts'[hostId'[c]] = c
    <3> SUFFICES ASSUME NEW c \in Sockets, hostId[c] # None
                 PROVE  /\ c \in ManagedSockets /\ state'[c] # "free"
                        /\ state'[c] # "CLOSED" => managedHosts'[hostId[c]] = c
      BY <1>4
    <3>1. /\ c \in ManagedSockets /\ state[c] # "free" /\ hostId[c] \in HostIds
          /\ state[c] # "CLOSED" => managedHosts[hostId[c]] = c
      BY DEF Inv, Links, HostLinks, TypeOK
    <3> QED
      BY <1>1, <1>7, <1>9, <3>1
  <2> QED
    BY <1>4, <2>1, <2>2 DEF Inv, Links, HostLinks
<1>12. SessionLinks'
  BY <1>4, <1>6, <1>7 DEF Inv, Links, SessionLinks
<1>13. ASSUME NEW c \in ManagedSockets, sess'[c] # None
       PROVE  /\ InMap(sess[c])'
              /\ attached'[sess'[c]]["host"] = c
              /\ hostId'[c] # None /\ managedHostId'[sess'[c]] = hostId'[c]
              /\ managedHosts'[hostId'[c]] = c
  <2>1. /\ c \in Sockets /\ sess'[c] = sess[c] /\ c # k
        /\ sess[c] \in Sessions /\ sess[c] \notin S
    BY <1>6, <1>8, <1>13, Kinds DEF Inv, TypeOK
  <2>2. InMap(sess[c]) /\ attached[sess[c]]["host"] = c
        /\ hostId[c] # None /\ managedHostId[sess[c]] = hostId[c]
        /\ managedHosts[hostId[c]] = c
    BY <1>13, <2>1, Kinds DEF Inv, LeaseConsistent
  <2>3. hostId[c] \in HostIds /\ hostId[c] # h
    BY <1>1, <2>1, <2>2 DEF Inv, TypeOK, h
  <2>4. PICK s \in Sessions : s = sess[c]
    BY <2>1
  <2>5. InMap(s)'
    BY <1>6, <2>1, <2>2, <2>4
  <2>6. InMap(sess[c])'
    BY <2>1, <2>4, <2>5 DEF InMap
  <2> QED
    BY <1>4, <1>6, <1>9, <2>1, <2>2, <2>3, <2>6
<1>14. ASSUME NEW s \in Sessions, InMap(s)', managedHostId'[s] # None
       PROVE  /\ managedHosts'[managedHostId'[s]] # None
              /\ sess'[managedHosts'[managedHostId'[s]]] = s
  <2> DEFINE g == managedHostId[s]
  <2>1. InMap(s) /\ s \notin S /\ g # None /\ g \in HostIds
    BY <1>4, <1>6, <1>14 DEF Inv, TypeOK
  <2>2. managedHosts[g] # None /\ sess[managedHosts[g]] = s /\ managedHosts[g] \in Sockets
    BY <2>1, Kinds DEF Inv, LeaseConsistent, TypeOK
  <2>3. g # h
    BY <1>1, <2>1, <2>2, Kinds
  <2> QED
    BY <1>4, <1>6, <1>9, <2>1, <2>2, <2>3
<1>15. LeaseConsistent'
  BY <1>13, <1>14 DEF LeaseConsistent
<1> QED
  BY <1>10, <1>11, <1>12, <1>15 DEF Inv, Links

\* /connect gives the host to a new session, and the session it takes it from,
\* which is the only other one that names this connection, leaves the Map.
LEMMA ConnectInv ==
    ASSUME Inv, NEW h \in HostIds, Connect(h)
    PROVE  Inv'
<1> DEFINE k == managedHosts[h]
           old == sess[k]
           gone == IF old = None THEN {} ELSE {old}
           client == {attached[s]["client"] : s \in gone}
<1>1. /\ k \in ManagedSockets /\ k \in Sockets /\ state[k] = "OPEN"
      /\ hostId[k] = h /\ old \in Sessions \cup {None} /\ k # None /\ h # None
  BY Kinds DEF Connect, IsOpen, Inv, Links, HostLinks, TypeOK
<1>2. PICK new \in Sessions :
        /\ id[new] = None
        /\ id' = [id EXCEPT ![new] = new]
        /\ sessions' = [SessionsWithout(gone) EXCEPT ![new] = new]
        /\ attached' = [attached EXCEPT ![new]["host"] = k]
        /\ managedHostId' = [managedHostId EXCEPT ![new] = h]
        /\ sess' = [sess EXCEPT ![k] = new]
        /\ age' = [age EXCEPT ![new] = 0]
        /\ pending' = PendingWithout(gone)
        /\ state' = StateAfter({}, client)
  BY <1>1 DEF Connect
<1>3. UNCHANGED <<isAlive, hostId, hostVars>>
  BY DEF Connect
<1> HIDE DEF client, gone
<1>4. /\ state' \in [Sockets -> {"free", "OPEN", "CLOSING", "CLOSED"}]
      /\ \A c \in Sockets : /\ state[c] # "free" => state'[c] # "free"
                            /\ state[c] # "CLOSED" => state'[c] # "CLOSED"
                            /\ state[c] = "CLOSED" => state'[c] = "CLOSED"
  BY <1>2, StateAfterStep DEF Inv, TypeOK
<1>5. SessionsWithout(gone) \in [Ids -> Sessions \cup {None}]
  BY DEF SessionsWithout, Inv, TypeOK
<1>6. pending' \in [Sessions -> [Roles -> Seq(Sockets \cup {None})]]
  BY <1>2 DEF PendingWithout, NoFrames, Inv, TypeOK
<1> HIDE DEF k, old
<1>7. TypeOK'
  <2>1. "host" \in Roles /\ new \in Ids
    BY Kinds DEF Roles
  <2>2. attached' \in [Sessions -> [Roles -> Sockets \cup {None}]]
    BY <1>1, <1>2, <2>1 DEF Inv, TypeOK
  <2> QED
    BY <1>1, <1>2, <1>3, <1>4, <1>5, <1>6, <2>1, <2>2 DEF Inv, TypeOK, hostVars
<1>8. HostLinks'
  <2>1. \A c \in Sockets : state[c] \in {"OPEN", "CLOSING"} => state'[c] \in {"OPEN", "CLOSING"}
    BY <1>4
  <2>2. \A g \in HostIds : managedHosts[g] # None => managedHosts[g] \in Sockets
    BY Kinds DEF Inv, TypeOK
  <2> QED
    BY <1>3, <1>4, <2>1, <2>2 DEF Inv, Links, HostLinks, hostVars
\* What is known of the new object, and that no other session changes.
<1>9. /\ managedHostId[new] = None /\ \A c \in Sockets : sess[c] # new
      /\ attached[new]["client"] = None /\ new \in Ids /\ new # None
  BY <1>2, Kinds DEF Inv, Links, SessionLinks, TypeOK
<1>10. \A s \in Sessions : s # new => /\ id'[s] = id[s] /\ id[s] # new
                                      /\ attached'[s] = attached[s]
                                      /\ managedHostId'[s] = managedHostId[s]
  BY <1>2, Kinds DEF Inv, Links, SessionLinks, TypeOK
<1>11. /\ id'[new] = new /\ managedHostId'[new] = h /\ sessions'[new] = new
       /\ attached'[new]["host"] = k /\ attached'[new]["client"] = None
       /\ sess'[k] = new /\ \A c \in Sockets : c # k => sess'[c] = sess[c]
  BY <1>1, <1>2, <1>5, <1>9 DEF Inv, TypeOK, Roles
<1>12. \A i \in Ids : i # new => sessions'[i] \in {sessions[i], None}
  BY <1>2, <1>5 DEF SessionsWithout
<1>13. SessionLinks'
  <2>1. \A i \in Ids : sessions'[i] # None => id'[sessions'[i]] = i
    <3> SUFFICES ASSUME NEW i \in Ids, sessions'[i] # None, i # new
                 PROVE  id'[sessions'[i]] = i
      BY <1>9, <1>11
    <3>1. sessions'[i] = sessions[i] /\ sessions[i] \in Sessions /\ id[sessions[i]] = i
      BY <1>12, Kinds DEF Inv, Links, SessionLinks, TypeOK
    <3> QED
      BY <1>2, <1>9, <1>10, <3>1, Kinds
  <2>2. \A c \in Sockets : sess'[c] # None => id'[sess'[c]] # None /\ state'[c] # "free"
    <3> SUFFICES ASSUME NEW c \in Sockets, c # k, sess[c] # None
                 PROVE  id'[sess[c]] # None /\ state'[c] # "free"
      BY <1>1, <1>4, <1>9, <1>11
    <3>1. sess[c] \in Sessions /\ id[sess[c]] # None /\ state[c] # "free"
      BY DEF Inv, Links, SessionLinks, TypeOK
    <3> QED
      BY <1>4, <1>9, <1>10, <3>1
  <2>3. \A s \in Sessions :
          /\ id'[s] \in InviteIds \cup {s, None}
          /\ attached'[s]["client"] \in ClientSockets \cup {None}
          /\ IF managedHostId'[s] = None
             THEN attached'[s]["host"] \in InviteSockets \cup {None}
             ELSE attached'[s]["host"] \in ManagedSockets /\ id'[s] = s
          /\ id'[s] = None => attached'[s]["client"] = None /\ attached'[s]["host"] = None
    BY <1>1, <1>9, <1>10, <1>11 DEF Inv, Links, SessionLinks
  <2> QED
    BY <2>1, <2>2, <2>3 DEF SessionLinks
\* The other sessions in the Map stay there, except the one that is reclaimed.
<1>14. \A s \in Sessions : s # new /\ s # old /\ InMap(s) /\ managedHostId[s] # None
                             => InMap(s)'
  <2> SUFFICES ASSUME NEW s \in Sessions, s # new, s # old, InMap(s), managedHostId[s] # None
               PROVE  InMap(s)'
    OBVIOUS
  <2>1. id[s] = s /\ s \in Ids /\ sessions[s] = s
    BY Kinds DEF Inv, Links, SessionLinks, InMap
  <2>2. \A t \in gone : id[t] # s
    BY <1>1, <2>1, Kinds DEF gone, Inv, Links, SessionLinks
  <2>3. sessions'[s] = s
    BY <1>2, <1>5, <2>1, <2>2 DEF SessionsWithout
  <2> QED
    BY <1>10, <2>1, <2>3, Kinds DEF InMap
<1>15. \A s \in Sessions : s # new /\ InMap(s)' => InMap(s) /\ s # old
  <2> SUFFICES ASSUME NEW s \in Sessions, s # new, InMap(s)'
               PROVE  InMap(s) /\ s # old
    OBVIOUS
  <2>1. id[s] # None /\ id[s] # new /\ sessions'[id[s]] = s /\ id[s] \in Ids
    BY <1>10, Kinds DEF InMap, Inv, TypeOK
  <2>2. SessionsWithout(gone)[id[s]] = s
    BY <1>2, <1>5, <2>1
  <2> QED
    BY <2>1, <2>2, Kinds DEF SessionsWithout, InMap, gone
<1>16. ASSUME NEW c \in ManagedSockets, sess'[c] # None
       PROVE  /\ InMap(sess[c])'
              /\ attached'[sess'[c]]["host"] = c
              /\ hostId'[c] # None /\ managedHostId'[sess'[c]] = hostId'[c]
              /\ managedHosts'[hostId'[c]] = c
  <2>1. CASE c = k
    <3>1. InMap(sess[c])'
      BY <1>9, <1>11, <2>1 DEF InMap
    <3> QED
      BY <1>1, <1>3, <1>11, <2>1, <3>1 DEF k, hostVars
  <2>2. CASE c # k
    <3>1. c \in Sockets /\ sess'[c] = sess[c] /\ sess[c] \in Sessions /\ sess[c] # new
      BY <1>9, <1>11, <1>16, <2>2, Kinds DEF Inv, TypeOK
    <3>2. InMap(sess[c]) /\ attached[sess[c]]["host"] = c
          /\ hostId[c] # None /\ managedHostId[sess[c]] = hostId[c]
          /\ managedHosts[hostId[c]] = c
      BY <1>16, <3>1, Kinds DEF Inv, LeaseConsistent
    <3>3. sess[c] # old
      BY <1>1, <2>2, <3>1, <3>2, Kinds DEF old, Inv, LeaseConsistent
    <3>4. hostId[c] \in HostIds
      BY <3>1, <3>2 DEF Inv, TypeOK
    <3>5. PICK s \in Sessions : s = sess[c]
      BY <3>1
    <3>6. InMap(s)'
      BY <1>14, <3>1, <3>2, <3>3, <3>4, <3>5, Kinds
    <3>7. InMap(sess[c])'
      BY <3>1, <3>5, <3>6 DEF InMap
    <3> QED
      BY <1>3, <1>10, <3>1, <3>2, <3>7 DEF hostVars
  <2> QED
    BY <2>1, <2>2
<1>17. ASSUME NEW s \in Sessions, InMap(s)', managedHostId'[s] # None
       PROVE  /\ managedHosts'[managedHostId'[s]] # None
              /\ sess'[managedHosts'[managedHostId'[s]]] = s
  <2>1. CASE s = new
    BY <1>1, <1>3, <1>11, <2>1 DEF k, hostVars
  <2>2. CASE s # new
    <3>1. InMap(s) /\ s # old /\ managedHostId[s] # None /\ managedHostId[s] \in HostIds
      BY <1>10, <1>15, <1>17, <2>2 DEF Inv, TypeOK
    <3>2. /\ managedHosts[managedHostId[s]] # None
          /\ managedHosts[managedHostId[s]] \in Sockets
          /\ sess[managedHosts[managedHostId[s]]] = s
      BY <3>1, Kinds DEF Inv, LeaseConsistent, TypeOK
    <3> QED
      BY <1>3, <1>10, <1>11, <2>2, <3>1, <3>2 DEF old, hostVars
  <2> QED
    BY <2>1, <2>2
<1>18. LeaseConsistent'
  BY <1>16, <1>17 DEF LeaseConsistent
<1> QED
  BY <1>7, <1>8, <1>13, <1>18 DEF Inv, Links

\* Every step keeps the inductive invariant.
LEMMA NextInv ==
    ASSUME Inv, [Next]_vars
    PROVE  Inv'
<1>1. ASSUME NEW k \in InviteSockets, NEW i \in InviteIds, InviteHostUpgrade(k, i)
      PROVE  Inv'
  BY <1>1, InviteHostUpgradeInv
<1>2. ASSUME NEW k \in ClientSockets, NEW i \in Ids, ClientUpgrade(k, i)
      PROVE  Inv'
  BY <1>2, ClientUpgradeInv
<1>3. ASSUME NEW k \in ManagedSockets, NEW h \in HostIds, ManagedHostUpgrade(k, h)
      PROVE  Inv'
  BY <1>3, Kinds, RegisterHostInv, RejectInv DEF ManagedHostUpgrade
<1>4. ASSUME NEW h \in HostIds, Connect(h) PROVE Inv'
  BY <1>4, ConnectInv
<1>5. ASSUME NEW h \in HostIds, RebindHost(h) \/ DeleteHost(h) PROVE Inv'
  BY <1>5, ReplaceTokenInv DEF RebindHost, DeleteHost
<1>6. ASSUME NEW k \in Sockets, Message(k) PROVE Inv'
  BY <1>6, MessageInv
<1>7. ASSUME NEW k \in Sockets, UnexpectedMessage(k) \/ PeerCloses(k) \/ RejectedClosed(k)
      PROVE  Inv'
  BY <1>7, EndOfConnectionInv
<1>8. ASSUME NEW k \in Sockets, Pong(k) PROVE Inv'
  BY <1>8, PongInv
<1>9. ASSUME NEW k \in Sockets, SignalClosed(k) PROVE Inv'
  BY <1>9, SignalClosedInv
<1>10. ASSUME NEW k \in Sockets, ManagedHostClosed(k) PROVE Inv'
  <2>1. k \in ManagedSockets
    BY <1>10 DEF ManagedHostClosed, Inv, Links, HostLinks
  <2> QED
    BY <1>10, <2>1, ManagedHostClosedInv
<1>11. CASE Heartbeat
  BY <1>11, HeartbeatInv
<1>12. CASE Tick
  BY <1>12, TickInv
<1>13. CASE UNCHANGED vars
  <2>1. TypeOK'
    BY <1>13 DEF vars, Inv, TypeOK
  <2>2. Links'
    BY <1>13 DEF vars, Inv, Links, HostLinks, SessionLinks
  <2>3. LeaseConsistent'
    BY <1>13 DEF vars, Inv, LeaseConsistent, InMap
  <2> QED
    BY <2>1, <2>2, <2>3 DEF Inv
<1> QED
  BY <1>1, <1>2, <1>3, <1>4, <1>5, <1>6, <1>7, <1>8, <1>9, <1>10, <1>11, <1>12, <1>13
  DEF Next

---------------------------------------------------------------------------
\* Each variable keeps to its type: in particular managedHosts only ever names
\* connections of paired hosts, and a forgotten session object is still an object
\* its late close handlers can act on.
THEOREM TypeCorrect == Spec => []TypeOK
<1>1. Init => Inv
  BY InitInv
<1>2. Inv /\ [Next]_vars => Inv'
  BY NextInv
<1>3. Inv => TypeOK
  BY DEF Inv
<1> QED
  BY <1>1, <1>2, <1>3, PTL DEF Spec

\* However close events, reclaims, upgrades and sweeps interleave, a registered
\* host serves exactly the managed session of the Map that names it.
THEOREM LeaseSafety == Spec => []LeaseConsistent
<1>1. Init => Inv
  BY InitInv
<1>2. Inv /\ [Next]_vars => Inv'
  BY NextInv
<1>3. Inv => LeaseConsistent
  BY DEF Inv
<1> QED
  BY <1>1, <1>2, <1>3, PTL DEF Spec

\* Handlers that neither register a host nor touch the hosts table: at most they
\* close a registered connection.
LEMMA StillOffline ==
    ASSUME Inv, RevokedHostOffline, UNCHANGED <<hostRow, revoked>>,
           \A h \in HostIds : managedHosts'[h] \in {managedHosts[h], None},
           \A k \in ManagedSockets : state'[k] = "OPEN" => state[k] = "OPEN"
    PROVE  RevokedHostOffline'
BY DEF RevokedHostOffline, IsOpen, Inv, TypeOK

\* A replaced token closes the connection that was made with it.
LEMMA ReplaceTokenOffline ==
    ASSUME Inv, RevokedHostOffline, NEW h \in HostIds, NEW b \in BOOLEAN,
           ReplaceToken(h, b)
    PROVE  RevokedHostOffline'
<1>1. /\ hostRow' = [hostRow EXCEPT ![h] = b]
      /\ revoked' = revoked \cup {k \in ManagedSockets : hostId[k] = h}
      /\ state' = StateAfter({}, IF hostRow[h] THEN {managedHosts[h]} ELSE {})
      /\ managedHosts' = managedHosts
  BY DEF ReplaceToken
<1> SUFFICES ASSUME NEW g \in HostIds, IsOpen(managedHosts[g])'
             PROVE  managedHosts[g] \notin revoked' /\ hostRow'[g]
  BY <1>1 DEF RevokedHostOffline
<1> DEFINE k == managedHosts[g]
<1>2. k \in Sockets /\ k # None /\ state'[k] = "OPEN"
  BY <1>1, Kinds DEF IsOpen, Inv, TypeOK
<1>3. state[k] = "OPEN" /\ ~(hostRow[h] /\ g = h)
  <2>1. \A c \in Sockets : state'[c] = "OPEN" =>
          state[c] = "OPEN" /\ c \notin (IF hostRow[h] THEN {managedHosts[h]} ELSE {})
    BY <1>1 DEF StateAfter
  <2> QED
    BY <1>2, <2>1
<1>4. k \notin revoked /\ hostRow[g] /\ g # h
  BY <1>2, <1>3 DEF RevokedHostOffline, IsOpen
<1>5. hostId[k] = g
  BY <1>2 DEF Inv, Links, HostLinks
<1> QED
  BY <1>1, <1>4, <1>5 DEF Inv, TypeOK

\* A connection that registers was not revoked: it is new.
LEMMA RegisterHostOffline ==
    ASSUME Inv, RevokedHostOffline, NEW k \in ManagedSockets, NEW h \in HostIds,
           hostRow[h], RegisterHost(k, h)
    PROVE  RevokedHostOffline'
<1>1. k \in Sockets /\ k \notin revoked /\ \A g \in HostIds : managedHosts[g] # k
  BY Kinds DEF RegisterHost, Inv, Links, HostLinks
<1>2. /\ managedHosts' = [managedHosts EXCEPT ![h] = k]
      /\ state' = [state EXCEPT ![k] = "OPEN"]
      /\ UNCHANGED <<hostRow, revoked>>
  BY DEF RegisterHost
<1> QED
  BY <1>1, <1>2 DEF RevokedHostOffline, IsOpen, Inv, TypeOK

\* Every step keeps revoked connections from being open and registered.
LEMMA NextOffline ==
    ASSUME Inv, RevokedHostOffline, [Next]_vars
    PROVE  RevokedHostOffline'
<1> DEFINE Calm == /\ UNCHANGED <<hostRow, revoked>>
                   /\ \A h \in HostIds : managedHosts'[h] \in {managedHosts[h], None}
                   /\ \A k \in ManagedSockets : state'[k] = "OPEN" => state[k] = "OPEN"
<1>0. /\ state \in [Sockets -> {"free", "OPEN", "CLOSING", "CLOSED"}]
      /\ managedHosts \in [HostIds -> ManagedSockets \cup {None}]
  BY DEF Inv, TypeOK
<1>1. ASSUME NEW k \in Sockets, Reject(k) PROVE Calm
  BY <1>0, <1>1, Kinds DEF Reject, hostVars
<1>2. ASSUME NEW k \in InviteSockets, NEW i \in InviteIds, InviteHostUpgrade(k, i)
      PROVE  Calm
  <2>1. \/ Reject(k)
        \/ UNCHANGED hostVars /\ state' = [state EXCEPT ![k] = "OPEN"]
    <3>1. Reject(k) \/ \E s, objs : Attach(k, "host", s, objs)
      BY <1>2 DEF InviteHostUpgrade
    <3>2. ASSUME NEW s, NEW objs, Attach(k, "host", s, objs)
          PROVE  UNCHANGED hostVars /\ state' = [state EXCEPT ![k] = "OPEN"]
      BY <3>2 DEF Attach
    <3> QED
      BY <3>1, <3>2
  <2> QED
    BY <1>0, <1>1, <2>1, Kinds DEF hostVars
<1>3. ASSUME NEW k \in ClientSockets, NEW i \in Ids, ClientUpgrade(k, i)
      PROVE  Calm
  <2>1. \/ Reject(k)
        \/ UNCHANGED hostVars /\ state' = [state EXCEPT ![k] = "OPEN"]
    <3>1. Reject(k) \/ \E s, objs : Attach(k, "client", s, objs)
      BY <1>3 DEF ClientUpgrade
    <3>2. ASSUME NEW s, NEW objs, Attach(k, "client", s, objs)
          PROVE  UNCHANGED hostVars /\ state' = [state EXCEPT ![k] = "OPEN"]
      BY <3>2 DEF Attach
    <3> QED
      BY <3>1, <3>2
  <2> QED
    BY <1>0, <1>1, <2>1, Kinds DEF hostVars
<1>4. ASSUME NEW k \in ManagedSockets, NEW h \in HostIds, ManagedHostUpgrade(k, h)
      PROVE  RevokedHostOffline'
  <2>1. hostRow[h] /\ (RegisterHost(k, h) \/ Reject(k))
    BY <1>4 DEF ManagedHostUpgrade
  <2>2. k \in Sockets
    BY Kinds
  <2> QED
    BY <1>1, <2>1, <2>2, RegisterHostOffline, StillOffline
<1>5. ASSUME NEW h \in HostIds, RebindHost(h) \/ DeleteHost(h)
      PROVE  RevokedHostOffline'
  BY <1>5, ReplaceTokenOffline DEF RebindHost, DeleteHost
<1>6. ASSUME NEW h \in HostIds, Connect(h) PROVE Calm
  <2>1. UNCHANGED hostVars /\ \E B : state' = StateAfter({}, B)
    BY <1>6 DEF Connect
  <2> QED
    BY <1>0, <2>1, Kinds, StateAfterStep DEF hostVars
<1>7. ASSUME NEW k \in Sockets,
             \/ Message(k) \/ UnexpectedMessage(k) \/ Pong(k) \/ PeerCloses(k)
             \/ RejectedClosed(k) \/ SignalClosed(k)
      PROVE  Calm
  <2>1. UNCHANGED hostVars /\ (state' = state \/ \E A, B : state' = StateAfter(A, B))
    BY <1>7 DEF Message, Relay, UnexpectedMessage, Pong, PeerCloses, RejectedClosed,
                SignalClosed
  <2> QED
    BY <1>0, <2>1, Kinds, StateAfterStep DEF hostVars
<1>8. ASSUME NEW k \in Sockets, ManagedHostClosed(k) PROVE Calm
  <2>1. /\ UNCHANGED <<hostRow, revoked>>
        /\ managedHosts' = [managedHosts EXCEPT ![hostId[k]] = IF @ = k THEN None ELSE @]
        /\ \E A, B : state' = StateAfter(A, B)
    BY <1>8 DEF ManagedHostClosed
  <2> QED
    BY <1>0, <2>1, Kinds, StateAfterStep
<1>9. CASE Heartbeat \/ Tick \/ UNCHANGED vars
  <2>1. UNCHANGED hostVars /\ (state' = state \/ \E A, B : state' = StateAfter(A, B))
    BY <1>9 DEF Heartbeat, Tick, vars, socketVars, hostVars
  <2> QED
    <3>1. Calm
      BY <1>0, <2>1, Kinds, StateAfterStep DEF hostVars
    <3> QED
      BY <3>1, StillOffline
<1> QED
  BY <1>2, <1>3, <1>4, <1>5, <1>6, <1>7, <1>8, <1>9, StillOffline DEF Next

\* A host whose token was rotated by a new pairing or deleted by its owner never
\* gets another lease over the connection it made with the old token.
THEOREM RevokedOffline == Spec => []RevokedHostOffline
<1>1. Init => Inv /\ RevokedHostOffline
  BY InitInv
<1>2. Inv /\ RevokedHostOffline /\ [Next]_vars => Inv' /\ RevokedHostOffline'
  BY NextInv, NextOffline
<1> QED
  BY <1>1, <1>2, PTL DEF Spec

---------------------------------------------------------------------------
\* A connection to /signal that has not closed is the one its session names for its
\* role, and a session names as its client only a connection that joined it.
Placed ==
    /\ \A k \in InviteSockets \cup ClientSockets :
         /\ state[k] = "OPEN" => sess[k] # None
         /\ sess[k] # None /\ state[k] # "CLOSED" => attached[sess[k]][Role(k)] = k
    /\ \A s \in Sessions :
         attached[s]["client"] # None => sess[attached[s]["client"]] = s

\* A step that gives no connection to /signal another session, takes none from its
\* session before it closed, and opens none.
LEMMA StillPlaced ==
    ASSUME Inv, Placed,
           \A k \in InviteSockets \cup ClientSockets :
             /\ sess'[k] = sess[k]
             /\ state'[k] = "OPEN" => state[k] = "OPEN"
             /\ state'[k] # "CLOSED" => state[k] # "CLOSED"
             /\ sess[k] # None /\ state'[k] # "CLOSED"
                  => attached'[sess[k]][Role(k)] = attached[sess[k]][Role(k)],
           \A s \in Sessions : attached'[s]["client"] \in {attached[s]["client"], None}
    PROVE  Placed'
<1>1. \A s \in Sessions : attached[s]["client"] \in ClientSockets \cup {None}
  BY DEF Inv, Links, SessionLinks
<1>2. \A k \in InviteSockets \cup ClientSockets : Role(k)' = Role(k)
  BY DEF Role
<1> QED
  BY <1>1, <1>2, Kinds DEF Placed

\* handleSignalSocket puts a connection into a place that was free.
LEMMA AttachPlaced ==
    ASSUME Inv, Placed, NEW k \in InviteSockets \cup ClientSockets, NEW s \in Sessions,
           NEW objs, Attach(k, Role(k), s, objs), attached[s][Role(k)] = None
    PROVE  Placed'
<1> DEFINE r == Role(k)
<1>1. /\ state[k] = "free" /\ k \in Sockets /\ r \in Roles
      /\ state' = [state EXCEPT ![k] = "OPEN"]
      /\ sess' = [sess EXCEPT ![k] = s]
      /\ attached' = [attached EXCEPT ![s][r] = k]
      /\ attached[s][r] = None
  BY Kinds DEF Attach, Role, Roles
<1>2. /\ state'[k] = "OPEN" /\ sess'[k] = s /\ sess[k] = None /\ attached'[s][r] = k
      /\ \A c \in Sockets : c # k => state'[c] = state[c] /\ sess'[c] = sess[c]
      /\ \A t \in Sessions, q \in Roles :
           t # s \/ q # r => attached'[t][q] = attached[t][q]
  BY <1>1 DEF Inv, TypeOK, Links, SessionLinks
<1>3. ASSUME NEW c \in InviteSockets \cup ClientSockets
      PROVE  /\ state'[c] = "OPEN" => sess'[c] # None
             /\ sess'[c] # None /\ state'[c] # "CLOSED"
                  => attached'[sess'[c]][Role(c)] = c
  <2>1. CASE c = k
    BY <1>2, <2>1, Kinds
  <2>2. CASE c # k
    <3>1. c \in Sockets /\ Role(c) \in Roles /\ state'[c] = state[c] /\ sess'[c] = sess[c]
          /\ sess[c] \in Sessions \cup {None}
      BY <1>2, <2>2, Kinds DEF Role, Roles, Inv, TypeOK
    <3>2. sess[c] # None /\ state[c] # "CLOSED" => attached[sess[c]][Role(c)] = c
      BY DEF Placed
    <3>3. sess[c] # None /\ state[c] # "CLOSED" => sess[c] # s \/ Role(c) # r
      BY <1>1, <3>1, <3>2, Kinds
    <3> QED
      BY <1>2, <3>1, <3>2, <3>3 DEF Placed
  <2> QED
    BY <2>1, <2>2
<1>4. ASSUME NEW t \in Sessions, attached'[t]["client"] # None
      PROVE  sess'[attached'[t]["client"]] = t
  <2>1. CASE t = s /\ r = "client"
    BY <1>2, <2>1
  <2>2. CASE t # s \/ r # "client"
    <3>1. attached'[t]["client"] = attached[t]["client"]
      BY <1>2, <2>2 DEF Roles
    <3>2. attached[t]["client"] \in Sockets /\ sess[attached[t]["client"]] = t
      BY <1>4, <3>1, Kinds DEF Placed, Inv, Links, SessionLinks
    <3>3. attached[t]["client"] # k
      BY <1>2, <3>2, Kinds
    <3> QED
      BY <1>2, <3>1, <3>2, <3>3
  <2> QED
    BY <2>1, <2>2
<1> HIDE DEF r
<1>5. \A c \in InviteSockets \cup ClientSockets : Role(c)' = Role(c)
  BY DEF Role
<1> QED
  BY <1>3, <1>4, <1>5 DEF Placed

\* The close handler of a /signal connection clears its own place only.
LEMMA SignalClosedPlaced ==
    ASSUME Inv, Placed, NEW k \in Sockets, SignalClosed(k)
    PROVE  Placed'
<1> DEFINE s == sess[k]
           r == Role(k)
<1>1. /\ k \in InviteSockets \cup ClientSockets /\ s \in Sessions /\ r \in Roles
      /\ state[k] = "CLOSING"
  BY Kinds DEF SignalClosed, Sockets, Inv, TypeOK, Role, Roles
<1>2. PICK B : state' = StateAfter({k}, B)
  BY DEF SignalClosed
<1>3. attached' = IF attached[s][r] = k THEN [attached EXCEPT ![s][r] = None] ELSE attached
  BY DEF SignalClosed, RemoveSessions
<1>4. \A c \in InviteSockets \cup ClientSockets : sess'[c] = sess[c]
  <2>1. sess' = sess \/ \E S : sess' = [c \in Sockets |->
                                   IF c \in FreedHosts(S, attached') THEN None ELSE sess[c]]
    BY DEF SignalClosed, RemoveSessions
  <2> QED
    BY <2>1, Kinds DEF FreedHosts
<1>5. /\ state'[k] = "CLOSED"
      /\ \A c \in InviteSockets \cup ClientSockets :
           /\ state'[c] = "OPEN" => state[c] = "OPEN"
           /\ state'[c] # "CLOSED" => state[c] # "CLOSED"
  BY <1>1, <1>2, StateAfterStep, Kinds DEF Inv, TypeOK
<1>6. \A t \in Sessions, q \in Roles :
        \/ attached'[t][q] = attached[t][q]
        \/ attached[t][q] = k /\ attached'[t][q] = None
  BY <1>1, <1>3 DEF Inv, TypeOK
<1> HIDE DEF s, r
<1>7. ASSUME NEW c \in InviteSockets \cup ClientSockets, sess[c] # None,
             state'[c] # "CLOSED"
      PROVE  attached'[sess[c]][Role(c)] = attached[sess[c]][Role(c)]
  <2>1. /\ c # k /\ attached[sess[c]][Role(c)] = c
        /\ sess[c] \in Sessions /\ Role(c) \in Roles
    BY <1>5, <1>7, Kinds DEF Placed, Inv, TypeOK, Role, Roles
  <2> QED
    BY <1>6, <2>1
<1>8. \A t \in Sessions : attached'[t]["client"] \in {attached[t]["client"], None}
  BY <1>6 DEF Roles
<1> QED
  BY <1>4, <1>5, <1>7, <1>8, StillPlaced

\* Every step keeps connections in their places.
LEMMA NextPlaced ==
    ASSUME Inv, Placed, [Next]_vars
    PROVE  Placed'
<1> DEFINE Calm == /\ UNCHANGED attached
                   /\ \A k \in InviteSockets \cup ClientSockets :
                        /\ sess'[k] = sess[k]
                        /\ state'[k] = "OPEN" => state[k] = "OPEN"
                        /\ state'[k] # "CLOSED" => state[k] # "CLOSED"
<1>0. Calm => Placed'
  BY StillPlaced
<1>1. ASSUME NEW k \in Sockets, Reject(k) PROVE Calm
  BY <1>1, Kinds DEF Reject, sessionVars, Inv, TypeOK
<1>2. ASSUME NEW k \in InviteSockets, NEW i \in InviteIds, InviteHostUpgrade(k, i)
      PROVE  Placed'
  <2> DEFINE s == sessions[i]
  <2>1. k \in Sockets /\ k \in InviteSockets \cup ClientSockets /\ Role(k) = "host"
        /\ s \in Sessions \cup {None}
    BY Kinds DEF Role, Inv, TypeOK
  <2>2. CASE Reject(k)
    BY <1>0, <1>1, <2>1, <2>2
  <2>3. CASE ~Reject(k)
    <3>1. PICK joined \in Sessions :
            /\ IF s = None THEN id[joined] = None ELSE joined = s
            /\ s # None => attached[s]["host"] = None
            /\ Attach(k, "host", joined, [id EXCEPT ![joined] = i])
      BY <1>2, <2>3 DEF InviteHostUpgrade
    <3>2. attached[joined]["host"] = None
      BY <3>1 DEF Inv, Links, SessionLinks
    <3> QED
      BY <2>1, <3>1, <3>2, AttachPlaced
  <2> QED
    BY <2>2, <2>3
<1>3. ASSUME NEW k \in ClientSockets, NEW i \in Ids, ClientUpgrade(k, i)
      PROVE  Placed'
  <2> DEFINE s == sessions[i]
  <2>1. k \in Sockets /\ k \in InviteSockets \cup ClientSockets /\ Role(k) = "client"
        /\ s \in Sessions \cup {None}
    BY Kinds DEF Role, Inv, TypeOK
  <2>2. CASE Reject(k)
    BY <1>0, <1>1, <2>1, <2>2
  <2>3. CASE ~Reject(k)
    <3>1. s # None /\ attached[s]["client"] = None /\ Attach(k, "client", s, id)
      BY <1>3, <2>3 DEF ClientUpgrade
    <3> QED
      BY <2>1, <3>1, AttachPlaced
  <2> QED
    BY <2>2, <2>3
<1>4. ASSUME NEW k \in ManagedSockets, NEW h \in HostIds, ManagedHostUpgrade(k, h)
      PROVE  Placed'
  <2>1. RegisterHost(k, h) => Calm
    BY Kinds DEF RegisterHost, sessionVars, Inv, TypeOK
  <2> QED
    BY <1>0, <1>1, <1>4, <2>1, Kinds DEF ManagedHostUpgrade
<1>5. ASSUME NEW h \in HostIds, RebindHost(h) \/ DeleteHost(h)
      PROVE  Calm
  <2>1. UNCHANGED <<sess, attached>> /\ \E B : state' = StateAfter({}, B)
    BY <1>5 DEF RebindHost, DeleteHost, ReplaceToken, sessionVars
  <2> QED
    BY <2>1, StateAfterStep, Kinds DEF Inv, TypeOK
<1>6. ASSUME NEW h \in HostIds, Connect(h) PROVE Placed'
  <2>1. PICK new \in Sessions :
          /\ id[new] = None
          /\ attached' = [attached EXCEPT ![new]["host"] = managedHosts[h]]
          /\ sess' = [sess EXCEPT ![managedHosts[h]] = new]
          /\ \E B : state' = StateAfter({}, B)
    BY <1>6 DEF Connect
  <2>2. managedHosts[h] \in ManagedSockets
    BY <1>6 DEF Connect, IsOpen, Inv, TypeOK
  <2>3. \A k \in InviteSockets \cup ClientSockets :
          /\ sess'[k] = sess[k] /\ sess[k] # new
          /\ state'[k] = "OPEN" => state[k] = "OPEN"
          /\ state'[k] # "CLOSED" => state[k] # "CLOSED"
    BY <2>1, <2>2, StateAfterStep, Kinds DEF Inv, TypeOK, Links, SessionLinks
  <2>4. \A s \in Sessions : /\ attached'[s]["client"] = attached[s]["client"]
                            /\ s # new => attached'[s] = attached[s]
    BY <2>1 DEF Inv, TypeOK, Roles
  <2>5. \A k \in InviteSockets \cup ClientSockets : sess[k] \in Sessions \cup {None}
    BY Kinds DEF Inv, TypeOK
  <2> QED
    BY <2>3, <2>4, <2>5, StillPlaced
<1>7. ASSUME NEW k \in Sockets,
             \/ Message(k) \/ UnexpectedMessage(k) \/ Pong(k) \/ PeerCloses(k)
             \/ RejectedClosed(k)
      PROVE  Calm
  <2>1. /\ UNCHANGED <<sess, attached>>
        /\ state' = state \/ \E A, B : state' = StateAfter(A, B)
    BY <1>7 DEF Message, Relay, UnexpectedMessage, Pong, PeerCloses, RejectedClosed,
                sessionVars
  <2> QED
    BY <2>1, StateAfterStep, Kinds DEF Inv, TypeOK
<1>8. ASSUME NEW k \in Sockets, ManagedHostClosed(k) PROVE Calm
  <2>1. \E S : RemoveSessions(S, attached)
    BY <1>8 DEF ManagedHostClosed
  <2>2. /\ attached' = attached
        /\ \A c \in InviteSockets \cup ClientSockets : sess'[c] = sess[c]
    BY <2>1, Kinds DEF RemoveSessions, FreedHosts
  <2>3. \E A, B : state' = StateAfter(A, B)
    BY <1>8 DEF ManagedHostClosed
  <2> QED
    BY <2>2, <2>3, StateAfterStep, Kinds DEF Inv, TypeOK
<1>9. CASE Heartbeat
  <2>1. RemoveSessions(Idle, attached) /\ \E B : state' = StateAfter({}, B)
    BY <1>9 DEF Heartbeat
  <2>2. /\ attached' = attached
        /\ \A c \in InviteSockets \cup ClientSockets : sess'[c] = sess[c]
    BY <2>1, Kinds DEF RemoveSessions, FreedHosts
  <2> QED
    BY <1>0, <2>1, <2>2, StateAfterStep, Kinds DEF Inv, TypeOK
<1>10. CASE Tick \/ UNCHANGED vars
  BY <1>0, <1>10 DEF Tick, vars, socketVars, sessionVars
<1> HIDE DEF Calm
<1> QED
  BY <1>0, <1>2, <1>3, <1>4, <1>5, <1>6, <1>7, <1>8, <1>9, <1>10, SignalClosedPlaced DEF Next

---------------------------------------------------------------------------
\* Steps that leave the Map and the session objects' ids alone.
LEMMA SameMapReachable ==
    ASSUME HostReachable, UNCHANGED <<sessions, id>>,
           \A k \in InviteSockets :
             sess'[k] = sess[k] /\ (state'[k] = "OPEN" => state[k] = "OPEN")
    PROVE  HostReachable'
BY DEF HostReachable, IsOpen, InMap

\* removeSession takes the id of an open invite host from the Map only for another
\* object that has it.
LEMMA RemovalReachable ==
    ASSUME Inv, Placed, HostReachable, NEW S \in SUBSET Sessions, NEW att,
           RemoveSessions(S, att), id' = id,
           \A k \in InviteSockets :
             state'[k] = "OPEN" => state[k] = "OPEN" /\ sess[k] \notin S
    PROVE  HostReachable'
<1> SUFFICES ASSUME NEW k \in InviteSockets, IsOpen(k)',
                    \A s \in Sessions \ {sess[k]} : id[s] # id[sess[k]]
             PROVE  sessions'[id[sess[k]]] = sess[k] /\ id[sess[k]] # None /\ sess'[k] = sess[k]
  <2>1. \A k \in InviteSockets : sess'[k] = sess[k]
    BY Kinds DEF RemoveSessions, FreedHosts
  <2> QED
    BY <2>1 DEF HostReachable, InMap
<1>1. state[k] = "OPEN" /\ sess[k] \notin S /\ IsOpen(k) /\ sess'[k] = sess[k]
  BY Kinds DEF IsOpen, RemoveSessions, FreedHosts
<1>2. InMap(sess[k])
  BY <1>1 DEF HostReachable
<1>3. id[sess[k]] # None /\ sessions[id[sess[k]]] = sess[k]
  BY <1>2 DEF InMap
<1>4. sess[k] \in Sessions
  BY <1>1, Kinds DEF Placed, Inv, TypeOK
<1>5. \A s \in S : id[s] # id[sess[k]]
  BY <1>1
<1>6. sessions' = SessionsWithout(S)
  BY DEF RemoveSessions
<1>7. id[sess[k]] \in Ids
  BY <1>3, <1>4 DEF Inv, TypeOK
<1> QED
  BY <1>1, <1>3, <1>5, <1>6, <1>7 DEF SessionsWithout

\* An invite host that is admitted is found under the id it asked for, and takes no
\* other host's id from it.
LEMMA InviteHostUpgradeReachable ==
    ASSUME Inv, Placed, HostReachable,
           NEW k \in InviteSockets, NEW i \in InviteIds, InviteHostUpgrade(k, i), ~Reject(k)
    PROVE  HostReachable'
<1> DEFINE s == sessions[i]
<1>1. PICK joined \in Sessions :
        /\ IF s = None THEN id[joined] = None ELSE joined = s
        /\ sessions' = [sessions EXCEPT ![i] = joined]
        /\ state' = [state EXCEPT ![k] = "OPEN"]
        /\ sess' = [sess EXCEPT ![k] = joined]
        /\ id' = [id EXCEPT ![joined] = i]
  BY DEF InviteHostUpgrade, Attach
<1>2. i \in Ids /\ k \in Sockets /\ s \in Sessions \cup {None} /\ i # None
  BY Kinds DEF Inv, TypeOK
<1>3. s # None => id[s] = i
  BY <1>2 DEF Inv, Links, SessionLinks
<1>4. /\ sessions'[i] = joined /\ id'[joined] = i /\ sess'[k] = joined
      /\ \A j \in Ids : j # i => sessions'[j] = sessions[j]
      /\ \A t \in Sessions : t # joined => id'[t] = id[t]
      /\ \A c \in Sockets : c # k => state'[c] = state[c] /\ sess'[c] = sess[c]
      /\ id[joined] # None => id' = id /\ sessions' = sessions
  BY <1>1, <1>2, <1>3 DEF Inv, TypeOK
<1> SUFFICES ASSUME NEW c \in InviteSockets, IsOpen(c)'
             PROVE  \/ id'[sess'[c]] # None /\ sessions'[id'[sess'[c]]] = sess'[c]
                    \/ \E t \in Sessions \ {sess'[c]} : id'[t] = id'[sess'[c]]
  BY DEF HostReachable, InMap
<1>5. CASE c = k
  BY <1>2, <1>4, <1>5
<1>6. CASE c # k
  <2>1. /\ c \in Sockets /\ IsOpen(c) /\ sess'[c] = sess[c] /\ state[c] = "OPEN"
        /\ sess[c] \in Sessions /\ id[sess[c]] # None /\ id[sess[c]] \in Ids
    BY <1>4, <1>6, Kinds DEF IsOpen, Placed, Inv, TypeOK, Links, SessionLinks
  <2>2. CASE id[joined] # None
    BY <1>4, <2>1, <2>2 DEF HostReachable, InMap
  <2>3. CASE id[joined] = None
    <3>1. sess[c] # joined /\ id'[sess[c]] = id[sess[c]]
      BY <1>4, <2>1, <2>3
    <3>2. CASE id[sess[c]] = i
      BY <1>4, <2>1, <3>1, <3>2
    <3>3. CASE id[sess[c]] # i
      <4>1. CASE InMap(sess[c])
        BY <1>4, <2>1, <3>1, <3>3, <4>1 DEF InMap
      <4>2. CASE \E t \in Sessions \ {sess[c]} : id[t] = id[sess[c]]
        BY <1>4, <2>1, <2>3, <3>1, <4>2
      <4> QED
        BY <2>1, <4>1, <4>2 DEF HostReachable
    <3> QED
      BY <3>2, <3>3
  <2> QED
    BY <2>2, <2>3
<1> QED
  BY <1>5, <1>6

\* The connection /connect uses is a managed host's, and its old session is found
\* under its own id.
LEMMA ConnectOld ==
    ASSUME Inv, NEW h \in HostIds, Connect(h)
    PROVE  /\ managedHosts[h] \in ManagedSockets /\ managedHosts[h] # None
           /\ sess[managedHosts[h]] \in Sessions \cup {None}
           /\ sess[managedHosts[h]] # None => id[sess[managedHosts[h]]] = sess[managedHosts[h]]
<1> DEFINE k == managedHosts[h]
           old == sess[k]
<1>1. k # None
  BY DEF Connect, IsOpen
<1>2. k \in ManagedSockets
  BY <1>1 DEF Inv, TypeOK
<1>3. old \in Sessions \cup {None}
  BY <1>2, Kinds DEF Inv, TypeOK
<1>4. ASSUME old # None PROVE id[old] = old
  <2>1. old \in Sessions
    BY <1>3, <1>4
  <2>2. attached[old]["host"] = k
    BY <1>2, <1>4 DEF Inv, LeaseConsistent
  <2>3. k \notin InviteSockets /\ k # None
    BY <1>1, <1>2, Kinds
  <2> QED
    BY <2>1, <2>2, <2>3 DEF Inv, Links, SessionLinks
<1> QED
  BY <1>1, <1>2, <1>3, <1>4

\* /connect uses ids of its own.
LEMMA ConnectReachable ==
    ASSUME Inv, Placed, HostReachable, NEW h \in HostIds, Connect(h)
    PROVE  HostReachable'
<1> DEFINE k == managedHosts[h]
           old == sess[k]
           gone == IF old = None THEN {} ELSE {old}
<1>1. /\ k \in ManagedSockets /\ k # None /\ old \in Sessions \cup {None}
      /\ old # None => id[old] = old
  BY ConnectOld
<1>2. PICK new \in Sessions :
        /\ id[new] = None
        /\ id' = [id EXCEPT ![new] = new]
        /\ sessions' = [SessionsWithout(gone) EXCEPT ![new] = new]
        /\ sess' = [sess EXCEPT ![k] = new]
        /\ \E B : state' = StateAfter({}, B)
  BY <1>1 DEF Connect
<1> SUFFICES ASSUME NEW c \in InviteSockets, IsOpen(c)'
             PROVE  \/ id'[sess'[c]] # None /\ sessions'[id'[sess'[c]]] = sess'[c]
                    \/ \E t \in Sessions \ {sess'[c]} : id'[t] = id'[sess'[c]]
  BY DEF HostReachable, InMap
<1> HIDE DEF k, old
<1>3. c \in Sockets /\ state[c] = "OPEN" /\ IsOpen(c) /\ sess'[c] = sess[c] /\ c # k
  BY <1>1, <1>2, StateAfterStep, Kinds DEF IsOpen, Inv, TypeOK
<1>4. /\ sess[c] \in Sessions /\ id[sess[c]] # None /\ id[sess[c]] \in Ids
      /\ attached[sess[c]]["host"] = c /\ managedHostId[sess[c]] = None
  BY <1>3, Kinds DEF Placed, Role, Inv, TypeOK, Links, SessionLinks
<1>5. sess[c] # new /\ id'[sess[c]] = id[sess[c]] /\ id[sess[c]] \in InviteIds \cup {sess[c]}
  BY <1>2, <1>4 DEF Inv, TypeOK, Links, SessionLinks
<1>6. id[sess[c]] # new /\ (old # None => id[sess[c]] # old)
  <2>1. old # None => managedHostId[old] # None
    BY <1>1, Kinds DEF old, Inv, LeaseConsistent
  <2> QED
    BY <1>1, <1>4, <1>5, <2>1, Kinds
<1>7. CASE InMap(sess[c])
  <2>1. SessionsWithout(gone)[id[sess[c]]] = sessions[id[sess[c]]]
    BY <1>1, <1>4, <1>6 DEF SessionsWithout
  <2> QED
    BY <1>2, <1>3, <1>4, <1>5, <1>6, <1>7, <2>1 DEF InMap, SessionsWithout
<1>8. CASE \E t \in Sessions \ {sess[c]} : id[t] = id[sess[c]]
  BY <1>2, <1>3, <1>4, <1>5, <1>8 DEF Inv, TypeOK
<1> QED
  BY <1>3, <1>7, <1>8 DEF HostReachable

\* What a late handler removes besides its own session can only be found under an
\* id that two objects had.
LEMMA SignalClosedReachable ==
    ASSUME Inv, Placed, HostReachable, NEW k \in Sockets, SignalClosed(k)
    PROVE  HostReachable'
<1> DEFINE s == sess[k]
           r == Role(k)
<1>1. /\ k \in InviteSockets \cup ClientSockets /\ s \in Sessions /\ state[k] = "CLOSING"
      /\ s # None
  BY Kinds DEF SignalClosed, Sockets, Inv, TypeOK
<1>2. PICK B : state' = StateAfter({k}, B)
  BY DEF SignalClosed
<1>3. \A c \in InviteSockets : state'[c] = "OPEN" => state[c] = "OPEN" /\ c # k
  BY <1>1, <1>2, StateAfterStep, Kinds DEF Inv, TypeOK
<1>4. id' = id
  BY DEF SignalClosed
<1>5. CASE UNCHANGED <<sess, sessions>>
  BY <1>3, <1>4, <1>5, SameMapReachable
<1>6. CASE /\ RemoveSessions({s}, attached')
           /\ r = "host" \/ managedHostId[s] # None \/ attached'[s]["host"] = None
  <2>1. ASSUME NEW c \in InviteSockets, state'[c] = "OPEN"
        PROVE  sess[c] \notin {s}
    <3>1. /\ c # k /\ sess[c] \in Sessions /\ attached[sess[c]]["host"] = c
      <4>1. c # k /\ state[c] = "OPEN"
        BY <1>3, <2>1
      <4>2. c \in Sockets /\ Role(c) = "host"
        BY Kinds DEF Role
      <4>3. sess[c] # None /\ attached[sess[c]][Role(c)] = c
        BY <4>1 DEF Placed
      <4>4. sess[c] \in Sessions
        BY <4>2, <4>3 DEF Inv, TypeOK
      <4> QED
        BY <4>1, <4>2, <4>3, <4>4
    <3>2. SUFFICES ASSUME sess[c] = s PROVE FALSE
      OBVIOUS
    <3>3. managedHostId[s] = None
      BY <1>1, <3>1, <3>2, Kinds DEF Inv, Links, SessionLinks
    <3>4. attached[s][r] = k
      BY <1>1 DEF Placed
    <3>5. r = "client"
      BY <1>1, <3>1, <3>2, <3>4 DEF Role
    <3>6. attached'[s]["host"] = attached[s]["host"]
      <4>1. attached' \in {attached, [attached EXCEPT ![s][r] = None]}
        BY DEF SignalClosed, RemoveSessions
      <4>2. attached \in [Sessions -> [Roles -> Sockets \cup {None}]]
        BY DEF Inv, TypeOK
      <4> QED
        BY <1>1, <3>5, <4>1, <4>2 DEF Roles
    <3> QED
      BY <1>6, <3>1, <3>2, <3>3, <3>5, <3>6, Kinds
  <2>2. {s} \in SUBSET Sessions
    BY <1>1
  <2>3. \A c \in InviteSockets :
          state'[c] = "OPEN" => state[c] = "OPEN" /\ sess[c] \notin {s}
    BY <1>3, <2>1
  <2> HIDE DEF s
  <2> QED
    BY <1>4, <1>6, <2>2, <2>3, RemovalReachable
<1> QED
  BY <1>5, <1>6 DEF SignalClosed, RemoveSessions

\* Every step leaves open hosts where their clients look for them.
LEMMA NextReachable ==
    ASSUME Inv, Placed, HostReachable, [Next]_vars
    PROVE  HostReachable'
<1> DEFINE Calm == /\ UNCHANGED <<sessions, id>>
                   /\ \A k \in InviteSockets :
                        sess'[k] = sess[k] /\ (state'[k] = "OPEN" => state[k] = "OPEN")
<1>0. Calm => HostReachable'
  BY SameMapReachable
<1>1. ASSUME NEW k \in Sockets, Reject(k) PROVE Calm
  BY <1>1, Kinds DEF Reject, sessionVars, Inv, TypeOK
<1>2. ASSUME NEW k \in InviteSockets, NEW i \in InviteIds, InviteHostUpgrade(k, i)
      PROVE  HostReachable'
  BY <1>0, <1>1, <1>2, Kinds, InviteHostUpgradeReachable
<1>3. ASSUME NEW k \in ClientSockets, NEW i \in Ids, ClientUpgrade(k, i)
      PROVE  Calm
  <2>1. ASSUME NEW s, Attach(k, "client", s, id), UNCHANGED sessions PROVE Calm
    BY <2>1, Kinds DEF Attach, Inv, TypeOK
  <2> QED
    BY <1>1, <1>3, <2>1, Kinds DEF ClientUpgrade
<1>4. ASSUME NEW k \in ManagedSockets, NEW h \in HostIds, ManagedHostUpgrade(k, h)
      PROVE  Calm
  <2>1. RegisterHost(k, h) => Calm
    BY Kinds DEF RegisterHost, sessionVars, Inv, TypeOK
  <2> QED
    BY <1>1, <1>4, <2>1, Kinds DEF ManagedHostUpgrade
<1>5. ASSUME NEW h \in HostIds, RebindHost(h) \/ DeleteHost(h) PROVE Calm
  <2>1. UNCHANGED <<sess, sessions, id>> /\ \E B : state' = StateAfter({}, B)
    BY <1>5 DEF RebindHost, DeleteHost, ReplaceToken, sessionVars
  <2> QED
    BY <2>1, StateAfterStep, Kinds DEF Inv, TypeOK
<1>6. ASSUME NEW h \in HostIds, Connect(h) PROVE HostReachable'
  BY <1>6, ConnectReachable
<1>7. ASSUME NEW k \in Sockets,
             \/ Message(k) \/ UnexpectedMessage(k) \/ Pong(k) \/ PeerCloses(k)
             \/ RejectedClosed(k)
      PROVE  Calm
  <2>1. /\ UNCHANGED <<sess, sessions, id>>
        /\ state' = state \/ \E A, B : state' = StateAfter(A, B)
    BY <1>7 DEF Message, Relay, UnexpectedMessage, Pong, PeerCloses, RejectedClosed,
                sessionVars
  <2> QED
    BY <2>1, StateAfterStep, Kinds DEF Inv, TypeOK
<1>8. ASSUME NEW k \in Sockets, ManagedHostClosed(k) PROVE HostReachable'
  <2> DEFINE S == {sess[k]} \ {None}
  <2>1. /\ k \in ManagedSockets /\ S \in SUBSET Sessions
        /\ RemoveSessions(S, attached) /\ id' = id
        /\ \E A, B : state' = StateAfter(A, B)
    <3>1. k \in ManagedSockets /\ S \in SUBSET Sessions
      BY <1>8 DEF ManagedHostClosed, Inv, TypeOK, Links, HostLinks
    <3> QED
      BY <1>8, <3>1 DEF ManagedHostClosed
  <2>2. ASSUME NEW c \in InviteSockets, state'[c] = "OPEN"
        PROVE  state[c] = "OPEN" /\ sess[c] \notin S
    <3>1. state[c] = "OPEN"
      BY <2>1, <2>2, StateAfterStep, Kinds DEF Inv, TypeOK
    <3>2. sess[c] # None /\ attached[sess[c]]["host"] = c
      BY <3>1, Kinds DEF Placed, Role
    <3>3. sess[k] # None => attached[sess[k]]["host"] = k
      BY <2>1 DEF Inv, LeaseConsistent
    <3> QED
      BY <2>1, <3>1, <3>2, <3>3, Kinds
  <2> HIDE DEF S
  <2> QED
    BY <2>1, <2>2, RemovalReachable
<1>9. CASE Heartbeat
  <2>1. PICK B : /\ state' = StateAfter({}, B)
                 /\ Swept \subseteq B
                 /\ RemoveSessions(Idle, attached) /\ id' = id
    BY <1>9 DEF Heartbeat
  <2>2. ASSUME NEW c \in InviteSockets, state'[c] = "OPEN"
        PROVE  state[c] = "OPEN" /\ sess[c] \notin Idle
    <3>1. state[c] = "OPEN" /\ c \notin B
      BY <2>1, <2>2, Kinds DEF StateAfter
    <3>2. sess[c] \in Sessions /\ attached[sess[c]]["host"] = c
      BY <3>1, Kinds DEF Placed, Role, Inv, TypeOK
    <3>3. managedHostId[sess[c]] = None
      BY <3>2, Kinds DEF Inv, Links, SessionLinks
    <3>4. sess[c] \in Idle => c \in Swept
      BY <3>2, <3>3 DEF Swept
    <3> QED
      BY <2>1, <3>1, <3>4
  <2>3. Idle \in SUBSET Sessions
    BY DEF Idle
  <2> QED
    BY <2>1, <2>2, <2>3, RemovalReachable
<1>10. CASE Tick \/ UNCHANGED vars
  BY <1>0, <1>10 DEF Tick, vars, socketVars, sessionVars
<1> HIDE DEF Calm
<1> QED
  BY <1>0, <1>2, <1>3, <1>4, <1>5, <1>6, <1>7, <1>8, <1>9, <1>10, SignalClosedReachable
  DEF Next

\* A host that waits for its invited clients is found under its id for as long as no
\* other session object had that id, however close events, reclaims and sweeps of
\* other sessions interleave.
THEOREM Reachable == Spec => []HostReachable
<1>1. Init => Inv /\ Placed /\ HostReachable
  BY InitInv, Kinds DEF Init, Placed, HostReachable, IsOpen, Roles
<1>2. Inv /\ Placed /\ HostReachable /\ [Next]_vars
        => Inv' /\ Placed' /\ HostReachable'
  BY NextInv, NextPlaced, NextReachable
<1> QED
  BY <1>1, <1>2, PTL DEF Spec

---------------------------------------------------------------------------
(* The refinement of HostLease.  Its variables, host by host and session by *)
(* session:                                                                 *)

LeaseOf(h) == IF managedHosts[h] = None THEN None ELSE sess[managedHosts[h]]
Engaged(h) == /\ managedHosts[h] # None /\ sess[managedHosts[h]] # None
              /\ IsOpen(attached[sess[managedHosts[h]]]["client"])
Spent(s) == managedHostId[s] # None /\ (~InMap(s) \/ attached[s]["client"] # None)

\* A step that ends leases and client connections, and grants nothing.
LEMMA ReleaseStep ==
    ASSUME \A h \in HostIds : LeaseOf(h)' \in {LeaseOf(h), None},
           \A h \in HostIds : Engaged(h)' => Engaged(h) /\ LeaseOf(h)' # None,
           managedHostId' = managedHostId,
           \A s \in Sessions : Spent(s)' <=>
             \/ Spent(s)
             \/ s # None /\ \E h \in HostIds : LeaseOf(h) = s /\ LeaseOf(h)' = None,
           \A h \in HostIds : LeaseOf(h) \in Sessions \cup {None}
    PROVE  Lease!Next
<1>1. PICK D \in SUBSET HostIds : D = {h \in HostIds : ~Engaged(h)'}
  OBVIOUS
<1>2. PICK R \in SUBSET HostIds : R = {h \in HostIds : LeaseOf(h)' = None}
  OBVIOUS
<1>3. {h \in HostIds : Engaged(h)}' = {h \in HostIds : Engaged(h)} \ (D \cup R)
  BY <1>1, <1>2
<1>4. [h \in HostIds |-> LeaseOf(h)]'
        = [h \in HostIds |-> IF h \in R THEN None ELSE [g \in HostIds |-> LeaseOf(g)][h]]
  BY <1>2
<1>5. {s \in Sessions : Spent(s)}'
        = {s \in Sessions : Spent(s)}
            \cup ({[g \in HostIds |-> LeaseOf(g)][h] : h \in R} \ {None})
  BY <1>2
<1>6. {s \in Sessions : managedHostId[s] # None}' = {s \in Sessions : managedHostId[s] # None}
  OBVIOUS
<1>7. Lease!Release(D, R)
  BY <1>3, <1>4, <1>5, <1>6 DEF Lease!Release, Lease!Leases, LeaseOf, Engaged, Spent
<1>8. \E E, F \in SUBSET HostIds : Lease!Release(E, F)
  BY <1>7
<1> QED
  BY <1>8 DEF Lease!Next

\* A lease is a session of the Map that was given for this very host.
LEMMA LeaseFacts ==
    ASSUME Inv, NEW h \in HostIds
    PROVE  /\ managedHosts[h] \in ManagedSockets \cup {None}
           /\ LeaseOf(h) \in Sessions \cup {None}
           /\ LeaseOf(h) # None =>
                /\ managedHosts[h] # None /\ managedHosts[h] \in Sockets
                /\ sess[managedHosts[h]] = LeaseOf(h)
                /\ InMap(LeaseOf(h)) /\ managedHostId[LeaseOf(h)] = h
                /\ managedHostId[LeaseOf(h)] # None
                /\ attached[LeaseOf(h)]["client"] \in ClientSockets \cup {None}
<1>1. managedHosts[h] \in ManagedSockets \cup {None}
  BY DEF Inv, TypeOK
<1>2. LeaseOf(h) \in Sessions \cup {None}
  BY <1>1, Kinds DEF LeaseOf, Inv, TypeOK
<1>3. ASSUME LeaseOf(h) # None
      PROVE  /\ managedHosts[h] # None /\ managedHosts[h] \in ManagedSockets
             /\ sess[managedHosts[h]] = LeaseOf(h) /\ hostId[managedHosts[h]] = h
  BY <1>1, <1>3 DEF LeaseOf, Inv, Links, HostLinks
<1>4. ASSUME LeaseOf(h) # None
      PROVE  InMap(LeaseOf(h)) /\ managedHostId[LeaseOf(h)] = h
  BY <1>3, <1>4 DEF Inv, LeaseConsistent
<1>5. ASSUME LeaseOf(h) # None
      PROVE  attached[LeaseOf(h)]["client"] \in ClientSockets \cup {None}
  BY <1>2, <1>5 DEF Inv, Links, SessionLinks
<1> QED
  BY <1>1, <1>2, <1>3, <1>4, <1>5, Kinds

\* What an open lease is engaged with: a client connection that is open.
LEMMA EngagedFacts ==
    ASSUME NEW h \in HostIds
    PROVE  Engaged(h) <=> LeaseOf(h) # None /\ IsOpen(attached[LeaseOf(h)]["client"])
BY DEF Engaged, LeaseOf

\* Handlers that at most close connections end no lease and start none.
LEMMA QuietLease ==
    ASSUME Inv, UNCHANGED <<sess, managedHosts, sessions, id, managedHostId>>,
           \A s \in Sessions :
             managedHostId[s] # None => attached'[s]["client"] = attached[s]["client"],
           \A k \in Sockets : state'[k] = "OPEN" => state[k] = "OPEN"
    PROVE  Lease!Next
<1>1. \A h \in HostIds : LeaseOf(h)' = LeaseOf(h)
  BY DEF LeaseOf
<1>2. \A h \in HostIds : LeaseOf(h) \in Sessions \cup {None}
  BY LeaseFacts
<1>3. ASSUME NEW h \in HostIds, Engaged(h)' PROVE Engaged(h) /\ LeaseOf(h)' # None
  <2> DEFINE l == LeaseOf(h)
  <2>1. /\ l # None /\ LeaseOf(h)' = l
        /\ IsOpen(attached[l]["client"])'
    BY <1>1, <1>3, EngagedFacts DEF Engaged, LeaseOf
  <2>2. l \in Sessions /\ managedHostId[l] # None
        /\ attached[l]["client"] \in ClientSockets \cup {None}
    BY <2>1, LeaseFacts
  <2>3. IsOpen(attached[l]["client"])
    <3>1. attached'[l]["client"] = attached[l]["client"]
      BY <2>2
    <3>2. attached'[l]["client"] # None /\ state'[attached'[l]["client"]] = "OPEN"
      BY <1>1, <2>1 DEF IsOpen
    <3> QED
      BY <2>2, <3>1, <3>2, Kinds DEF IsOpen
  <2> QED
    BY <2>1, <2>3, EngagedFacts
<1>4. \A s \in Sessions : Spent(s)' = Spent(s)
  BY DEF Spent, InMap
<1> QED
  BY <1>1, <1>2, <1>3, <1>4, ReleaseStep

\* removeSession ends the leases on the sessions it removes, and no other.
LEMMA RemovalLease ==
    ASSUME Inv, NEW S \in SUBSET Sessions,
           NEW att \in [Sessions -> [Roles -> Sockets \cup {None}]],
           \A s \in Sessions, r \in Roles : att[s][r] \in {attached[s][r], None},
           \A s \in Sessions : managedHostId[s] # None =>
             /\ att[s]["host"] = attached[s]["host"]
             /\ s \notin S => att[s]["client"] = attached[s]["client"],
           RemoveSessions(S, att), UNCHANGED <<id, managedHostId>>,
           \A h \in HostIds :
             \/ managedHosts'[h] = managedHosts[h]
             \/ managedHosts'[h] = None /\ sess[managedHosts[h]] \in S \cup {None},
           \A k \in Sockets : state'[k] = "OPEN" => state[k] = "OPEN"
    PROVE  Lease!Next
<1>1. /\ attached' = att
      /\ \A k \in Sockets : sess'[k] \in {sess[k], None}
      /\ \A k \in ManagedSockets : sess'[k] # None => sess'[k] \notin S
      /\ \A k \in Sockets : sess[k] \notin S => sess'[k] = sess[k]
      /\ \A s \in Sessions : InMap(s)' => InMap(s) /\ s \notin S
      /\ \A s \in Sessions \ S : managedHostId[s] # None /\ InMap(s) => InMap(s)'
  BY RemovalFrame
<1>2. \A h \in HostIds : LeaseOf(h) \in Sessions \cup {None}
  BY LeaseFacts
<1>3. ASSUME NEW h \in HostIds PROVE LeaseOf(h)' \in {LeaseOf(h), None}
  <2>1. managedHosts[h] \in Sockets \cup {None}
    BY LeaseFacts, Kinds
  <2> QED
    BY <1>1, <2>1 DEF LeaseOf
<1>4. ASSUME NEW h \in HostIds, Engaged(h)' PROVE Engaged(h) /\ LeaseOf(h)' # None
  <2> DEFINE l == LeaseOf(h)
  <2>1. l # None /\ LeaseOf(h)' = l
    BY <1>3, <1>4 DEF Engaged, LeaseOf
  <2>2. att[l]["client"] # None /\ state'[att[l]["client"]] = "OPEN"
    BY <1>1, <1>4, <2>1 DEF Engaged, LeaseOf, IsOpen
  <2>3. l \in Sessions /\ attached[l]["client"] \in ClientSockets \cup {None}
    BY <2>1, LeaseFacts
  <2>4. att[l]["client"] = attached[l]["client"]
    BY <2>2, <2>3 DEF Roles
  <2>5. IsOpen(attached[l]["client"])
    BY <2>2, <2>3, <2>4, Kinds DEF IsOpen
  <2> QED
    BY <2>1, <2>5, EngagedFacts
<1>5. ASSUME NEW s \in Sessions, Spent(s)'
      PROVE  \/ Spent(s)
             \/ s # None /\ \E h \in HostIds : LeaseOf(h) = s /\ LeaseOf(h)' = None
  <2> SUFFICES ASSUME InMap(s), attached[s]["client"] = None
               PROVE  \E h \in HostIds : LeaseOf(h) = s /\ LeaseOf(h)' = None
    BY <1>5, Kinds DEF Spent
  <2>1. managedHostId[s] # None /\ managedHostId[s] \in HostIds
    BY <1>5 DEF Spent, Inv, TypeOK
  <2>2. attached'[s]["client"] = None
    BY <1>1 DEF Roles
  <2>3. s \in S
    BY <1>1, <1>5, <2>1, <2>2 DEF Spent
  <2> DEFINE k == managedHosts[managedHostId[s]]
  <2>4. k # None /\ sess[k] = s /\ k \in ManagedSockets /\ k \in Sockets
    BY <2>1, Kinds DEF Inv, TypeOK, LeaseConsistent
  <2>5. sess'[k] = None
    BY <1>1, <2>3, <2>4
  <2>6. LeaseOf(managedHostId[s]) = s
    BY <2>4 DEF LeaseOf
  <2>7. LeaseOf(managedHostId[s])' = None
    <3>1. managedHosts'[managedHostId[s]] \in {k, None}
      BY <2>1
    <3> QED
      BY <2>5, <3>1 DEF LeaseOf
  <2> QED
    BY <2>1, <2>6, <2>7
<1>6. ASSUME NEW s \in Sessions, Spent(s) PROVE Spent(s)'
  BY <1>1, <1>6 DEF Spent
<1>7. ASSUME NEW s \in Sessions, NEW h \in HostIds, s # None,
             LeaseOf(h) = s, LeaseOf(h)' = None
      PROVE  Spent(s)'
  <2>1. /\ managedHosts[h] # None /\ managedHosts[h] \in Sockets
        /\ sess[managedHosts[h]] = s /\ managedHostId[s] # None
    BY <1>7, LeaseFacts
  <2>2. s \in S
    BY <1>1, <1>7, <2>1 DEF LeaseOf
  <2> QED
    BY <1>1, <2>1, <2>2 DEF Spent
<1> QED
  BY <1>2, <1>3, <1>4, <1>5, <1>6, <1>7, ReleaseStep

\* The two other steps of HostLease, in the same terms.
LEMMA EngageStep ==
    ASSUME NEW h \in HostIds, LeaseOf(h) # None, ~Spent(LeaseOf(h)),
           LeaseOf(h) \in Sessions,
           \A g \in HostIds : LeaseOf(g)' = LeaseOf(g),
           \A g \in HostIds : Engaged(g)' <=> Engaged(g) \/ g = h,
           managedHostId' = managedHostId,
           \A s \in Sessions : Spent(s)' <=> Spent(s) \/ s = LeaseOf(h)
    PROVE  Lease!Next
<1>1. [g \in HostIds |-> LeaseOf(g)]' = [g \in HostIds |-> LeaseOf(g)]
  OBVIOUS
<1>2. {g \in HostIds : Engaged(g)}' = {g \in HostIds : Engaged(g)} \cup {h}
  OBVIOUS
<1>3. {s \in Sessions : Spent(s)}'
        = {s \in Sessions : Spent(s)} \cup {[g \in HostIds |-> LeaseOf(g)][h]}
  OBVIOUS
<1>4. {s \in Sessions : managedHostId[s] # None}' = {s \in Sessions : managedHostId[s] # None}
  OBVIOUS
<1>5. [g \in HostIds |-> LeaseOf(g)][h] \notin {s \in Sessions : Spent(s)} \cup {None}
  OBVIOUS
<1>6. Lease!Engage(h)
  BY <1>1, <1>2, <1>3, <1>4, <1>5 DEF Lease!Engage, LeaseOf, Engaged, Spent
<1> QED
  BY <1>6 DEF Lease!Next

LEMMA GrantStep ==
    ASSUME NEW h \in HostIds, NEW new \in Sessions, ~Engaged(h), managedHostId[new] = None,
           LeaseOf(h)' = new,
           \A g \in HostIds \ {h} : LeaseOf(g)' = LeaseOf(g),
           \A g \in HostIds : Engaged(g)' <=> Engaged(g),
           \A s \in Sessions : managedHostId'[s] # None <=> managedHostId[s] # None \/ s = new,
           LeaseOf(h) \in Sessions \cup {None},
           \A s \in Sessions : Spent(s)' <=> Spent(s) \/ (s # None /\ s = LeaseOf(h))
    PROVE  Lease!Next
<1>1. [g \in HostIds |-> LeaseOf(g)]'
        = [[g \in HostIds |-> LeaseOf(g)] EXCEPT ![h] = new]
  OBVIOUS
<1>2. {g \in HostIds : Engaged(g)}' = {g \in HostIds : Engaged(g)}
  OBVIOUS
<1>3. {s \in Sessions : Spent(s)}'
        = {s \in Sessions : Spent(s)}
            \cup ({[g \in HostIds |-> LeaseOf(g)][f] : f \in {h}} \ {None})
  OBVIOUS
<1>4. {s \in Sessions : managedHostId[s] # None}'
        = {s \in Sessions : managedHostId[s] # None} \cup {new}
  OBVIOUS
<1>5. h \notin {g \in HostIds : Engaged(g)} /\ new \notin {s \in Sessions : managedHostId[s] # None}
  OBVIOUS
<1>6. Lease!Grant(h, new)
  BY <1>1, <1>2, <1>3, <1>4, <1>5 DEF Lease!Grant, Lease!Leases, LeaseOf, Engaged, Spent
<1> QED
  BY <1>6 DEF Lease!Next

\* A connection to /signal that joins changes nothing for other sessions.
LEMMA AttachFrame ==
    ASSUME Inv, Placed, NEW k \in InviteSockets \cup ClientSockets, NEW s \in Sessions,
           NEW objs, Attach(k, Role(k), s, objs)
    PROVE  /\ \A h \in HostIds : LeaseOf(h)' = LeaseOf(h)
           /\ \A h \in HostIds : LeaseOf(h) # s => (Engaged(h)' <=> Engaged(h))
           /\ \A t \in Sessions \ {s} : attached'[t] = attached[t]
           /\ attached'[s][Role(k)] = k /\ state'[k] = "OPEN"
           /\ managedHostId' = managedHostId /\ managedHosts' = managedHosts
<1>1. /\ state[k] = "free" /\ k \in Sockets /\ k \notin ManagedSockets /\ Role(k) \in Roles
      /\ state' = [state EXCEPT ![k] = "OPEN"]
      /\ sess' = [sess EXCEPT ![k] = s]
      /\ attached' = [attached EXCEPT ![s][Role(k)] = k]
      /\ managedHostId' = managedHostId /\ managedHosts' = managedHosts
  BY Kinds DEF Attach, Role, Roles, hostVars
<1>2. \A t \in Sessions \ {s} : attached'[t] = attached[t]
  BY <1>1 DEF Inv, TypeOK
<1>3. ASSUME NEW h \in HostIds PROVE LeaseOf(h)' = LeaseOf(h)
  <2>1. managedHosts[h] \in ManagedSockets \cup {None}
    BY LeaseFacts
  <2> QED
    BY <1>1, <2>1, Kinds DEF LeaseOf, Inv, TypeOK
<1>4. ASSUME NEW h \in HostIds, LeaseOf(h) # s
      PROVE  (Engaged(h)' <=> Engaged(h))
  <2>1. CASE LeaseOf(h) = None
    BY <1>3, <2>1 DEF Engaged, LeaseOf
  <2>2. CASE LeaseOf(h) # None
    <3> DEFINE l == LeaseOf(h)
               c == attached[l]["client"]
    <3>1. l \in Sessions \ {s} /\ l # None /\ c \in ClientSockets \cup {None}
      BY <1>4, <2>2, LeaseFacts
    <3>2. c # None => c # k /\ c \in Sockets
      BY <1>1, <3>1, Kinds DEF Placed, Inv, Links, SessionLinks
    <3>3. attached'[l]["client"] = c /\ (c # None => state'[c] = state[c])
      BY <1>1, <1>2, <3>1, <3>2 DEF Inv, TypeOK
    <3>4. Engaged(h) <=> IsOpen(c)
      BY <3>1, EngagedFacts
    <3>5. Engaged(h)' <=> attached'[l]["client"] # None
                          /\ state'[attached'[l]["client"]] = "OPEN"
      <4>1. Engaged(h)' <=> LeaseOf(h)' # None /\ IsOpen(attached[LeaseOf(h)]["client"])'
        BY DEF Engaged, LeaseOf
      <4>2. IsOpen(attached[LeaseOf(h)]["client"])' <=>
              attached'[LeaseOf(h)']["client"] # None
                /\ state'[attached'[LeaseOf(h)']["client"]] = "OPEN"
        BY DEF IsOpen
      <4> QED
        BY <1>3, <3>1, <4>1, <4>2
    <3> QED
      BY <3>3, <3>4, <3>5 DEF IsOpen
  <2> QED
    BY <2>1, <2>2
<1>5. attached'[s][Role(k)] = k /\ state'[k] = "OPEN"
  BY <1>1 DEF Inv, TypeOK
<1> QED
  BY <1>1, <1>2, <1>3, <1>4, <1>5

\* A client that is admitted engages the host of a managed session, once.
LEMMA ClientUpgradeLease ==
    ASSUME Inv, Placed, NEW k \in ClientSockets, NEW i \in Ids, ClientUpgrade(k, i), ~Reject(k)
    PROVE  Lease!Next
<1> DEFINE s == sessions[i]
<1>1. /\ s # None /\ s \in Sessions /\ attached[s]["client"] = None
      /\ Attach(k, "client", s, id) /\ UNCHANGED <<sessions, id>>
  BY DEF ClientUpgrade, Attach, Inv, TypeOK
<1>2. Role(k) = "client" /\ k \in InviteSockets \cup ClientSockets /\ k # None
  BY Kinds DEF Role
<1>3. /\ \A h \in HostIds : LeaseOf(h)' = LeaseOf(h)
      /\ \A h \in HostIds : LeaseOf(h) # s => (Engaged(h)' <=> Engaged(h))
      /\ \A t \in Sessions \ {s} : attached'[t] = attached[t]
      /\ attached'[s]["client"] = k /\ state'[k] = "OPEN"
      /\ managedHostId' = managedHostId /\ managedHosts' = managedHosts
  BY <1>1, <1>2, AttachFrame
<1>4. InMap(s) /\ \A t \in Sessions : InMap(t)' <=> InMap(t)
  BY <1>1, Kinds DEF InMap, Inv, Links, SessionLinks
<1>5. \A h \in HostIds : LeaseOf(h) \in Sessions \cup {None}
  BY LeaseFacts
<1>6. \A t \in Sessions : Spent(t)' <=> Spent(t) \/ (t = s /\ managedHostId[s] # None)
  BY <1>1, <1>2, <1>3, <1>4 DEF Spent
<1> HIDE DEF s
<1>7. CASE managedHostId[s] = None
  <2>1. \A h \in HostIds : LeaseOf(h) # s
    BY <1>7, <1>1, LeaseFacts
  <2> QED
    BY <1>3, <1>5, <1>6, <1>7, <2>1, ReleaseStep DEF Engaged, LeaseOf
<1>8. CASE managedHostId[s] # None
  <2>1. PICK h \in HostIds : h = managedHostId[s] /\ LeaseOf(h) = s
    BY <1>1, <1>4, <1>8 DEF Inv, TypeOK, LeaseConsistent, LeaseOf
  <2>2. \A g \in HostIds : g # h => LeaseOf(g) # s
    BY <1>1, <2>1, LeaseFacts
  <2>3. Engaged(h)'
    <3>1. LeaseOf(h)' = s
      BY <1>3, <2>1
    <3> QED
      BY <1>1, <1>2, <1>3, <3>1 DEF Engaged, LeaseOf, IsOpen
  <2>4. ~Spent(s)
    BY <1>1, <1>4 DEF Spent
  <2>5. \A g \in HostIds : Engaged(g)' <=> Engaged(g) \/ g = h
    BY <1>3, <2>1, <2>2, <2>3
  <2>6. \A t \in Sessions : Spent(t)' <=> Spent(t) \/ t = LeaseOf(h)
    BY <1>6, <1>8, <2>1
  <2> QED
    BY <1>1, <1>3, <2>1, <2>4, <2>5, <2>6, EngageStep
<1> QED
  BY <1>7, <1>8

\* A host that waits for invited clients concerns no lease.
LEMMA InviteHostUpgradeLease ==
    ASSUME Inv, Placed, NEW k \in InviteSockets, NEW i \in InviteIds,
           InviteHostUpgrade(k, i), ~Reject(k)
    PROVE  Lease!Next
<1> DEFINE s == sessions[i]
<1>1. PICK joined \in Sessions :
        /\ IF s = None THEN id[joined] = None ELSE joined = s
        /\ sessions' = [sessions EXCEPT ![i] = joined]
        /\ Attach(k, "host", joined, [id EXCEPT ![joined] = i])
  BY DEF InviteHostUpgrade
<1>2. /\ Role(k) = "host" /\ k \in InviteSockets \cup ClientSockets /\ i \in Ids
      /\ id' = [id EXCEPT ![joined] = i]
  BY <1>1, Kinds DEF Role, Attach
<1>3. managedHostId[joined] = None
  <2>1. s # None => id[s] = i
    BY <1>2 DEF Inv, Links, SessionLinks
  <2>2. id[joined] = None \/ id[joined] = i
    BY <1>1, <2>1
  <2> QED
    BY <1>1, <2>2, Kinds DEF Inv, Links, SessionLinks
<1>4. /\ \A h \in HostIds : LeaseOf(h)' = LeaseOf(h)
      /\ \A h \in HostIds : LeaseOf(h) # joined => (Engaged(h)' <=> Engaged(h))
      /\ \A t \in Sessions \ {joined} : attached'[t] = attached[t]
      /\ managedHostId' = managedHostId
  BY <1>1, <1>2, AttachFrame
<1>5. \A h \in HostIds : LeaseOf(h) \in Sessions \cup {None} /\ LeaseOf(h) # joined
  BY <1>3, LeaseFacts, Kinds
<1>6. \A h \in HostIds : Engaged(h)' => Engaged(h) /\ LeaseOf(h)' # None
  BY <1>4, <1>5 DEF Engaged, LeaseOf
<1>7. ASSUME NEW t \in Sessions PROVE Spent(t)' <=> Spent(t)
  <2> SUFFICES ASSUME managedHostId[t] # None
               PROVE  Spent(t)' <=> Spent(t)
    BY <1>4 DEF Spent
  <2>1. t # joined /\ id[t] = t /\ t # i /\ t \in Ids
    BY <1>3, Kinds DEF Inv, Links, SessionLinks
  <2>2. id'[t] = t /\ sessions'[t] = sessions[t]
    BY <1>1, <1>2, <2>1 DEF Inv, TypeOK
  <2> QED
    BY <1>4, <2>1, <2>2 DEF Spent, InMap
<1> QED
  BY <1>4, <1>5, <1>6, <1>7, ReleaseStep

\* A host that connects has no lease yet.
LEMMA RegisterHostLease ==
    ASSUME Inv, NEW k \in ManagedSockets, NEW h \in HostIds, RegisterHost(k, h)
    PROVE  Lease!Next
<1>1. /\ managedHosts[h] = None /\ sess[k] = None /\ k \in Sockets
      /\ managedHosts' = [managedHosts EXCEPT ![h] = k]
      /\ state' = [state EXCEPT ![k] = "OPEN"]
      /\ UNCHANGED <<sess, sessions, id, attached, managedHostId>>
  BY Kinds DEF RegisterHost, sessionVars, Inv, TypeOK, Links, SessionLinks
<1>2. \A g \in HostIds : LeaseOf(g) \in Sessions \cup {None} /\ LeaseOf(g)' = LeaseOf(g)
  <2>1. \A g \in HostIds : LeaseOf(g) \in Sessions \cup {None}
    BY LeaseFacts
  <2>2. \A g \in HostIds : LeaseOf(g)' = LeaseOf(g)
    BY <1>1 DEF LeaseOf, Inv, TypeOK
  <2> QED
    BY <2>1, <2>2
<1>3. ASSUME NEW g \in HostIds, Engaged(g)' PROVE Engaged(g) /\ LeaseOf(g)' # None
  <2> DEFINE l == LeaseOf(g)
  <2>1. LeaseOf(g)' = l /\ l # None
    BY <1>2, <1>3 DEF Engaged, LeaseOf
  <2>2. attached[l]["client"] # None /\ state'[attached[l]["client"]] = "OPEN"
    BY <1>1, <1>3, <2>1 DEF Engaged, LeaseOf, IsOpen
  <2>3. attached[l]["client"] \in ClientSockets \cup {None}
    BY <2>1, LeaseFacts
  <2>4. IsOpen(attached[l]["client"])
    BY <1>1, <2>2, <2>3, Kinds DEF IsOpen, Inv, TypeOK
  <2> QED
    BY <2>1, <2>4, EngagedFacts
<1>4. \A s \in Sessions : Spent(s)' <=> Spent(s)
  BY <1>1 DEF Spent, InMap
<1> QED
  BY <1>1, <1>2, <1>3, <1>4, ReleaseStep

\* /connect gives a lease only on a host that no client is using.
LEMMA ConnectLease ==
    ASSUME Inv, Placed, NEW h \in HostIds, Connect(h)
    PROVE  Lease!Next
<1> DEFINE k == managedHosts[h]
           old == LeaseOf(h)
           gone == IF old = None THEN {} ELSE {old}
<1>1. /\ k \in ManagedSockets /\ k \in Sockets /\ k # None /\ old = sess[k] /\ h # None
      /\ old \in Sessions \cup {None} /\ (old # None => id[old] = old /\ ~InUse(old))
  BY Kinds, LeaseFacts DEF Connect, IsOpen, LeaseOf, Inv, Links, SessionLinks, TypeOK
<1>2. PICK new \in Sessions :
        /\ id[new] = None
        /\ id' = [id EXCEPT ![new] = new]
        /\ sessions' = [SessionsWithout(gone) EXCEPT ![new] = new]
        /\ attached' = [attached EXCEPT ![new]["host"] = k]
        /\ managedHostId' = [managedHostId EXCEPT ![new] = h]
        /\ sess' = [sess EXCEPT ![k] = new]
        /\ state' = StateAfter({}, {attached[s]["client"] : s \in gone})
        /\ managedHosts' = managedHosts
  BY <1>1 DEF Connect, LeaseOf, hostVars
<1>3. /\ managedHostId[new] = None /\ attached[new]["client"] = None /\ new # None
      /\ new # old /\ new \in Ids /\ \A g \in HostIds : LeaseOf(g) # new
  <2>1. managedHostId[new] = None /\ attached[new]["client"] = None /\ new # None /\ new \in Ids
    BY <1>2, Kinds DEF Inv, Links, SessionLinks
  <2> QED
    BY <1>1, <2>1, LeaseFacts
<1> HIDE DEF k, old
<1>4. /\ \A s \in Sessions : s # new => /\ id'[s] = id[s] /\ attached'[s] = attached[s]
                                        /\ managedHostId'[s] = managedHostId[s]
      /\ id'[new] = new /\ attached'[new]["client"] = None /\ managedHostId'[new] = h
      /\ sessions'[new] = new
  BY <1>1, <1>2, <1>3 DEF Inv, TypeOK, Roles, SessionsWithout
\* Only the client of the old session is closed, and it was not open.
<1>5. state' = state
  <2>1. \A s \in gone : ~IsOpen(attached[s]["client"])
    BY <1>1 DEF InUse
  <2> QED
    BY <1>2, <2>1, Kinds DEF StateAfter, IsOpen, Inv, TypeOK
<1>6. \A g \in HostIds : g # h => managedHosts[g] # k
  BY <1>1 DEF k, Inv, Links, HostLinks
<1>7. LeaseOf(h)' = new /\ \A g \in HostIds \ {h} : LeaseOf(g)' = LeaseOf(g)
  BY <1>1, <1>2, <1>6, Kinds DEF LeaseOf, k, Inv, TypeOK
<1>8. ~Engaged(h)
  BY <1>1, EngagedFacts DEF old, InUse
<1>9. ASSUME NEW g \in HostIds PROVE Engaged(g)' <=> Engaged(g)
  <2>0. Engaged(g)' <=> /\ LeaseOf(g)' # None
                        /\ attached'[LeaseOf(g)']["client"] # None
                        /\ state'[attached'[LeaseOf(g)']["client"]] = "OPEN"
    BY DEF Engaged, LeaseOf, IsOpen
  <2>1. CASE g = h
    BY <1>4, <1>7, <1>8, <2>0, <2>1
  <2>2. CASE g # h
    <3>1. LeaseOf(g)' = LeaseOf(g) /\ LeaseOf(g) \in Sessions \cup {None} /\ LeaseOf(g) # new
      BY <1>3, <1>7, <2>2, LeaseFacts
    <3>2. LeaseOf(g) # None => attached'[LeaseOf(g)] = attached[LeaseOf(g)]
      BY <1>4, <3>1
    <3> QED
      BY <1>5, <2>0, <3>1, <3>2, EngagedFacts DEF IsOpen
  <2> QED
    BY <2>1, <2>2
<1>10. ASSUME NEW s \in Sessions
       PROVE  Spent(s)' <=> Spent(s) \/ (s # None /\ s = old)
  <2>1. CASE s = new
    <3>1. InMap(new)'
      BY <1>3, <1>4 DEF InMap
    <3> QED
      BY <1>3, <1>4, <2>1, <3>1 DEF Spent, InMap
  <2>2. CASE s # new
    <3> SUFFICES ASSUME managedHostId[s] # None
                 PROVE  Spent(s)' <=> Spent(s) \/ s = old
      BY <1>1, <1>4, <2>2, Kinds, LeaseFacts DEF Spent, old
    <3>1. id[s] = s /\ id'[s] = s /\ s # None /\ s \in Ids
      BY <1>4, <2>2, Kinds DEF Inv, Links, SessionLinks
    <3>2. sessions'[s] = IF s = old THEN None ELSE sessions[s]
      BY <1>1, <1>2, <2>2, <3>1 DEF SessionsWithout, Inv, TypeOK
    <3>3. InMap(s)' <=> InMap(s) /\ s # old
      BY <3>1, <3>2 DEF InMap
    <3> QED
      BY <1>4, <2>2, <3>3 DEF Spent
  <2> QED
    BY <2>1, <2>2
<1> QED
  BY <1>1, <1>3, <1>4, <1>7, <1>8, <1>9, <1>10, GrantStep DEF old

\* A late close handler ends the lease of the session it captured, if that is one.
LEMMA SignalClosedLease ==
    ASSUME Inv, NEW k \in Sockets, SignalClosed(k)
    PROVE  Lease!Next
<1> DEFINE s == sess[k]
           r == Role(k)
           att == IF attached[s][r] = k THEN [attached EXCEPT ![s][r] = None] ELSE attached
<1>1. /\ s \in Sessions /\ r \in Roles /\ k \notin ManagedSockets
      /\ r = "host" <=> k \notin ClientSockets
  BY DEF SignalClosed, Inv, TypeOK, Role, Roles
<1>2. /\ UNCHANGED <<managedHosts, id, managedHostId>>
      /\ \A c \in Sockets : state'[c] = "OPEN" => state[c] = "OPEN"
  BY StateAfterStep DEF SignalClosed, hostVars, Inv, TypeOK
<1>3. attached[s][r] = k => r = "client" \/ managedHostId[s] = None
  BY <1>1, Kinds DEF Inv, Links, SessionLinks, Roles
<1>4. attached \in [Sessions -> [Roles -> Sockets \cup {None}]]
  BY DEF Inv, TypeOK
<1>5. CASE RemoveSessions({s}, att)
  <2> HIDE DEF s, r
  <2>1. /\ att \in [Sessions -> [Roles -> Sockets \cup {None}]]
        /\ \A t \in Sessions, q \in Roles : att[t][q] \in {attached[t][q], None}
    BY <1>1, <1>4
  <2>2. \A t \in Sessions : managedHostId[t] # None =>
          /\ att[t]["host"] = attached[t]["host"]
          /\ t \notin {s} => att[t]["client"] = attached[t]["client"]
    BY <1>1, <1>3, <1>4 DEF Roles
  <2>3. {s} \in SUBSET Sessions
    BY <1>1
  <2> HIDE DEF att
  <2> QED
    BY <1>2, <1>5, <2>1, <2>2, <2>3, RemovalLease
<1>6. CASE /\ attached' = att /\ UNCHANGED <<sess, sessions>>
           /\ managedHostId[s] = None
  <2>1. \A t \in Sessions : managedHostId[t] # None
                              => attached'[t]["client"] = attached[t]["client"]
    BY <1>1, <1>4, <1>6
  <2> QED
    BY <1>2, <1>6, <2>1, QuietLease
<1> QED
  BY <1>5, <1>6 DEF SignalClosed

\* Every step of the relay is a step of HostLease or leaves it alone.
LEMMA NextLease ==
    ASSUME Inv, Placed, [Next]_vars
    PROVE  [Lease!Next]_(Lease!vars)
<1> DEFINE Calm == /\ UNCHANGED <<sess, managedHosts, sessions, id, managedHostId, attached>>
                   /\ \A k \in Sockets : state'[k] = "OPEN" => state[k] = "OPEN"
<1>0. Calm => Lease!Next
  BY QuietLease
<1>1. ASSUME NEW k \in Sockets, Reject(k) PROVE Calm
  BY <1>1 DEF Reject, sessionVars, hostVars, Inv, TypeOK
<1>2. ASSUME NEW k \in InviteSockets, NEW i \in InviteIds, InviteHostUpgrade(k, i)
      PROVE  Lease!Next
  BY <1>0, <1>1, <1>2, Kinds, InviteHostUpgradeLease
<1>3. ASSUME NEW k \in ClientSockets, NEW i \in Ids, ClientUpgrade(k, i)
      PROVE  Lease!Next
  BY <1>0, <1>1, <1>3, Kinds, ClientUpgradeLease
<1>4. ASSUME NEW k \in ManagedSockets, NEW h \in HostIds, ManagedHostUpgrade(k, h)
      PROVE  Lease!Next
  BY <1>0, <1>1, <1>4, Kinds, RegisterHostLease DEF ManagedHostUpgrade
<1>5. ASSUME NEW h \in HostIds, RebindHost(h) \/ DeleteHost(h) PROVE Calm
  <2>1. /\ UNCHANGED <<sess, managedHosts, sessions, id, managedHostId, attached>>
        /\ \E B : state' = StateAfter({}, B)
    BY <1>5 DEF RebindHost, DeleteHost, ReplaceToken, sessionVars
  <2> QED
    BY <2>1, StateAfterStep DEF Inv, TypeOK
<1>6. ASSUME NEW h \in HostIds, Connect(h) PROVE Lease!Next
  BY <1>6, ConnectLease
<1>7. ASSUME NEW k \in Sockets,
             \/ Message(k) \/ UnexpectedMessage(k) \/ Pong(k) \/ PeerCloses(k)
             \/ RejectedClosed(k)
      PROVE  Calm
  <2>1. /\ UNCHANGED <<sess, managedHosts, sessions, id, managedHostId, attached>>
        /\ state' = state \/ \E A, B : state' = StateAfter(A, B)
    BY <1>7 DEF Message, Relay, UnexpectedMessage, Pong, PeerCloses, RejectedClosed,
                sessionVars, hostVars
  <2> QED
    BY <2>1, StateAfterStep DEF Inv, TypeOK
<1>8. ASSUME NEW k \in Sockets, SignalClosed(k) PROVE Lease!Next
  BY <1>8, SignalClosedLease
<1>9. ASSUME NEW k \in Sockets, ManagedHostClosed(k) PROVE Lease!Next
  <2> DEFINE S == {sess[k]} \ {None}
  <2>1. /\ RemoveSessions(S, attached) /\ UNCHANGED <<id, managedHostId>>
        /\ managedHosts' = [managedHosts EXCEPT ![hostId[k]] = IF @ = k THEN None ELSE @]
        /\ \E A, B : state' = StateAfter(A, B)
    BY <1>9 DEF ManagedHostClosed
  <2>2. S \in SUBSET Sessions /\ attached \in [Sessions -> [Roles -> Sockets \cup {None}]]
    BY DEF Inv, TypeOK
  <2>3. \A h \in HostIds :
          \/ managedHosts'[h] = managedHosts[h]
          \/ managedHosts'[h] = None /\ sess[managedHosts[h]] \in S \cup {None}
    BY <2>1 DEF Inv, TypeOK
  <2>4. \A c \in Sockets : state'[c] = "OPEN" => state[c] = "OPEN"
    BY <2>1, StateAfterStep DEF Inv, TypeOK
  <2>5. \A s \in Sessions, r \in Roles : attached[s][r] \in {attached[s][r], None}
    OBVIOUS
  <2> HIDE DEF S
  <2> QED
    BY <2>1, <2>2, <2>3, <2>4, <2>5, RemovalLease
<1>10. CASE Heartbeat
  <2>1. /\ RemoveSessions(Idle, attached) /\ UNCHANGED <<id, managedHostId, managedHosts>>
        /\ \E B : state' = StateAfter({}, B)
    BY <1>10 DEF Heartbeat, hostVars
  <2>2. Idle \in SUBSET Sessions /\ attached \in [Sessions -> [Roles -> Sockets \cup {None}]]
    BY DEF Idle, Inv, TypeOK
  <2>3. \A c \in Sockets : state'[c] = "OPEN" => state[c] = "OPEN"
    BY <2>1, StateAfterStep DEF Inv, TypeOK
  <2>4. \A s \in Sessions, r \in Roles : attached[s][r] \in {attached[s][r], None}
    OBVIOUS
  <2> QED
    BY <2>1, <2>2, <2>3, <2>4, RemovalLease
<1>11. CASE Tick
  BY <1>0, <1>11 DEF Tick, socketVars, hostVars, sessionVars
<1>12. CASE UNCHANGED vars
  BY <1>12 DEF vars, Lease!vars, IsOpen, InMap
<1> HIDE DEF Calm
<1> QED
  BY <1>0, <1>2, <1>3, <1>4, <1>5, <1>6, <1>7, <1>8, <1>9, <1>10, <1>11, <1>12 DEF Next

\* The relay implements HostLease: a host is leased to one session at a time, no lease
\* is taken from a client that is connected, a session is granted once and admits one
\* client, whatever its handlers interleave with.
THEOREM ImplementsLease == Spec => RefinesLease
<1>1. Init => Inv /\ Placed
  BY InitInv, Kinds DEF Init, Placed, Roles
<1>2. Inv /\ Placed /\ [Next]_vars => Inv' /\ Placed'
  BY NextInv, NextPlaced
<1>3. Init => Lease!Init
  BY DEF Init, Lease!Init
<1>4. Inv /\ Placed /\ [Next]_vars => [Lease!Next]_(Lease!vars)
  BY NextLease
<1> QED
  BY <1>1, <1>2, <1>3, <1>4, PTL DEF Spec, RefinesLease, Lease!Spec

---------------------------------------------------------------------------
\* What the pending queues hold, and how the handlers change it.
Filed ==
    \A S \in SUBSET Sessions :
      /\ \A e \in QueuedFrames(S) : e \in (S \X Roles) \X Nat
      /\ \A s, r, n : <<<<s, r>>, n>> \in QueuedFrames(S) <=>
           s \in S /\ r \in Roles /\ n \in 1..Len(pending[s][r])

LEMMA FramesOf == Inv => Filed
<1> SUFFICES ASSUME Inv, NEW S \in SUBSET Sessions
             PROVE  /\ \A e \in QueuedFrames(S) : e \in (S \X Roles) \X Nat
                    /\ \A s, r, n : <<<<s, r>>, n>> \in QueuedFrames(S) <=>
                         s \in S /\ r \in Roles /\ n \in 1..Len(pending[s][r])
  BY DEF Filed
<1>1. \A s \in Sessions, r \in Roles :
        DOMAIN pending[s][r] = 1..Len(pending[s][r]) /\ Len(pending[s][r]) \in Nat
  BY DEF Inv, TypeOK
<1>2. ASSUME NEW e
      PROVE  e \in QueuedFrames(S) <=>
               \E q \in S \X Roles : e \in {q} \X DOMAIN pending[q[1]][q[2]]
  BY Zenon DEF QueuedFrames
<1>3. ASSUME NEW e, NEW s \in S, NEW r \in Roles
      PROVE  e \in {<<s, r>>} \X DOMAIN pending[s][r] <=>
               \E n \in 1..Len(pending[s][r]) : e = <<<<s, r>>, n>>
  BY <1>1
<1>4. ASSUME NEW e
      PROVE  e \in QueuedFrames(S) <=>
               \E s \in S, r \in Roles : \E n \in 1..Len(pending[s][r]) : e = <<<<s, r>>, n>>
  <2>1. ASSUME NEW q \in S \X Roles
        PROVE  e \in {q} \X DOMAIN pending[q[1]][q[2]] =>
                 \E s \in S, r \in Roles : \E n \in 1..Len(pending[s][r]) : e = <<<<s, r>>, n>>
    <3>1. PICK s \in S, r \in Roles : q = <<s, r>>
      OBVIOUS
    <3> QED
      BY <1>3, <3>1
  <2>2. ASSUME NEW s \in S, NEW r \in Roles, e \in {<<s, r>>} \X DOMAIN pending[s][r]
        PROVE  \E q \in S \X Roles : e \in {q} \X DOMAIN pending[q[1]][q[2]]
    <3>1. <<s, r>> \in S \X Roles /\ <<s, r>>[1] = s /\ <<s, r>>[2] = r
      OBVIOUS
    <3> QED
      BY <2>2, <3>1, Zenon
  <2> QED
    BY <1>2, <1>3, <2>1, <2>2
<1>5. \A s \in S, r \in Roles : \A n \in 1..Len(pending[s][r]) : n \in Nat
  BY <1>1
<1>6. \A e \in QueuedFrames(S) : e \in (S \X Roles) \X Nat
  <2> SUFFICES ASSUME NEW e \in QueuedFrames(S) PROVE e \in (S \X Roles) \X Nat
    OBVIOUS
  <2>1. PICK s \in S, r \in Roles : \E n \in 1..Len(pending[s][r]) : e = <<<<s, r>>, n>>
    BY <1>4
  <2> QED
    BY <1>5, <2>1
<1>7. ASSUME NEW s, NEW r, NEW n
      PROVE  <<<<s, r>>, n>> \in QueuedFrames(S) <=>
               s \in S /\ r \in Roles /\ n \in 1..Len(pending[s][r])
  BY <1>4
<1> QED
  BY <1>6, <1>7

\* The count, as the proof needs it.
Counted ==
    /\ IsFiniteSet(QueuedFrames(Sessions))
    /\ totalPendingBytes = Queued(Sessions)
    /\ totalPendingBytes <= MaxTotalPending
    /\ \A s \in Sessions, r \in Roles : Len(pending[s][r]) <= MaxPending

\* Dropping queues, and counting them off, keeps the count right.
LEMMA DropCounted ==
    ASSUME Inv, Inv', Counted, NEW D \in SUBSET QueuedFrames(Sessions),
           totalPendingBytes' = totalPendingBytes - Cardinality(D),
           \A s \in Sessions, r \in Roles :
             \/ /\ pending'[s][r] = pending[s][r]
                /\ \A n : <<<<s, r>>, n>> \notin D
             \/ /\ pending'[s][r] = << >>
                /\ \A n \in 1..Len(pending[s][r]) : <<<<s, r>>, n>> \in D
    PROVE  Counted'
<1> DEFINE F == QueuedFrames(Sessions)
<1>1. /\ \A e \in F : e \in (Sessions \X Roles) \X Nat
      /\ \A s, r, n : <<<<s, r>>, n>> \in F <=>
           s \in Sessions /\ r \in Roles /\ n \in 1..Len(pending[s][r])
  BY FramesOf DEF Filed
<1>2. /\ \A e \in F' : e \in (Sessions \X Roles) \X Nat
      /\ \A s, r, n : <<<<s, r>>, n>> \in F' <=>
           s \in Sessions /\ r \in Roles /\ n \in 1..Len(pending'[s][r])
  <2>1. Filed'
    BY FramesOf, PTL
  <2> QED
    BY <2>1 DEF Filed
<1>3. ASSUME NEW s \in Sessions, NEW r \in Roles, NEW n
      PROVE  n \in 1..Len(pending'[s][r]) <=>
               n \in 1..Len(pending[s][r]) /\ <<<<s, r>>, n>> \notin D
  OBVIOUS
<1>4. IsFiniteSet(F) /\ D \subseteq F
  BY DEF Counted
<1>5. F' = F \ D
  <2> HIDE DEF F
  <2>1. ASSUME NEW e \in F' PROVE e \in F \ D
    BY <1>1, <1>2, <1>3, <2>1
  <2>2. ASSUME NEW e \in F \ D PROVE e \in F'
    BY <1>1, <1>2, <1>3, <2>2
  <2> QED
    BY <2>1, <2>2
<1>6. /\ IsFiniteSet(F \ D)
      /\ Cardinality(F \ D) = Cardinality(F) - Cardinality(D)
      /\ Cardinality(F) \in Nat /\ Cardinality(D) \in Nat
  <2>1. IsFiniteSet(D)
    BY <1>4, FS_Subset
  <2>2. F \cap D = D
    BY <1>4
  <2>3. /\ IsFiniteSet(F \ D)
        /\ Cardinality(F \ D) = Cardinality(F) - Cardinality(F \cap D)
    BY <1>4, FS_Difference
  <2> QED
    BY <1>4, <2>1, <2>2, <2>3, FS_CardinalityType
<1>7. totalPendingBytes' = Cardinality(F') /\ totalPendingBytes' <= MaxTotalPending
  <2>1. totalPendingBytes = Cardinality(F) /\ totalPendingBytes <= MaxTotalPending
    BY DEF Counted, Queued
  <2> HIDE DEF F
  <2> QED
    BY <1>5, <1>6, <2>1, LimitsAssumption
<1>8. \A s \in Sessions, r \in Roles : Len(pending'[s][r]) <= MaxPending
  BY LimitsAssumption DEF Counted
<1> QED
  BY <1>5, <1>6, <1>7, <1>8 DEF Counted, Queued

\* discardPending for the sessions that are removed.
LEMMA RemoveCounted ==
    ASSUME Inv, Inv', Counted, NEW S \in SUBSET Sessions,
           pending' = PendingWithout(S),
           totalPendingBytes' = totalPendingBytes - Discarded(S)
    PROVE  Counted'
<1> DEFINE D == QueuedFrames(S)
<1>1. /\ \A e \in QueuedFrames(Sessions) : e \in (Sessions \X Roles) \X Nat
      /\ \A s, r, n : <<<<s, r>>, n>> \in QueuedFrames(Sessions) <=>
           s \in Sessions /\ r \in Roles /\ n \in 1..Len(pending[s][r])
  BY FramesOf DEF Filed
<1>2. /\ \A e \in D : e \in (S \X Roles) \X Nat
      /\ \A s, r, n : <<<<s, r>>, n>> \in D <=>
           s \in S /\ r \in Roles /\ n \in 1..Len(pending[s][r])
  BY FramesOf DEF Filed
<1>3. totalPendingBytes' = totalPendingBytes - Cardinality(D)
  BY DEF Discarded, Queued
<1> HIDE DEF D
<1>4. D \in SUBSET QueuedFrames(Sessions)
  BY <1>1, <1>2
<1>5. ASSUME NEW s \in Sessions, NEW r \in Roles
      PROVE  \/ /\ pending'[s][r] = pending[s][r]
                /\ \A n : <<<<s, r>>, n>> \notin D
             \/ /\ pending'[s][r] = << >>
                /\ \A n \in 1..Len(pending[s][r]) : <<<<s, r>>, n>> \in D
  <2>1. pending'[s][r] = IF s \in S THEN << >> ELSE pending[s][r]
    BY DEF PendingWithout, NoFrames
  <2> QED
    BY <1>2, <2>1
<1> QED
  BY <1>3, <1>4, <1>5, DropCounted

\* The frames of one queue are sent, or dropped, and counted off.
LEMMA EmptyCounted ==
    ASSUME Inv, Inv', Counted, NEW s \in Sessions, NEW r \in Roles,
           pending' = [pending EXCEPT ![s][r] = << >>],
           totalPendingBytes' = totalPendingBytes - Len(pending[s][r])
    PROVE  Counted'
<1> DEFINE D == {<<s, r>>} \X (1..Len(pending[s][r]))
<1>1. Len(pending[s][r]) \in Nat
  BY DEF Inv, TypeOK
<1>2. Cardinality(D) = Len(pending[s][r])
  <2>1. /\ IsFiniteSet({<<s, r>>}) /\ Cardinality({<<s, r>>}) = 1
    BY FS_Singleton
  <2>2. /\ IsFiniteSet(1..Len(pending[s][r]))
        /\ Cardinality(1..Len(pending[s][r])) = Len(pending[s][r])
    <3>1. \A a, b \in Int : /\ IsFiniteSet(a..b)
                            /\ Cardinality(a..b) = IF a > b THEN 0 ELSE b - a + 1
      BY FS_Interval, Zenon
    <3>2. PICK n \in Nat : n = Len(pending[s][r])
      BY <1>1
    <3>3. IsFiniteSet(1..n) /\ Cardinality(1..n) = IF 1 > n THEN 0 ELSE n - 1 + 1
      <4>1. 1 \in Int /\ n \in Int
        BY <3>2
      <4> QED
        BY <3>1, <4>1, Zenon
    <3>4. Cardinality(1..n) = n
      BY <3>3
    <3> QED
      BY <3>2, <3>3, <3>4
  <2>3. Cardinality(D) = Cardinality({<<s, r>>}) * Cardinality(1..Len(pending[s][r]))
    BY <2>1, <2>2, FS_Product
  <2> QED
    BY <1>1, <2>1, <2>2, <2>3
<1>3. /\ \A t, q, n : <<<<t, q>>, n>> \in QueuedFrames(Sessions) <=>
           t \in Sessions /\ q \in Roles /\ n \in 1..Len(pending[t][q])
  BY FramesOf DEF Filed
<1>4. \A t, q, n : <<<<t, q>>, n>> \in D <=>
                     t = s /\ q = r /\ n \in 1..Len(pending[s][r])
  OBVIOUS
<1>5. D \in SUBSET QueuedFrames(Sessions)
  <2>1. ASSUME NEW e \in D PROVE e \in QueuedFrames(Sessions)
    <3>1. PICK n \in 1..Len(pending[s][r]) : e = <<<<s, r>>, n>>
      OBVIOUS
    <3> QED
      BY <1>3, <3>1
  <2> QED
    BY <2>1
<1> HIDE DEF D
<1>6. ASSUME NEW t \in Sessions, NEW q \in Roles
      PROVE  \/ /\ pending'[t][q] = pending[t][q]
                /\ \A n : <<<<t, q>>, n>> \notin D
             \/ /\ pending'[t][q] = << >>
                /\ \A n \in 1..Len(pending[t][q]) : <<<<t, q>>, n>> \in D
  <2>1. pending'[t][q] = IF t = s /\ q = r THEN << >> ELSE pending[t][q]
    BY DEF Inv, TypeOK
  <2> QED
    BY <1>4, <2>1
<1> QED
  BY <1>2, <1>5, <1>6, DropCounted

\* enqueueFor adds one frame, within the limits.
LEMMA AppendCounted ==
    ASSUME Inv, Inv', Counted, NEW s \in Sessions, NEW r \in Roles, NEW to,
           Len(pending[s][r]) < MaxPending, totalPendingBytes < MaxTotalPending,
           pending' = [pending EXCEPT ![s][r] = Append(pending[s][r], to)],
           totalPendingBytes' = totalPendingBytes + 1,
           to \in Sockets \cup {None}
    PROVE  Counted'
<1> DEFINE F == QueuedFrames(Sessions)
           x == <<<<s, r>>, Len(pending[s][r]) + 1>>
<1>1. /\ \A e \in F : e \in (Sessions \X Roles) \X Nat
      /\ \A t, q, n : <<<<t, q>>, n>> \in F <=>
           t \in Sessions /\ q \in Roles /\ n \in 1..Len(pending[t][q])
  BY FramesOf DEF Filed
<1>2. /\ \A e \in F' : e \in (Sessions \X Roles) \X Nat
      /\ \A t, q, n : <<<<t, q>>, n>> \in F' <=>
           t \in Sessions /\ q \in Roles /\ n \in 1..Len(pending'[t][q])
  <2>1. Filed'
    BY FramesOf, PTL
  <2> QED
    BY <2>1 DEF Filed
<1>3. /\ Len(pending[s][r]) \in Nat /\ Len(pending'[s][r]) = Len(pending[s][r]) + 1
      /\ \A t \in Sessions, q \in Roles :
           t # s \/ q # r => pending'[t][q] = pending[t][q]
  BY DEF Inv, TypeOK
<1>4. IsFiniteSet(F) /\ totalPendingBytes = Cardinality(F)
      /\ \A t \in Sessions, q \in Roles : Len(pending[t][q]) <= MaxPending
  BY DEF Counted, Queued
<1> HIDE DEF F
<1>5. x \notin F
  BY <1>1, <1>3
<1>6. F' = F \cup {x}
  <2>1. ASSUME NEW t \in Sessions, NEW q \in Roles, NEW n
        PROVE  n \in 1..Len(pending'[t][q]) <=>
                 n \in 1..Len(pending[t][q])
                   \/ (t = s /\ q = r /\ n = Len(pending[s][r]) + 1)
    <3>1. CASE t = s /\ q = r
      BY <1>3, <3>1
    <3>2. CASE t # s \/ q # r
      BY <1>3, <3>2
    <3> QED
      BY <3>1, <3>2
  <2>2. ASSUME NEW t \in Sessions, NEW q \in Roles, NEW n \in Nat
        PROVE  <<<<t, q>>, n>> \in F' <=> <<<<t, q>>, n>> \in F \cup {x}
    BY <1>1, <1>2, <2>1
  <2>3. x \in (Sessions \X Roles) \X Nat
    BY <1>3
  <2> HIDE DEF x
  <2>4. F' \subseteq (Sessions \X Roles) \X Nat /\ F \cup {x} \subseteq (Sessions \X Roles) \X Nat
    BY <1>1, <1>2, <2>3
  <2> QED
    BY <2>2, <2>4
<1> HIDE DEF x
<1>7. IsFiniteSet(F \cup {x}) /\ Cardinality(F \cup {x}) = Cardinality(F) + 1
      /\ Cardinality(F) \in Nat
  BY <1>4, <1>5, FS_AddElement, FS_CardinalityType
<1>8. totalPendingBytes' = Cardinality(F') /\ totalPendingBytes' <= MaxTotalPending
      /\ IsFiniteSet(F')
  BY <1>4, <1>6, <1>7, LimitsAssumption
<1>9. \A t \in Sessions, q \in Roles : Len(pending'[t][q]) <= MaxPending
  BY <1>3, <1>4, LimitsAssumption
<1> QED
  BY <1>8, <1>9 DEF Counted, Queued, F

---------------------------------------------------------------------------
\* The host of an invite session stays connected for as long as the session names it,
\* and a session that clients can find has a host.
Hosted ==
    \A s \in Sessions :
        /\ attached[s]["host"] \in InviteSockets =>
             /\ sess[attached[s]["host"]] = s
             /\ state[attached[s]["host"]] # "CLOSED"
        /\ InMap(s) => attached[s]["host"] # None

\* Connections to /signal keep their session until they closed.
Steady(K) == \A k \in K : sess[k] # None => /\ sess'[k] = sess[k]
                                            /\ state[k] # "CLOSED" => state'[k] # "CLOSED"

\* Closing a connection takes its close event, not only a call of close().
LEMMA StillThere ==
    ASSUME Inv, NEW A, NEW B, state' = StateAfter(A, B)
    PROVE  \A k \in Sockets : k \notin A /\ state[k] # "CLOSED" => state'[k] # "CLOSED"
<1> SUFFICES ASSUME NEW k \in Sockets, k \notin A, state[k] # "CLOSED"
             PROVE  state'[k] # "CLOSED"
  OBVIOUS
<1>1. state'[k] \in {state[k], "CLOSING"}
  BY DEF StateAfter
<1> QED
  BY <1>1

LEMMA StillHosted ==
    ASSUME Inv, Hosted, Steady(InviteSockets),
           \A s \in Sessions : /\ attached'[s]["host"] = attached[s]["host"]
                               /\ InMap(s)' => InMap(s)
    PROVE  Hosted'
BY Kinds DEF Hosted, Steady

\* A session the Map forgot keeps frames only while a connection of it can send.
Kept ==
    \A s \in Sessions, r \in Roles :
        pending[s][r] # << >> /\ ~InMap(s) =>
          \E k \in Sockets \ ManagedSockets : sess[k] = s /\ state[k] # "CLOSED"

LEMMA StillKept ==
    ASSUME Inv, Hosted, Kept, Steady(InviteSockets \cup ClientSockets),
           \A s \in Sessions, r \in Roles : pending'[s][r] # << >> =>
             /\ pending[s][r] # << >>
             /\ InMap(s) /\ managedHostId[s] # None => InMap(s)'
    PROVE  Kept'
<1> SUFFICES ASSUME NEW s \in Sessions, NEW r \in Roles,
                    pending'[s][r] # << >>, ~InMap(s)'
             PROVE  \E k \in Sockets \ ManagedSockets : sess'[k] = s /\ state'[k] # "CLOSED"
  BY DEF Kept
<1>1. \E k \in Sockets \ ManagedSockets : sess[k] = s /\ state[k] # "CLOSED"
  <2>1. CASE ~InMap(s)
    BY <2>1 DEF Kept
  <2>2. CASE InMap(s)
    BY <2>2, Kinds DEF Hosted, Inv, Links, SessionLinks
  <2> QED
    BY <2>1, <2>2
<1> QED
  BY <1>1, Kinds DEF Steady, Sockets

\* A frame is queued only for a session that clients find, or by a connection that is
\* still there.
LEMMA MessagePending ==
    ASSUME Inv, Inv', Counted, Hosted, Kept, NEW k \in Sockets, Message(k)
    PROVE  Counted' /\ Hosted' /\ Kept'
<1> DEFINE s == sess[k]
           dest == PeerRole(Role(k))
           to == attached[s][dest]
<1>1. s \in Sessions /\ dest \in Roles /\ to \in Sockets \cup {None}
      /\ state[k] \in {"OPEN", "CLOSING"}
  BY DEF Message, Inv, TypeOK, PeerRole, Role, Roles
<1>2. /\ UNCHANGED <<sess, sessions, id, attached>>
      /\ \E B : state' = StateAfter({}, B)
  <2>1. state' = state => state' = StateAfter({}, {})
    BY DEF StateAfter, Inv, TypeOK
  <2> QED
    BY <2>1 DEF Message, Relay, sessionVars
<1>3. \/ UNCHANGED <<pending, totalPendingBytes>>
      \/ /\ Len(pending[s][dest]) < MaxPending /\ totalPendingBytes < MaxTotalPending
         /\ pending' = [pending EXCEPT ![s][dest] = Append(pending[s][dest], to)]
         /\ totalPendingBytes' = totalPendingBytes + 1
  BY DEF Message, Relay, queueVars
<1>4. Steady(InviteSockets \cup ClientSockets)
  <2>1. PICK B : state' = StateAfter({}, B)
    BY <1>2
  <2>2. \A c \in Sockets : state[c] # "CLOSED" => state'[c] # "CLOSED"
    BY <2>1, StillThere
  <2> QED
    BY <1>2, <2>2, Kinds DEF Steady
<1>5. Hosted'
  BY <1>2, <1>4, StillHosted DEF Steady, InMap
<1> HIDE DEF s, dest, to
<1>6. Counted'
  <2>1. CASE UNCHANGED <<pending, totalPendingBytes>>
    BY <2>1 DEF Counted, Queued, QueuedFrames
  <2> QED
    BY <1>1, <1>3, <2>1, AppendCounted
<1>7. Kept'
  <2>1. CASE UNCHANGED <<pending, totalPendingBytes>>
    BY <1>2, <1>4, <2>1, StillKept DEF InMap
  <2>2. CASE pending' = [pending EXCEPT ![s][dest] = Append(pending[s][dest], to)]
    <3> SUFFICES ASSUME NEW t \in Sessions, NEW r \in Roles,
                        pending'[t][r] # << >>, ~InMap(t)'
                 PROVE  \E c \in Sockets \ ManagedSockets :
                          sess'[c] = t /\ state'[c] # "CLOSED"
      BY DEF Kept
    <3>1. ~InMap(t)
      BY <1>2 DEF InMap
    <3>2. \E c \in Sockets \ ManagedSockets : sess[c] = t /\ state[c] # "CLOSED"
      <4>1. CASE t = s
        <5>1. k \notin ManagedSockets
          BY <1>1, <3>1, <4>1, Kinds DEF s, Inv, LeaseConsistent
        <5> QED
          BY <1>1, <4>1, <5>1 DEF s
      <4>2. CASE t # s
        <5>1. pending'[t][r] = pending[t][r]
          BY <2>2, <4>2 DEF Inv, TypeOK
        <5> QED
          BY <3>1, <5>1 DEF Kept
      <4> QED
        BY <4>1, <4>2
    <3> QED
      BY <1>4, <3>2, Kinds DEF Steady, Sockets
  <2> QED
    BY <1>3, <2>1, <2>2
<1> QED
  BY <1>5, <1>6, <1>7

\* A connection is attached: what waited for it is sent.
LEMMA AttachPending ==
    ASSUME Inv, Inv', Counted, Hosted, Kept, NEW k \in InviteSockets \cup ClientSockets,
           NEW s \in Sessions, NEW objs, Attach(k, Role(k), s, objs),
           \A t \in Sessions : InMap(t) /\ managedHostId[t] # None => InMap(t)'
    PROVE  Counted' /\ Kept'
<1> DEFINE r == Role(k)
<1>1. /\ k \in Sockets /\ r \in Roles /\ state[k] = "free" /\ sess[k] = None
      /\ state' = [state EXCEPT ![k] = "OPEN"] /\ sess' = [sess EXCEPT ![k] = s]
      /\ pending' = [pending EXCEPT ![s][r] = << >>]
      /\ totalPendingBytes' = totalPendingBytes - Len(pending[s][r])
  BY Kinds DEF Attach, Role, Roles, Inv, Links, SessionLinks
<1>2. Steady(InviteSockets \cup ClientSockets)
  BY <1>1, Kinds DEF Steady, Inv, TypeOK
<1> HIDE DEF r
<1>3. \A t \in Sessions, q \in Roles : pending'[t][q] # << >> => pending[t][q] # << >>
  BY <1>1 DEF Inv, TypeOK
<1>4. Counted'
  BY <1>1, EmptyCounted
<1>5. Kept'
  BY <1>2, <1>3, StillKept
<1> QED
  BY <1>4, <1>5

LEMMA InviteHostUpgradePending ==
    ASSUME Inv, Inv', Counted, Hosted, Kept,
           NEW k \in InviteSockets, NEW i \in InviteIds, InviteHostUpgrade(k, i), ~Reject(k)
    PROVE  Counted' /\ Hosted' /\ Kept'
<1> DEFINE s == sessions[i]
<1>1. PICK joined \in Sessions :
        /\ IF s = None THEN id[joined] = None ELSE joined = s
        /\ s # None => attached[s]["host"] = None
        /\ sessions' = [sessions EXCEPT ![i] = joined]
        /\ Attach(k, "host", joined, [id EXCEPT ![joined] = i])
  BY DEF InviteHostUpgrade
<1>2. /\ id' = [id EXCEPT ![joined] = i] /\ state[k] = "free"
      /\ state' = [state EXCEPT ![k] = "OPEN"] /\ sess' = [sess EXCEPT ![k] = joined]
      /\ attached' = [attached EXCEPT ![joined]["host"] = k]
  BY <1>1 DEF Attach
<1>3. /\ i \in Ids /\ k \in Sockets /\ s \in Sessions \cup {None} /\ Role(k) = "host"
      /\ sess[k] = None
  BY <1>2, Kinds DEF Role, Inv, TypeOK, Links, SessionLinks
<1>4. managedHostId[joined] = None \/ id[joined] = None
  BY <1>1, <1>3, Kinds DEF Inv, Links, SessionLinks
<1>5. /\ sessions'[i] = joined /\ sess'[k] = joined /\ state'[k] = "OPEN"
      /\ attached'[joined]["host"] = k
      /\ \A j \in Ids : j # i => sessions'[j] = sessions[j]
      /\ \A t \in Sessions : t # joined => /\ id'[t] = id[t]
                                           /\ attached'[t]["host"] = attached[t]["host"]
      /\ \A c \in Sockets : c # k => state'[c] = state[c] /\ sess'[c] = sess[c]
  BY <1>1, <1>2, <1>3 DEF Inv, TypeOK, Roles
<1>6. \A t \in Sessions : InMap(t) /\ managedHostId[t] # None => InMap(t)'
  <2> SUFFICES ASSUME NEW t \in Sessions, InMap(t), managedHostId[t] # None PROVE InMap(t)'
    OBVIOUS
  <2>1. id[t] = t /\ t # i /\ t \in Ids /\ t # joined
    BY <1>4, Kinds DEF InMap, Inv, Links, SessionLinks
  <2> QED
    BY <1>5, <2>1 DEF InMap
<1>7. Hosted'
  <2> SUFFICES ASSUME NEW t \in Sessions
               PROVE  /\ attached'[t]["host"] \in InviteSockets =>
                           /\ sess'[attached'[t]["host"]] = t
                           /\ state'[attached'[t]["host"]] # "CLOSED"
                      /\ InMap(t)' => attached'[t]["host"] # None
    BY DEF Hosted
  <2>1. CASE t = joined
    BY <1>3, <1>5, <2>1, Kinds
  <2>2. CASE t # joined
    <3>1. InMap(t)' => InMap(t)
      BY <1>5, <2>2 DEF InMap, Inv, TypeOK
    <3>2. attached[t]["host"] \in InviteSockets => attached[t]["host"] # k
      BY <1>3, Kinds DEF Hosted
    <3> QED
      BY <1>5, <2>2, <3>1, <3>2, Kinds DEF Hosted
  <2> QED
    BY <2>1, <2>2
<1> HIDE DEF s
<1>8. Attach(k, Role(k), joined, [id EXCEPT ![joined] = i])
  BY <1>1, <1>3
<1> QED
  BY <1>6, <1>7, <1>8, AttachPending

\* removeSession in a handler that closes no connection to /signal.
LEMMA RemovalPending ==
    ASSUME Inv, Inv', Counted, Hosted, Kept, NEW S \in SUBSET Sessions,
           RemoveSessions(S, attached), id' = id, managedHostId' = managedHostId,
           \A k \in InviteSockets \cup ClientSockets :
             state[k] # "CLOSED" => state'[k] # "CLOSED"
    PROVE  Counted' /\ Hosted' /\ Kept'
<1>1. /\ attached' = attached /\ pending' = PendingWithout(S)
      /\ totalPendingBytes' = totalPendingBytes - Discarded(S)
      /\ \A k \in InviteSockets \cup ClientSockets : sess'[k] = sess[k]
  BY Kinds DEF RemoveSessions, FreedHosts
<1>2. /\ \A s \in Sessions : InMap(s)' => InMap(s) /\ s \notin S
      /\ \A s \in Sessions \ S : managedHostId[s] # None /\ InMap(s) => InMap(s)'
  BY RemovalFrame DEF Inv, TypeOK
<1>3. Steady(InviteSockets) /\ Steady(InviteSockets \cup ClientSockets)
  BY <1>1 DEF Steady
<1>4. Counted'
  BY <1>1, RemoveCounted
<1>5. Hosted'
  BY <1>1, <1>2, <1>3, StillHosted
<1>6. Kept'
  <2>1. ASSUME NEW s \in Sessions, NEW r \in Roles, pending'[s][r] # << >>
        PROVE  s \notin S /\ pending[s][r] # << >>
    BY <1>1, <2>1 DEF PendingWithout, NoFrames
  <2> QED
    BY <1>2, <1>3, <2>1, StillKept
<1> QED
  BY <1>4, <1>5, <1>6

\* /connect drops what the session it reclaims still had.
LEMMA ConnectPending ==
    ASSUME Inv, Inv', Counted, Hosted, Kept, NEW h \in HostIds, Connect(h)
    PROVE  Counted' /\ Hosted' /\ Kept'
<1> DEFINE k == managedHosts[h]
           old == sess[k]
           gone == IF old = None THEN {} ELSE {old}
<1>1. /\ k \in ManagedSockets /\ k # None /\ old \in Sessions \cup {None}
      /\ old # None => id[old] = old
  BY ConnectOld
<1>2. PICK new \in Sessions :
        /\ id[new] = None
        /\ id' = [id EXCEPT ![new] = new]
        /\ sessions' = [SessionsWithout(gone) EXCEPT ![new] = new]
        /\ attached' = [attached EXCEPT ![new]["host"] = k]
        /\ sess' = [sess EXCEPT ![k] = new]
        /\ pending' = PendingWithout(gone)
        /\ totalPendingBytes' = totalPendingBytes - Discarded(gone)
        /\ \E B : state' = StateAfter({}, B)
  BY <1>1 DEF Connect
<1>3. gone \in SUBSET Sessions /\ \A s \in gone : id[s] = s
  BY <1>1
<1> HIDE DEF k, old, gone
<1>4. /\ \A c \in InviteSockets \cup ClientSockets : sess'[c] = sess[c]
      /\ \A c \in InviteSockets \cup ClientSockets :
           state[c] # "CLOSED" => state'[c] # "CLOSED"
  <2>1. \A c \in Sockets : state[c] # "CLOSED" => state'[c] # "CLOSED"
    BY <1>2, StillThere
  <2> QED
    BY <1>1, <1>2, <2>1, Kinds DEF Inv, TypeOK
<1>5. Steady(InviteSockets \cup ClientSockets)
  BY <1>4 DEF Steady
<1>6. /\ attached'[new]["host"] = k
      /\ \A s \in Sessions : s # new => /\ id'[s] = id[s]
                                        /\ attached'[s]["host"] = attached[s]["host"]
      /\ \A i \in Ids : i # new => sessions'[i] = SessionsWithout(gone)[i]
  BY <1>2, Kinds DEF Inv, TypeOK, Roles, SessionsWithout
<1>7. Hosted'
  <2> SUFFICES ASSUME NEW s \in Sessions
               PROVE  /\ attached'[s]["host"] \in InviteSockets =>
                           /\ sess'[attached'[s]["host"]] = s
                           /\ state'[attached'[s]["host"]] # "CLOSED"
                      /\ InMap(s)' => attached'[s]["host"] # None
    BY DEF Hosted
  <2>1. CASE s = new
    BY <1>1, <1>6, <2>1, Kinds
  <2>2. CASE s # new
    <3>1. InMap(s)' => InMap(s)
      <4> SUFFICES ASSUME InMap(s)' PROVE InMap(s)
        OBVIOUS
      <4>1. id'[s] = id[s] /\ id[s] # None /\ id[s] \in Ids /\ sessions'[id[s]] = s
        BY <1>6, <2>2 DEF InMap, Inv, TypeOK
      <4>2. id[s] # new
        BY <1>2, <2>2, <4>1, Kinds DEF Inv, Links, SessionLinks
      <4>3. sessions'[id[s]] = SessionsWithout(gone)[id[s]]
        BY <1>6, <4>1, <4>2
      <4>4. SessionsWithout(gone)[id[s]] \in {sessions[id[s]], None}
        BY <4>1 DEF SessionsWithout
      <4> QED
        BY <4>1, <4>3, <4>4, Kinds DEF InMap
    <3> QED
      BY <1>4, <1>6, <2>2, <3>1 DEF Hosted
  <2> QED
    BY <2>1, <2>2
<1>8. Counted'
  BY <1>2, <1>3, RemoveCounted
<1>9. Kept'
  <2>1. ASSUME NEW s \in Sessions, NEW r \in Roles, pending'[s][r] # << >>
        PROVE  s \notin gone /\ pending[s][r] # << >>
    BY <1>2, <2>1 DEF PendingWithout, NoFrames
  <2>2. ASSUME NEW s \in Sessions, s \notin gone, InMap(s), managedHostId[s] # None
        PROVE  InMap(s)'
    <3>1. id[s] = s /\ s # new /\ s \in Ids /\ s # None /\ sessions[s] = s
      BY <1>2, <2>2, Kinds DEF InMap, Inv, Links, SessionLinks
    <3>2. SessionsWithout(gone)[s] = s
      BY <1>3, <2>2, <3>1 DEF SessionsWithout
    <3> QED
      BY <1>6, <3>1, <3>2 DEF InMap
  <2> QED
    BY <1>5, <2>1, <2>2, StillKept
<1> QED
  BY <1>7, <1>8, <1>9

\* The close handler of a /signal connection: what it leaves queued can still be sent
\* by the host it leaves.
LEMMA SignalClosedPending ==
    ASSUME Inv, Inv', Placed, Counted, Hosted, Kept, NEW k \in Sockets, SignalClosed(k)
    PROVE  Counted' /\ Hosted' /\ Kept'
<1> DEFINE s == sess[k]
           r == Role(k)
           att == IF attached[s][r] = k THEN [attached EXCEPT ![s][r] = None] ELSE attached
<1>1. /\ k \in InviteSockets \cup ClientSockets /\ s \in Sessions /\ r \in Roles
      /\ s # None /\ state[k] = "CLOSING" /\ PeerRole(r) \in Roles
  BY Kinds DEF SignalClosed, Sockets, Inv, TypeOK, Role, Roles, PeerRole
<1>2. PICK B : state' = StateAfter({k}, B)
  BY DEF SignalClosed
<1>3. attached[s][r] = k
  BY <1>1 DEF Placed
<1>4. attached' = [attached EXCEPT ![s][r] = None] /\ id' = id
  BY <1>3 DEF SignalClosed, RemoveSessions
<1>5. \/ /\ r = "host" \/ managedHostId[s] # None \/ attached'[s]["host"] = None
         /\ RemoveSessions({s}, attached')
      \/ /\ r = "client" /\ managedHostId[s] = None /\ attached'[s]["host"] # None
         /\ pending' = [pending EXCEPT ![s][PeerRole(r)] = << >>]
         /\ totalPendingBytes' = totalPendingBytes - Len(pending[s][PeerRole(r)])
         /\ UNCHANGED <<sess, sessions>>
  BY <1>1, <1>3, <1>4 DEF SignalClosed, RemoveSessions, Role
<1>6. \A t \in Sessions, q \in Roles :
        attached'[t][q] = IF t = s /\ q = r THEN None ELSE attached[t][q]
  BY <1>1, <1>4 DEF Inv, TypeOK
<1>7. \A c \in Sockets : c # k /\ state[c] # "CLOSED" => state'[c] # "CLOSED"
  BY <1>2, StillThere
<1>8. \A c \in InviteSockets \cup ClientSockets : sess'[c] = sess[c]
  BY <1>5, Kinds DEF RemoveSessions, FreedHosts
<1>9. r = "host" <=> k \in InviteSockets
  BY <1>1, Kinds DEF Role
<1> HIDE DEF s, r, att
<1>10. CASE RemoveSessions({s}, attached')
  <2>1. /\ pending' = PendingWithout({s})
        /\ totalPendingBytes' = totalPendingBytes - Discarded({s})
    BY <1>10 DEF RemoveSessions
  <2>2. Counted'
    BY <1>1, <2>1, RemoveCounted
  <2>3. /\ \A t \in Sessions : InMap(t)' => InMap(t) /\ t # s
        /\ \A t \in Sessions : t # s /\ managedHostId[t] # None /\ InMap(t) => InMap(t)'
    <3>1. {s} \in SUBSET Sessions /\ attached' \in [Sessions -> [Roles -> Sockets \cup {None}]]
      BY <1>1 DEF Inv, TypeOK
    <3>2. \A t \in Sessions : managedHostId[t] # None
                                => attached'[t]["host"] = attached[t]["host"]
      <4> SUFFICES ASSUME NEW t \in Sessions, managedHostId[t] # None, t = s, r = "host"
                   PROVE  FALSE
        BY <1>6 DEF Roles
      <4> QED
        BY <1>3, <1>9, Kinds DEF Inv, Links, SessionLinks
    <3>3. PICK S, after : S = {s} /\ after = attached'
      OBVIOUS
    <3>4. /\ \A t \in Sessions : InMap(t)' => InMap(t) /\ t \notin S
          /\ \A t \in Sessions \ S : managedHostId[t] # None /\ InMap(t) => InMap(t)'
      <4>1. S \in SUBSET Sessions /\ after \in [Sessions -> [Roles -> Sockets \cup {None}]]
        BY <3>1, <3>3
      <4>2. \A t \in Sessions : managedHostId[t] # None
                                  => after[t]["host"] = attached[t]["host"]
        BY <3>2, <3>3
      <4>3. RemoveSessions(S, after)
        BY <1>10, <3>3
      <4> QED
        BY <1>4, <4>1, <4>2, <4>3, RemovalFrame
    <3> QED
      BY <3>3, <3>4
  <2>4. \A t \in Sessions : t # s => pending'[t] = pending[t]
    BY <2>1 DEF PendingWithout
  <2>5. \A q \in Roles : pending'[s][q] = << >>
    BY <1>1, <2>1 DEF PendingWithout, NoFrames
  <2>6. Hosted'
    <3> SUFFICES ASSUME NEW t \in Sessions
                 PROVE  /\ attached'[t]["host"] \in InviteSockets =>
                             /\ sess'[attached'[t]["host"]] = t
                             /\ state'[attached'[t]["host"]] # "CLOSED"
                        /\ InMap(t)' => attached'[t]["host"] # None
      BY DEF Hosted
    <3>1. ASSUME attached'[t]["host"] \in InviteSockets
          PROVE  /\ sess'[attached'[t]["host"]] = t
                 /\ state'[attached'[t]["host"]] # "CLOSED"
      <4>1. attached'[t]["host"] = attached[t]["host"] /\ ~(t = s /\ r = "host")
        BY <1>6, <3>1, Kinds DEF Roles
      <4>2. sess[attached[t]["host"]] = t /\ state[attached[t]["host"]] # "CLOSED"
        BY <3>1, <4>1 DEF Hosted
      <4>3. attached[t]["host"] # k
        BY <1>9, <3>1, <4>1, <4>2 DEF s
      <4> QED
        BY <1>7, <1>8, <3>1, <4>1, <4>2, <4>3, Kinds
    <3>2. InMap(t)' => attached'[t]["host"] # None
      BY <1>6, <2>3 DEF Hosted, Roles
    <3> QED
      BY <3>1, <3>2
  <2>7. Kept'
    <3> SUFFICES ASSUME NEW t \in Sessions, NEW q \in Roles,
                        pending'[t][q] # << >>, ~InMap(t)'
                 PROVE  \E c \in Sockets \ ManagedSockets :
                          sess'[c] = t /\ state'[c] # "CLOSED"
      BY DEF Kept
    <3>1. t # s /\ pending[t][q] # << >>
      BY <2>4, <2>5
    <3>2. PICK c \in Sockets \ ManagedSockets : sess[c] = t /\ state[c] # "CLOSED"
      <4>1. CASE ~InMap(t)
        BY <3>1, <4>1 DEF Kept
      <4>2. CASE InMap(t)
        <5>1. managedHostId[t] = None
          BY <2>3, <3>1, <4>2
        <5> QED
          BY <4>2, <5>1, Kinds DEF Hosted, Inv, Links, SessionLinks
      <4> QED
        BY <4>1, <4>2
    <3>3. c # k /\ c \in InviteSockets \cup ClientSockets
      BY <3>1, <3>2 DEF s, Sockets
    <3> QED
      BY <1>7, <1>8, <3>2, <3>3
  <2> QED
    BY <2>2, <2>6, <2>7
<1>11. CASE /\ r = "client" /\ managedHostId[s] = None /\ attached'[s]["host"] # None
            /\ pending' = [pending EXCEPT ![s][PeerRole(r)] = << >>]
            /\ totalPendingBytes' = totalPendingBytes - Len(pending[s][PeerRole(r)])
            /\ UNCHANGED <<sess, sessions>>
  <2>1. Counted'
    BY <1>1, <1>11, EmptyCounted
  <2>2. /\ \A t \in Sessions : attached'[t]["host"] = attached[t]["host"]
        /\ \A t \in Sessions : InMap(t)' <=> InMap(t)
    BY <1>4, <1>6, <1>11 DEF InMap, Roles
  <2>3. k \notin InviteSockets
    BY <1>9, <1>11
  <2>4. Steady(InviteSockets)
    BY <1>7, <1>11, <2>3, Kinds DEF Steady
  <2>5. Hosted'
    BY <2>2, <2>4, StillHosted
  <2>6. Kept'
    <3> SUFFICES ASSUME NEW t \in Sessions, NEW q \in Roles,
                        pending'[t][q] # << >>, ~InMap(t)'
                 PROVE  \E c \in Sockets \ ManagedSockets :
                          sess'[c] = t /\ state'[c] # "CLOSED"
      BY DEF Kept
    <3>1. CASE t = s
      <4>1. attached'[s]["host"] \in InviteSockets
        BY <1>1, <1>11, <2>2 DEF Inv, Links, SessionLinks
      <4> QED
        BY <1>1, <2>5, <3>1, <4>1, Kinds DEF Hosted
    <3>2. CASE t # s
      <4>1. pending[t][q] # << >> /\ ~InMap(t)
        BY <1>11, <2>2, <3>2 DEF Inv, TypeOK
      <4>2. PICK c \in Sockets \ ManagedSockets : sess[c] = t /\ state[c] # "CLOSED"
        BY <4>1 DEF Kept
      <4>3. c # k
        BY <3>2, <4>2 DEF s
      <4> QED
        BY <1>7, <1>11, <4>2, <4>3
    <3> QED
      BY <3>1, <3>2
  <2> QED
    BY <2>1, <2>5, <2>6
<1> QED
  BY <1>5, <1>10, <1>11

\* Every step keeps the count, the hosts of sessions, and what may be queued where.
LEMMA NextPending ==
    ASSUME Inv, Inv', Placed, Counted, Hosted, Kept, [Next]_vars
    PROVE  Counted' /\ Hosted' /\ Kept'
<1> DEFINE Calm == /\ UNCHANGED <<sessions, id, attached, managedHostId,
                                  pending, totalPendingBytes>>
                   /\ Steady(InviteSockets \cup ClientSockets)
           Goal == Counted' /\ Hosted' /\ Kept'
<1>0. Calm => Goal
  <2> SUFFICES ASSUME Calm PROVE Goal
    OBVIOUS
  <2>1. Counted'
    BY DEF Counted, Queued, QueuedFrames
  <2>2. Hosted'
    BY StillHosted DEF Steady, InMap
  <2>3. Kept'
    BY StillKept DEF InMap
  <2> QED
    BY <2>1, <2>2, <2>3
<1>1. ASSUME NEW k \in Sockets, Reject(k) PROVE Calm
  BY <1>1, Kinds DEF Reject, sessionVars, queueVars, Steady, Inv, TypeOK
<1>2. ASSUME NEW k \in InviteSockets, NEW i \in InviteIds, InviteHostUpgrade(k, i)
      PROVE  Goal
  BY <1>0, <1>1, <1>2, Kinds, InviteHostUpgradePending
<1>3. ASSUME NEW k \in ClientSockets, NEW i \in Ids, ClientUpgrade(k, i)
      PROVE  Goal
  <2> DEFINE s == sessions[i]
  <2>1. /\ k \in Sockets /\ k \in InviteSockets \cup ClientSockets /\ Role(k) = "client"
        /\ s \in Sessions \cup {None}
    BY Kinds DEF Role, Inv, TypeOK
  <2>2. CASE Reject(k)
    BY <1>0, <1>1, <2>1, <2>2
  <2>3. CASE s # None /\ Attach(k, "client", s, id) /\ UNCHANGED sessions
    <3>1. /\ id' = id /\ managedHostId' = managedHostId /\ state[k] = "free"
          /\ state' = [state EXCEPT ![k] = "OPEN"] /\ sess' = [sess EXCEPT ![k] = s]
          /\ attached' = [attached EXCEPT ![s]["client"] = k]
      BY <2>3 DEF Attach
    <3>2. \A t \in Sessions : InMap(t)' <=> InMap(t)
      BY <2>3, <3>1 DEF InMap
    <3>3. \A t \in Sessions : attached'[t]["host"] = attached[t]["host"]
      BY <3>1 DEF Inv, TypeOK, Roles
    <3>4. Steady(InviteSockets)
      BY <2>1, <3>1, Kinds DEF Steady, Inv, TypeOK
    <3>5. Hosted'
      BY <3>2, <3>3, <3>4, StillHosted
    <3> HIDE DEF s
    <3>6. s \in Sessions /\ Attach(k, Role(k), s, id)
      BY <2>1, <2>3
    <3> QED
      BY <2>1, <3>2, <3>5, <3>6, AttachPending
  <2> QED
    BY <1>3, <2>2, <2>3 DEF ClientUpgrade
<1>4. ASSUME NEW k \in ManagedSockets, NEW h \in HostIds, ManagedHostUpgrade(k, h)
      PROVE  Calm
  <2>1. RegisterHost(k, h) => Calm
    BY Kinds DEF RegisterHost, sessionVars, queueVars, Steady, Inv, TypeOK
  <2> QED
    BY <1>1, <1>4, <2>1, Kinds DEF ManagedHostUpgrade
<1>5. ASSUME NEW h \in HostIds, RebindHost(h) \/ DeleteHost(h) PROVE Calm
  <2>1. PICK B : /\ UNCHANGED <<sess, sessions, id, attached, managedHostId,
                                pending, totalPendingBytes>>
                 /\ state' = StateAfter({}, B)
    BY <1>5 DEF RebindHost, DeleteHost, ReplaceToken, sessionVars, queueVars
  <2> QED
    BY <2>1, StillThere, Kinds DEF Steady
<1>6. ASSUME NEW k \in Sockets, UnexpectedMessage(k) \/ Pong(k) \/ PeerCloses(k)
      PROVE  Calm
  <2>1. /\ UNCHANGED <<sess, sessions, id, attached, managedHostId,
                       pending, totalPendingBytes>>
        /\ state' = state \/ \E B : state' = StateAfter({}, B)
    BY <1>6 DEF UnexpectedMessage, Pong, PeerCloses, sessionVars, queueVars
  <2>2. \A c \in Sockets : state[c] # "CLOSED" => state'[c] # "CLOSED"
    BY <2>1, StillThere
  <2> QED
    BY <2>1, <2>2, Kinds DEF Steady
<1>7. ASSUME NEW k \in Sockets, RejectedClosed(k) PROVE Calm
  <2>1. /\ UNCHANGED <<sess, sessions, id, attached, managedHostId,
                       pending, totalPendingBytes>>
        /\ state' = StateAfter({k}, {})
        /\ k \in ManagedSockets \/ sess[k] = None
    BY <1>7 DEF RejectedClosed, sessionVars, queueVars
  <2>2. \A c \in Sockets : c # k /\ state[c] # "CLOSED" => state'[c] # "CLOSED"
    BY <2>1, StillThere
  <2> QED
    BY <2>1, <2>2, Kinds DEF Steady
<1>8. ASSUME NEW k \in Sockets, ManagedHostClosed(k) PROVE Goal
  <2> DEFINE S == {sess[k]} \ {None}
  <2>1. k \in ManagedSockets /\ S \in SUBSET Sessions
    BY <1>8 DEF ManagedHostClosed, Inv, TypeOK, Links, HostLinks
  <2>2. PICK B : /\ RemoveSessions(S, attached) /\ id' = id
                 /\ managedHostId' = managedHostId
                 /\ state' = StateAfter({k}, B)
    BY <1>8 DEF ManagedHostClosed
  <2> HIDE DEF S
  <2>3. \A c \in InviteSockets \cup ClientSockets :
          state[c] # "CLOSED" => state'[c] # "CLOSED"
    BY <2>1, <2>2, StillThere, Kinds
  <2> QED
    BY <2>1, <2>2, <2>3, RemovalPending
<1>9. CASE Heartbeat
  <2>1. PICK B : /\ RemoveSessions(Idle, attached) /\ id' = id
                 /\ managedHostId' = managedHostId
                 /\ state' = StateAfter({}, B)
    BY <1>9 DEF Heartbeat
  <2>2. Idle \in SUBSET Sessions
    BY DEF Idle
  <2>3. \A c \in InviteSockets \cup ClientSockets :
          state[c] # "CLOSED" => state'[c] # "CLOSED"
    BY <2>1, StillThere, Kinds
  <2> QED
    BY <2>1, <2>2, <2>3, RemovalPending
<1>10. CASE Tick \/ UNCHANGED vars
  <2>1. Calm
    BY <1>10 DEF Tick, vars, socketVars, sessionVars, queueVars, Steady
  <2> QED
    BY <1>0, <2>1
<1> HIDE DEF Calm
<1> QED
  BY <1>0, <1>2, <1>3, <1>4, <1>5, <1>6, <1>7, <1>8, <1>9, <1>10,
     ConnectPending, MessagePending, SignalClosedPending DEF Next

\* What the count rests on holds in every state of the relay.
LEMMA PendingInvariant == Spec => [](Inv /\ Placed /\ Counted /\ Hosted /\ Kept)
<1>1. Init => Inv /\ Placed /\ Counted /\ Hosted /\ Kept
  <2> SUFFICES ASSUME Init PROVE Inv /\ Placed /\ Counted /\ Hosted /\ Kept
    OBVIOUS
  <2>1. Inv
    BY InitInv
  <2>2. Placed
    BY Kinds DEF Init, Placed, Roles
  <2>3. \A s \in Sessions, r \in Roles : pending[s][r] = << >>
    BY DEF Init, NoFrames
  <2>4. QueuedFrames(Sessions) = {}
    <3>1. \A q \in Sessions \X Roles : {q} \X DOMAIN pending[q[1]][q[2]] = {}
      BY <2>3
    <3> QED
      BY <3>1 DEF QueuedFrames
  <2>5. Counted
    BY <2>3, <2>4, FS_EmptySet, LimitsAssumption DEF Init, Counted, Queued
  <2>6. Hosted /\ Kept
    BY <2>3, Kinds DEF Init, Hosted, Kept, InMap, Roles
  <2> QED
    BY <2>1, <2>2, <2>5, <2>6
<1>2. Inv /\ Placed /\ Counted /\ Hosted /\ Kept /\ [Next]_vars
        => Inv' /\ Placed' /\ Counted' /\ Hosted' /\ Kept'
  BY NextInv, NextPlaced, NextPending
<1> QED
  BY <1>1, <1>2, PTL DEF Spec

\* The relay's count of pending bytes is that of the frames it keeps, within its
\* limits, and a session that was removed keeps some only while one of its connections
\* is yet to close, whichever handlers of removed sessions still run.
THEOREM PendingSafety == Spec => []PendingAccounted
<1>1. Counted /\ Kept => PendingAccounted
  BY DEF Counted, Kept, PendingAccounted
<1> QED
  BY <1>1, PendingInvariant, PTL

---------------------------------------------------------------------------
\* A session for which someone is there: it has a host, and a managed one is still the
\* lease of that host.
Attended(s) == /\ attached[s]["host"] # None
               /\ managedHostId[s] # None => InMap(s)

\* Whoever takes that away closes the client in the same handler.
Accompanied == \A c \in ClientSockets, s \in Sessions :
                 state[c] = "OPEN" /\ sess[c] = s => Attended(s)

\* The host of the session an open client is in has not closed, and that session is the
\* one the host's own handlers act on: its close handler will reach the client.
ClientsAttended ==
    \A c \in ClientSockets : IsOpen(c) =>
      LET host == attached[sess[c]]["host"] IN
        /\ sess[c] # None /\ host # None
        /\ state[host] \in {"OPEN", "CLOSING"} /\ sess[host] = sess[c]

\* What a handler closes is not open when it returns.
LEMMA OpenAfter ==
    ASSUME NEW A, NEW B, state' = StateAfter(A, B), NEW c \in Sockets, state'[c] = "OPEN"
    PROVE  state[c] = "OPEN" /\ c \notin A /\ c \notin B
BY DEF StateAfter

\* A step that opens no client, and takes no session from the clients it leaves open
LEMMA StillAccompanied ==
    ASSUME Accompanied,
           \A c \in ClientSockets : state'[c] = "OPEN" =>
             state[c] = "OPEN" /\ sess'[c] = sess[c],
           \A c \in ClientSockets, s \in Sessions :
             state'[c] = "OPEN" /\ sess[c] = s /\ Attended(s) => Attended(s)'
    PROVE  Accompanied'
BY DEF Accompanied

\* handleSignalSocket gives a session a host, or a client to a session that has one.
LEMMA AttachAccompanied ==
    ASSUME Inv, Accompanied, NEW k \in InviteSockets \cup ClientSockets, NEW s \in Sessions,
           NEW objs, Attach(k, Role(k), s, objs),
           k \in ClientSockets => Attended(s)',
           \A t \in Sessions : InMap(t) /\ managedHostId[t] # None => InMap(t)'
    PROVE  Accompanied'
<1> DEFINE r == Role(k)
<1>1. /\ k \in Sockets /\ r \in Roles /\ k # None /\ managedHostId' = managedHostId
      /\ state' = [state EXCEPT ![k] = "OPEN"] /\ sess' = [sess EXCEPT ![k] = s]
      /\ attached' = [attached EXCEPT ![s][r] = k]
  BY Kinds DEF Attach, Role, Roles
<1> HIDE DEF r
<1>2. /\ sess'[k] = s
      /\ \A c \in Sockets : c # k => state'[c] = state[c] /\ sess'[c] = sess[c]
      /\ \A t \in Sessions : attached[t]["host"] # None => attached'[t]["host"] # None
  BY <1>1 DEF Inv, TypeOK, Roles
<1>3. \A t \in Sessions : Attended(t) => Attended(t)'
  BY <1>1, <1>2 DEF Attended
<1> QED
  BY <1>2, <1>3, Kinds DEF Accompanied

LEMMA InviteHostUpgradeAccompanied ==
    ASSUME Inv, Accompanied, NEW k \in InviteSockets, NEW i \in InviteIds,
           InviteHostUpgrade(k, i), ~Reject(k)
    PROVE  Accompanied'
<1> DEFINE s == sessions[i]
<1>1. PICK joined \in Sessions :
        /\ IF s = None THEN id[joined] = None ELSE joined = s
        /\ sessions' = [sessions EXCEPT ![i] = joined]
        /\ Attach(k, "host", joined, [id EXCEPT ![joined] = i])
  BY DEF InviteHostUpgrade
<1>2. i \in Ids /\ s \in Sessions \cup {None} /\ Role(k) = "host" /\ k \notin ClientSockets
  BY Kinds DEF Role, Inv, TypeOK
<1>3. managedHostId[joined] = None \/ id[joined] = None
  BY <1>1, <1>2, Kinds DEF Inv, Links, SessionLinks
<1>4. id' = [id EXCEPT ![joined] = i]
  BY <1>1 DEF Attach
<1>5. /\ \A j \in Ids : j # i => sessions'[j] = sessions[j]
      /\ \A t \in Sessions : t # joined => id'[t] = id[t]
  BY <1>1, <1>4 DEF Inv, TypeOK
<1>6. \A t \in Sessions : InMap(t) /\ managedHostId[t] # None => InMap(t)'
  <2> SUFFICES ASSUME NEW t \in Sessions, InMap(t), managedHostId[t] # None PROVE InMap(t)'
    OBVIOUS
  <2>1. id[t] = t /\ t # i /\ t \in Ids /\ t # joined
    BY <1>3, Kinds DEF InMap, Inv, Links, SessionLinks
  <2> QED
    BY <1>5, <2>1 DEF InMap
<1> HIDE DEF s
<1>7. Attach(k, Role(k), joined, [id EXCEPT ![joined] = i])
  BY <1>1, <1>2
<1> QED
  BY <1>2, <1>6, <1>7, AttachAccompanied

LEMMA ClientUpgradeAccompanied ==
    ASSUME Inv, Accompanied, NEW k \in ClientSockets, NEW i \in Ids, ClientUpgrade(k, i),
           ~Reject(k)
    PROVE  Accompanied'
<1>1. PICK s \in Sessions :
        /\ s = sessions[i] /\ s # None /\ attached[s]["host"] # None
        /\ Attach(k, "client", s, id) /\ sessions' = sessions
  BY DEF ClientUpgrade, IsOpen, Inv, TypeOK
<1>2. InMap(s)
  BY <1>1, Kinds DEF InMap, Inv, Links, SessionLinks
<1>3. /\ UNCHANGED <<id, managedHostId>>
      /\ attached' = [attached EXCEPT ![s]["client"] = k]
  BY <1>1 DEF Attach
<1>4. \A t \in Sessions : InMap(t)' <=> InMap(t)
  BY <1>1, <1>3 DEF InMap
<1>5. attached'[s]["host"] = attached[s]["host"]
  BY <1>3 DEF Inv, TypeOK, Roles
<1>6. Attended(s)'
  BY <1>1, <1>2, <1>3, <1>4, <1>5 DEF Attended
<1>7. Attach(k, Role(k), s, id)
  BY <1>1 DEF Role
<1> QED
  BY <1>4, <1>6, <1>7, AttachAccompanied

\* removeSession in a handler that closes the clients of what it removes
LEMMA RemovalAccompanied ==
    ASSUME Inv, Placed, Accompanied, NEW S \in SUBSET Sessions,
           RemoveSessions(S, attached), id' = id, managedHostId' = managedHostId,
           NEW A, NEW B, state' = StateAfter(A, B),
           \A s \in S : attached[s]["client"] \in B
    PROVE  Accompanied'
<1>1. /\ attached' = attached
      /\ \A c \in ClientSockets : sess'[c] = sess[c]
  BY Kinds DEF RemoveSessions, FreedHosts
<1>2. \A s \in Sessions \ S : managedHostId[s] # None /\ InMap(s) => InMap(s)'
  BY RemovalFrame DEF Inv, TypeOK
<1>3. ASSUME NEW c \in ClientSockets, state'[c] = "OPEN"
      PROVE  state[c] = "OPEN" /\ c \notin B
  BY <1>3, OpenAfter, Kinds
<1>4. ASSUME NEW c \in ClientSockets, NEW s \in Sessions, state'[c] = "OPEN", sess[c] = s,
             Attended(s)
      PROVE  Attended(s)'
  <2>1. attached[s]["client"] = c
    BY <1>3, <1>4, Kinds DEF Placed, Role
  <2>2. s \notin S
    BY <1>3, <1>4, <2>1
  <2> QED
    BY <1>1, <1>2, <1>4, <2>2 DEF Attended
<1> QED
  BY <1>1, <1>3, <1>4, StillAccompanied

LEMMA ConnectAccompanied ==
    ASSUME Inv, Placed, Accompanied, NEW h \in HostIds, Connect(h)
    PROVE  Accompanied'
<1> DEFINE k == managedHosts[h]
           old == sess[k]
           gone == IF old = None THEN {} ELSE {old}
           clients == {attached[s]["client"] : s \in gone}
<1>1. /\ k \in ManagedSockets /\ k # None /\ old \in Sessions \cup {None}
      /\ old # None => id[old] = old
  BY ConnectOld
<1>2. PICK new \in Sessions :
        /\ id[new] = None
        /\ id' = [id EXCEPT ![new] = new]
        /\ sessions' = [SessionsWithout(gone) EXCEPT ![new] = new]
        /\ attached' = [attached EXCEPT ![new]["host"] = k]
        /\ managedHostId' = [managedHostId EXCEPT ![new] = h]
        /\ sess' = [sess EXCEPT ![k] = new]
        /\ state' = StateAfter({}, clients)
  BY <1>1 DEF Connect
<1>3. \A s \in gone : id[s] = s /\ attached[s]["client"] \in clients
  BY <1>1
<1> HIDE DEF k, old, gone, clients
<1>4. \A c \in ClientSockets : sess'[c] = sess[c]
  BY <1>1, <1>2, Kinds DEF Inv, TypeOK
<1>5. \A s \in Sessions : s # new => /\ id'[s] = id[s]
                                     /\ attached'[s]["host"] = attached[s]["host"]
                                     /\ managedHostId'[s] = managedHostId[s]
  BY <1>2 DEF Inv, TypeOK, Roles
<1>6. \A i \in Ids : i # new => sessions'[i] = SessionsWithout(gone)[i]
  BY <1>2, Kinds DEF SessionsWithout
<1>7. ASSUME NEW c \in ClientSockets, state'[c] = "OPEN"
      PROVE  state[c] = "OPEN" /\ c \notin clients
  BY <1>2, <1>7, OpenAfter, Kinds
<1>8. ASSUME NEW c \in ClientSockets, NEW s \in Sessions, state'[c] = "OPEN", sess[c] = s,
             Attended(s)
      PROVE  Attended(s)'
  <2>1. attached[s]["client"] = c /\ s # new
    BY <1>2, <1>7, <1>8, Kinds DEF Placed, Role, Inv, Links, SessionLinks
  <2>2. s \notin gone
    BY <1>3, <1>7, <1>8, <2>1
  <2>3. ASSUME managedHostId[s] # None, InMap(s) PROVE InMap(s)'
    <3>1. id[s] = s /\ s \in Ids /\ s # None /\ sessions[s] = s
      BY <2>3, Kinds DEF InMap, Inv, Links, SessionLinks
    <3>2. SessionsWithout(gone)[s] = s
      BY <1>3, <2>2, <3>1 DEF SessionsWithout
    <3> QED
      BY <1>5, <1>6, <2>1, <3>1, <3>2 DEF InMap
  <2> QED
    BY <1>5, <1>8, <2>1, <2>3 DEF Attended
<1> QED
  BY <1>4, <1>7, <1>8, StillAccompanied

\* The close handler of a /signal connection closes the client with its host, and a
\* client that leaves was the only one.
LEMMA SignalClosedAccompanied ==
    ASSUME Inv, Placed, Accompanied, NEW k \in Sockets, SignalClosed(k)
    PROVE  Accompanied'
<1> DEFINE s == sess[k]
           r == Role(k)
           peer == attached'[s][PeerRole(r)]
           tellPeer == r = "host" \/ managedHostId[s] # None
           B == IF tellPeer THEN {peer} ELSE {}
<1>1. /\ k \in InviteSockets \cup ClientSockets /\ s \in Sessions /\ r \in Roles
      /\ s # None /\ state[k] = "CLOSING"
  BY Kinds DEF SignalClosed, Sockets, Inv, TypeOK, Role, Roles
<1>2. attached[s][r] = k
  BY <1>1 DEF Placed
<1>3. attached' = [attached EXCEPT ![s][r] = None] /\ UNCHANGED <<id, managedHostId>>
  BY <1>2 DEF SignalClosed, RemoveSessions
<1>4. state' = StateAfter({k}, B)
  BY <1>2, <1>3 DEF SignalClosed
<1>5. RemoveSessions({s}, attached') \/ UNCHANGED <<sess, sessions>>
  BY <1>2, <1>3 DEF SignalClosed
<1>6. r = "client" /\ managedHostId[s] = None /\ attached'[s]["host"] # None
        => UNCHANGED <<sess, sessions>>
  BY <1>2, <1>3 DEF SignalClosed
<1>7. \A t \in Sessions, q \in Roles :
        attached'[t][q] = IF t = s /\ q = r THEN None ELSE attached[t][q]
  BY <1>1, <1>3 DEF Inv, TypeOK
<1>8. \A c \in ClientSockets : sess'[c] = sess[c]
  BY <1>5, Kinds DEF RemoveSessions, FreedHosts
<1>9. r = "host" => peer = attached[s]["client"] /\ peer \in B
  BY <1>1, <1>7 DEF PeerRole, Roles
<1> HIDE DEF s, r, peer, tellPeer, B
<1>10. ASSUME NEW c \in ClientSockets, state'[c] = "OPEN"
       PROVE  state[c] = "OPEN" /\ c \notin B /\ c # k
  BY <1>4, <1>10, OpenAfter, Kinds
<1>11. ASSUME NEW c \in ClientSockets, state'[c] = "OPEN", sess[c] = s PROVE FALSE
  <2>1. attached[s]["client"] = c
    BY <1>1, <1>10, <1>11, Kinds DEF Placed, Role
  <2> QED
    BY <1>1, <1>2, <1>9, <1>10, <1>11, <2>1 DEF Roles
<1>12. ASSUME NEW t \in Sessions, t # s, managedHostId[t] # None, InMap(t) PROVE InMap(t)'
  <2>1. id[t] = t /\ sessions[t] = t /\ t \in Ids /\ t # None
    BY <1>12, Kinds DEF InMap, Inv, Links, SessionLinks
  <2>2. CASE UNCHANGED <<sess, sessions>>
    BY <1>3, <1>12, <2>2 DEF InMap
  <2>3. CASE RemoveSessions({s}, attached')
    <3>1. id[s] # t
      BY <1>1, <1>12, <2>1, Kinds DEF Inv, Links, SessionLinks
    <3>2. sessions'[t] = t
      BY <2>1, <2>3, <3>1 DEF RemoveSessions, SessionsWithout
    <3> QED
      BY <1>3, <2>1, <3>2 DEF InMap
  <2> QED
    BY <1>5, <2>2, <2>3
<1>13. ASSUME NEW c \in ClientSockets, NEW t \in Sessions, state'[c] = "OPEN", sess[c] = t,
              Attended(t)
       PROVE  Attended(t)'
  <2>1. t # s
    BY <1>11, <1>13
  <2>2. attached'[t]["host"] = attached[t]["host"] /\ managedHostId'[t] = managedHostId[t]
    BY <1>3, <1>7, <2>1 DEF Roles
  <2> QED
    BY <1>12, <1>13, <2>1, <2>2 DEF Attended
<1> QED
  BY <1>8, <1>10, <1>13, StillAccompanied

\* Every handler leaves open clients with a host.
LEMMA NextAccompanied ==
    ASSUME Inv, Placed, Accompanied, [Next]_vars
    PROVE  Accompanied'
<1> DEFINE Calm == /\ UNCHANGED <<sessions, id, attached, managedHostId>>
                   /\ \A c \in ClientSockets :
                        /\ sess'[c] = sess[c]
                        /\ state'[c] = "OPEN" => state[c] = "OPEN"
<1>0. Calm => Accompanied'
  BY StillAccompanied DEF Attended, InMap
<1>1. ASSUME NEW k \in Sockets, Reject(k) PROVE Calm
  BY <1>1, Kinds DEF Reject, sessionVars, Inv, TypeOK
<1>2. ASSUME NEW k \in InviteSockets, NEW i \in InviteIds, InviteHostUpgrade(k, i)
      PROVE  Accompanied'
  BY <1>0, <1>1, <1>2, Kinds, InviteHostUpgradeAccompanied
<1>3. ASSUME NEW k \in ClientSockets, NEW i \in Ids, ClientUpgrade(k, i)
      PROVE  Accompanied'
  BY <1>0, <1>1, <1>3, Kinds, ClientUpgradeAccompanied
<1>4. ASSUME NEW k \in ManagedSockets, NEW h \in HostIds, ManagedHostUpgrade(k, h)
      PROVE  Calm
  <2>1. RegisterHost(k, h) => Calm
    BY Kinds DEF RegisterHost, sessionVars, Inv, TypeOK
  <2> QED
    BY <1>1, <1>4, <2>1, Kinds DEF ManagedHostUpgrade
<1>5. ASSUME NEW h \in HostIds, RebindHost(h) \/ DeleteHost(h) PROVE Calm
  <2>1. PICK B : /\ UNCHANGED <<sess, sessions, id, attached, managedHostId>>
                 /\ state' = StateAfter({}, B)
    BY <1>5 DEF RebindHost, DeleteHost, ReplaceToken, sessionVars
  <2> QED
    BY <2>1, OpenAfter, Kinds
<1>6. ASSUME NEW k \in Sockets,
             \/ Message(k) \/ UnexpectedMessage(k) \/ Pong(k) \/ PeerCloses(k)
             \/ RejectedClosed(k)
      PROVE  Calm
  <2>1. /\ UNCHANGED <<sess, sessions, id, attached, managedHostId>>
        /\ state' = state \/ \E A, B : state' = StateAfter(A, B)
    BY <1>6 DEF Message, Relay, UnexpectedMessage, Pong, PeerCloses, RejectedClosed, sessionVars
  <2>2. \A c \in ClientSockets : state'[c] = "OPEN" => state[c] = "OPEN"
    BY <2>1, OpenAfter, Kinds
  <2> QED
    BY <2>1, <2>2
<1>7. ASSUME NEW k \in Sockets, ManagedHostClosed(k) PROVE Accompanied'
  <2> DEFINE S == {sess[k]} \ {None}
             B == {attached[s]["client"] : s \in S}
  <2>1. /\ S \in SUBSET Sessions /\ RemoveSessions(S, attached)
        /\ UNCHANGED <<id, managedHostId>> /\ state' = StateAfter({k}, B)
    BY <1>7 DEF ManagedHostClosed, Inv, TypeOK
  <2>2. \A s \in S : attached[s]["client"] \in B
    OBVIOUS
  <2> HIDE DEF S, B
  <2> QED
    BY <2>1, <2>2, RemovalAccompanied
<1>8. CASE Heartbeat
  <2>1. PICK B : /\ \A s \in Idle : attached[s]["client"] \in B
                 /\ state' = StateAfter({}, B)
    <3> DEFINE clients == {c \in Sockets : state[c] \in {"OPEN", "CLOSING"}}
               D == {c \in clients : ~isAlive[c]} \cup Swept
    <3>1. state' = StateAfter({}, D)
      BY <1>8 DEF Heartbeat
    <3>2. \A s \in Idle : attached[s]["client"] \in Swept
      BY DEF Swept
    <3> QED
      BY <3>1, <3>2
  <2>2. RemoveSessions(Idle, attached) /\ id' = id /\ managedHostId' = managedHostId
    BY <1>8 DEF Heartbeat
  <2>3. Idle \in SUBSET Sessions
    BY DEF Idle
  <2> QED
    BY <2>1, <2>2, <2>3, RemovalAccompanied
<1>9. CASE Tick \/ UNCHANGED vars
  BY <1>0, <1>9 DEF Tick, vars, socketVars, sessionVars
<1> HIDE DEF Calm
<1> QED
  BY <1>0, <1>2, <1>3, <1>4, <1>5, <1>6, <1>7, <1>8, <1>9, ConnectAccompanied,
     SignalClosedAccompanied DEF Next

\* No client waits at the relay for a host that is gone: as long as it is open, the
\* connection of its host has yet to close, and ends this very session when it does;
\* this is what the client's half of BrokenSessionEnds rests on.
THEOREM ClientSafety == Spec => []ClientsAttended
<1>1. Init => Accompanied
  BY Kinds DEF Init, Accompanied
<1>2. Inv /\ Placed /\ Accompanied /\ [Next]_vars => Accompanied'
  BY NextAccompanied
<1>3. Inv /\ Placed /\ Hosted /\ Accompanied => ClientsAttended
  <2> SUFFICES ASSUME Inv, Placed, Hosted, Accompanied, NEW c \in ClientSockets, IsOpen(c)
               PROVE  LET host == attached[sess[c]]["host"] IN
                        /\ sess[c] # None /\ host # None
                        /\ state[host] \in {"OPEN", "CLOSING"} /\ sess[host] = sess[c]
    BY DEF ClientsAttended
  <2> DEFINE s == sess[c]
             host == attached[s]["host"]
  <2>1. s \in Sessions /\ s # None
    BY Kinds DEF IsOpen, Placed, Inv, TypeOK
  <2>2. host # None /\ (managedHostId[s] # None => InMap(s))
    BY <2>1 DEF IsOpen, Accompanied, Attended
  <2> HIDE DEF s
  <2>3. CASE managedHostId[s] = None
    <3>1. host \in InviteSockets
      BY <2>1, <2>2, <2>3 DEF Inv, Links, SessionLinks
    <3>2. sess[host] = s /\ state[host] # "CLOSED"
      BY <2>1, <3>1 DEF Hosted
    <3>3. state[host] # "free"
      BY <2>1, <3>1, <3>2, Kinds DEF Inv, Links, SessionLinks
    <3> QED
      BY <2>1, <2>2, <3>1, <3>2, <3>3, Kinds DEF Inv, TypeOK, s
  <2>4. CASE managedHostId[s] # None
    <3> DEFINE h == managedHostId[s]
    <3>1. h \in HostIds /\ managedHosts[h] # None /\ sess[managedHosts[h]] = s
      BY <2>1, <2>2, <2>4 DEF Inv, TypeOK, LeaseConsistent
    <3>2. managedHosts[h] \in ManagedSockets
      BY <3>1 DEF Inv, TypeOK
    <3>3. host = managedHosts[h]
      BY <2>1, <3>1, <3>2 DEF Inv, LeaseConsistent
    <3>4. state[managedHosts[h]] \in {"OPEN", "CLOSING"}
      BY <3>1 DEF Inv, Links, HostLinks
    <3> QED
      BY <2>1, <2>2, <3>1, <3>3, <3>4 DEF s
  <2> QED
    BY <2>3, <2>4
<1> QED
  BY <1>1, <1>2, <1>3, PendingInvariant, PTL DEF Spec
=============================================================================
