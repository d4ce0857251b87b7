----------------------------- MODULE HostLease -----------------------------
(***************************************************************************)
(* What the signaling service promises about a managed host: it is leased  *)
(* to one session at a time, a lease is taken over only when no client is  *)
(* using it, each session is granted once and admits at most one client.   *)
(***************************************************************************)
CONSTANTS HostIds, Sessions, None

VARIABLES
    lease,     \* the session each host is leased to
    engaged,   \* hosts whose session has a connected client
    granted,   \* sessions that were ever a lease
    spent      \* sessions that admit no client any more

vars == <<lease, engaged, granted, spent>>

Leases(H) == {lease[h] : h \in H} \ {None}

Init ==
    /\ lease = [h \in HostIds |-> None]
    /\ engaged = {}
    /\ granted = {}
    /\ spent = {}

\* The host is leased to a session that never had it; an abandoned session
\* loses it.
Grant(h, s) ==
    /\ h \notin engaged /\ s \notin granted
    /\ lease' = [lease EXCEPT ![h] = s]
    /\ granted' = granted \cup {s}
    /\ spent' = spent \cup Leases({h})
    /\ UNCHANGED engaged

\* The one client of the session connects.
Engage(h) ==
    /\ lease[h] \notin spent \cup {None}
    /\ engaged' = engaged \cup {h}
    /\ spent' = spent \cup {lease[h]}
    /\ UNCHANGED <<lease, granted>>

\* Clients of the hosts D go away, and the leases of the hosts R end.
Release(D, R) ==
    /\ engaged' = engaged \ (D \cup R)
    /\ lease' = [h \in HostIds |-> IF h \in R THEN None ELSE lease[h]]
    /\ spent' = spent \cup Leases(R)
    /\ UNCHANGED granted

Next ==
    \/ \E h \in HostIds, s \in Sessions : Grant(h, s)
    \/ \E h \in HostIds : Engage(h)
    \/ \E D, R \in SUBSET HostIds : Release(D, R)

Spec == Init /\ [][Next]_vars
=============================================================================
