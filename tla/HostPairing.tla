---------------------------- MODULE HostPairing ----------------------------
(***************************************************************************)
(* How a Windows host gets its device token from the signaling server      *)
(* (signaling-server/server.mjs): it connects to /host with the protocol   *)
(* remoe-pair and is told a code, and the user who types that code on the  *)
(* web page makes the host theirs.  The token goes out over the pairing    *)
(* connection, which may be closing by then.                               *)
(***************************************************************************)
EXTENDS Accounts

CONSTANTS
    Pairings,    \* pairing connections, each with its code
    HostIds      \* host ids, random when made

\* A row of the hosts table: whose it is and the pairing its token is of.
HostRows == [user : Users, token : Pairings]

ASSUME HostPairingAssumption == None \notin HostRows

VARIABLES
    pairing,     \* of a connection: "new", "open", "closing" (its 'close' is
                 \*   still to come) or "gone", which it is in no Map
    named,       \* the host id it connected with, None for remoe-pair.new
    hosts,       \* the hosts table
    known        \* the pairings whose token its host received

pairingVars == <<pairing, named, hosts, known>>

PairingInit ==
    /\ pairing = [p \in Pairings |-> "new"]
    /\ named = [p \in Pairings |-> None]
    /\ hosts = [h \in HostIds |-> None]
    /\ known = {}

\* The upgrade: a host that names itself has its token checked here, and only here.
Authorized(h) == h # None => hosts[h] # None /\ hosts[h].token \in known

OpenPairing(p, h) ==
    /\ pairing[p] = "new"
    /\ Authorized(h)
    /\ pairing' = [pairing EXCEPT ![p] = "open"]
    /\ named' = [named EXCEPT ![p] = h]
    /\ UNCHANGED <<hosts, known>>

Fresh == {h \in HostIds : hosts[h] = None /\ \A p \in Pairings : named[p] # h}

\* /api/hosts/pair.  Slip: the pairing stays in the Map.
PairHostAgain(p, h, u) ==
    /\ pairing[p] \in {"open", "closing"}
    /\ IF named[p] = None THEN h \in Fresh ELSE h = named[p]
    /\ hosts' = [hosts EXCEPT ![h] = [user |-> u, token |-> p]]
    /\ known' \in {known} \cup (IF pairing[p] = "open" THEN {known \cup {p}} ELSE {})
    /\ pairing' = [pairing EXCEPT ![p] = "closing"]
    /\ UNCHANGED named
PairHost(p, h, u) ==
    /\ pairing[p] \in {"open", "closing"}
    /\ IF named[p] = None THEN h \in Fresh ELSE h = named[p]
    /\ hosts' = [hosts EXCEPT ![h] = [user |-> u, token |-> p]]
    /\ known' \in {known} \cup (IF pairing[p] = "open" THEN {known \cup {p}} ELSE {})
    /\ pairing' = [pairing EXCEPT ![p] = "gone"]
    /\ UNCHANGED named

PairingBreaks(p) ==
    /\ pairing[p] = "open"
    /\ pairing' = [pairing EXCEPT ![p] = "closing"]
    /\ UNCHANGED <<named, hosts, known>>

\* Its 'close' event, or the sweep after pairingLifetimeMs.
PairingEnds(p) ==
    /\ pairing[p] \in {"open", "closing"}
    /\ pairing' = [pairing EXCEPT ![p] = "gone"]
    /\ UNCHANGED <<named, hosts, known>>

DeleteHost(h, u) ==
    /\ hosts[h] # None /\ hosts[h].user = u
    /\ hosts' = [hosts EXCEPT ![h] = None]
    /\ UNCHANGED <<pairing, named, known>>

PairingRestart ==
    /\ pairing' = [p \in Pairings |-> IF pairing[p] = "new" THEN "new" ELSE "gone"]
    /\ UNCHANGED <<named, hosts, known>>

PairingStep ==
    \/ \E p \in Pairings : PairingBreaks(p) \/ PairingEnds(p)
    \/ \E p \in Pairings, h \in HostIds \cup {None} : OpenPairing(p, h)
    \/ \E p \in Pairings, h \in HostIds, u \in users : PairHost(p, h, u)
    \/ \E h \in HostIds, u \in SignedIn : DeleteHost(h, u)

PairingTypeOK ==
    /\ pairing \in [Pairings -> {"new", "open", "closing", "gone"}]
    /\ named \in [Pairings -> HostIds \cup {None}]
    /\ hosts \in [HostIds -> HostRows \cup {None}]
    /\ known \subseteq Pairings

---------------------------------------------------------------------------
(* The code of a pairing as a grant *)

TokenOf(p) == {h \in HostIds : hosts[h] # None /\ hosts[h].token = p}

PairingStage(p) ==
    IF Cardinality(TokenOf(p)) > 1 THEN "twice"
    ELSE IF TokenOf(p) # {} THEN "used"
    ELSE IF pairing[p] = "new" THEN "none"
    ELSE IF pairing[p] = "gone" THEN "ended" ELSE "asked"

PairingUser(p) ==
    IF TokenOf(p) = {} THEN None ELSE (CHOOSE r \in {hosts[h] : h \in TokenOf(p)} : TRUE).user
=============================================================================
