--------------------------- MODULE AccountServer ---------------------------
(***************************************************************************)
(* The account side of the signaling server: Accounts, DeviceGrants and    *)
(* HostPairing in one process.  The last two ask the first who has an      *)
(* account and who is signed in, and a restart of the process takes the    *)
(* memory of all three and leaves their tables.                            *)
(***************************************************************************)
EXTENDS DeviceGrants, HostPairing

vars == <<accountVars, deviceVars, pairingVars>>

Init == AccountsInit /\ DevicesInit /\ PairingInit

Restart == AccountsRestart /\ DevicesRestart /\ PairingRestart

Next ==
    \/ AccountsStep /\ UNCHANGED <<deviceVars, pairingVars>>
    \/ DevicesStep /\ UNCHANGED <<accountVars, pairingVars>>
    \/ PairingStep /\ UNCHANGED <<accountVars, deviceVars>>
    \/ Restart

Spec == Init /\ [][Next]_vars

\* All tables and Maps of the account side hold what their columns allow, and
\* the two Maps of device authorizations have the same entries.
TypeOK == AccountsTypeOK /\ DevicesTypeOK /\ PairingTypeOK

---------------------------------------------------------------------------
(* What it promises of the credentials it hands out *)

GrantStage == [g \in Origins \cup Pairings |->
                  IF g \in Pairings THEN PairingStage(g) ELSE DeviceStage(g)]
GrantUser == [g \in Origins \cup Pairings |->
                  IF g \in Pairings THEN PairingUser(g) ELSE DeviceUser(g)]

Granted == INSTANCE LoginGrant WITH
    Grants <- Origins \cup Pairings, stage <- GrantStage, approver <- GrantUser

\* Whoever polls, claims, approves, registers, logs in or pairs, in whatever
\* order and across expiry and restarts: each code, binding, ceremony and
\* pairing makes one credential at most, only once a user approved it, for that
\* user, and none that ended comes back.
RefinesGrant == Granted!Spec
=============================================================================
