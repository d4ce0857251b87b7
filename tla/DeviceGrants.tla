---------------------------- MODULE DeviceGrants ----------------------------
(***************************************************************************)
(* How a native client gets and keeps a session at the signaling server    *)
(* (signaling-server/server.mjs and lib/database.mjs): a desktop client    *)
(* shows a code that a user approves on the web page; a phone claims the   *)
(* QR code of a binding, which its user approves, and registers a device   *)
(* key; later that key alone logs it in.  Each ends in a row with a        *)
(* refresh token, which gives access tokens.                               *)
(*                                                                         *)
(* The handlers do not await once they have read their request, so each is *)
(* one action.  Authorizations, ceremonies and access tokens are kept in   *)
(* memory, bindings, devices and sessions in the database.  What is past   *)
(* its expiry is treated by every handler as gone, so that expiring and    *)
(* being swept are one action.                                             *)
(***************************************************************************)
EXTENDS Accounts

CONSTANTS
    Logins,        \* device authorizations: request id, secret and code
    Bindings,      \* android bindings: id and QR code
    Ceremonies,    \* android ceremonies
    Devices,       \* android device ids, each with its key
    MaxTokens      \* bound on the refresh tokens ever made

Tokens == 1..MaxTokens

\* What a refresh token came of, and its row; the row of a binding.
Origins == Logins \cup Bindings \cup Ceremonies
Rows == [user : Users, origin : Origins, device : Devices \cup {None},
         state : {"valid", "expired", "out"}]
BindingStates == {"CREATED", "CLAIMED", "APPROVED", "COMPLETED", "REJECTED", "EXPIRED"}
BindingRows == [state : BindingStates, user : Users]
AndroidCeremonies ==
    [type : {"device-register"}, of : Bindings \cup {None}, user : Users \cup {None}] \cup
    [type : {"device-login"}, of : Devices \cup {None}, user : Users \cup {None}]

ASSUME DeviceGrantsAssumption ==
    /\ MaxTokens \in Nat
    /\ Logins \cap Bindings = {} /\ Logins \cap Ceremonies = {} /\ Bindings \cap Ceremonies = {}
    /\ None # "pending" /\ None \notin Devices \cup Rows \cup BindingRows \cup AndroidCeremonies

VARIABLES
    asked,            \* logins that were started; their ids are never used again
    authorization,    \* deviceAuthorizations: the user who approved, or "pending"
    deviceCodes,      \* deviceAuthorizationCodes: the logins whose code is in it
    binding,          \* android_bindings: state and user
    androidCeremony,  \* androidCeremonies: what it is for; None before, and its
                      \*   type alone once it was taken or lost
    device,           \* android_devices: whose it is
    row,              \* native_sessions by refresh token; None before it is made
    access            \* nativeAccessTokens: how many there are of a refresh token

deviceVars == <<asked, authorization, deviceCodes, binding, androidCeremony, device, row, access>>

DevicesInit ==
    /\ asked = {}
    /\ authorization = [r \in Logins |-> None]
    /\ deviceCodes = {}
    /\ binding = [b \in Bindings |-> None]
    /\ androidCeremony = [c \in Ceremonies |-> None]
    /\ device = [d \in Devices |-> None]
    /\ row = [t \in Tokens |-> None]
    /\ access = [t \in Tokens |-> 0]

Made == {t \in Tokens : row[t] # None}

\* issueNativeAccess.  Slip: the access token before stays.
IssueMore(t, acc) == [acc EXCEPT ![t] = @ + 1]
Issue(t, acc) == [acc EXCEPT ![t] = 1]

\* issueNativeSession: a row with a new refresh token, and its first access token.
NewSession(u, origin, d) ==
    LET t == Cardinality(Made) + 1 IN
    /\ t \in Tokens
    /\ row' = [row EXCEPT ![t] = [user |-> u, origin |-> origin, device |-> d, state |-> "valid"]]
    /\ access' = Issue(t, access)

---------------------------------------------------------------------------
(* A desktop client: /api/client/device *)

DeviceStart(r) ==
    /\ r \notin asked
    /\ asked' = asked \cup {r}
    /\ authorization' = [authorization EXCEPT ![r] = "pending"]
    /\ deviceCodes' = deviceCodes \cup {r}
    /\ UNCHANGED <<binding, androidCeremony, device, row, access>>

DeviceAuthorize(r, u) ==
    /\ r \in deviceCodes /\ authorization[r] = "pending"
    /\ authorization' = [authorization EXCEPT ![r] = u]
    /\ UNCHANGED <<asked, deviceCodes, binding, androidCeremony, device, row, access>>

\* Slip: the authorization is not deleted, and the next poll gets a session too.
DevicePollKeep(r) ==
    /\ authorization[r] \notin {None, "pending"}
    /\ NewSession(authorization[r], r, None)
    /\ UNCHANGED <<asked, authorization, deviceCodes, binding, androidCeremony, device>>
DevicePoll(r) ==
    /\ authorization[r] \notin {None, "pending"}
    /\ authorization' = [authorization EXCEPT ![r] = None]
    /\ deviceCodes' = deviceCodes \ {r}
    /\ NewSession(authorization[r], r, None)
    /\ UNCHANGED <<asked, binding, androidCeremony, device>>

\* Slip: the code stays.
AuthorizationExpiresHalf(r) ==
    /\ authorization[r] # None
    /\ authorization' = [authorization EXCEPT ![r] = None]
    /\ UNCHANGED <<asked, deviceCodes, binding, androidCeremony, device, row, access>>
AuthorizationExpires(r) ==
    /\ authorization[r] # None
    /\ authorization' = [authorization EXCEPT ![r] = None]
    /\ deviceCodes' = deviceCodes \ {r}
    /\ UNCHANGED <<asked, binding, androidCeremony, device, row, access>>

---------------------------------------------------------------------------
(* A phone: /api/android/bind and /api/android/device *)

BindStart(b, u) ==
    /\ binding[b] = None
    /\ binding' = [binding EXCEPT ![b] = [state |-> "CREATED", user |-> u]]
    /\ UNCHANGED <<asked, authorization, deviceCodes, androidCeremony, device, row, access>>

BindingMoves(b, from, to) ==
    /\ binding[b] # None /\ binding[b].state \in from
    /\ binding' = [binding EXCEPT ![b].state = to]
    /\ UNCHANGED <<asked, authorization, deviceCodes, androidCeremony, device, row, access>>

BindClaim(b) == BindingMoves(b, {"CREATED"}, "CLAIMED")

\* decideAndroidBinding, by the user who began it.
BindDecide(b, u) ==
    /\ binding[b] # None /\ binding[b].user = u
    /\ BindingMoves(b, {"CLAIMED"}, "APPROVED") \/ BindingMoves(b, {"CLAIMED"}, "REJECTED")

\* expireAndroidBindings, which runs before every look at a binding.
BindExpires(b) == BindingMoves(b, {"CREATED", "CLAIMED", "APPROVED"}, "EXPIRED")

BeginAndroidCeremony(c, x) ==
    /\ androidCeremony[c] = None
    /\ androidCeremony' = [androidCeremony EXCEPT ![c] = x]
    /\ UNCHANGED <<asked, authorization, deviceCodes, binding, device, row, access>>

IsRunning(c) == androidCeremony[c] # None /\ androidCeremony[c].of # None
Running(c, type) == IsRunning(c) /\ androidCeremony[c].type = type

Over(c) == [type |-> androidCeremony[c].type, of |-> None, user |-> None]

DeviceRegisterOptions(c, b) ==
    /\ binding[b] # None /\ binding[b].state = "APPROVED"
    /\ BeginAndroidCeremony(c, [type |-> "device-register", of |-> b, user |-> binding[b].user])

\* completeAndroidDeviceRegistration, which finds the device unknown or of the
\* same user, in one transaction.
\* Slip: whose the device is is not compared.
RegisterVerifyAny(c, d) ==
    LET b == androidCeremony[c].of  u == binding[b].user IN
    /\ Running(c, "device-register")
    /\ binding[b].state = "APPROVED"
    /\ androidCeremony' = [androidCeremony EXCEPT ![c] = Over(c)]
    /\ binding' = [binding EXCEPT ![b].state = "COMPLETED"]
    /\ device' = [device EXCEPT ![d] = IF @ = None THEN u ELSE @]
    /\ NewSession(u, b, d)
    /\ UNCHANGED <<asked, authorization, deviceCodes>>
RegisterVerify(c, d) ==
    LET b == androidCeremony[c].of  u == binding[b].user IN
    /\ Running(c, "device-register")
    /\ binding[b].state = "APPROVED"
    /\ device[d] \in {None, u}
    /\ androidCeremony' = [androidCeremony EXCEPT ![c] = Over(c)]
    /\ binding' = [binding EXCEPT ![b].state = "COMPLETED"]
    /\ device' = [device EXCEPT ![d] = u]
    /\ NewSession(u, b, d)
    /\ UNCHANGED <<asked, authorization, deviceCodes>>

DeviceLoginOptions(c, d) ==
    /\ device[d] # None
    /\ BeginAndroidCeremony(c, [type |-> "device-login", of |-> d, user |-> device[d]])

LoginVerify(c) ==
    LET d == androidCeremony[c].of IN
    /\ Running(c, "device-login")
    /\ device[d] = androidCeremony[c].user
    /\ androidCeremony' = [androidCeremony EXCEPT ![c] = Over(c)]
    /\ NewSession(device[d], c, d)
    /\ UNCHANGED <<asked, authorization, deviceCodes, binding, device>>

\* It expires, or a request takes it and is refused.
CeremonyLost(c) ==
    /\ IsRunning(c)
    /\ androidCeremony' = [androidCeremony EXCEPT ![c] = Over(c)]
    /\ UNCHANGED <<asked, authorization, deviceCodes, binding, device, row, access>>

---------------------------------------------------------------------------
(* Sessions of native clients *)

Refresh(t) ==
    /\ row[t] # None /\ row[t].state = "valid"
    /\ access' = Issue(t, access)
    /\ UNCHANGED <<asked, authorization, deviceCodes, binding, androidCeremony, device, row>>

\* Slip: the access tokens stay until they expire.
LogoutRow(t) ==
    /\ row[t] # None
    /\ row' = [row EXCEPT ![t].state = "out"]
    /\ UNCHANGED <<asked, authorization, deviceCodes, binding, androidCeremony, device, access>>
Logout(t) ==
    /\ row[t] # None
    /\ row' = [row EXCEPT ![t].state = "out"]
    /\ access' = [access EXCEPT ![t] = 0]
    /\ UNCHANGED <<asked, authorization, deviceCodes, binding, androidCeremony, device>>

\* nativeRefreshLifetimeMs; an access token lives on for its own time.
RowExpires(t) ==
    /\ row[t] # None /\ row[t].state = "valid"
    /\ row' = [row EXCEPT ![t].state = "expired"]
    /\ UNCHANGED <<asked, authorization, deviceCodes, binding, androidCeremony, device, access>>

AccessExpires(t) ==
    /\ access[t] > 0
    /\ access' = [access EXCEPT ![t] = @ - 1]
    /\ UNCHANGED <<asked, authorization, deviceCodes, binding, androidCeremony, device, row>>

DevicesRestart ==
    /\ authorization' = [r \in Logins |-> None]
    /\ deviceCodes' = {}
    /\ androidCeremony' =
           [c \in Ceremonies |->
               IF IsRunning(c) THEN Over(c) ELSE androidCeremony[c]]
    /\ access' = [t \in Tokens |-> 0]
    /\ UNCHANGED <<asked, binding, device, row>>

DevicesStep ==
    \/ \E b \in Bindings, u \in SignedIn : BindStart(b, u)
    \/ \E b \in Bindings, u \in users : BindDecide(b, u)
    \/ \E r \in Logins, u \in users : DeviceAuthorize(r, u)
    \/ \E r \in Logins : DeviceStart(r) \/ DevicePoll(r) \/ AuthorizationExpires(r)
    \/ \E b \in Bindings : BindClaim(b) \/ BindExpires(b)
    \/ \E c \in Ceremonies :
        \/ LoginVerify(c) \/ CeremonyLost(c)
        \/ \E b \in Bindings : DeviceRegisterOptions(c, b)
        \/ \E d \in Devices : RegisterVerify(c, d) \/ DeviceLoginOptions(c, d)
    \/ \E t \in Tokens : Refresh(t) \/ Logout(t) \/ RowExpires(t) \/ AccessExpires(t)

---------------------------------------------------------------------------
(* Properties *)

DevicesTypeOK ==
    /\ asked \subseteq Logins
    /\ authorization \in [Logins -> Users \cup {None, "pending"}]
    /\ deviceCodes = {r \in Logins : authorization[r] # None}
    /\ binding \in [Bindings -> BindingRows \cup {None}]
    /\ androidCeremony \in [Ceremonies -> AndroidCeremonies \cup {None}]
    /\ device \in [Devices -> Users \cup {None}]
    /\ row \in [Tokens -> Rows \cup {None}]
    /\ access \in [Tokens -> Nat]

\* A phone that is registered, by one of several ceremonies of its binding or
\* bound again by its user or another, belongs to one user in every table: a
\* binding is COMPLETED exactly when a session came of it, and each session of
\* a device is one of the device's user.
BindingHonoured ==
    /\ \A b \in Bindings : binding[b] # None =>
        (binding[b].state = "COMPLETED") = (\E t \in Made : row[t].origin = b)
    /\ \A t \in Made : row[t].device # None => device[row[t].device] = row[t].user

\* However refreshes, logouts, expiry and restarts follow each other, a refresh
\* token has one access token at most, and none once its client logged out.
AccessFollowsSession ==
    \A t \in Tokens :
        /\ access[t] <= 1
        /\ access[t] = 1 => row[t] # None /\ row[t].state # "out"

---------------------------------------------------------------------------
(* Logins, bindings and device logins as grants *)

RowsOf(g) == {t \in Made : row[t].origin = g}

AskStage(g) ==
    IF g \in Logins THEN
        IF authorization[g] = "pending" THEN "asked"
        ELSE IF authorization[g] # None THEN "approved"
        ELSE IF g \in asked THEN "ended" ELSE "none"
    ELSE IF g \in Bindings THEN
        IF binding[g] = None THEN "none"
        ELSE IF binding[g].state \in {"CREATED", "CLAIMED"} THEN "asked"
        ELSE IF binding[g].state = "APPROVED" THEN "approved" ELSE "ended"
    ELSE IF androidCeremony[g] = None \/ androidCeremony[g].type = "device-register" THEN "none"
    ELSE IF IsRunning(g) THEN "approved" ELSE "ended"

DeviceStage(g) ==
    IF Cardinality(RowsOf(g)) > 1 THEN "twice"
    ELSE IF RowsOf(g) = {} THEN AskStage(g)
    ELSE IF \E t \in RowsOf(g) : row[t].state = "valid" THEN "used" ELSE "ended"

DeviceUser(g) ==
    IF DeviceStage(g) \notin {"approved", "used"} THEN None
    ELSE IF RowsOf(g) # {} THEN row[CHOOSE t \in RowsOf(g) : TRUE].user
    ELSE IF g \in Logins THEN authorization[g]
    ELSE IF g \in Bindings THEN binding[g].user ELSE androidCeremony[g].user
=============================================================================
