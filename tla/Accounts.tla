------------------------------ MODULE Accounts ------------------------------
(***************************************************************************)
(* Accounts of the signaling server: users, their passkeys and recovery    *)
(* codes (signaling-server/lib/database.mjs) and the handlers of           *)
(* signaling-server/server.mjs that make and use them.                     *)
(*                                                                         *)
(* A registration or login takes two requests.  The first begins a         *)
(* ceremony, kept in memory and named by a cookie; the second takes it,    *)
(* checks it and then awaits the verification of the browser's answer, so  *)
(* that other requests are served between its check and its effect.        *)
(***************************************************************************)
EXTENDS Integers, FiniteSets

CONSTANTS
    Users,       \* user ids, random when made
    Browsers,    \* browsers, each with its cookies
    Passkeys,    \* credential ids
    MaxCodes,    \* bound on the recovery codes ever made
    None

ASSUME AccountsAssumption ==
    /\ None \notin Users \cup Passkeys
    /\ MaxCodes \in Nat

VARIABLES
    users,       \* rows of the users table
    passkeys,    \* the passkeys table: whose a credential is
    recovery,    \* the recovery_codes table: the number of the user's code, 0: no row
    codes,       \* recovery codes made so far
    session,     \* the user whose session the browser's cookie names
    ceremony,    \* the ceremony the browser's cookie names
    verifying    \* what the browser's request holds during its await

accountVars == <<users, passkeys, recovery, codes, session, ceremony, verifying>>

Kinds == {"new", "add", "recover", "login"}
CeremonyRecords == [type : Kinds, user : Users \cup {None}, code : 0..MaxCodes]

AccountsInit ==
    /\ users = {}
    /\ passkeys = [k \in Passkeys |-> None]
    /\ recovery = [u \in Users |-> 0]
    /\ codes = 0
    /\ session = [b \in Browsers |-> None]
    /\ ceremony = [b \in Browsers |-> None]
    /\ verifying = [b \in Browsers |-> None]

\* The users requireUser lets through.  A request that has a body awaits it after
\* that, and acts for its user who may have signed out: for any, hence.
SignedIn == {session[b] : b \in Browsers} \ {None}

---------------------------------------------------------------------------
(* The first request of each ceremony *)

\* beginCeremony: the cookie names the new ceremony; an older one is no longer
\* reachable.
Begin(b, type, u, code) ==
    /\ ceremony' = [ceremony EXCEPT ![b] = [type |-> type, user |-> u, code |-> code]]
    /\ UNCHANGED <<users, passkeys, recovery, codes, session, verifying>>

Held == {c \in {ceremony[b] : b \in Browsers} \cup {verifying[b] : b \in Browsers} :
            c # None /\ c.type = "new"}

RegisterOptions(b) ==
    \/ session[b] # None /\ Begin(b, "add", session[b], 0)
    \/ /\ session[b] = None
       /\ \E u \in Users \ (users \cup {c.user : c \in Held}) : Begin(b, "new", u, 0)

\* Somebody types the code the user wrote down last.
RecoveryOptions(b, u) == u \in users /\ Begin(b, "recover", u, recovery[u])

LoginOptions(b) == Begin(b, "login", None, 0)

\* The ceremony expires, or a request takes it and is refused.
CeremonyEnds(b) ==
    /\ ceremony[b] # None
    /\ ceremony' = [ceremony EXCEPT ![b] = None]
    /\ UNCHANGED <<users, passkeys, recovery, codes, session, verifying>>

---------------------------------------------------------------------------
(* The second request, up to its await *)

Take(b, c) ==
    /\ verifying[b] = None
    /\ ceremony' = [ceremony EXCEPT ![b] = None]
    /\ verifying' = [verifying EXCEPT ![b] = c]
    /\ UNCHANGED <<users, passkeys, recovery, codes, session>>

VerifyRegistration(b) ==
    LET c == ceremony[b] IN
    /\ c # None /\ c.type # "login"
    /\ c.type = "add" => session[b] = c.user
    /\ c.type = "recover" => recovery[c.user] = c.code
    /\ Take(b, c)

\* The passkey's row is read before the await.
VerifyLogin(b, k) ==
    /\ ceremony[b] # None /\ ceremony[b].type = "login"
    /\ passkeys[k] # None
    /\ Take(b, [ceremony[b] EXCEPT !.user = passkeys[k]])

---------------------------------------------------------------------------
(* The second request after its await *)

\* createLoginSession, and the ceremony's cookie is cleared.
SignIn(b, u) ==
    /\ session' = [session EXCEPT ![b] = u]
    /\ ceremony' = [ceremony EXCEPT ![b] = None]
    /\ verifying' = [verifying EXCEPT ![b] = None]

NewCode(u) ==
    /\ codes < MaxCodes
    /\ codes' = codes + 1
    /\ recovery' = [recovery EXCEPT ![u] = codes + 1]

\* createUserWithPasskeyAndRecovery, recoverWithPasskey or addPasskey: one
\* transaction, which the credential's primary key aborts when it is known.
\* Slip of createUserWithPasskey, which the store still has: no recovery code.
RegisteredBare(b, k) ==
    LET c == verifying[b] IN
    /\ c # None /\ c.type # "login"
    /\ passkeys[k] = None
    /\ passkeys' = [passkeys EXCEPT ![k] = c.user]
    /\ users' = users \cup {c.user}
    /\ IF c.type = "recover" THEN NewCode(c.user) ELSE UNCHANGED <<recovery, codes>>
    /\ SignIn(b, c.user)

Registered(b, k) ==
    LET c == verifying[b] IN
    /\ c # None /\ c.type # "login"
    /\ passkeys[k] = None
    /\ passkeys' = [passkeys EXCEPT ![k] = c.user]
    /\ users' = users \cup {c.user}
    /\ IF c.type = "add" THEN UNCHANGED <<recovery, codes>> ELSE NewCode(c.user)
    /\ SignIn(b, c.user)

\* updatePasskeyUse changes nothing when the passkey was deleted meanwhile.
LoggedIn(b) ==
    /\ verifying[b] # None /\ verifying[b].type = "login"
    /\ SignIn(b, verifying[b].user)
    /\ UNCHANGED <<users, passkeys, recovery, codes>>

VerificationFails(b) ==
    /\ verifying[b] # None
    /\ verifying' = [verifying EXCEPT ![b] = None]
    /\ UNCHANGED <<users, passkeys, recovery, codes, session, ceremony>>

---------------------------------------------------------------------------
(* Requests of a signed-in browser *)

\* /api/auth/logout, or the session's row expires.
SessionEnds(b) ==
    /\ session[b] # None
    /\ session' = [session EXCEPT ![b] = None]
    /\ UNCHANGED <<users, passkeys, recovery, codes, ceremony, verifying>>

\* Slip: the last passkey can be deleted.
DeletePasskeyAny(b, k) ==
    /\ session[b] # None /\ passkeys[k] = session[b]
    /\ passkeys' = [passkeys EXCEPT ![k] = None]
    /\ UNCHANGED <<users, recovery, codes, session, ceremony, verifying>>

DeletePasskey(b, k) ==
    /\ session[b] # None /\ passkeys[k] = session[b]
    /\ Cardinality({j \in Passkeys : passkeys[j] = session[b]}) > 1
    /\ passkeys' = [passkeys EXCEPT ![k] = None]
    /\ UNCHANGED <<users, recovery, codes, session, ceremony, verifying>>

RotateRecovery(b) ==
    /\ session[b] # None
    /\ NewCode(session[b])
    /\ UNCHANGED <<users, passkeys, session, ceremony, verifying>>

\* The process ends: ceremonies and requests are lost, the database is kept.
AccountsRestart ==
    /\ ceremony' = [b \in Browsers |-> None]
    /\ verifying' = [b \in Browsers |-> None]
    /\ UNCHANGED <<users, passkeys, recovery, codes, session>>

AccountsStep ==
    \E b \in Browsers :
        \/ RegisterOptions(b) \/ LoginOptions(b) \/ CeremonyEnds(b)
        \/ VerifyRegistration(b) \/ LoggedIn(b) \/ VerificationFails(b)
        \/ SessionEnds(b) \/ RotateRecovery(b)
        \/ \E u \in Users : RecoveryOptions(b, u)
        \/ \E k \in Passkeys : VerifyLogin(b, k) \/ Registered(b, k) \/ DeletePasskey(b, k)

---------------------------------------------------------------------------
(* Properties *)

AccountsTypeOK ==
    /\ users \subseteq Users
    /\ passkeys \in [Passkeys -> Users \cup {None}]
    /\ recovery \in [Users -> 0..MaxCodes]
    /\ codes \in 0..MaxCodes
    /\ session \in [Browsers -> Users \cup {None}]
    /\ ceremony \in [Browsers -> CeremonyRecords \cup {None}]
    /\ verifying \in [Browsers -> CeremonyRecords \cup {None}]

Owns(u) == {k \in Passkeys : passkeys[k] = u}

\* Whatever registrations, recoveries and deletions overtake each other during
\* their awaits and whatever a restart cuts off, every account can still be
\* entered: it has a passkey and a recovery code of its own, no passkey or code
\* is without its account, and every session is one of an account.
AccountReachable ==
    /\ \A u \in users : Owns(u) # {} /\ recovery[u] > 0
    /\ \A u \in Users \ users : Owns(u) = {} /\ recovery[u] = 0
    /\ \A u, v \in users : recovery[u] = recovery[v] => u = v
    /\ \A b \in Browsers : session[b] # None => session[b] \in users

\* README.md: a recovery code is good for one recovery, which replaces it.  The
\* handler does not keep to it: it does not look again after its await, during which
\* another recovery with the same code, or the user, may have replaced the code.
RecoveryCodeOnce == [][\A b \in Browsers :
    verifying[b] # None /\ verifying[b].type = "recover" /\ codes' # codes /\ verifying'[b] = None
        => verifying[b].code = recovery[verifying[b].user]]_accountVars
=============================================================================
