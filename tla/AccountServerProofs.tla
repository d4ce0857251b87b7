------------------------ MODULE AccountServerProofs ------------------------
(***************************************************************************)
(* TypeOK, AccountReachable, BindingHonoured and AccessFollowsSession hold *)
(* of AccountServer, and AccountServer implements LoginGrant, for any sets *)
(* of users, browsers, passkeys, logins, bindings, devices and hosts.      *)
(***************************************************************************)
EXTENDS AccountServer, FiniteSetTheorems, TLAPS

(***************************************************************************)
(* Accounts                                                                *)
(***************************************************************************)

\* Who a ceremony is for: "add" and "recover" are for an account there is, and a
\* login that is being verified for the account of its passkey.
CeremonyLinks ==
    /\ \A b \in Browsers : ceremony[b] # None =>
         /\ ceremony[b].type # "login" => ceremony[b].user \in Users
         /\ ceremony[b].type \in {"add", "recover"} => ceremony[b].user \in users
    /\ \A b \in Browsers : verifying[b] # None =>
         /\ verifying[b].user \in Users
         /\ verifying[b].type # "new" => verifying[b].user \in users

\* No code has a number that is yet to come.
CodesMade == \A u \in Users : recovery[u] <= codes

AccountsInv == AccountsTypeOK /\ CeremonyLinks /\ CodesMade /\ AccountReachable

LEMMA AccountsInitInv == AccountsInit => AccountsInv
BY AccountsAssumption
   DEF AccountsInit, AccountsInv, AccountsTypeOK, CeremonyLinks, CodesMade,
       AccountReachable, Owns

\* Beginning a ceremony changes no account.
LEMMA BeginInv ==
    ASSUME AccountsInv, NEW b \in Browsers, NEW type \in Kinds, NEW u \in Users \cup {None},
           NEW code \in 0..MaxCodes, Begin(b, type, u, code),
           type # "login" => u \in Users,
           type \in {"add", "recover"} => u \in users
    PROVE  AccountsInv'
<1> USE DEF AccountsInv, Begin
<1>1. AccountsTypeOK'
  BY DEF AccountsTypeOK, CeremonyRecords
<1>2. CeremonyLinks'
  BY DEF AccountsTypeOK, CeremonyLinks
<1>3. CodesMade' /\ AccountReachable'
  BY DEF CodesMade, AccountReachable, Owns
<1> QED BY <1>1, <1>2, <1>3

\* Nor does ending one, or taking it for verification.
LEMMA CeremonyEndsInv ==
    ASSUME AccountsInv, NEW b \in Browsers,
           CeremonyEnds(b) \/ VerificationFails(b)
    PROVE  AccountsInv'
BY DEF AccountsInv, CeremonyEnds, VerificationFails, AccountsTypeOK, CeremonyLinks, CodesMade,
       AccountReachable, Owns

LEMMA TakeInv ==
    ASSUME AccountsInv, NEW b \in Browsers, NEW c \in CeremonyRecords, Take(b, c),
           c.user \in Users, c.type # "new" => c.user \in users
    PROVE  AccountsInv'
<1> USE DEF AccountsInv, Take
<1>1. AccountsTypeOK'
  BY DEF AccountsTypeOK
<1>2. CeremonyLinks'
  BY DEF AccountsTypeOK, CeremonyLinks
<1>3. CodesMade' /\ AccountReachable'
  BY DEF CodesMade, AccountReachable, Owns
<1> QED BY <1>1, <1>2, <1>3

\* The effect of a registration or recovery: whatever happened during the await,
\* the account gets a passkey that was nobody's, and a new code unless it has one.
LEMMA RegisteredInv ==
    ASSUME AccountsInv, NEW b \in Browsers, NEW k \in Passkeys, Registered(b, k)
    PROVE  AccountsInv'
<1> DEFINE c == verifying[b]
<1>0. c \in CeremonyRecords /\ c.user \in Users /\ (c.type # "new" => c.user \in users)
  BY DEF AccountsInv, AccountsTypeOK, CeremonyLinks, Registered
<1>a. passkeys[k] = None /\ passkeys' = [passkeys EXCEPT ![k] = c.user]
  BY DEF Registered
<1>b. users' = users \cup {c.user} /\ session' = [session EXCEPT ![b] = c.user]
  BY DEF Registered, SignIn
<1>c. IF c.type = "add" THEN UNCHANGED <<recovery, codes>> ELSE NewCode(c.user)
  BY DEF Registered
<1>d. /\ ceremony' = [ceremony EXCEPT ![b] = None]
      /\ verifying' = [verifying EXCEPT ![b] = None]
  BY DEF Registered, SignIn
<1>e. codes \in 0..MaxCodes /\ recovery \in [Users -> 0..MaxCodes] /\ MaxCodes \in Nat
  BY AccountsAssumption DEF AccountsInv, AccountsTypeOK
<1> HIDE DEF c
<1>1. AccountsTypeOK'
  BY <1>0, <1>a, <1>b, <1>c, <1>d, <1>e DEF AccountsInv, AccountsTypeOK, NewCode
<1>2. CeremonyLinks'
  BY <1>b, <1>d DEF AccountsInv, AccountsTypeOK, CeremonyLinks
<1>3. CodesMade'
  BY <1>0, <1>c, <1>e DEF AccountsInv, CodesMade, NewCode
<1>4. AccountReachable'
  <2> USE DEF AccountsInv
  <2>1. \A u \in users' : Owns(u)' # {} /\ recovery'[u] > 0
    <3>1. \A u : u = c.user => k \in Owns(u)'
      BY <1>a DEF AccountsTypeOK, Owns
    <3>2. \A u \in users : Owns(u) \subseteq Owns(u)'
      BY <1>a, AccountsAssumption DEF AccountsTypeOK, Owns
    <3>3. recovery'[c.user] > 0
      BY <1>0, <1>c, <1>e DEF AccountReachable, NewCode, CeremonyRecords
    <3>4. \A u \in users : recovery'[u] > 0
      BY <1>0, <1>c, <1>e DEF AccountReachable, NewCode, AccountsTypeOK
    <3> QED BY <1>b, <3>1, <3>2, <3>3, <3>4 DEF AccountReachable
  <2>2. \A u \in Users \ users' : Owns(u)' = {} /\ recovery'[u] = 0
    BY <1>0, <1>a, <1>b, <1>c DEF AccountReachable, AccountsTypeOK, Owns, NewCode
  <2>3. \A u, v \in users' : recovery'[u] = recovery'[v] => u = v
    BY <1>0, <1>b, <1>c, <1>e DEF AccountReachable, AccountsTypeOK, CodesMade, NewCode
  <2>4. \A d \in Browsers : session'[d] # None => session'[d] \in users'
    BY <1>b DEF AccountReachable, AccountsTypeOK
  <2> QED BY <2>1, <2>2, <2>3, <2>4 DEF AccountReachable, Owns
<1> QED BY <1>1, <1>2, <1>3, <1>4 DEF AccountsInv

LEMMA LoggedInInv ==
    ASSUME AccountsInv, NEW b \in Browsers, LoggedIn(b)
    PROVE  AccountsInv'
<1> USE DEF AccountsInv, LoggedIn, SignIn
<1>1. verifying[b].user \in users
  BY DEF CeremonyLinks
<1>2. AccountsTypeOK'
  BY <1>1 DEF AccountsTypeOK
<1>3. CeremonyLinks' /\ CodesMade'
  BY DEF AccountsTypeOK, CeremonyLinks, CodesMade
<1>4. AccountReachable'
  BY <1>1 DEF AccountsTypeOK, AccountReachable, Owns
<1> QED BY <1>2, <1>3, <1>4

LEMMA SessionEndsInv ==
    ASSUME AccountsInv, NEW b \in Browsers, SessionEnds(b)
    PROVE  AccountsInv'
BY DEF AccountsInv, SessionEnds, AccountsTypeOK, CeremonyLinks, CodesMade, AccountReachable, Owns

\* Of two passkeys one remains, whichever is deleted.
LEMMA DeletePasskeyInv ==
    ASSUME AccountsInv, NEW b \in Browsers, NEW k \in Passkeys, DeletePasskey(b, k)
    PROVE  AccountsInv'
<1> USE DEF AccountsInv, DeletePasskey
<1>1. AccountsTypeOK'
  BY DEF AccountsTypeOK
<1>2. CeremonyLinks' /\ CodesMade'
  BY DEF CeremonyLinks, CodesMade
<1>3. AccountReachable'
  <2>1. \A u \in Users : Owns(u)' = Owns(u) \ {k}
    BY AccountsAssumption DEF AccountsTypeOK, Owns
  <2>2. Owns(session[b]) # {k}
    BY FS_Singleton DEF Owns
  <2>3. \A u \in users : u # session[b] => k \notin Owns(u)
    BY DEF Owns
  <2> QED BY <2>1, <2>2, <2>3 DEF AccountReachable, AccountsTypeOK
<1> QED BY <1>1, <1>2, <1>3

LEMMA RotateRecoveryInv ==
    ASSUME AccountsInv, NEW b \in Browsers, RotateRecovery(b)
    PROVE  AccountsInv'
<1> USE AccountsAssumption DEF AccountsInv, RotateRecovery, NewCode
<1>1. session[b] \in users /\ session[b] \in Users
  BY DEF AccountReachable, AccountsTypeOK
<1>2. AccountsTypeOK'
  BY <1>1 DEF AccountsTypeOK
<1>3. CeremonyLinks'
  BY DEF CeremonyLinks
<1>4. CodesMade'
  BY <1>1 DEF CodesMade, AccountsTypeOK
<1>5. AccountReachable'
  <2>1. \A u \in Users : recovery'[u] = IF u = session[b] THEN codes + 1 ELSE recovery[u]
    BY DEF AccountsTypeOK
  <2>2. \A u \in Users : recovery[u] \in Nat /\ recovery[u] < codes + 1 /\ codes \in Nat
    BY DEF AccountsTypeOK, CodesMade
  <2>3. users \subseteq Users
    BY DEF AccountsTypeOK
  <2>4. \A u \in users : Owns(u)' # {} /\ recovery'[u] > 0
    BY <2>1, <2>2, <2>3 DEF AccountReachable, Owns
  <2>5. \A u \in Users \ users : Owns(u)' = {} /\ recovery'[u] = 0
    BY <1>1, <2>1 DEF AccountReachable, Owns
  <2>6. \A u, v \in users : recovery'[u] = recovery'[v] => u = v
    BY <2>1, <2>2, <2>3 DEF AccountReachable
  <2> QED BY <2>4, <2>5, <2>6 DEF AccountReachable, Owns
<1> QED BY <1>2, <1>3, <1>4, <1>5

LEMMA AccountsRestartInv == AccountsInv /\ AccountsRestart => AccountsInv'
BY DEF AccountsInv, AccountsRestart, AccountsTypeOK, CeremonyLinks, CodesMade,
       AccountReachable, Owns

LEMMA AccountsStepInv == AccountsInv /\ AccountsStep => AccountsInv'
<1> SUFFICES ASSUME AccountsInv, AccountsStep PROVE AccountsInv'
  OBVIOUS
<1> PICK b \in Browsers :
        \/ RegisterOptions(b) \/ LoginOptions(b) \/ CeremonyEnds(b)
        \/ VerifyRegistration(b) \/ LoggedIn(b) \/ VerificationFails(b)
        \/ SessionEnds(b) \/ RotateRecovery(b)
        \/ \E u \in Users : RecoveryOptions(b, u)
        \/ \E k \in Passkeys : VerifyLogin(b, k) \/ Registered(b, k) \/ DeletePasskey(b, k)
  BY DEF AccountsStep
<1>t. AccountsTypeOK /\ MaxCodes \in Nat
  BY AccountsAssumption DEF AccountsInv
<1>1. CASE RegisterOptions(b)
  <2>1. CASE session[b] # None /\ Begin(b, "add", session[b], 0)
    <3>1. session[b] \in users /\ session[b] \in Users
      BY <2>1 DEF AccountsInv, AccountReachable, AccountsTypeOK
    <3> QED BY <1>t, <2>1, <3>1, BeginInv DEF Kinds
  <2>2. CASE \E u \in Users : Begin(b, "new", u, 0)
    BY <1>t, <2>2, BeginInv DEF Kinds
  <2> QED BY <1>1, <2>1, <2>2 DEF RegisterOptions
<1>2. CASE LoginOptions(b)
  BY <1>t, <1>2, BeginInv DEF LoginOptions, Kinds
<1>3. CASE \E u \in Users : RecoveryOptions(b, u)
  <2> PICK u \in Users : RecoveryOptions(b, u)
    BY <1>3
  <2>1. recovery[u] \in 0..MaxCodes
    BY <1>t DEF AccountsTypeOK
  <2> QED BY <2>1, BeginInv DEF RecoveryOptions, Kinds
<1>4. CASE VerifyRegistration(b)
  <2>1. ceremony[b] \in CeremonyRecords
    BY <1>t, <1>4 DEF AccountsTypeOK, VerifyRegistration
  <2>2. /\ ceremony[b].user \in Users
        /\ ceremony[b].type # "new" => ceremony[b].user \in users
    BY <1>4, <2>1 DEF AccountsInv, CeremonyLinks, VerifyRegistration, CeremonyRecords, Kinds
  <2> QED BY <1>4, <2>1, <2>2, TakeInv DEF VerifyRegistration
<1>5. CASE \E k \in Passkeys : VerifyLogin(b, k)
  <2> PICK k \in Passkeys : VerifyLogin(b, k)
    BY <1>5
  <2> DEFINE c == [ceremony[b] EXCEPT !.user = passkeys[k]]
  <2>1. passkeys[k] \in users /\ passkeys[k] \in Users
    BY <1>t DEF AccountsInv, AccountsTypeOK, AccountReachable, Owns, VerifyLogin
  <2>2. c \in CeremonyRecords /\ c.user = passkeys[k]
    BY <1>t, <2>1 DEF AccountsTypeOK, VerifyLogin, CeremonyRecords
  <2>3. Take(b, c)
    BY DEF VerifyLogin
  <2> HIDE DEF c
  <2> QED BY <2>1, <2>2, <2>3, TakeInv
<1>6. CASE \E k \in Passkeys : Registered(b, k) \/ DeletePasskey(b, k)
  BY <1>6, RegisteredInv, DeletePasskeyInv
<1>7. CASE CeremonyEnds(b) \/ VerificationFails(b)
  BY <1>7, CeremonyEndsInv
<1>8. CASE LoggedIn(b) \/ SessionEnds(b) \/ RotateRecovery(b)
  BY <1>8, LoggedInInv, SessionEndsInv, RotateRecoveryInv
<1> QED BY <1>1, <1>2, <1>3, <1>4, <1>5, <1>6, <1>7, <1>8

(***************************************************************************)
(* Logins, bindings and devices                                            *)
(***************************************************************************)

\* Rows are made one after the other.
RowsInOrder == \E n \in 0..MaxTokens : Made = 1..n

\* A ceremony under way is for a user, and a registration for a binding there is;
\* so is a row that came of a binding.
DeviceLinks ==
    /\ \A c \in Ceremonies : IsRunning(c) =>
         /\ androidCeremony[c].user \in Users
         /\ androidCeremony[c].type = "device-register" =>
              /\ androidCeremony[c].of \in Bindings
              /\ binding[androidCeremony[c].of] # None
    /\ \A t \in Made : row[t].origin \in Bindings => binding[row[t].origin] # None

DevicesInv ==
    DevicesTypeOK /\ RowsInOrder /\ DeviceLinks /\ BindingHonoured /\ AccessFollowsSession

\* A step that makes no row, registers no device and completes no binding.
LEMMA QuietInv ==
    ASSUME DevicesInv, DevicesTypeOK', DeviceLinks', UNCHANGED <<device, row, access>>,
           \A b \in Bindings : binding'[b] # binding[b] =>
              /\ binding[b] = None \/ binding[b].state # "COMPLETED"
              /\ binding'[b].state # "COMPLETED"
    PROVE  DevicesInv'
<1> USE DEF DevicesInv
<1>0. Made' = Made
  BY DEF Made
<1>1. RowsInOrder'
  BY <1>0 DEF RowsInOrder
<1>2. BindingHonoured'
  <2>1. ASSUME NEW b \in Bindings, binding'[b] # None
        PROVE  (binding'[b].state = "COMPLETED") = (\E t \in Made' : row'[t].origin = b)
    <3>1. CASE binding'[b] = binding[b]
      BY <1>0, <2>1, <3>1 DEF BindingHonoured
    <3>2. CASE binding'[b] # binding[b]
      <4>1. ~\E t \in Made : row[t].origin = b
        <5>1. CASE binding[b] = None
          BY <5>1 DEF DeviceLinks
        <5>2. CASE binding[b] # None
          BY <3>2, <5>2 DEF BindingHonoured
        <5> QED BY <5>1, <5>2
      <4> QED BY <1>0, <3>2, <4>1
    <3> QED BY <3>1, <3>2
  <2> QED BY <1>0, <2>1 DEF BindingHonoured
<1>3. AccessFollowsSession'
  BY DEF AccessFollowsSession
<1> QED BY <1>1, <1>2, <1>3

\* A new session has a row that was free.
LEMMA NewRow ==
    ASSUME DevicesInv, NEW u \in Users, NEW g \in Origins, NEW d \in Devices \cup {None},
           NewSession(u, g, d)
    PROVE  \E t \in Tokens, r \in Rows :
             /\ r.user = u /\ r.origin = g /\ r.device = d /\ r.state = "valid" /\ r # None
             /\ row[t] = None /\ row' = [row EXCEPT ![t] = r]
             /\ access' = [access EXCEPT ![t] = 1]
             /\ Made' = Made \cup {t} /\ t \notin Made /\ RowsInOrder'
<1> DEFINE r == [user |-> u, origin |-> g, device |-> d, state |-> "valid"]
<1> PICK n \in 0..MaxTokens : Made = 1..n
  BY DEF DevicesInv, RowsInOrder
<1>0. MaxTokens \in Nat /\ None \notin Rows
  BY DeviceGrantsAssumption
<1>1. Cardinality(Made) = n
  BY <1>0, FS_Interval
<1>2. n + 1 \in Tokens /\ row' = [row EXCEPT ![n + 1] = r] /\ access' = [access EXCEPT ![n + 1] = 1]
  BY <1>1 DEF NewSession, Issue
<1>3. r \in Rows /\ r # None
  BY <1>0 DEF Rows
<1> HIDE DEF r
<1>4. n + 1 \notin Made /\ row[n + 1] = None
  BY <1>0, <1>2 DEF Made
<1>5. Made' = Made \cup {n + 1}
  BY <1>2, <1>3 DEF Made, DevicesInv, DevicesTypeOK
<1>6. Made' = 1..(n + 1) /\ n + 1 \in 0..MaxTokens
  BY <1>0, <1>2, <1>5 DEF Tokens
<1>7. RowsInOrder'
  BY <1>6 DEF RowsInOrder
<1> QED BY <1>2, <1>3, <1>4, <1>5, <1>7 DEF r

LEMMA DevicesInitInv == DevicesInit => DevicesInv
<1> SUFFICES ASSUME DevicesInit PROVE DevicesInv
  OBVIOUS
<1> USE DeviceGrantsAssumption DEF DevicesInit
<1>1. Made = {}
  BY DEF Made
<1>2. DevicesTypeOK
  BY DEF DevicesTypeOK
<1>3. RowsInOrder
  <2>1. 0 \in 0..MaxTokens /\ 1..0 = {}
    OBVIOUS
  <2> QED BY <1>1, <2>1 DEF RowsInOrder
<1>4. DeviceLinks
  BY <1>1 DEF DeviceLinks, IsRunning
<1>5. BindingHonoured /\ AccessFollowsSession
  BY <1>1 DEF BindingHonoured, AccessFollowsSession
<1> QED BY <1>2, <1>3, <1>4, <1>5 DEF DevicesInv

\* A desktop client's login, but for the poll that makes its session.
LEMMA LoginStepInv ==
    ASSUME DevicesInv, NEW q \in Logins,
           DeviceStart(q) \/ AuthorizationExpires(q) \/ \E u \in Users : DeviceAuthorize(q, u)
    PROVE  DevicesInv'
<1>0. UNCHANGED <<binding, androidCeremony, device, row, access>>
  BY DEF DeviceStart, DeviceAuthorize, AuthorizationExpires
<1>1. DevicesTypeOK'
  <2> USE AccountsAssumption, DeviceGrantsAssumption DEF DevicesInv, DevicesTypeOK
  <2>1. CASE DeviceStart(q)
    BY <1>0, <2>1 DEF DeviceStart
  <2>2. CASE \E u \in Users : DeviceAuthorize(q, u)
    BY <1>0, <2>2 DEF DeviceAuthorize
  <2>3. CASE AuthorizationExpires(q)
    BY <1>0, <2>3 DEF AuthorizationExpires
  <2> QED BY <2>1, <2>2, <2>3
<1>2. DeviceLinks'
  BY <1>0 DEF DevicesInv, DeviceLinks, IsRunning, Made
<1> QED BY <1>0, <1>1, <1>2, QuietInv

\* A binding before it is completed.
LEMMA BindingStepInv ==
    ASSUME DevicesInv, NEW b \in Bindings,
           \/ BindClaim(b) \/ BindExpires(b)
           \/ \E u \in Users : BindStart(b, u) \/ BindDecide(b, u)
    PROVE  DevicesInv'
<1> USE DEF DevicesInv
<1>0. UNCHANGED <<asked, authorization, deviceCodes, androidCeremony, device, row, access>>
  BY DEF BindStart, BindClaim, BindDecide, BindExpires, BindingMoves
<1>1. PICK x \in BindingRows :
        /\ binding' = [binding EXCEPT ![b] = x] /\ x.state # "COMPLETED"
        /\ binding[b] = None \/ binding[b].state # "COMPLETED"
  <2>1. CASE \E u \in Users : BindStart(b, u)
    <3> PICK u \in Users : BindStart(b, u)
      BY <2>1
    <3> DEFINE y == [state |-> "CREATED", user |-> u]
    <3>1. y \in BindingRows /\ y.state # "COMPLETED"
      BY DEF BindingRows, BindingStates
    <3>2. binding' = [binding EXCEPT ![b] = y] /\ binding[b] = None
      BY DEF BindStart
    <3> HIDE DEF y
    <3> QED BY <3>1, <3>2
  <2>2. CASE BindClaim(b) \/ BindExpires(b) \/ \E u \in Users : BindDecide(b, u)
    <3>1. PICK to \in BindingStates \ {"COMPLETED"} :
             /\ binding[b] # None /\ binding[b].state # "COMPLETED"
             /\ binding' = [binding EXCEPT ![b].state = to]
      BY <2>2 DEF BindClaim, BindDecide, BindExpires, BindingMoves, BindingStates
    <3>2. binding[b] \in BindingRows
      BY <3>1 DEF DevicesTypeOK
    <3> DEFINE y == [binding[b] EXCEPT !.state = to]
    <3>3. y \in BindingRows /\ y.state = to
      BY <3>2 DEF BindingRows
    <3>4. binding' = [binding EXCEPT ![b] = y]
      BY <3>1
    <3> HIDE DEF y
    <3> QED BY <3>1, <3>3, <3>4
  <2> QED BY <2>1, <2>2
<1>2. x # None
  BY DeviceGrantsAssumption
<1>3. DevicesTypeOK'
  BY <1>0, <1>1 DEF DevicesTypeOK
<1>4. DeviceLinks'
  BY <1>0, <1>1, <1>2 DEF DevicesTypeOK, DeviceLinks, IsRunning, Made
<1> QED BY <1>0, <1>1, <1>3, <1>4, QuietInv DEF DevicesTypeOK

\* Ceremonies begin and are lost.
LEMMA AndroidCeremonyInv ==
    ASSUME DevicesInv, NEW c \in Ceremonies,
           \/ CeremonyLost(c)
           \/ \E b \in Bindings : DeviceRegisterOptions(c, b)
           \/ \E d \in Devices : DeviceLoginOptions(c, d)
    PROVE  DevicesInv'
<1> USE DEF DevicesInv
<1>0. UNCHANGED <<asked, authorization, deviceCodes, binding, device, row, access>>
  BY DEF DeviceRegisterOptions, DeviceLoginOptions, CeremonyLost, BeginAndroidCeremony
<1>1. CASE \E b \in Bindings : DeviceRegisterOptions(c, b)
  <2> PICK b \in Bindings : DeviceRegisterOptions(c, b)
    BY <1>1
  <2> DEFINE x == [type |-> "device-register", of |-> b, user |-> binding[b].user]
  <2>1. androidCeremony' = [androidCeremony EXCEPT ![c] = x]
    BY DEF DeviceRegisterOptions, BeginAndroidCeremony
  <2>2. binding[b] # None /\ binding[b].user \in Users
    BY DEF DeviceRegisterOptions, DevicesTypeOK, BindingRows
  <2>3. x \in [type : {"device-register"}, of : Bindings \cup {None}, user : Users \cup {None}]
    BY <2>2
  <2>4. x.type = "device-register" /\ x.of = b /\ x.user \in Users
    BY <2>2
  <2> HIDE DEF x
  <2>5. DevicesTypeOK'
    BY <1>0, <2>1, <2>3 DEF DevicesTypeOK, AndroidCeremonies
  <2>6. DeviceLinks'
    BY <1>0, <2>1, <2>2, <2>4 DEF DevicesTypeOK, DeviceLinks, IsRunning, Made
  <2> QED BY <1>0, <2>5, <2>6, QuietInv
<1>2. CASE \E d \in Devices : DeviceLoginOptions(c, d)
  <2> PICK d \in Devices : DeviceLoginOptions(c, d)
    BY <1>2
  <2> DEFINE x == [type |-> "device-login", of |-> d, user |-> device[d]]
  <2>1. androidCeremony' = [androidCeremony EXCEPT ![c] = x]
    BY DEF DeviceLoginOptions, BeginAndroidCeremony
  <2>2. device[d] \in Users
    BY DEF DeviceLoginOptions, DevicesTypeOK
  <2>3. x \in [type : {"device-login"}, of : Devices \cup {None}, user : Users \cup {None}]
    BY <2>2
  <2>4. x.type = "device-login" /\ x.user \in Users
    BY <2>2
  <2> HIDE DEF x
  <2>5. DevicesTypeOK'
    BY <1>0, <2>1, <2>3 DEF DevicesTypeOK, AndroidCeremonies
  <2>6. DeviceLinks'
    BY <1>0, <2>1, <2>2, <2>4 DEF DevicesTypeOK, DeviceLinks, IsRunning, Made
  <2> QED BY <1>0, <2>5, <2>6, QuietInv
<1>3. CASE CeremonyLost(c)
  <2>1. androidCeremony' = [androidCeremony EXCEPT ![c] = Over(c)] /\ androidCeremony[c] # None
    BY <1>3 DEF CeremonyLost, IsRunning
  <2>2. DevicesTypeOK'
    BY <1>0, <2>1 DEF DevicesTypeOK, AndroidCeremonies, Over
  <2>3. DeviceLinks'
    BY <1>0, <2>1 DEF DevicesTypeOK, DeviceLinks, IsRunning, Made, Over
  <2> QED BY <1>0, <2>2, <2>3, QuietInv
<1> QED BY <1>1, <1>2, <1>3

\* A poll finds its login approved: the row it makes is of no binding and no device.
LEMMA DevicePollInv ==
    ASSUME DevicesInv, NEW q \in Logins, DevicePoll(q)
    PROVE  DevicesInv'
<1> USE DEF DevicesInv
<1> DEFINE u == authorization[q]
<1>0. UNCHANGED <<asked, binding, androidCeremony, device>>
  BY DEF DevicePoll
<1>1. u \in Users /\ NewSession(u, q, None) /\ q \in Origins
  BY DEF DevicePoll, DevicesTypeOK, Origins
<1> HIDE DEF u
<1>2. PICK t \in Tokens, r \in Rows :
        /\ r.user = u /\ r.origin = q /\ r.device = None /\ r.state = "valid" /\ r # None
        /\ row[t] = None /\ row' = [row EXCEPT ![t] = r]
        /\ access' = [access EXCEPT ![t] = 1]
        /\ Made' = Made \cup {t} /\ t \notin Made /\ RowsInOrder'
  BY <1>1, NewRow
<1>3. q \notin Bindings
  BY DeviceGrantsAssumption
<1>4. DevicesTypeOK'
  BY <1>0, <1>2, AccountsAssumption, DeviceGrantsAssumption DEF DevicePoll, DevicesTypeOK
<1>5. DeviceLinks'
  BY <1>0, <1>2, <1>3 DEF DevicesTypeOK, DeviceLinks, IsRunning, Made
<1>6. BindingHonoured'
  <2>1. \A s \in Made : row'[s] = row[s]
    BY <1>2 DEF DevicesTypeOK, Made
  <2>2. row'[t] = r
    BY <1>2 DEF DevicesTypeOK
  <2>3. \A b \in Bindings :
          (\E s \in Made' : row'[s].origin = b) <=> (\E s \in Made : row[s].origin = b)
    BY <1>2, <1>3, <2>1, <2>2
  <2>4. \A b \in Bindings : binding'[b] # None =>
          (binding'[b].state = "COMPLETED") = (\E s \in Made' : row'[s].origin = b)
    BY <1>0, <2>3 DEF BindingHonoured
  <2>5. \A s \in Made' : row'[s].device # None => device'[row'[s].device] = row'[s].user
    BY <1>0, <1>2, <2>1, <2>2 DEF BindingHonoured
  <2> QED BY <2>4, <2>5 DEF BindingHonoured
<1>7. AccessFollowsSession'
  BY <1>2 DEF DevicesTypeOK, AccessFollowsSession
<1> QED BY <1>2, <1>4, <1>5, <1>6, <1>7

\* A registration: the binding was approved, so no row has come of it before, and
\* the device is nobody's or the user's.
LEMMA RegisterVerifyInv ==
    ASSUME DevicesInv, NEW c \in Ceremonies, NEW d \in Devices, RegisterVerify(c, d)
    PROVE  DevicesInv'
<1> USE DEF DevicesInv
<1>0. PICK b : b = androidCeremony[c].of
  OBVIOUS
<1>1. PICK u : u = binding[b].user
  OBVIOUS
<1>2. /\ IsRunning(c) /\ binding[b].state = "APPROVED" /\ device[d] \in {None, u}
      /\ androidCeremony' = [androidCeremony EXCEPT ![c] = Over(c)]
      /\ binding' = [binding EXCEPT ![b].state = "COMPLETED"]
      /\ device' = [device EXCEPT ![d] = u]
      /\ NewSession(u, b, d)
      /\ UNCHANGED <<asked, authorization, deviceCodes>>
  BY <1>0, <1>1 DEF RegisterVerify, Running
<1>3. b \in Bindings /\ binding[b] \in BindingRows /\ binding[b] # None /\ u \in Users
  BY <1>0, <1>1, <1>2 DEF RegisterVerify, Running, DeviceLinks, DevicesTypeOK, BindingRows
<1>4. PICK t \in Tokens, r \in Rows :
        /\ r.user = u /\ r.origin = b /\ r.device = d /\ r.state = "valid" /\ r # None
        /\ row[t] = None /\ row' = [row EXCEPT ![t] = r]
        /\ access' = [access EXCEPT ![t] = 1]
        /\ Made' = Made \cup {t} /\ t \notin Made /\ RowsInOrder'
  <2>1. b \in Origins /\ d \in Devices \cup {None}
    BY <1>3 DEF Origins
  <2> QED BY <1>2, <1>3, <2>1, NewRow
<1>5. PICK x \in BindingRows :
        binding' = [binding EXCEPT ![b] = x] /\ x.state = "COMPLETED" /\ x # None
  <2> DEFINE y == [binding[b] EXCEPT !.state = "COMPLETED"]
  <2>1. y \in BindingRows /\ y.state = "COMPLETED"
    BY <1>3 DEF BindingRows, BindingStates
  <2>2. binding' = [binding EXCEPT ![b] = y]
    BY <1>2
  <2> HIDE DEF y
  <2> QED BY <2>1, <2>2, DeviceGrantsAssumption
<1>6. DevicesTypeOK'
  <2>1. androidCeremony[c] # None
    BY <1>2 DEF IsRunning
  <2>2. /\ asked' \subseteq Logins
        /\ authorization' \in [Logins -> Users \cup {None, "pending"}]
        /\ deviceCodes' = {q \in Logins : authorization'[q] # None}
        /\ binding' \in [Bindings -> BindingRows \cup {None}]
        /\ device' \in [Devices -> Users \cup {None}]
        /\ row' \in [Tokens -> Rows \cup {None}]
        /\ access' \in [Tokens -> Nat]
    BY <1>2, <1>3, <1>4, <1>5 DEF DevicesTypeOK
  <2> QED BY <1>2, <2>1, <2>2 DEF DevicesTypeOK, AndroidCeremonies, Over
<1>7. \A s \in Made : row'[s] = row[s]
  BY <1>4 DEF DevicesTypeOK, Made
<1>8. row'[t] = r
  BY <1>4 DEF DevicesTypeOK
<1>9. \A a \in Bindings : binding'[a] = IF a = b THEN x ELSE binding[a]
  BY <1>5 DEF DevicesTypeOK
<1>10. DeviceLinks'
  <2>1. ASSUME NEW e \in Ceremonies, IsRunning(e)'
        PROVE  e # c /\ androidCeremony'[e] = androidCeremony[e] /\ IsRunning(e)
    BY <1>2, <2>1 DEF DevicesTypeOK, IsRunning, Over
  <2>2. ASSUME NEW e \in Ceremonies, IsRunning(e)'
        PROVE  /\ androidCeremony'[e].user \in Users
               /\ androidCeremony'[e].type = "device-register" =>
                    /\ androidCeremony'[e].of \in Bindings
                    /\ binding'[androidCeremony'[e].of] # None
    BY <1>5, <1>9, <2>1, <2>2 DEF DeviceLinks
  <2>3. \A s \in Made' : row'[s].origin \in Bindings => binding'[row'[s].origin] # None
    BY <1>4, <1>5, <1>7, <1>8, <1>9 DEF DeviceLinks
  <2> QED BY <2>2, <2>3 DEF DeviceLinks
<1>11. BindingHonoured'
  <2>1. \A s \in Made : row[s].origin # b
    BY <1>2, <1>3 DEF BindingHonoured
  <2>2. ASSUME NEW a \in Bindings, binding'[a] # None
        PROVE  (binding'[a].state = "COMPLETED") = (\E s \in Made' : row'[s].origin = a)
    <3>1. CASE a = b
      BY <1>4, <1>5, <1>8, <1>9, <3>1
    <3>2. CASE a # b
      <4>1. (\E s \in Made' : row'[s].origin = a) <=> (\E s \in Made : row[s].origin = a)
        BY <1>4, <1>7, <1>8, <3>2
      <4>2. binding'[a] = binding[a]
        BY <1>9, <3>2
      <4>3. (binding[a].state = "COMPLETED") = (\E s \in Made : row[s].origin = a)
        BY <2>2, <4>2 DEF BindingHonoured
      <4> QED BY <4>1, <4>2, <4>3
    <3> QED BY <3>1, <3>2
  <2>3. \A s \in Made : row[s].device = d => row[s].user = u
    <3>1. \A s \in Made : row[s].user \in Users
      BY DEF Made, DevicesTypeOK, Rows
    <3>2. d # None
      BY DeviceGrantsAssumption
    <3> QED BY <1>2, <3>1, <3>2, AccountsAssumption DEF BindingHonoured
  <2>4. \A s \in Made' : row'[s].device # None => device'[row'[s].device] = row'[s].user
    <3>1. \A s \in Made : row[s].device \in Devices \cup {None}
      BY DEF Made, DevicesTypeOK, Rows
    <3> QED BY <1>2, <1>4, <1>7, <1>8, <2>3, <3>1 DEF DevicesTypeOK, BindingHonoured
  <2> QED BY <2>2, <2>4 DEF BindingHonoured
<1>12. AccessFollowsSession'
  BY <1>4 DEF DevicesTypeOK, AccessFollowsSession
<1> QED BY <1>4, <1>6, <1>10, <1>11, <1>12

\* A device's login makes a row of the device's user, whose ceremony is no binding.
LEMMA LoginVerifyInv ==
    ASSUME DevicesInv, NEW c \in Ceremonies, LoginVerify(c)
    PROVE  DevicesInv'
<1> USE DEF DevicesInv
<1>0. PICK d : d = androidCeremony[c].of
  OBVIOUS
<1>1. PICK u : u = device[d]
  OBVIOUS
<1>2. /\ IsRunning(c) /\ androidCeremony[c].type = "device-login" /\ u = androidCeremony[c].user
      /\ androidCeremony' = [androidCeremony EXCEPT ![c] = Over(c)]
      /\ NewSession(u, c, d)
      /\ UNCHANGED <<asked, authorization, deviceCodes, binding, device>>
  BY <1>0, <1>1 DEF LoginVerify, Running
<1>3. d \in Devices /\ u \in Users /\ c \in Origins /\ c \notin Bindings
  BY <1>0, <1>2, DeviceGrantsAssumption
  DEF DeviceLinks, DevicesTypeOK, AndroidCeremonies, IsRunning, Origins
<1>4. PICK t \in Tokens, r \in Rows :
        /\ r.user = u /\ r.origin = c /\ r.device = d /\ r.state = "valid" /\ r # None
        /\ row[t] = None /\ row' = [row EXCEPT ![t] = r]
        /\ access' = [access EXCEPT ![t] = 1]
        /\ Made' = Made \cup {t} /\ t \notin Made /\ RowsInOrder'
  BY <1>2, <1>3, NewRow
<1>5. DevicesTypeOK'
  <2>1. androidCeremony[c] # None
    BY <1>2 DEF IsRunning
  <2> QED BY <1>2, <1>4, <2>1 DEF DevicesTypeOK, AndroidCeremonies, Over
<1>6. \A s \in Made : row'[s] = row[s]
  BY <1>4 DEF DevicesTypeOK, Made
<1>7. row'[t] = r
  BY <1>4 DEF DevicesTypeOK
<1>8. DeviceLinks'
  <2>1. \A e \in Ceremonies : IsRunning(e)' =>
          androidCeremony'[e] = androidCeremony[e] /\ IsRunning(e)
    BY <1>2 DEF DevicesTypeOK, IsRunning, Over
  <2>2. \A s \in Made' : row'[s].origin \in Bindings => binding'[row'[s].origin] # None
    BY <1>2, <1>3, <1>4, <1>6, <1>7 DEF DeviceLinks
  <2> QED BY <1>2, <2>1, <2>2 DEF DeviceLinks
<1>9. BindingHonoured'
  <2>1. \A b \in Bindings :
          (\E s \in Made' : row'[s].origin = b) <=> (\E s \in Made : row[s].origin = b)
    BY <1>3, <1>4, <1>6, <1>7
  <2>2. \A b \in Bindings : binding'[b] # None =>
          (binding'[b].state = "COMPLETED") = (\E s \in Made' : row'[s].origin = b)
    BY <1>2, <2>1 DEF BindingHonoured
  <2>3. \A s \in Made' : row'[s].device # None => device'[row'[s].device] = row'[s].user
    <3>1. \A s \in Made : row[s].device # None => device[row[s].device] = row[s].user
      BY DEF BindingHonoured
    <3>2. device'[row'[t].device] = row'[t].user
      BY <1>1, <1>2, <1>4, <1>7
    <3> QED BY <1>2, <1>4, <1>6, <3>1, <3>2
  <2> QED BY <2>2, <2>3 DEF BindingHonoured
<1>10. AccessFollowsSession'
  BY <1>4 DEF DevicesTypeOK, AccessFollowsSession
<1> QED BY <1>4, <1>5, <1>8, <1>9, <1>10

\* What happens to a row leaves whose it is, and what it came of.
LEMMA RowStepInv ==
    ASSUME DevicesInv, NEW t \in Tokens,
           Refresh(t) \/ Logout(t) \/ RowExpires(t) \/ AccessExpires(t)
    PROVE  DevicesInv'
<1> USE DEF DevicesInv
<1>0. UNCHANGED <<asked, authorization, deviceCodes, binding, androidCeremony, device>>
  BY DEF Refresh, Logout, RowExpires, AccessExpires
<1>1. row' \in [Tokens -> Rows \cup {None}] /\ access' \in [Tokens -> Nat]
  <2> USE DEF DevicesTypeOK
  <2>1. CASE Refresh(t) \/ AccessExpires(t)
    BY <2>1 DEF Refresh, AccessExpires, Issue
  <2>2. CASE Logout(t) \/ RowExpires(t)
    BY <2>2 DEF Logout, RowExpires, Rows
  <2> QED BY <2>1, <2>2
<1>2. \A s \in Tokens : (row'[s] = None) = (row[s] = None)
  <2>1. CASE Refresh(t) \/ AccessExpires(t)
    BY <2>1 DEF Refresh, AccessExpires
  <2>2. CASE Logout(t) \/ RowExpires(t)
    <3>1. row[t] \in Rows /\ row[t] # None
      BY <2>2 DEF Logout, RowExpires, DevicesTypeOK
    <3>2. \A s \in Tokens : s # t => row'[s] = row[s]
      BY <2>2 DEF Logout, RowExpires, DevicesTypeOK
    <3>3. row'[t] \in Rows
      BY <2>2, <3>1 DEF Logout, RowExpires, DevicesTypeOK, Rows
    <3> QED BY <3>1, <3>2, <3>3, DeviceGrantsAssumption
  <2> QED BY <2>1, <2>2
<1>3. Made' = Made
  BY <1>2 DEF Made
<1>4. \A s \in Made : /\ row'[s].user = row[s].user /\ row'[s].origin = row[s].origin
                       /\ row'[s].device = row[s].device
  <2>1. CASE Refresh(t) \/ AccessExpires(t)
    BY <2>1 DEF Refresh, AccessExpires
  <2>2. CASE Logout(t) \/ RowExpires(t)
    BY <2>2 DEF Logout, RowExpires, DevicesTypeOK, Made, Rows
  <2> QED BY <2>1, <2>2
<1>5. DevicesTypeOK'
  BY <1>0, <1>1 DEF DevicesTypeOK
<1>6. RowsInOrder'
  BY <1>3 DEF RowsInOrder
<1>7. DeviceLinks'
  BY <1>0, <1>3, <1>4 DEF DeviceLinks, IsRunning
<1>8. BindingHonoured'
  <2>1. \A b \in Bindings :
          (\E s \in Made' : row'[s].origin = b) <=> (\E s \in Made : row[s].origin = b)
    BY <1>3, <1>4
  <2>2. \A b \in Bindings : binding'[b] # None =>
          (binding'[b].state = "COMPLETED") = (\E s \in Made' : row'[s].origin = b)
    BY <1>0, <2>1 DEF BindingHonoured
  <2>3. \A s \in Made' : row'[s].device # None => device'[row'[s].device] = row'[s].user
    BY <1>0, <1>3, <1>4 DEF BindingHonoured
  <2> QED BY <2>2, <2>3 DEF BindingHonoured
<1>9. AccessFollowsSession'
  <2> USE DEF AccessFollowsSession, DevicesTypeOK
  <2>1. CASE Refresh(t)
    BY <2>1 DEF Refresh, Issue
  <2>2. CASE AccessExpires(t)
    BY <2>2 DEF AccessExpires
  <2>3. CASE Logout(t)
    BY <2>3 DEF Logout
  <2>4. CASE RowExpires(t)
    <3>1. row[t] \in Rows /\ row' = [row EXCEPT ![t].state = "expired"] /\ access' = access
      BY <2>4 DEF RowExpires
    <3>2. row'[t].state = "expired" /\ row'[t] # None
      BY <1>2, <2>4, <3>1 DEF RowExpires, Rows
    <3>3. \A s \in Tokens : s # t => row'[s] = row[s]
      BY <3>1
    <3> QED BY <3>1, <3>2, <3>3
  <2> QED BY <2>1, <2>2, <2>3, <2>4
<1> QED BY <1>5, <1>6, <1>7, <1>8, <1>9

\* A restart forgets logins, ceremonies and access tokens.
LEMMA DevicesRestartInv == DevicesInv /\ DevicesRestart => DevicesInv'
<1> SUFFICES ASSUME DevicesInv, DevicesRestart PROVE DevicesInv'
  OBVIOUS
<1> USE DEF DevicesInv, DevicesRestart
<1>0. Made' = Made
  BY DEF Made
<1>1. \A c \in Ceremonies : ~IsRunning(c)'
  BY DEF IsRunning, Over
<1>2. DevicesTypeOK'
  BY DEF DevicesTypeOK, AndroidCeremonies, IsRunning, Over
<1>3. RowsInOrder'
  BY <1>0 DEF RowsInOrder
<1>4. DeviceLinks'
  BY <1>0, <1>1 DEF DeviceLinks
<1>5. BindingHonoured'
  BY <1>0 DEF BindingHonoured
<1>6. AccessFollowsSession'
  BY DEF AccessFollowsSession
<1> QED BY <1>2, <1>3, <1>4, <1>5, <1>6

LEMMA DevicesStepInv ==
    ASSUME DevicesInv, users \subseteq Users, SignedIn \subseteq Users, DevicesStep
    PROVE  DevicesInv'
<1>1. CASE \E b \in Bindings, u \in SignedIn : BindStart(b, u)
  BY <1>1, BindingStepInv
<1>2. CASE \E b \in Bindings, u \in users : BindDecide(b, u)
  BY <1>2, BindingStepInv
<1>3. CASE \E b \in Bindings : BindClaim(b) \/ BindExpires(b)
  BY <1>3, BindingStepInv
<1>4. CASE \E q \in Logins, u \in users : DeviceAuthorize(q, u)
  BY <1>4, LoginStepInv
<1>5. CASE \E q \in Logins : DeviceStart(q) \/ DevicePoll(q) \/ AuthorizationExpires(q)
  BY <1>5, LoginStepInv, DevicePollInv
<1>6. CASE \E c \in Ceremonies : LoginVerify(c) \/ CeremonyLost(c)
  BY <1>6, LoginVerifyInv, AndroidCeremonyInv
<1>7. CASE \E c \in Ceremonies, b \in Bindings : DeviceRegisterOptions(c, b)
  BY <1>7, AndroidCeremonyInv
<1>8. CASE \E c \in Ceremonies, d \in Devices : RegisterVerify(c, d) \/ DeviceLoginOptions(c, d)
  BY <1>8, RegisterVerifyInv, AndroidCeremonyInv
<1>9. CASE \E t \in Tokens : Refresh(t) \/ Logout(t) \/ RowExpires(t) \/ AccessExpires(t)
  BY <1>9, RowStepInv
<1> QED BY <1>1, <1>2, <1>3, <1>4, <1>5, <1>6, <1>7, <1>8, <1>9 DEF DevicesStep

(***************************************************************************)
(* Pairings, and the server                                                *)
(***************************************************************************)

LEMMA PairingStepType ==
    ASSUME PairingTypeOK, users \subseteq Users, PairingStep
    PROVE  PairingTypeOK'
<1> USE DEF PairingTypeOK
<1>1. CASE \E p \in Pairings : PairingBreaks(p) \/ PairingEnds(p)
  BY <1>1 DEF PairingBreaks, PairingEnds
<1>2. CASE \E p \in Pairings, h \in HostIds \cup {None} : OpenPairing(p, h)
  BY <1>2 DEF OpenPairing
<1>3. CASE \E p \in Pairings, h \in HostIds, u \in users : PairHost(p, h, u)
  BY <1>3 DEF PairHost, HostRows
<1>4. CASE \E h \in HostIds, u \in SignedIn : DeleteHost(h, u)
  BY <1>4 DEF DeleteHost
<1> QED BY <1>1, <1>2, <1>3, <1>4 DEF PairingStep

Inv == AccountsInv /\ DevicesInv /\ PairingTypeOK

LEMMA InitInv == Init => Inv
<1> SUFFICES ASSUME Init PROVE Inv
  OBVIOUS
<1>1. AccountsInv
  BY AccountsInitInv DEF Init
<1>2. DevicesInv
  BY DevicesInitInv DEF Init
<1>3. PairingTypeOK
  BY DEF Init, PairingInit, PairingTypeOK
<1> QED BY <1>1, <1>2, <1>3 DEF Inv

LEMMA NextInv == Inv /\ [Next]_vars => Inv'
<1> SUFFICES ASSUME Inv, [Next]_vars PROVE Inv'
  OBVIOUS
<1>0. users \subseteq Users /\ SignedIn \subseteq Users
  BY DEF Inv, AccountsInv, AccountsTypeOK, SignedIn
<1>1. AccountsInv'
  <2>1. CASE AccountsStep
    BY <2>1, AccountsStepInv DEF Inv
  <2>2. CASE Restart
    BY <2>2, AccountsRestartInv DEF Restart, Inv
  <2>3. CASE UNCHANGED accountVars
    BY <2>3 DEF Inv, accountVars, AccountsInv, AccountsTypeOK, CeremonyLinks, CodesMade,
                AccountReachable, Owns
  <2> QED BY <2>1, <2>2, <2>3 DEF Next, vars
<1>2. DevicesInv'
  <2>1. CASE DevicesStep
    BY <1>0, <2>1, DevicesStepInv DEF Inv
  <2>2. CASE Restart
    BY <2>2, DevicesRestartInv DEF Restart, Inv
  <2>3. CASE UNCHANGED deviceVars
    <3>1. DevicesInv
      BY DEF Inv
    <3>2. UNCHANGED <<asked, authorization, deviceCodes, binding, androidCeremony, device, row, access>>
      BY <2>3 DEF deviceVars
    <3>3. Made' = Made /\ \A c \in Ceremonies : IsRunning(c)' <=> IsRunning(c)
      BY <3>2 DEF Made, IsRunning
    <3>4. DevicesTypeOK'
      BY <3>1, <3>2 DEF DevicesInv, DevicesTypeOK
    <3>5. RowsInOrder'
      BY <3>1, <3>3 DEF DevicesInv, RowsInOrder
    <3>6. DeviceLinks'
      BY <3>1, <3>2, <3>3 DEF DevicesInv, DeviceLinks
    <3>7. BindingHonoured' /\ AccessFollowsSession'
      BY <3>1, <3>2, <3>3 DEF DevicesInv, BindingHonoured, AccessFollowsSession
    <3> QED
      BY <3>4, <3>5, <3>6, <3>7 DEF DevicesInv
  <2> QED BY <2>1, <2>2, <2>3 DEF Next, vars
<1>3. PairingTypeOK'
  <2>1. CASE PairingStep
    BY <1>0, <2>1, PairingStepType DEF Inv
  <2>2. CASE Restart
    BY <2>2 DEF Restart, PairingRestart, Inv, PairingTypeOK
  <2>3. CASE UNCHANGED pairingVars
    BY <2>3 DEF Inv, pairingVars, PairingTypeOK
  <2> QED BY <2>1, <2>2, <2>3 DEF Next, vars
<1> QED BY <1>1, <1>2, <1>3 DEF Inv

\* What the argument rests on holds in every state of the server.
THEOREM Invariance == Spec => []Inv
BY InitInv, NextInv, PTL DEF Spec

\* The tables and Maps keep their types, and the two Maps of device authorizations
\* their common entries.
THEOREM TypeCorrect == Spec => []TypeOK
<1>1. Inv => TypeOK
  BY DEF Inv, AccountsInv, DevicesInv, TypeOK
<1> QED BY <1>1, Invariance, PTL

\* No account is ever locked out, whatever requests overtake each other, however
\* many users, browsers and passkeys there are.
THEOREM ReachabilitySafety == Spec => []AccountReachable
<1>1. Inv => AccountReachable
  BY DEF Inv, AccountsInv
<1> QED BY <1>1, Invariance, PTL

\* A binding is completed exactly when a session came of it, and a device's
\* sessions are its user's, for any phones, bindings and ceremonies.
THEOREM BindingSafety == Spec => []BindingHonoured
<1>1. Inv => BindingHonoured
  BY DEF Inv, DevicesInv
<1> QED BY <1>1, Invariance, PTL

\* A refresh token never has two access tokens, nor one after its logout.
THEOREM AccessSafety == Spec => []AccessFollowsSession
<1>1. Inv => AccessFollowsSession
  BY DEF Inv, DevicesInv
<1> QED BY <1>1, Invariance, PTL


(***************************************************************************)
(* The refinement of LoginGrant                                            *)
(***************************************************************************)

\* Each origin makes one session at most, and what made one asks for no other: the
\* login is used and forgotten, the ceremony was taken.
GrantLinks ==
    /\ \A t, q \in Made : row[t].origin = row[q].origin => t = q
    /\ \A r \in Logins : authorization[r] # None => r \in asked
    /\ \A t \in Made :
         /\ row[t].origin \in Logins =>
              row[t].origin \in asked /\ authorization[row[t].origin] = None
         /\ row[t].origin \in Ceremonies =>
              /\ androidCeremony[row[t].origin] # None
              /\ androidCeremony[row[t].origin].type = "device-login"
              /\ androidCeremony[row[t].origin].of = None

\* A code that made a host's token is gone, and the token is that host's alone.
PairingLinks ==
    /\ \A h \in HostIds : hosts[h] # None => pairing[hosts[h].token] = "gone"
    /\ \A h, g \in HostIds :
         hosts[h] # None /\ hosts[g] # None /\ hosts[h].token = hosts[g].token => h = g

\* What LoginGrant allows one grant to do.
Allowed(s, u, s1, u1) ==
    \/ s1 = s /\ u1 = u
    \/ s = "none" /\ s1 = "asked" /\ u1 = None
    \/ s \in {"none", "asked"} /\ s1 = "approved" /\ u1 \in Users
    \/ s = "approved" /\ s1 = "used" /\ u1 = u
    \/ s = "asked" /\ s1 = "used" /\ u1 \in Users
    \/ s \in {"asked", "approved", "used"} /\ s1 = "ended" /\ u1 = None

DeviceMoves(g) == Allowed(DeviceStage(g), DeviceUser(g), DeviceStage(g)', DeviceUser(g)')
PairingMoves(p) == Allowed(PairingStage(p), PairingUser(p), PairingStage(p)', PairingUser(p)')

LEMMA GrantedStep ==
    ASSUME \A g \in Origins : DeviceMoves(g), \A p \in Pairings : PairingMoves(p)
    PROVE  Granted!Next
<1> DEFINE G == Origins \cup Pairings
<1>1. ASSUME NEW g \in G
      PROVE  Allowed(GrantStage[g], GrantUser[g], GrantStage'[g], GrantUser'[g])
  <2>1. CASE g \in Pairings
    <3>1. PairingMoves(g)
      BY <2>1
    <3> QED
      BY <2>1, <3>1 DEF PairingMoves, GrantStage, GrantUser
  <2>2. CASE g \notin Pairings
    <3>1. DeviceMoves(g) /\ g \in Origins
      BY <2>2
    <3> QED
      BY <2>2, <3>1 DEF DeviceMoves, GrantStage, GrantUser
  <2> QED
    BY <2>1, <2>2
<1>2. ASSUME NEW g \in G
      PROVE  \/ Granted!Stays(g) \/ Granted!Ask(g) \/ Granted!Approve(g)
             \/ Granted!Use(g) \/ Granted!ApproveAndUse(g) \/ Granted!End(g)
  <2> HIDE DEF G
  <2> QED
    BY <1>1 DEF Allowed, Granted!Stays, Granted!Ask, Granted!Approve, Granted!Use,
                Granted!ApproveAndUse, Granted!End, Granted!Becomes
<1> QED
  BY <1>2 DEF Granted!Next

\* The stage of a grant: that of its one row, or else how far it got without one.
AskUser(g) ==
    IF g \in Logins THEN authorization[g]
    ELSE IF g \in Bindings THEN binding[g].user ELSE androidCeremony[g].user
AskApprover(g) == IF AskStage(g) = "approved" THEN AskUser(g) ELSE None

StagesByRow == \A g \in Origins :
    /\ RowsOf(g) = {} => DeviceStage(g) = AskStage(g) /\ DeviceUser(g) = AskApprover(g)
    /\ \A t \in RowsOf(g) :
         /\ DeviceStage(g) = IF row[t].state = "valid" THEN "used" ELSE "ended"
         /\ DeviceUser(g) = IF row[t].state = "valid" THEN row[t].user ELSE None

LEMMA Stages == GrantLinks => StagesByRow
<1> SUFFICES ASSUME GrantLinks, NEW g \in Origins
             PROVE  /\ RowsOf(g) = {} => /\ DeviceStage(g) = AskStage(g)
                                         /\ DeviceUser(g) = AskApprover(g)
                    /\ \A t \in RowsOf(g) :
                         /\ DeviceStage(g) = IF row[t].state = "valid" THEN "used" ELSE "ended"
                         /\ DeviceUser(g) = IF row[t].state = "valid" THEN row[t].user ELSE None
  BY DEF StagesByRow
<1>1. ASSUME RowsOf(g) = {}
      PROVE  DeviceStage(g) = AskStage(g) /\ DeviceUser(g) = AskApprover(g)
  <2>1. Cardinality(RowsOf(g)) = 0
    BY <1>1, FS_EmptySet
  <2>2. DeviceStage(g) = AskStage(g)
    BY <1>1, <2>1 DEF DeviceStage
  <2>3. AskStage(g) # "used"
    BY DEF AskStage
  <2> QED
    BY <1>1, <2>2, <2>3 DEF DeviceUser, AskApprover, AskUser
<1>2. ASSUME NEW t \in RowsOf(g)
      PROVE  /\ DeviceStage(g) = IF row[t].state = "valid" THEN "used" ELSE "ended"
             /\ DeviceUser(g) = IF row[t].state = "valid" THEN row[t].user ELSE None
  <2>1. RowsOf(g) = {t}
    BY DEF RowsOf, GrantLinks
  <2>2. Cardinality(RowsOf(g)) = 1
    BY <2>1, FS_Singleton
  <2>3. DeviceStage(g) = IF row[t].state = "valid" THEN "used" ELSE "ended"
    BY <2>1, <2>2 DEF DeviceStage
  <2>4. (CHOOSE q \in RowsOf(g) : TRUE) = t
    BY <2>1
  <2> QED
    BY <2>1, <2>3, <2>4 DEF DeviceUser
<1> QED
  BY <1>1, <1>2

LEMMA StagesNext == (GrantLinks => StagesByRow)'
BY Stages, PTL

\* No handler starts a login or a ceremony again: what was asked stays asked, what is
\* forgotten stays forgotten.
AskFrame ==
    /\ asked \subseteq asked'
    /\ \A r \in Logins : /\ authorization'[r] # None => r \in asked'
                         /\ r \in asked /\ authorization[r] = None => authorization'[r] = None
    /\ \A c \in Ceremonies :
         (/\ androidCeremony[c] # None /\ androidCeremony[c].type = "device-login"
          /\ androidCeremony[c].of = None) => androidCeremony'[c] = androidCeremony[c]

\* A step that makes no row.
LEMMA OldRowsLinks ==
    ASSUME GrantLinks, AskFrame, Made' = Made, \A t \in Made : row'[t].origin = row[t].origin
    PROVE  GrantLinks'
BY DEF GrantLinks, AskFrame

\* A step that makes the row t of the origin g, which had none and is used up.
LEMMA NewRowLinks ==
    ASSUME GrantLinks, AskFrame, NEW g \in Origins, RowsOf(g) = {},
           NEW t, Made' = Made \cup {t}, t \notin Made, row'[t].origin = g,
           \A q \in Made : row'[q] = row[q],
           g \in Logins => g \in asked' /\ authorization'[g] = None,
           g \in Ceremonies => /\ androidCeremony'[g] # None
                               /\ androidCeremony'[g].type = "device-login"
                               /\ androidCeremony'[g].of = None
    PROVE  GrantLinks'
<1>1. \A q \in Made : row[q].origin # g
  BY DEF RowsOf
<1> QED
  BY <1>1 DEF GrantLinks, AskFrame

\* Rows that stay as they are: a grant without one moves as far as its asking does.
LEMMA AskingMoves ==
    ASSUME GrantLinks, GrantLinks', row' = row, NEW g \in Origins,
           RowsOf(g) = {} =>
             Allowed(AskStage(g), AskApprover(g), AskStage(g)', AskApprover(g)')
    PROVE  DeviceMoves(g)
<1>1. StagesByRow /\ StagesByRow'
  BY Stages, StagesNext
<1>2. RowsOf(g)' = RowsOf(g)
  BY DEF RowsOf, Made
<1>3. CASE RowsOf(g) = {}
  <2>1. DeviceStage(g) = AskStage(g) /\ DeviceUser(g) = AskApprover(g)
    BY <1>1, <1>3 DEF StagesByRow
  <2>2. DeviceStage(g)' = AskStage(g)' /\ DeviceUser(g)' = AskApprover(g)'
    BY <1>1, <1>2, <1>3 DEF StagesByRow
  <2> QED
    BY <1>3, <2>1, <2>2 DEF DeviceMoves
<1>4. CASE RowsOf(g) # {}
  <2>1. PICK t \in RowsOf(g) : TRUE
    BY <1>4
  <2>2. DeviceStage(g)' = DeviceStage(g) /\ DeviceUser(g)' = DeviceUser(g)
    BY <1>1, <1>2, <2>1 DEF StagesByRow
  <2> QED
    BY <2>2 DEF DeviceMoves, Allowed
<1> QED
  BY <1>3, <1>4

\* The step that makes a row of an approved grant uses that grant, and no other.
LEMMA NewRowMoves ==
    ASSUME DevicesInv, GrantLinks, GrantLinks', NEW g \in Origins, RowsOf(g) = {},
           AskStage(g) = "approved", NEW u, AskUser(g) = u,
           NEW t, Made' = Made \cup {t}, t \notin Made,
           row'[t].origin = g, row'[t].user = u, row'[t].state = "valid",
           \A q \in Made : row'[q] = row[q],
           \A f \in Origins \ {g} : AskStage(f)' = AskStage(f) /\ AskApprover(f)' = AskApprover(f),
           NEW f \in Origins
    PROVE  DeviceMoves(f)
<1>1. StagesByRow /\ StagesByRow'
  BY Stages, StagesNext
<1>2. CASE f = g
  <2>1. DeviceStage(g) = "approved" /\ DeviceUser(g) = u
    BY <1>1 DEF StagesByRow, AskApprover
  <2>2. t \in RowsOf(g)'
    BY DEF RowsOf
  <2>3. DeviceStage(g)' = "used" /\ DeviceUser(g)' = u
    BY <1>1, <2>2 DEF StagesByRow
  <2> QED
    BY <1>2, <2>1, <2>3 DEF DeviceMoves, Allowed
<1>3. CASE f # g
  <2>1. RowsOf(f)' = RowsOf(f)
    BY <1>3 DEF RowsOf
  <2>2. \A q \in RowsOf(f) : row'[q] = row[q]
    BY DEF RowsOf
  <2>3. CASE RowsOf(f) = {}
    <3>1. DeviceStage(f) = AskStage(f) /\ DeviceUser(f) = AskApprover(f)
      BY <1>1, <2>3 DEF StagesByRow
    <3>2. DeviceStage(f)' = AskStage(f)' /\ DeviceUser(f)' = AskApprover(f)'
      BY <1>1, <2>1, <2>3 DEF StagesByRow
    <3> QED
      BY <1>3, <3>1, <3>2 DEF DeviceMoves, Allowed
  <2>4. CASE RowsOf(f) # {}
    <3>1. PICK q \in RowsOf(f) : TRUE
      BY <2>4
    <3>2. DeviceStage(f)' = DeviceStage(f) /\ DeviceUser(f)' = DeviceUser(f)
      BY <1>1, <2>1, <2>2, <3>1 DEF StagesByRow
    <3> QED
      BY <3>2 DEF DeviceMoves, Allowed
  <2> QED
    BY <2>3, <2>4
<1> QED
  BY <1>2, <1>3

\* What happens to a row at most ends its grant.
LEMMA RowMoves ==
    ASSUME DevicesInv, GrantLinks, GrantLinks', Made' = Made,
           \A q \in Made : /\ row'[q].origin = row[q].origin /\ row'[q].user = row[q].user
                           /\ row'[q].state = "valid" => row[q].state = "valid",
           UNCHANGED <<asked, authorization, binding, androidCeremony>>,
           NEW g \in Origins
    PROVE  DeviceMoves(g)
<1>1. StagesByRow /\ StagesByRow'
  BY Stages, StagesNext
<1>2. RowsOf(g)' = RowsOf(g)
  BY DEF RowsOf
<1>3. CASE RowsOf(g) = {}
  <2>1. DeviceStage(g) = AskStage(g) /\ DeviceUser(g) = AskApprover(g)
    BY <1>1, <1>3 DEF StagesByRow
  <2>2. DeviceStage(g)' = AskStage(g)' /\ DeviceUser(g)' = AskApprover(g)'
    BY <1>1, <1>2, <1>3 DEF StagesByRow
  <2>3. AskStage(g)' = AskStage(g)
    BY DEF AskStage, IsRunning
  <2>4. AskApprover(g)' = AskApprover(g)
    BY <2>3 DEF AskApprover, AskUser
  <2> QED
    BY <2>1, <2>2, <2>3, <2>4 DEF DeviceMoves, Allowed
<1>4. CASE RowsOf(g) # {}
  <2>1. PICK t \in RowsOf(g) : TRUE
    BY <1>4
  <2>2. /\ row'[t].user = row[t].user
        /\ row'[t].state = "valid" => row[t].state = "valid"
    BY DEF RowsOf
  <2>3. /\ DeviceStage(g) = IF row[t].state = "valid" THEN "used" ELSE "ended"
        /\ DeviceUser(g) = IF row[t].state = "valid" THEN row[t].user ELSE None
        /\ DeviceStage(g)' = IF row'[t].state = "valid" THEN "used" ELSE "ended"
        /\ DeviceUser(g)' = IF row'[t].state = "valid" THEN row'[t].user ELSE None
    BY <1>1, <1>2, <2>1 DEF StagesByRow
  <2> QED
    BY <2>2, <2>3 DEF DeviceMoves, Allowed
<1> QED
  BY <1>3, <1>4

\* A desktop client asks, a user approves, or time ends it.
LEMMA LoginStepMoves ==
    ASSUME DevicesInv, GrantLinks, NEW q \in Logins,
           DeviceStart(q) \/ AuthorizationExpires(q) \/ \E u \in Users : DeviceAuthorize(q, u)
    PROVE  GrantLinks' /\ \A g \in Origins : DeviceMoves(g)
<1>0. /\ asked \subseteq Logins /\ authorization \in [Logins -> Users \cup {None, "pending"}]
      /\ None # "pending" /\ \A u \in Users : u # None
  BY DeviceGrantsAssumption, AccountsAssumption DEF DevicesInv, DevicesTypeOK
<1>1. UNCHANGED <<binding, androidCeremony, row>>
  BY DEF DeviceStart, AuthorizationExpires, DeviceAuthorize
<1>2. AskFrame
  BY <1>0, <1>1 DEF AskFrame, GrantLinks, DeviceStart, AuthorizationExpires, DeviceAuthorize
<1>3. GrantLinks'
  <2>1. Made' = Made
    BY <1>1 DEF Made
  <2> QED
    BY <1>1, <1>2, <2>1, OldRowsLinks
<1>4. ASSUME NEW g \in Origins
      PROVE  Allowed(AskStage(g), AskApprover(g), AskStage(g)', AskApprover(g)')
  <2>1. CASE g # q
    <3>1. g \in Logins => /\ authorization'[g] = authorization[g]
                          /\ g \in asked' <=> g \in asked
      BY <1>0, <2>1 DEF DeviceStart, AuthorizationExpires, DeviceAuthorize
    <3>2. AskStage(g)' = AskStage(g)
      BY <1>1, <3>1 DEF AskStage, IsRunning
    <3>3. AskApprover(g)' = AskApprover(g)
      BY <1>1, <3>1, <3>2 DEF AskApprover, AskUser
    <3> QED
      BY <3>2, <3>3 DEF Allowed
  <2>2. CASE g = q
    <3>1. /\ AskStage(q) = IF authorization[q] = "pending" THEN "asked"
                           ELSE IF authorization[q] # None THEN "approved"
                           ELSE IF q \in asked THEN "ended" ELSE "none"
          /\ AskStage(q)' = IF authorization'[q] = "pending" THEN "asked"
                            ELSE IF authorization'[q] # None THEN "approved"
                            ELSE IF q \in asked' THEN "ended" ELSE "none"
      BY DEF AskStage
    <3>2. /\ AskApprover(q) = IF AskStage(q) = "approved" THEN authorization[q] ELSE None
          /\ AskApprover(q)' = IF AskStage(q)' = "approved" THEN authorization'[q] ELSE None
      BY DEF AskApprover, AskUser
    <3>3. CASE DeviceStart(q)
      <4>1. authorization[q] = None /\ q \notin asked /\ authorization'[q] = "pending"
        BY <1>0, <3>3 DEF DeviceStart, GrantLinks
      <4> QED
        BY <1>0, <2>2, <3>1, <3>2, <4>1 DEF Allowed
    <3>4. CASE AuthorizationExpires(q)
      <4>1. authorization[q] # None /\ q \in asked' /\ authorization'[q] = None
        BY <1>0, <3>4 DEF AuthorizationExpires, GrantLinks
      <4> QED
        BY <1>0, <2>2, <3>1, <3>2, <4>1 DEF Allowed
    <3>5. CASE \E u \in Users : DeviceAuthorize(q, u)
      <4>1. authorization[q] = "pending" /\ authorization'[q] \in Users
        BY <1>0, <3>5 DEF DeviceAuthorize
      <4> QED
        BY <1>0, <2>2, <3>1, <3>2, <4>1 DEF Allowed
    <3> QED
      BY <3>3, <3>4, <3>5
  <2> QED
    BY <2>1, <2>2
<1> QED
  BY <1>1, <1>3, <1>4, AskingMoves

\* A phone claims a binding, its user decides, or time ends it.
LEMMA BindingStepMoves ==
    ASSUME DevicesInv, GrantLinks, NEW b \in Bindings,
           \/ BindClaim(b) \/ BindExpires(b)
           \/ \E u \in Users : BindStart(b, u) \/ BindDecide(b, u)
    PROVE  GrantLinks' /\ \A g \in Origins : DeviceMoves(g)
<1>0. /\ binding \in [Bindings -> BindingRows \cup {None}]
      /\ None \notin BindingRows /\ b \notin Logins /\ b \in Origins
  BY DeviceGrantsAssumption DEF DevicesInv, DevicesTypeOK, Origins
<1>1. UNCHANGED <<asked, authorization, androidCeremony, row>>
  BY DEF BindClaim, BindExpires, BindStart, BindDecide, BindingMoves
<1>2. AskFrame
  BY <1>1 DEF AskFrame, GrantLinks
<1>3. GrantLinks'
  <2>1. Made' = Made
    BY <1>1 DEF Made
  <2> QED
    BY <1>1, <1>2, <2>1, OldRowsLinks
<1>4. \A c \in Bindings : c # b => binding'[c] = binding[c]
  BY <1>0 DEF BindClaim, BindExpires, BindStart, BindDecide, BindingMoves
<1>5. ASSUME NEW g \in Origins
      PROVE  Allowed(AskStage(g), AskApprover(g), AskStage(g)', AskApprover(g)')
  <2>1. CASE g # b
    <3>1. AskStage(g)' = AskStage(g)
      BY <1>1, <1>4, <2>1 DEF AskStage, IsRunning
    <3>2. AskApprover(g)' = AskApprover(g)
      BY <1>1, <1>4, <2>1, <3>1 DEF AskApprover, AskUser
    <3> QED
      BY <3>1, <3>2 DEF Allowed
  <2>2. CASE g = b
    <3>1. /\ AskStage(b) = IF binding[b] = None THEN "none"
                           ELSE IF binding[b].state \in {"CREATED", "CLAIMED"} THEN "asked"
                           ELSE IF binding[b].state = "APPROVED" THEN "approved" ELSE "ended"
          /\ AskStage(b)' = IF binding'[b] = None THEN "none"
                            ELSE IF binding'[b].state \in {"CREATED", "CLAIMED"} THEN "asked"
                            ELSE IF binding'[b].state = "APPROVED" THEN "approved" ELSE "ended"
      BY <1>0 DEF AskStage
    <3>2. /\ AskApprover(b) = IF AskStage(b) = "approved" THEN binding[b].user ELSE None
          /\ AskApprover(b)' = IF AskStage(b)' = "approved" THEN binding'[b].user ELSE None
      BY <1>0 DEF AskApprover, AskUser
    <3>3. CASE \E u \in Users : BindStart(b, u)
      <4>1. /\ binding[b] = None /\ binding'[b] # None /\ binding'[b].state = "CREATED"
        BY <1>0, <3>3 DEF BindStart, BindingRows, BindingStates
      <4> QED
        BY <2>2, <3>1, <3>2, <4>1 DEF Allowed
    <3>4. ASSUME NEW from \in SUBSET {"CREATED", "CLAIMED", "APPROVED"},
                 NEW to \in {"CLAIMED", "APPROVED", "REJECTED", "EXPIRED"},
                 BindingMoves(b, from, to),
                 to = "CLAIMED" => from = {"CREATED"},
                 to = "APPROVED" => from = {"CLAIMED"}
          PROVE  Allowed(AskStage(b), AskApprover(b), AskStage(b)', AskApprover(b)')
      <4>1. /\ binding[b] # None /\ binding[b] \in BindingRows /\ binding[b].state \in from
            /\ binding'[b] = [binding[b] EXCEPT !.state = to]
        BY <1>0, <3>4 DEF BindingMoves
      <4>2. /\ binding'[b] \in BindingRows /\ binding'[b].state = to
            /\ binding'[b].user = binding[b].user /\ binding[b].user \in Users
        BY <4>1 DEF BindingRows, BindingStates
      <4>3. binding'[b] # None
        BY <1>0, <4>2
      <4> QED
        BY <3>1, <3>2, <3>4, <4>1, <4>2, <4>3 DEF Allowed
    <3>5. CASE BindClaim(b) \/ BindExpires(b) \/ \E u \in Users : BindDecide(b, u)
      <4>1. \/ BindingMoves(b, {"CREATED"}, "CLAIMED")
            \/ BindingMoves(b, {"CREATED", "CLAIMED", "APPROVED"}, "EXPIRED")
            \/ BindingMoves(b, {"CLAIMED"}, "APPROVED")
            \/ BindingMoves(b, {"CLAIMED"}, "REJECTED")
        BY <3>5 DEF BindClaim, BindExpires, BindDecide
      <4>2. CASE BindingMoves(b, {"CREATED"}, "CLAIMED")
        BY <2>2, <3>4, <4>2
      <4>3. CASE BindingMoves(b, {"CREATED", "CLAIMED", "APPROVED"}, "EXPIRED")
        BY <2>2, <3>4, <4>3
      <4>4. CASE BindingMoves(b, {"CLAIMED"}, "APPROVED")
        BY <2>2, <3>4, <4>4
      <4>5. CASE BindingMoves(b, {"CLAIMED"}, "REJECTED")
        BY <2>2, <3>4, <4>5
      <4> QED
        BY <4>1, <4>2, <4>3, <4>4, <4>5
    <3> QED
      BY <3>3, <3>5
  <2> QED
    BY <2>1, <2>2
<1> QED
  BY <1>1, <1>3, <1>5, AskingMoves

\* A ceremony of a phone begins or is lost: one that registers a device is no grant
\* of its own.
LEMMA CeremonyStepMoves ==
    ASSUME DevicesInv, GrantLinks, NEW c \in Ceremonies,
           \/ CeremonyLost(c)
           \/ \E b \in Bindings : DeviceRegisterOptions(c, b)
           \/ \E d \in Devices : DeviceLoginOptions(c, d)
    PROVE  GrantLinks' /\ \A g \in Origins : DeviceMoves(g)
<1>0. /\ androidCeremony \in [Ceremonies -> AndroidCeremonies \cup {None}]
      /\ device \in [Devices -> Users \cup {None}]
      /\ binding \in [Bindings -> BindingRows \cup {None}]
      /\ None \notin AndroidCeremonies /\ None \notin Devices
      /\ c \notin Logins /\ c \notin Bindings /\ c \in Origins
  BY DeviceGrantsAssumption DEF DevicesInv, DevicesTypeOK, Origins
<1>1. UNCHANGED <<asked, authorization, binding, row>>
  BY DEF CeremonyLost, DeviceRegisterOptions, DeviceLoginOptions, BeginAndroidCeremony
<1>2. \A e \in Ceremonies : e # c => androidCeremony'[e] = androidCeremony[e]
  BY <1>0 DEF CeremonyLost, DeviceRegisterOptions, DeviceLoginOptions, BeginAndroidCeremony
<1>3. AskFrame
  <2>1. androidCeremony[c] # None /\ androidCeremony[c].of = None
           => androidCeremony'[c] = androidCeremony[c]
    BY DEF CeremonyLost, DeviceRegisterOptions, DeviceLoginOptions, BeginAndroidCeremony,
           IsRunning
  <2> QED
    BY <1>1, <1>2, <2>1 DEF AskFrame, GrantLinks
<1>4. GrantLinks'
  <2>1. Made' = Made
    BY <1>1 DEF Made
  <2> QED
    BY <1>1, <1>3, <2>1, OldRowsLinks
<1>5. ASSUME NEW g \in Origins
      PROVE  Allowed(AskStage(g), AskApprover(g), AskStage(g)', AskApprover(g)')
  <2>1. CASE g # c
    <3>1. g \in Ceremonies => androidCeremony'[g] = androidCeremony[g]
      BY <1>2, <2>1
    <3>2. AskStage(g)' = AskStage(g)
      BY <1>1, <2>1, <3>1 DEF AskStage, IsRunning, Origins
    <3>3. AskApprover(g)' = AskApprover(g)
      BY <1>1, <2>1, <3>1, <3>2 DEF AskApprover, AskUser, Origins
    <3> QED
      BY <3>2, <3>3 DEF Allowed
  <2>2. CASE g = c
    <3>1. /\ AskStage(c) = IF androidCeremony[c] = None
                                \/ androidCeremony[c].type = "device-register" THEN "none"
                           ELSE IF androidCeremony[c].of # None THEN "approved" ELSE "ended"
          /\ AskStage(c)' = IF androidCeremony'[c] = None
                                 \/ androidCeremony'[c].type = "device-register" THEN "none"
                            ELSE IF androidCeremony'[c].of # None THEN "approved" ELSE "ended"
      BY <1>0 DEF AskStage, IsRunning
    <3>2. /\ AskApprover(c) = IF AskStage(c) = "approved" THEN androidCeremony[c].user ELSE None
          /\ AskApprover(c)' = IF AskStage(c)' = "approved" THEN androidCeremony'[c].user
                               ELSE None
      BY <1>0 DEF AskApprover, AskUser
    <3>3. CASE CeremonyLost(c)
      <4>1. /\ androidCeremony[c] # None /\ androidCeremony[c].of # None
            /\ androidCeremony'[c] = Over(c)
        BY <1>0, <3>3 DEF CeremonyLost, IsRunning
      <4>2. Over(c) \in AndroidCeremonies
        BY <1>0, <4>1 DEF Over, AndroidCeremonies
      <4>3. androidCeremony'[c] # None
        BY <1>0, <4>1, <4>2
      <4> QED
        BY <2>2, <3>1, <3>2, <4>1, <4>3 DEF Allowed, Over
    <3>4. CASE \E b \in Bindings : DeviceRegisterOptions(c, b)
      <4>1. androidCeremony[c] = None /\ androidCeremony'[c].type = "device-register"
        BY <1>0, <3>4 DEF DeviceRegisterOptions, BeginAndroidCeremony
      <4> QED
        BY <2>2, <3>1, <3>2, <4>1 DEF Allowed
    <3>5. CASE \E d \in Devices : DeviceLoginOptions(c, d)
      <4>1. PICK d \in Devices :
              /\ androidCeremony[c] = None /\ device[d] \in Users
              /\ androidCeremony'[c] = [type |-> "device-login", of |-> d, user |-> device[d]]
        BY <1>0, <3>5 DEF DeviceLoginOptions, BeginAndroidCeremony
      <4>2. androidCeremony'[c] \in AndroidCeremonies
        BY <4>1 DEF AndroidCeremonies
      <4>3. androidCeremony'[c] # None /\ androidCeremony'[c].of # None
        BY <1>0, <4>1, <4>2
      <4> QED
        BY <2>2, <3>1, <3>2, <4>1, <4>3 DEF Allowed
    <3> QED
      BY <3>3, <3>4, <3>5
  <2> QED
    BY <2>1, <2>2
<1> QED
  BY <1>1, <1>4, <1>5, AskingMoves

\* The poll of an approved login makes its session.
LEMMA DevicePollMoves ==
    ASSUME DevicesInv, GrantLinks, NEW q \in Logins, DevicePoll(q)
    PROVE  GrantLinks' /\ \A g \in Origins : DeviceMoves(g)
<1>0. /\ asked \subseteq Logins /\ authorization \in [Logins -> Users \cup {None, "pending"}]
      /\ q \in Origins /\ q \notin Ceremonies
  BY DeviceGrantsAssumption DEF DevicesInv, DevicesTypeOK, Origins
<1>1. PICK u \in Users : u = authorization[q] /\ NewSession(u, q, None)
  BY <1>0 DEF DevicePoll
<1>2. /\ UNCHANGED <<asked, binding, androidCeremony, device>>
      /\ authorization' = [authorization EXCEPT ![q] = None]
      /\ authorization[q] \notin {None, "pending"} /\ q \in asked
  BY DEF DevicePoll, GrantLinks
<1>3. PICK t \in Tokens, r \in Rows :
        /\ r.user = u /\ r.origin = q /\ r.device = None /\ r.state = "valid" /\ r # None
        /\ row[t] = None /\ row' = [row EXCEPT ![t] = r]
        /\ access' = [access EXCEPT ![t] = 1]
        /\ Made' = Made \cup {t} /\ t \notin Made /\ RowsInOrder'
  BY <1>0, <1>1, NewRow
<1>4. row'[t] = r /\ \A s \in Made : row'[s] = row[s]
  BY <1>3 DEF DevicesInv, DevicesTypeOK, Made
<1>5. RowsOf(q) = {}
  BY <1>2 DEF RowsOf, GrantLinks
<1>6. AskFrame
  BY <1>0, <1>2 DEF AskFrame, GrantLinks
<1>7. GrantLinks'
  <2>1. q \in asked' /\ authorization'[q] = None
    BY <1>0, <1>2
  <2> QED
    BY <1>0, <1>3, <1>4, <1>5, <1>6, <2>1, NewRowLinks
<1>8. AskStage(q) = "approved" /\ AskUser(q) = u
  BY <1>1, <1>2 DEF AskStage, AskUser
<1>9. ASSUME NEW f \in Origins \ {q}
      PROVE  AskStage(f)' = AskStage(f) /\ AskApprover(f)' = AskApprover(f)
  <2>1. AskStage(f)' = AskStage(f)
    BY <1>0, <1>2 DEF AskStage, IsRunning
  <2> QED
    BY <1>0, <1>2, <2>1 DEF AskApprover, AskUser
<1>10. row'[t].origin = q /\ row'[t].user = u /\ row'[t].state = "valid"
  BY <1>3, <1>4
<1> QED
  BY <1>0, <1>3, <1>4, <1>5, <1>7, <1>8, <1>9, <1>10, NewRowMoves

\* A registered device completes its binding with a session; its ceremony is over.
LEMMA RegisterVerifyMoves ==
    ASSUME DevicesInv, GrantLinks, NEW c \in Ceremonies, NEW d \in Devices,
           RegisterVerify(c, d)
    PROVE  GrantLinks' /\ \A g \in Origins : DeviceMoves(g)
<1>0. PICK b : b = androidCeremony[c].of
  OBVIOUS
<1>1. PICK u : u = binding[b].user
  OBVIOUS
<1>2. /\ IsRunning(c) /\ androidCeremony[c].type = "device-register"
      /\ binding[b].state = "APPROVED"
      /\ androidCeremony' = [androidCeremony EXCEPT ![c] = Over(c)]
      /\ binding' = [binding EXCEPT ![b].state = "COMPLETED"]
      /\ NewSession(u, b, d)
      /\ UNCHANGED <<asked, authorization, deviceCodes>>
  BY <1>0, <1>1 DEF RegisterVerify, Running
<1>3. /\ b \in Bindings /\ binding[b] \in BindingRows /\ binding[b] # None /\ u \in Users
      /\ b \in Origins /\ b \notin Logins /\ b \notin Ceremonies /\ d \in Devices \cup {None}
  BY <1>0, <1>1, <1>2, DeviceGrantsAssumption
  DEF DevicesInv, DeviceLinks, DevicesTypeOK, BindingRows, Origins
<1>4. PICK t \in Tokens, r \in Rows :
        /\ r.user = u /\ r.origin = b /\ r.device = d /\ r.state = "valid" /\ r # None
        /\ row[t] = None /\ row' = [row EXCEPT ![t] = r]
        /\ access' = [access EXCEPT ![t] = 1]
        /\ Made' = Made \cup {t} /\ t \notin Made /\ RowsInOrder'
  BY <1>2, <1>3, NewRow
<1>5. row'[t] = r /\ \A s \in Made : row'[s] = row[s]
  BY <1>4 DEF DevicesInv, DevicesTypeOK, Made
<1>6. RowsOf(b) = {}
  BY <1>2, <1>3 DEF RowsOf, DevicesInv, BindingHonoured
<1>7. /\ androidCeremony[c] # None /\ androidCeremony'[c] = Over(c) /\ Over(c) # None
      /\ Over(c).type = "device-register"
      /\ \A e \in Ceremonies : e # c => androidCeremony'[e] = androidCeremony[e]
  <2>1. androidCeremony \in [Ceremonies -> AndroidCeremonies \cup {None}]
    BY DEF DevicesInv, DevicesTypeOK
  <2>2. androidCeremony[c] # None
    BY <1>2 DEF IsRunning
  <2>3. Over(c) \in AndroidCeremonies
    BY <2>1, <2>2 DEF Over, AndroidCeremonies
  <2> QED
    BY <1>2, <2>1, <2>2, <2>3, DeviceGrantsAssumption DEF Over
<1>8. AskFrame
  BY <1>2, <1>7 DEF AskFrame, GrantLinks
<1>9. GrantLinks'
  BY <1>3, <1>4, <1>5, <1>6, <1>8, NewRowLinks
<1>10. AskStage(b) = "approved" /\ AskUser(b) = u
  BY <1>1, <1>2, <1>3 DEF AskStage, AskUser
<1>11. ASSUME NEW f \in Origins \ {b}
       PROVE  AskStage(f)' = AskStage(f) /\ AskApprover(f)' = AskApprover(f)
  <2>1. CASE f \in Logins \/ f \in Bindings
    <3>1. f \in Bindings => binding'[f] = binding[f]
      BY <1>2, <1>3 DEF DevicesInv, DevicesTypeOK
    <3>2. AskStage(f)' = AskStage(f)
      BY <1>2, <2>1, <3>1 DEF AskStage
    <3> QED
      BY <1>2, <2>1, <3>1, <3>2 DEF AskApprover, AskUser
  <2>2. CASE f = c /\ f \notin Logins /\ f \notin Bindings
    <3>1. AskStage(f) = "none" /\ AskStage(f)' = "none"
      BY <1>2, <1>7, <2>2 DEF AskStage
    <3> QED
      BY <3>1 DEF AskApprover
  <2>3. CASE f # c /\ f \in Ceremonies /\ f \notin Logins /\ f \notin Bindings
    <3>1. androidCeremony'[f] = androidCeremony[f]
      BY <1>7, <2>3
    <3>2. AskStage(f)' = AskStage(f)
      BY <1>2, <2>3, <3>1 DEF AskStage, IsRunning
    <3> QED
      BY <1>2, <2>3, <3>1, <3>2 DEF AskApprover, AskUser
  <2> QED
    BY <2>1, <2>2, <2>3 DEF Origins
<1>12. row'[t].origin = b /\ row'[t].user = u /\ row'[t].state = "valid"
  BY <1>4, <1>5
<1> QED
  BY <1>3, <1>4, <1>5, <1>6, <1>9, <1>10, <1>11, <1>12, NewRowMoves

\* A device's login was approved with its binding, and is for the device's user.
LEMMA LoginVerifyMoves ==
    ASSUME DevicesInv, GrantLinks, NEW c \in Ceremonies, LoginVerify(c)
    PROVE  GrantLinks' /\ \A g \in Origins : DeviceMoves(g)
<1>0. PICK d : d = androidCeremony[c].of
  OBVIOUS
<1>1. PICK u : u = device[d]
  OBVIOUS
<1>2. /\ IsRunning(c) /\ androidCeremony[c].type = "device-login" /\ u = androidCeremony[c].user
      /\ androidCeremony' = [androidCeremony EXCEPT ![c] = Over(c)]
      /\ NewSession(u, c, d)
      /\ UNCHANGED <<asked, authorization, deviceCodes, binding, device>>
  BY <1>0, <1>1 DEF LoginVerify, Running
<1>3. /\ d \in Devices \cup {None} /\ u \in Users /\ c \in Origins
      /\ c \notin Bindings /\ c \notin Logins
  BY <1>0, <1>2, DeviceGrantsAssumption
  DEF DevicesInv, DeviceLinks, DevicesTypeOK, AndroidCeremonies, IsRunning, Origins
<1>4. PICK t \in Tokens, r \in Rows :
        /\ r.user = u /\ r.origin = c /\ r.device = d /\ r.state = "valid" /\ r # None
        /\ row[t] = None /\ row' = [row EXCEPT ![t] = r]
        /\ access' = [access EXCEPT ![t] = 1]
        /\ Made' = Made \cup {t} /\ t \notin Made /\ RowsInOrder'
  BY <1>2, <1>3, NewRow
<1>5. row'[t] = r /\ \A s \in Made : row'[s] = row[s]
  BY <1>4 DEF DevicesInv, DevicesTypeOK, Made
<1>6. RowsOf(c) = {}
  BY <1>2 DEF RowsOf, GrantLinks, IsRunning
<1>7. /\ androidCeremony[c] # None /\ androidCeremony'[c] = Over(c) /\ Over(c) # None
      /\ Over(c).type = "device-login" /\ Over(c).of = None
      /\ \A e \in Ceremonies : e # c => androidCeremony'[e] = androidCeremony[e]
  <2>1. androidCeremony \in [Ceremonies -> AndroidCeremonies \cup {None}]
    BY DEF DevicesInv, DevicesTypeOK
  <2>2. androidCeremony[c] # None
    BY <1>2 DEF IsRunning
  <2>3. Over(c) \in AndroidCeremonies
    BY <2>1, <2>2 DEF Over, AndroidCeremonies
  <2> QED
    BY <1>2, <2>1, <2>2, <2>3, DeviceGrantsAssumption DEF Over
<1>8. AskFrame
  BY <1>2, <1>7 DEF AskFrame, GrantLinks, IsRunning
<1>9. GrantLinks'
  BY <1>3, <1>4, <1>5, <1>6, <1>7, <1>8, NewRowLinks
<1>10. AskStage(c) = "approved" /\ AskUser(c) = u
  BY <1>2, <1>3, <1>7 DEF AskStage, AskUser
<1>11. ASSUME NEW f \in Origins \ {c}
       PROVE  AskStage(f)' = AskStage(f) /\ AskApprover(f)' = AskApprover(f)
  <2>1. f \in Ceremonies => androidCeremony'[f] = androidCeremony[f]
    BY <1>7
  <2>2. AskStage(f)' = AskStage(f)
    BY <1>2, <2>1 DEF AskStage, IsRunning, Origins
  <2> QED
    BY <1>2, <2>1, <2>2 DEF AskApprover, AskUser, Origins
<1>12. row'[t].origin = c /\ row'[t].user = u /\ row'[t].state = "valid"
  BY <1>4, <1>5
<1> QED
  BY <1>3, <1>4, <1>5, <1>6, <1>9, <1>10, <1>11, <1>12, NewRowMoves

\* Refreshes and logouts, and the expiry of a row, at most end a grant.
LEMMA RowStepMoves ==
    ASSUME DevicesInv, GrantLinks, NEW t \in Tokens,
           Refresh(t) \/ Logout(t) \/ RowExpires(t) \/ AccessExpires(t)
    PROVE  GrantLinks' /\ \A g \in Origins : DeviceMoves(g)
<1>0. row \in [Tokens -> Rows \cup {None}] /\ None \notin Rows
  BY DeviceGrantsAssumption DEF DevicesInv, DevicesTypeOK
<1>1. UNCHANGED <<asked, authorization, binding, androidCeremony>>
  BY DEF Refresh, Logout, RowExpires, AccessExpires
<1>2. \/ row' = row
      \/ \E x \in {"out", "expired"} : row[t] # None /\ row' = [row EXCEPT ![t].state = x]
  BY DEF Refresh, Logout, RowExpires, AccessExpires
<1>3. /\ Made' = Made
      /\ \A q \in Made : /\ row'[q].origin = row[q].origin /\ row'[q].user = row[q].user
                         /\ row'[q].state = "valid" => row[q].state = "valid"
  <2>1. CASE row' = row
    BY <2>1 DEF Made
  <2>2. ASSUME NEW x \in {"out", "expired"}, row[t] # None, row' = [row EXCEPT ![t].state = x]
        PROVE  /\ Made' = Made
               /\ \A q \in Made : /\ row'[q].origin = row[q].origin
                                  /\ row'[q].user = row[q].user
                                  /\ row'[q].state = "valid" => row[q].state = "valid"
    <3>1. row[t] \in Rows
      BY <1>0, <2>2
    <3>2. /\ row'[t] = [row[t] EXCEPT !.state = x]
          /\ \A q \in Tokens : q # t => row'[q] = row[q]
      BY <1>0, <2>2
    <3>3. /\ row'[t] \in Rows /\ row'[t].state = x
          /\ row'[t].origin = row[t].origin /\ row'[t].user = row[t].user
      BY <3>1, <3>2 DEF Rows
    <3>4. row'[t] # None
      BY <1>0, <3>3
    <3>5. Made' = Made
      BY <2>2, <3>2, <3>4 DEF Made
    <3> QED
      BY <3>2, <3>3, <3>5 DEF Made
  <2> QED
    BY <1>2, <2>1, <2>2
<1>4. AskFrame
  BY <1>1 DEF AskFrame, GrantLinks
<1>5. GrantLinks'
  BY <1>3, <1>4, OldRowsLinks
<1> QED
  BY <1>1, <1>3, <1>5, RowMoves

\* A restart ends the logins and ceremonies that are under way.
LEMMA RestartMoves ==
    ASSUME DevicesInv, GrantLinks, DevicesRestart
    PROVE  GrantLinks' /\ \A g \in Origins : DeviceMoves(g)
<1>0. /\ androidCeremony \in [Ceremonies -> AndroidCeremonies \cup {None}]
      /\ None \notin AndroidCeremonies /\ None # "pending"
      /\ \A c \in Ceremonies : c \notin Logins /\ c \notin Bindings
      /\ \A b \in Bindings : b \notin Logins
  BY DeviceGrantsAssumption DEF DevicesInv, DevicesTypeOK
<1>1. /\ \A r \in Logins : authorization'[r] = None
      /\ \A c \in Ceremonies :
           androidCeremony'[c] = IF IsRunning(c) THEN Over(c) ELSE androidCeremony[c]
      /\ UNCHANGED <<asked, binding, device, row>>
  BY DEF DevicesRestart
<1>2. AskFrame
  BY <1>1 DEF AskFrame, GrantLinks, IsRunning
<1>3. GrantLinks'
  <2>1. Made' = Made
    BY <1>1 DEF Made
  <2> QED
    BY <1>1, <1>2, <2>1, OldRowsLinks
<1>4. ASSUME NEW g \in Origins
      PROVE  Allowed(AskStage(g), AskApprover(g), AskStage(g)', AskApprover(g)')
  <2>1. CASE g \in Logins
    <3>1. AskStage(g)' = IF g \in asked THEN "ended" ELSE "none"
      BY <1>0, <1>1, <2>1 DEF AskStage
    <3>2. AskStage(g) = IF authorization[g] = "pending" THEN "asked"
                        ELSE IF authorization[g] # None THEN "approved"
                        ELSE IF g \in asked THEN "ended" ELSE "none"
      BY <2>1 DEF AskStage
    <3>3. authorization[g] # None => g \in asked
      BY <2>1 DEF GrantLinks
    <3> QED
      BY <1>0, <3>1, <3>2, <3>3 DEF AskApprover, Allowed
  <2>2. CASE g \in Bindings
    <3>1. AskStage(g)' = AskStage(g)
      BY <1>0, <1>1, <2>2 DEF AskStage
    <3> QED
      BY <1>0, <1>1, <2>2, <3>1 DEF AskApprover, AskUser, Allowed
  <2>3. CASE g \in Ceremonies
    <3>1. CASE IsRunning(g)
      <4>1. androidCeremony[g] \in AndroidCeremonies /\ androidCeremony[g] # None
        BY <1>0, <2>3, <3>1 DEF IsRunning
      <4>2. Over(g) \in AndroidCeremonies
        BY <4>1 DEF Over, AndroidCeremonies
      <4>3. /\ androidCeremony'[g] # None /\ androidCeremony'[g].of = None
            /\ androidCeremony'[g].type = androidCeremony[g].type
        BY <1>0, <1>1, <2>3, <3>1, <4>2 DEF Over
      <4>4. AskStage(g) = IF androidCeremony[g].type = "device-register" THEN "none" ELSE "approved"
        BY <1>0, <2>3, <3>1, <4>1 DEF AskStage
      <4>5. AskStage(g)' = IF androidCeremony[g].type = "device-register" THEN "none" ELSE "ended"
        BY <1>0, <2>3, <4>3 DEF AskStage, IsRunning
      <4> QED
        BY <4>4, <4>5 DEF AskApprover, Allowed
    <3>2. CASE ~IsRunning(g)
      <4>1. androidCeremony'[g] = androidCeremony[g]
        BY <1>1, <2>3, <3>2
      <4>2. AskStage(g)' = AskStage(g)
        BY <1>0, <2>3, <4>1 DEF AskStage, IsRunning
      <4> QED
        BY <1>0, <2>3, <4>1, <4>2 DEF AskApprover, AskUser, Allowed
    <3> QED
      BY <3>1, <3>2
  <2> QED
    BY <2>1, <2>2, <2>3 DEF Origins
<1> QED
  BY <1>1, <1>3, <1>4, AskingMoves

LEMMA DevicesIdle ==
    ASSUME GrantLinks, UNCHANGED deviceVars
    PROVE  GrantLinks' /\ \A g \in Origins : DeviceMoves(g)
<1>1. GrantLinks'
  BY DEF GrantLinks, Made, deviceVars
<1>2. \A g \in Origins : AskStage(g)' = AskStage(g) /\ AskApprover(g)' = AskApprover(g)
  BY DEF AskStage, AskApprover, AskUser, IsRunning, deviceVars
<1>3. row' = row
  BY DEF deviceVars
<1> QED
  BY <1>1, <1>2, <1>3, AskingMoves DEF Allowed

LEMMA DevicesStepMoves ==
    ASSUME DevicesInv, GrantLinks, users \subseteq Users, SignedIn \subseteq Users, DevicesStep
    PROVE  GrantLinks' /\ \A g \in Origins : DeviceMoves(g)
<1>1. CASE \E b \in Bindings, u \in SignedIn : BindStart(b, u)
  BY <1>1, BindingStepMoves
<1>2. CASE \E b \in Bindings, u \in users : BindDecide(b, u)
  BY <1>2, BindingStepMoves
<1>3. CASE \E b \in Bindings : BindClaim(b) \/ BindExpires(b)
  BY <1>3, BindingStepMoves
<1>4. CASE \E q \in Logins, u \in users : DeviceAuthorize(q, u)
  BY <1>4, LoginStepMoves
<1>5. CASE \E q \in Logins : DeviceStart(q) \/ DevicePoll(q) \/ AuthorizationExpires(q)
  BY <1>5, LoginStepMoves, DevicePollMoves
<1>6. CASE \E c \in Ceremonies : LoginVerify(c) \/ CeremonyLost(c)
  BY <1>6, LoginVerifyMoves, CeremonyStepMoves
<1>7. CASE \E c \in Ceremonies, b \in Bindings : DeviceRegisterOptions(c, b)
  BY <1>7, CeremonyStepMoves
<1>8. CASE \E c \in Ceremonies, d \in Devices : RegisterVerify(c, d) \/ DeviceLoginOptions(c, d)
  BY <1>8, RegisterVerifyMoves, CeremonyStepMoves
<1>9. CASE \E t \in Tokens : Refresh(t) \/ Logout(t) \/ RowExpires(t) \/ AccessExpires(t)
  BY <1>9, RowStepMoves
<1> QED
  BY <1>1, <1>2, <1>3, <1>4, <1>5, <1>6, <1>7, <1>8, <1>9 DEF DevicesStep

\* The stage of a pairing: its host's token, or else how far it got.
PairingsByToken == \A p \in Pairings :
    /\ TokenOf(p) = {} => /\ PairingStage(p) = IF pairing[p] = "new" THEN "none"
                                               ELSE IF pairing[p] = "gone" THEN "ended"
                                               ELSE "asked"
                          /\ PairingUser(p) = None
    /\ \A h \in TokenOf(p) : PairingStage(p) = "used" /\ PairingUser(p) = hosts[h].user

LEMMA PairingStages == PairingLinks => PairingsByToken
<1> SUFFICES ASSUME PairingLinks, NEW p \in Pairings
             PROVE  /\ TokenOf(p) = {} =>
                         /\ PairingStage(p) = IF pairing[p] = "new" THEN "none"
                                              ELSE IF pairing[p] = "gone" THEN "ended"
                                              ELSE "asked"
                         /\ PairingUser(p) = None
                    /\ \A h \in TokenOf(p) :
                         PairingStage(p) = "used" /\ PairingUser(p) = hosts[h].user
  BY DEF PairingsByToken
<1>1. ASSUME TokenOf(p) = {}
      PROVE  /\ PairingStage(p) = IF pairing[p] = "new" THEN "none"
                                  ELSE IF pairing[p] = "gone" THEN "ended" ELSE "asked"
             /\ PairingUser(p) = None
  <2>1. Cardinality(TokenOf(p)) = 0
    BY <1>1, FS_EmptySet
  <2> QED
    BY <1>1, <2>1 DEF PairingStage, PairingUser
<1>2. ASSUME NEW h \in TokenOf(p)
      PROVE  PairingStage(p) = "used" /\ PairingUser(p) = hosts[h].user
  <2>1. TokenOf(p) = {h}
    BY DEF TokenOf, PairingLinks
  <2>2. Cardinality(TokenOf(p)) = 1
    BY <2>1, FS_Singleton
  <2>3. (CHOOSE r \in {hosts[g] : g \in TokenOf(p)} : TRUE) = hosts[h]
    <3>1. {hosts[g] : g \in TokenOf(p)} = {hosts[h]}
      BY <2>1
    <3> QED
      BY <3>1
  <2> QED
    BY <2>1, <2>2, <2>3 DEF PairingStage, PairingUser
<1> QED
  BY <1>1, <1>2

LEMMA PairingStagesNext == (PairingLinks => PairingsByToken)'
BY PairingStages, PTL

\* A pairing connection opens, breaks or ends, and the hosts keep their tokens.
LEMMA SameHostsMoves ==
    ASSUME PairingTypeOK, PairingLinks, hosts' = hosts,
           \A p \in Pairings :
             \/ pairing'[p] = pairing[p]
             \/ pairing[p] = "new" /\ pairing'[p] = "open"
             \/ pairing[p] \in {"open", "closing"} /\ pairing'[p] \in {"closing", "gone"}
    PROVE  PairingLinks' /\ \A p \in Pairings : PairingMoves(p)
<1>1. PairingLinks'
  <2>1. \A h \in HostIds : hosts[h] # None => hosts[h].token \in Pairings
    BY DEF PairingTypeOK, HostRows
  <2> QED
    BY <2>1 DEF PairingLinks
<1>2. PairingsByToken /\ PairingsByToken'
  BY <1>1, PairingStages, PairingStagesNext
<1>3. ASSUME NEW p \in Pairings PROVE PairingMoves(p)
  <2>1. TokenOf(p)' = TokenOf(p)
    BY DEF TokenOf
  <2>2. CASE TokenOf(p) = {}
    <3>1. /\ PairingStage(p) = IF pairing[p] = "new" THEN "none"
                               ELSE IF pairing[p] = "gone" THEN "ended" ELSE "asked"
          /\ PairingStage(p)' = IF pairing'[p] = "new" THEN "none"
                                ELSE IF pairing'[p] = "gone" THEN "ended" ELSE "asked"
          /\ PairingUser(p) = None /\ PairingUser(p)' = None
      BY <1>2, <2>1, <2>2 DEF PairingsByToken
    <3> QED
      BY <3>1 DEF PairingMoves, Allowed
  <2>3. CASE TokenOf(p) # {}
    <3>1. PICK h \in TokenOf(p) : TRUE
      BY <2>3
    <3>2. PairingStage(p)' = PairingStage(p) /\ PairingUser(p)' = PairingUser(p)
      BY <1>2, <2>1, <3>1 DEF PairingsByToken
    <3> QED
      BY <3>2 DEF PairingMoves, Allowed
  <2> QED
    BY <2>2, <2>3
<1> QED
  BY <1>1, <1>3

\* The code that a user types gives the host its token, which ends the token before.
LEMMA PairHostMoves ==
    ASSUME PairingTypeOK, PairingLinks, NEW q \in Pairings, NEW h \in HostIds,
           NEW u \in Users, PairHost(q, h, u)
    PROVE  PairingLinks' /\ \A p \in Pairings : PairingMoves(p)
<1>1. /\ pairing[q] \in {"open", "closing"} /\ pairing'[q] = "gone"
      /\ hosts'[h] = [user |-> u, token |-> q] /\ hosts'[h] # None
      /\ \A g \in HostIds : g # h => hosts'[g] = hosts[g]
      /\ \A p \in Pairings : p # q => pairing'[p] = pairing[p]
  <2>1. [user |-> u, token |-> q] \in HostRows
    BY DEF HostRows
  <2> QED
    BY <2>1, HostPairingAssumption DEF PairHost, PairingTypeOK
<1>2. \A g \in HostIds : hosts[g] # None => /\ hosts[g].token \in Pairings
                                            /\ hosts[g].token # q
                                            /\ pairing[hosts[g].token] = "gone"
  BY <1>1 DEF PairingTypeOK, HostRows, PairingLinks
<1>3. PairingLinks'
  <2>1. \A g \in HostIds : hosts'[g] # None => pairing'[hosts'[g].token] = "gone"
    BY <1>1, <1>2
  <2>2. \A f, g \in HostIds :
          hosts'[f] # None /\ hosts'[g] # None /\ hosts'[f].token = hosts'[g].token => f = g
    BY <1>1, <1>2 DEF PairingLinks
  <2> QED
    BY <2>1, <2>2 DEF PairingLinks
<1>4. PairingsByToken /\ PairingsByToken'
  BY <1>3, PairingStages, PairingStagesNext
<1>5. ASSUME NEW p \in Pairings PROVE PairingMoves(p)
  <2>1. CASE p = q
    <3>1. TokenOf(q) = {} /\ h \in TokenOf(q)'
      BY <1>1, <1>2 DEF TokenOf
    <3>2. PairingStage(q) = "asked" /\ PairingStage(q)' = "used" /\ PairingUser(q)' = u
      BY <1>1, <1>4, <3>1 DEF PairingsByToken
    <3> QED
      BY <2>1, <3>2 DEF PairingMoves, Allowed
  <2>2. CASE p # q /\ h \in TokenOf(p)
    <3>1. TokenOf(p)' = {} /\ pairing'[p] = "gone"
      BY <1>1, <1>2, <2>2 DEF TokenOf, PairingLinks
    <3>2. PairingStage(p) = "used" /\ PairingStage(p)' = "ended" /\ PairingUser(p)' = None
      BY <1>4, <2>2, <3>1 DEF PairingsByToken
    <3> QED
      BY <3>2 DEF PairingMoves, Allowed
  <2>3. CASE p # q /\ h \notin TokenOf(p)
    <3>1. TokenOf(p)' = TokenOf(p) /\ pairing'[p] = pairing[p] /\ h \notin TokenOf(p)
      BY <1>1, <2>3 DEF TokenOf
    <3>2. \A g \in TokenOf(p) : hosts'[g] = hosts[g]
      BY <1>1, <3>1 DEF TokenOf
    <3>3. PairingStage(p)' = PairingStage(p) /\ PairingUser(p)' = PairingUser(p)
      <4>1. CASE TokenOf(p) = {}
        BY <1>4, <3>1, <4>1 DEF PairingsByToken
      <4>2. CASE TokenOf(p) # {}
        <5>1. PICK g \in TokenOf(p) : TRUE
          BY <4>2
        <5> QED
          BY <1>4, <3>1, <3>2, <5>1 DEF PairingsByToken
      <4> QED
        BY <4>1, <4>2
    <3> QED
      BY <3>3 DEF PairingMoves, Allowed
  <2> QED
    BY <2>1, <2>2, <2>3
<1> QED
  BY <1>3, <1>5

\* A deleted host's token ends.
LEMMA DeleteHostMoves ==
    ASSUME PairingTypeOK, PairingLinks, NEW h \in HostIds, NEW u, DeleteHost(h, u)
    PROVE  PairingLinks' /\ \A p \in Pairings : PairingMoves(p)
<1>1. /\ hosts[h] # None /\ hosts'[h] = None /\ pairing' = pairing
      /\ \A g \in HostIds : g # h => hosts'[g] = hosts[g]
  BY DEF DeleteHost, PairingTypeOK
<1>2. PairingLinks'
  BY <1>1 DEF PairingLinks
<1>3. PairingsByToken /\ PairingsByToken'
  BY <1>2, PairingStages, PairingStagesNext
<1>4. ASSUME NEW p \in Pairings PROVE PairingMoves(p)
  <2>1. CASE h \in TokenOf(p)
    <3>1. TokenOf(p)' = {} /\ pairing[p] = "gone"
      BY <1>1, <2>1 DEF TokenOf, PairingLinks
    <3>2. PairingStage(p) = "used" /\ PairingStage(p)' = "ended" /\ PairingUser(p)' = None
      BY <1>1, <1>3, <2>1, <3>1 DEF PairingsByToken
    <3> QED
      BY <3>2 DEF PairingMoves, Allowed
  <2>2. CASE h \notin TokenOf(p)
    <3>1. TokenOf(p)' = TokenOf(p) /\ \A g \in TokenOf(p) : hosts'[g] = hosts[g]
      BY <1>1, <2>2 DEF TokenOf
    <3>2. PairingStage(p)' = PairingStage(p) /\ PairingUser(p)' = PairingUser(p)
      <4>1. CASE TokenOf(p) = {}
        BY <1>1, <1>3, <3>1, <4>1 DEF PairingsByToken
      <4>2. CASE TokenOf(p) # {}
        <5>1. PICK g \in TokenOf(p) : TRUE
          BY <4>2
        <5> QED
          BY <1>3, <3>1, <5>1 DEF PairingsByToken
      <4> QED
        BY <4>1, <4>2
    <3> QED
      BY <3>2 DEF PairingMoves, Allowed
  <2> QED
    BY <2>1, <2>2
<1> QED
  BY <1>2, <1>4

LEMMA PairingStepMoves ==
    ASSUME PairingTypeOK, PairingLinks, users \subseteq Users, PairingStep
    PROVE  PairingLinks' /\ \A p \in Pairings : PairingMoves(p)
<1>1. CASE \E p \in Pairings : PairingBreaks(p) \/ PairingEnds(p)
  BY <1>1, SameHostsMoves DEF PairingBreaks, PairingEnds, PairingTypeOK
<1>2. CASE \E p \in Pairings, h \in HostIds \cup {None} : OpenPairing(p, h)
  BY <1>2, SameHostsMoves DEF OpenPairing, PairingTypeOK
<1>3. CASE \E p \in Pairings, h \in HostIds, u \in users : PairHost(p, h, u)
  BY <1>3, PairHostMoves
<1>4. CASE \E h \in HostIds, u \in SignedIn : DeleteHost(h, u)
  BY <1>4, DeleteHostMoves
<1> QED
  BY <1>1, <1>2, <1>3, <1>4 DEF PairingStep

LEMMA PairingRestartMoves ==
    ASSUME PairingTypeOK, PairingLinks, PairingRestart
    PROVE  PairingLinks' /\ \A p \in Pairings : PairingMoves(p)
BY SameHostsMoves DEF PairingRestart, PairingTypeOK

LEMMA PairingIdle ==
    ASSUME PairingTypeOK, PairingLinks, UNCHANGED pairingVars
    PROVE  PairingLinks' /\ \A p \in Pairings : PairingMoves(p)
BY SameHostsMoves DEF pairingVars

---------------------------------------------------------------------------
\* Every step of the server moves each grant as LoginGrant allows.
LEMMA NextMoves ==
    ASSUME Inv, GrantLinks, PairingLinks, [Next]_vars
    PROVE  GrantLinks' /\ PairingLinks' /\ Granted!Next
<1>0. /\ users \subseteq Users /\ SignedIn \subseteq Users
      /\ DevicesInv /\ PairingTypeOK
  BY DEF Inv, AccountsInv, AccountsTypeOK, SignedIn
<1>1. GrantLinks' /\ \A g \in Origins : DeviceMoves(g)
  <2>1. CASE DevicesStep
    BY <1>0, <2>1, DevicesStepMoves
  <2>2. CASE Restart
    BY <1>0, <2>2, RestartMoves DEF Restart
  <2>3. CASE UNCHANGED deviceVars
    BY <2>3, DevicesIdle
  <2> QED
    BY <2>1, <2>2, <2>3 DEF Next, vars
<1>2. PairingLinks' /\ \A p \in Pairings : PairingMoves(p)
  <2>1. CASE PairingStep
    BY <1>0, <2>1, PairingStepMoves
  <2>2. CASE Restart
    BY <1>0, <2>2, PairingRestartMoves DEF Restart
  <2>3. CASE UNCHANGED pairingVars
    BY <1>0, <2>3, PairingIdle
  <2> QED
    BY <2>1, <2>2, <2>3 DEF Next, vars
<1> QED
  BY <1>1, <1>2, GrantedStep

LEMMA InitGranted == Init => GrantLinks /\ PairingLinks /\ Granted!Init
<1> SUFFICES ASSUME Init PROVE GrantLinks /\ PairingLinks /\ Granted!Init
  OBVIOUS
<1>1. GrantLinks /\ Made = {}
  BY DEF Init, DevicesInit, GrantLinks, Made
<1>2. PairingLinks
  BY DEF Init, PairingInit, PairingLinks
<1>3. ASSUME NEW g \in Origins PROVE DeviceStage(g) = "none" /\ DeviceUser(g) = None
  <2>1. RowsOf(g) = {}
    BY <1>1 DEF RowsOf
  <2>2. AskStage(g) = "none"
    BY DeviceGrantsAssumption DEF Init, DevicesInit, AskStage, Origins, IsRunning
  <2> QED
    BY <1>1, <2>1, <2>2, Stages DEF StagesByRow, AskApprover
<1>4. ASSUME NEW p \in Pairings PROVE PairingStage(p) = "none" /\ PairingUser(p) = None
  <2>1. TokenOf(p) = {}
    BY DEF TokenOf, Init, PairingInit
  <2> QED
    BY <1>2, <2>1, PairingStages DEF PairingsByToken, Init, PairingInit
<1>5. Granted!Init
  BY <1>3, <1>4 DEF Granted!Init, GrantStage, GrantUser
<1> QED
  BY <1>1, <1>2, <1>5

\* However asking, approving, expiry, restarts and uses interleave, each code, binding,
\* ceremony and pairing makes one credential at most, once a user approved it and for
\* that user, and none comes back: the account server implements LoginGrant.
THEOREM ImplementsGrant == Spec => RefinesGrant
<1>1. Inv /\ GrantLinks /\ PairingLinks /\ [Next]_vars => GrantLinks' /\ PairingLinks'
  BY NextMoves
<1>2. Inv /\ GrantLinks /\ PairingLinks /\ [Next]_vars => Granted!Next
  BY NextMoves
<1> QED
  BY <1>1, <1>2, InitInv, NextInv, InitGranted, PTL DEF Spec, RefinesGrant, Granted!Spec
===========================================================================
