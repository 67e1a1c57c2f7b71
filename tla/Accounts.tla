------------------------------ MODULE Accounts ------------------------------
(***************************************************************************)
(* User accounts and their sessions on the server: registration, logins    *)
(* with a password or through OIDC, refresh, logout, the check of a        *)
(* request's token, and what users and administrators change about an      *)
(* account.  Apart from register and ensure_personal_vault every statement *)
(* commits by itself; an UPDATE of a user is guarded by the row_version    *)
(* that was read.                                                          *)
(*                                                                         *)
(* A user is named by the email, which is unique, deleted rows included.   *)
(* Passwords, recovery keys and token pairs are numbers in the order of    *)
(* their making.  A call holds its Argon2 permits until it returns.        *)
(***************************************************************************)
EXTENDS Naturals, FiniteSets

CONSTANTS
  Email, Subject,  \* who can have an account, subjects of the OIDC issuer
  Caller,          \* concurrent requests
  AccountMenus,    \* sets of operations that run against each other
  KdfPermits,      \* argon2_semaphore
  VaultIsolation,  \* db_tx_isolation: read_committed by default
  MaxAccountCalls, MaxSessions, MaxAccountFaults,
  NoUser, NoSession, Nobody

AccountOp == {"register", "create", "login", "oidc", "refresh", "logout", "auth",
              "change", "recovery", "update_me", "block", "unblock", "reset",
              "delete", "revoke_device", "expire"}

ASSUME AccountsAssumption ==
  /\ AccountMenus \subseteq SUBSET AccountOp
  /\ Nobody \notin Caller \cup Email
  /\ {KdfPermits, MaxAccountCalls, MaxSessions, MaxAccountFaults} \subseteq Nat
  /\ MaxSessions > MaxAccountCalls
  /\ VaultIsolation \in {"read_committed", "repeatable_read"}

VARIABLES
  users,     \* table users, by email
  linked,    \* table oidc_identities: the user of a subject
  vaulted,   \* users with a personal vault
  vlock,     \* per user, the transaction with the advisory lock
  devices,   \* tables devices and sessions: a login makes one of each
  sessions,
  permits,   \* free permits of argon2_semaphore
  minted,    \* passwords, keys and token pairs made so far
  req,       \* per caller, the request being handled
  answer,    \* per caller, the last answer
  menu, accountCalls, accountFaults

accountVars == <<users, linked, vaulted, vlock, devices, sessions, permits, minted,
                 req, answer, menu, accountCalls, accountFaults>>
tables == <<users, linked, vaulted, vlock, devices, sessions>>
bounds == <<menu, accountCalls, accountFaults>>

SessionId == 1 .. MaxSessions
User == [status : {"active", "disabled"}, deleted : BOOLEAN, pw : Nat, recovery : Nat,
         rv : Nat]
Device == [user : Email, revoked : BOOLEAN]
UserSession == [user : Email, pair : Nat, access_live : BOOLEAN, refresh_live : BOOLEAN]

ASSUME NoUserAssumption == NoUser \notin User

\* shut: the user was blocked or deleted ever since the request began; saw:
\* the personal vault was there when the transaction took its snapshot.
NoReq == [op |-> Nobody, pc |-> "idle", e |-> Nobody, sub |-> Nobody, row |-> NoUser,
          arg |-> 0, id |-> 0, held |-> 0, shut |-> FALSE, saw |-> FALSE]

AccountPc == {"idle", "read", "kdf", "kdf2", "check", "insert", "write", "identity",
              "by_email", "new_user", "link", "device", "session", "vault_tx", "lock", "vault_select",
              "vault_insert", "seen", "session_read", "session_write", "logout", "user",
              "revoke"}

AccountsTypeOK ==
  /\ users \in [Email -> User \cup {NoUser}]
  /\ linked \in [Subject -> Email \cup {Nobody}]
  /\ vaulted \subseteq Email
  /\ vlock \in [Email -> Caller \cup {Nobody}]
  /\ devices \in [SessionId -> Device \cup {NoSession}]
  /\ sessions \in [SessionId -> UserSession \cup {NoSession}]
  /\ permits \in 0 .. KdfPermits
  /\ minted \in Nat
  /\ \A c \in Caller :
       /\ req[c].pc \in AccountPc
       /\ req[c].e \in Email \cup {Nobody}
       /\ req[c].row \in User \cup {NoUser}
       /\ req[c].pc \in {"write", "seen"} /\ req[c].op # "oidc" => req[c].row # NoUser
       /\ req[c].held \in 0 .. 2
  /\ answer \in [Caller -> {"none", "ok", "refused", "stumbled"}]

Known(u) == u \in User
NewUser(pw) == [status |-> "active", deleted |-> FALSE, pw |-> pw, recovery |-> 0, rv |-> 1]

NewSession(e, pair) == [user |-> e, pair |-> pair, access_live |-> TRUE,
                        refresh_live |-> TRUE]

\* Nobody has an account, or an administrator has made it and nobody has
\* logged in yet, or there has been one login.
AccountsInit ==
  /\ linked = [s \in Subject |-> Nobody]
  /\ vlock = [e \in Email |-> Nobody]
  /\ \E made \in SUBSET Email, seen \in SUBSET Email :
       /\ seen \subseteq made
       /\ Cardinality(seen) <= 1 /\ Cardinality(made) <= 1
       /\ users = [e \in Email |-> IF e \in made THEN NewUser(1) ELSE NoUser]
       /\ vaulted = seen
       /\ devices = [i \in SessionId |-> IF i = 1 /\ seen # {}
            THEN [user |-> CHOOSE e \in seen : TRUE, revoked |-> FALSE] ELSE NoSession]
       /\ sessions = [i \in SessionId |-> IF i = 1 /\ seen # {}
            THEN NewSession(CHOOSE e \in seen : TRUE, 2) ELSE NoSession]
  /\ permits = KdfPermits
  /\ minted = 2
  /\ req = [c \in Caller |-> NoReq]
  /\ answer = [c \in Caller |-> "none"]
  /\ menu \in AccountMenus
  /\ accountCalls = 0
  /\ accountFaults = 0

-----------------------------------------------------------------------------
(* Repositories *)

\* get_by_id and get_by_email see no deleted user.
GetUser(e) == IF Known(users[e]) /\ ~users[e].deleted THEN users[e] ELSE NoUser
GetByEmail(e) == GetUser(e)

\* The rows that the UPDATEs of UserRepo leave.
WithHash(u, secret) == [u EXCEPT !.pw = secret]
WithKit(u, secret) == [u EXCEPT !.recovery = secret]
WithStatus(u, status) == [u EXCEPT !.status = status]
WithName(u) == u
Removed(u) == [u EXCEPT !.deleted = TRUE]

\* WHERE id = $1 AND row_version = $2
Affects(c) == users[req[c].e].rv = req[c].row.rv

\* One column of the current row is set and row_version counted up.
StoreUser(e, u) == users' = [users EXCEPT ![e] = [u EXCEPT !.rv = users[e].rv + 1]]

\* Sessions by refresh or access token, and what is left without them.
WithPair(t) == {i \in SessionId : sessions[i] # NoSession /\ sessions[i].pair = t}
LiveByRefresh(t) == {i \in WithPair(t) : sessions[i].refresh_live}
LiveByAccess(t) == {i \in WithPair(t) : sessions[i].access_live}
WithoutPair(t) == [i \in SessionId |-> IF i \in WithPair(t) THEN NoSession ELSE sessions[i]]

\* The user an OIDC subject is linked with, and the link.
LinkedUser(s) == linked[s]
WithLink(s, e) == [linked EXCEPT ![s] = e]

\* A device and its owner; a revoked one.
NewDevice(e) == [user |-> e, revoked |-> FALSE]
OwnDevice(i, e) == devices[i] # NoSession /\ devices[i].user = e
WithRevoked(i) == [devices EXCEPT ![i].revoked = TRUE]

FreeIds == {i \in SessionId : devices[i] = NoSession}

-----------------------------------------------------------------------------
(* Requests *)

At(c, pc) == req[c].pc = pc
Step(c, pc) == req' = [req EXCEPT ![c].pc = pc]

\* Faulty: a second permit is forgotten.
ReturnOne(c, what) ==
  /\ req' = [req EXCEPT ![c] = NoReq]
  /\ answer' = [answer EXCEPT ![c] = what]
  /\ permits' = permits + (IF req[c].held > 0 THEN 1 ELSE 0)
  /\ vlock' = [e \in Email |-> IF vlock[e] = c THEN Nobody ELSE vlock[e]]

\* The handler returns: its permits and the lock of its transaction go back.
Return(c, what) ==
  /\ req' = [req EXCEPT ![c] = NoReq]
  /\ answer' = [answer EXCEPT ![c] = what]
  /\ permits' = permits + req[c].held
  /\ vlock' = [e \in Email |-> IF vlock[e] = c THEN Nobody ELSE vlock[e]]

Shut(e) == Known(users[e]) /\ (users[e].deleted \/ users[e].status # "active")

FirstStep(op) ==
  CASE op \in {"register", "create"} -> "kdf"
    [] op = "oidc" -> "identity"
    [] op \in {"refresh", "auth"} -> "session_read"
    [] op = "logout" -> "logout"
    [] op = "revoke_device" -> "revoke"
    [] OTHER -> "read"

\* What a caller may present: the first or the current password of the user,
\* the first or a current token pair.
Presented(op, e) ==
  CASE op \in {"login", "change"} -> {1} \cup {u.pw : u \in {users[e]} \ {NoUser}}
    [] op \in {"refresh", "logout", "auth"} ->
         {2} \cup {s.pair : s \in {sessions[i] : i \in SessionId} \ {NoSession}}
    [] OTHER -> {0}

\* A request whose policy checks and validation succeeded.
BeginCall(c, op, e, sub, arg, id) ==
  /\ At(c, "idle")
  /\ op \in menu \ {"expire"}
  /\ accountCalls < MaxAccountCalls
  /\ accountCalls' = accountCalls + 1
  /\ arg \in Presented(op, e)
  /\ (id = 0) = (op # "revoke_device")
  /\ (sub = Nobody) = (op # "oidc")
  /\ req' = [req EXCEPT ![c] = [NoReq EXCEPT !.op = op, !.pc = FirstStep(op), !.e = e,
                                             !.sub = sub, !.arg = arg, !.id = id,
                                             !.shut = Shut(e)]]
  /\ answer' = [answer EXCEPT ![c] = "none"]
  /\ UNCHANGED <<tables, permits, minted, menu, accountFaults>>

\* login_internal goes on with an active user only, reset_password with one that
\* is not blocked, create_recovery_kit with one that has a password.
LoginAllowed(u) == u.status = "active"
ResetAllowed(u) == u.status # "disabled"
KitAllowed(u) == u.pw # 0

\* The user row that login_internal, the users API and the administration
\* start from, and the checks that follow it.
ReadUser(c) ==
  LET u  == GetUser(req[c].e)
      op == req[c].op
  IN
  /\ At(c, "read")
  /\ IF \/ ~Known(u)
        \/ op = "login" /\ ~LoginAllowed(u)
        \/ op = "reset" /\ ~ResetAllowed(u)
        \/ op = "recovery" /\ ~KitAllowed(u)
     THEN Return(c, "refused")
     ELSE /\ req' = [req EXCEPT ![c].row = u, ![c].pc =
                       IF op \in {"login", "change", "recovery", "reset"} THEN "kdf"
                       ELSE "write"]
          /\ UNCHANGED <<vlock, permits, answer>>
  /\ UNCHANGED <<users, linked, vaulted, devices, sessions, minted, bounds>>

\* What follows the permit: verify_password where a password was presented.
AfterKdf(c) ==
  CASE req[c].op \in {"register", "create"} -> "check"
    [] req[c].op = "login" -> "device"
    [] req[c].op = "change" -> "kdf2"
    [] OTHER -> "write"

Verified(c) == req[c].op \in {"login", "change"} => req[c].row.pw = req[c].arg

\* acquire_kdf_permit waits until a permit is free.
AcquirePermit(c, op) ==
  /\ At(c, "kdf") /\ req[c].op = op
  /\ permits > 0
  /\ IF Verified(c)
     THEN /\ permits' = permits - 1
          /\ req' = [req EXCEPT ![c].held = 1, ![c].pc = AfterKdf(c)]
          /\ UNCHANGED <<vlock, answer>>
     ELSE Return(c, "refused")
  /\ UNCHANGED <<users, linked, vaulted, devices, sessions, minted, bounds>>

\* The hash of a new user, of a login, of an old password, of a new one and of a
\* recovery key.
RegisterKdf(c) == AcquirePermit(c, "register")
CreateKdf(c) == AcquirePermit(c, "create")
LoginKdf(c) == AcquirePermit(c, "login")
ChangeKdf(c) == AcquirePermit(c, "change")
ResetKdf(c) == AcquirePermit(c, "reset")
KitKdf(c) == AcquirePermit(c, "recovery")

\* change_password takes a second permit for the new hash; the first one is
\* shadowed and still held.
AcquireSecond(c) ==
  /\ At(c, "kdf2")
  /\ permits > 0
  /\ permits' = permits - 1
  /\ req' = [req EXCEPT ![c].held = 2, ![c].pc = "write"]
  /\ UNCHANGED <<tables, minted, answer, bounds>>

-----------------------------------------------------------------------------
(* Registration *)

\* register and create_user: is there a user with this email?
CheckEmail(c) ==
  /\ At(c, "check")
  /\ IF Known(GetByEmail(req[c].e))
     THEN Return(c, "refused")
     ELSE Step(c, "insert") /\ UNCHANGED <<vlock, permits, answer>>
  /\ UNCHANGED <<users, linked, vaulted, devices, sessions, minted, bounds>>

\* The transaction of register: user, device, session and personal vault.
\* A row with this email, deleted or new, makes the INSERT fail.
RegisterInsert(c) ==
  LET e == req[c].e
      i == CHOOSE j \in FreeIds : \A k \in FreeIds : j <= k
  IN
  /\ At(c, "insert") /\ req[c].op = "register"
  /\ IF Known(users[e])
     THEN Return(c, "refused") /\ UNCHANGED <<users, vaulted, devices, sessions, minted>>
     ELSE /\ users' = [users EXCEPT ![e] = NewUser(minted + 1)]
          /\ devices' = [devices EXCEPT ![i] = NewDevice(e)]
          /\ sessions' = [sessions EXCEPT ![i] = NewSession(e, minted + 2)]
          /\ vaulted' = vaulted \cup {e}
          /\ minted' = minted + 2
          /\ Return(c, "ok")
  /\ UNCHANGED <<linked, bounds>>

CreateUser(c) ==
  LET e == req[c].e IN
  /\ At(c, "insert") /\ req[c].op = "create"
  /\ IF Known(users[e])
     THEN Return(c, "refused") /\ UNCHANGED <<users, minted>>
     ELSE /\ users' = [users EXCEPT ![e] = NewUser(minted + 1)]
          /\ minted' = minted + 1
          /\ Return(c, "ok")
  /\ UNCHANGED <<linked, vaulted, devices, sessions, bounds>>

-----------------------------------------------------------------------------
(* identity_from_oidc *)

\* The subject is known: its user must exist and be active.
FindIdentity(c) ==
  LET e == LinkedUser(req[c].sub) IN
  /\ At(c, "identity")
  /\ \/ /\ e = Nobody
        /\ Step(c, "by_email")
        /\ UNCHANGED <<vlock, permits, answer>>
     \/ /\ e # Nobody
        /\ IF Known(GetUser(e)) /\ users[e].status = "active"
           THEN /\ req' = [req EXCEPT ![c].e = e, ![c].pc = "device"]
                /\ UNCHANGED <<vlock, permits, answer>>
           ELSE Return(c, "refused")
  /\ UNCHANGED <<users, linked, vaulted, devices, sessions, minted, bounds>>

FindByEmail(c) ==
  /\ At(c, "by_email")
  /\ req' = [req EXCEPT ![c].row = GetByEmail(req[c].e),
                        ![c].pc = IF Known(GetByEmail(req[c].e)) THEN "link" ELSE "new_user"]
  /\ UNCHANGED <<tables, permits, minted, answer, bounds>>

\* user_repo.create: a user without a password.
CreateOidcUser(c) ==
  LET e == req[c].e IN
  /\ At(c, "new_user")
  /\ IF Known(users[e])
     THEN Return(c, "refused") /\ UNCHANGED users
     ELSE /\ users' = [users EXCEPT ![e] = NewUser(0)]
          /\ req' = [req EXCEPT ![c].row = NewUser(0), ![c].pc = "link"]
          /\ UNCHANGED <<vlock, permits, answer>>
  /\ UNCHANGED <<linked, vaulted, devices, sessions, minted, bounds>>

\* oidc_repo.create, then the status of the row that was read.
LinkIdentity(c) ==
  LET s == req[c].sub IN
  /\ At(c, "link")
  /\ IF LinkedUser(s) # Nobody
     THEN Return(c, "refused") /\ UNCHANGED linked
     ELSE /\ linked' = WithLink(s, req[c].e)
          /\ IF req[c].row.status = "active"
             THEN Step(c, "device") /\ UNCHANGED <<vlock, permits, answer>>
             ELSE Return(c, "refused")
  /\ UNCHANGED <<users, vaulted, devices, sessions, minted, bounds>>

-----------------------------------------------------------------------------
(* The end of both logins: device, session, personal vault, last login *)

InsertDevice(c, op) ==
  LET i == CHOOSE j \in FreeIds : \A k \in FreeIds : j <= k IN
  /\ At(c, "device") /\ req[c].op = op
  /\ devices' = [devices EXCEPT ![i] = NewDevice(req[c].e)]
  /\ req' = [req EXCEPT ![c].id = i, ![c].pc = "session"]
  /\ UNCHANGED <<users, linked, vaulted, vlock, sessions, permits, minted, answer, bounds>>

InsertSession(c, op) ==
  /\ At(c, "session") /\ req[c].op = op
  /\ sessions' = [sessions EXCEPT ![req[c].id] = NewSession(req[c].e, minted + 1)]
  /\ minted' = minted + 1
  /\ Step(c, "vault_tx")
  /\ UNCHANGED <<users, linked, vaulted, vlock, devices, permits, answer, bounds>>

\* login_internal and login_oidc
LoginDevice(c) == InsertDevice(c, "login")
OidcDevice(c) == InsertDevice(c, "oidc")
LoginSession(c) == InsertSession(c, "login")
OidcSession(c) == InsertSession(c, "oidc")

\* BEGIN: the statement that waits for the lock is the first one, so that
\* under REPEATABLE READ the snapshot is older than the lock.
BeginVault(c) ==
  /\ At(c, "vault_tx")
  /\ req' = [req EXCEPT ![c].saw = req[c].e \in vaulted, ![c].pc = "lock"]
  /\ UNCHANGED <<tables, permits, minted, answer, bounds>>

\* Faulty: the transaction goes on without the lock.
LockFree(c) == TRUE

LockAvailable(c) == vlock[req[c].e] = Nobody

\* pg_advisory_xact_lock of the user
LockVault(c) ==
  /\ At(c, "lock")
  /\ LockAvailable(c)
  /\ vlock' = [vlock EXCEPT ![req[c].e] = c]
  /\ Step(c, "vault_select")
  /\ UNCHANGED <<users, linked, vaulted, devices, sessions, permits, minted, answer, bounds>>

AfterVault(c) == IF req[c].op = "oidc" THEN Return(c, "ok")
                 ELSE /\ Step(c, "seen")
                      /\ vlock' = [vlock EXCEPT ![req[c].e] = Nobody]
                      /\ UNCHANGED <<permits, answer>>

\* There is a personal vault already: COMMIT and go on.
SelectVault(c) ==
  /\ At(c, "vault_select")
  /\ IF \/ req[c].saw
        \/ VaultIsolation = "read_committed" /\ req[c].e \in vaulted
     THEN AfterVault(c)
     ELSE Step(c, "vault_insert") /\ UNCHANGED <<vlock, permits, answer>>
  /\ UNCHANGED <<users, linked, vaulted, devices, sessions, minted, bounds>>

\* INSERT of the vault and its member, COMMIT.  The slug is unique, and after
\* a failed statement the transaction answers the second SELECT with an error.
InsertVault(c) ==
  /\ At(c, "vault_insert")
  /\ IF req[c].e \in vaulted
     THEN Return(c, "stumbled") /\ UNCHANGED vaulted
     ELSE vaulted' = vaulted \cup {req[c].e} /\ AfterVault(c)
  /\ UNCHANGED <<users, linked, devices, sessions, minted, bounds>>

\* update_last_login: a row that has changed since is left alone.
LastLogin(c) ==
  /\ At(c, "seen")
  /\ IF Affects(c) THEN StoreUser(req[c].e, users[req[c].e]) ELSE UNCHANGED users
  /\ Return(c, "ok")
  /\ UNCHANGED <<linked, vaulted, devices, sessions, minted, bounds>>

-----------------------------------------------------------------------------
(* Sessions *)

\* refresh looks the session up by refresh token, identity_from_session_token
\* by access token; expired ones are refused.
ReadSession(c) ==
  LET found == IF req[c].op = "auth" THEN LiveByAccess(req[c].arg)
                                     ELSE LiveByRefresh(req[c].arg) IN
  /\ At(c, "session_read")
  /\ \/ /\ found = {}
        /\ Return(c, "refused")
     \/ \E i \in found :
          /\ req' = [req EXCEPT ![c].id = i, ![c].e = sessions[i].user,
                                ![c].shut = req[c].shut /\ req[c].e = sessions[i].user,
                                ![c].pc = IF req[c].op = "auth" THEN "user"
                                          ELSE "session_write"]
          /\ UNCHANGED <<vlock, permits, answer>>
  /\ UNCHANGED <<users, linked, vaulted, devices, sessions, minted, bounds>>

\* Faulty: the row is inserted when it is gone.
RefreshedUpsert(c) == NewSession(req[c].e, minted + 1)

\* update_refresh_token: by id, and it is not asked whether there was a row.
Refreshed(c) == IF sessions[req[c].id] = NoSession THEN NoSession
                ELSE NewSession(req[c].e, minted + 1)

Refresh(c) ==
  /\ At(c, "session_write")
  /\ sessions' = [sessions EXCEPT ![req[c].id] = Refreshed(c)]
  /\ minted' = minted + 1
  /\ Return(c, "ok")
  /\ UNCHANGED <<users, linked, vaulted, devices, bounds>>

\* delete_by_refresh_token_hash; a token that is not there is no error.
Logout(c) ==
  /\ At(c, "logout")
  /\ sessions' = WithoutPair(req[c].arg)
  /\ Return(c, "ok")
  /\ UNCHANGED <<users, linked, vaulted, devices, minted, bounds>>

StatusAllowed(u) == Known(u) /\ u.status = "active"

\* identity_from_user
Authenticate(c) ==
  /\ At(c, "user")
  /\ Return(c, IF StatusAllowed(GetUser(req[c].e)) THEN "ok" ELSE "refused")
  /\ UNCHANGED <<users, linked, vaulted, devices, sessions, minted, bounds>>

\* A token pair grows old: first the access token, then the refresh token.
Expire(i) ==
  /\ "expire" \in menu
  /\ sessions[i] # NoSession
  /\ \/ /\ sessions[i].access_live
        /\ sessions' = [sessions EXCEPT ![i].access_live = FALSE]
     \/ /\ ~sessions[i].access_live /\ sessions[i].refresh_live
        /\ sessions' = [sessions EXCEPT ![i].refresh_live = FALSE]
  /\ UNCHANGED <<users, linked, vaulted, vlock, devices, permits, minted, req, answer, bounds>>

\* Only the owner finds the device; its sessions stay.
RevokeDevice(c) ==
  /\ At(c, "revoke")
  /\ IF OwnDevice(req[c].id, req[c].e)
     THEN Return(c, "ok") /\ devices' = WithRevoked(req[c].id)
     ELSE Return(c, "refused") /\ UNCHANGED devices
  /\ UNCHANGED <<users, linked, vaulted, sessions, minted, bounds>>

-----------------------------------------------------------------------------
(* Changes of a user *)

\* The guarded UPDATE that ends op; no row affected is answered NotFound.
WriteUser(c, op, u, made) ==
  /\ At(c, "write") /\ req[c].op = op
  /\ IF Affects(c)
     THEN StoreUser(req[c].e, u) /\ minted' = minted + made /\ Return(c, "ok")
     ELSE UNCHANGED <<users, minted>> /\ Return(c, "refused")
  /\ UNCHANGED <<linked, vaulted, devices, sessions, bounds>>

Row(c) == users[req[c].e]

UpdateMe(c) == WriteUser(c, "update_me", WithName(Row(c)), 0)
ChangePassword(c) == WriteUser(c, "change", WithHash(Row(c), minted + 1), 1)
ResetPassword(c) == WriteUser(c, "reset", WithHash(Row(c), minted + 1), 1)
RecoveryKit(c) == WriteUser(c, "recovery", WithKit(Row(c), minted + 1), 1)
DeleteUser(c) == WriteUser(c, "delete", Removed(Row(c)), 0)
BlockUser(c) == WriteUser(c, "block", WithStatus(Row(c), "disabled"), 0)

\* An unblocked user is no longer shut out, of requests under way too.
UnblockUser(c) ==
  /\ At(c, "write") /\ req[c].op = "unblock"
  /\ IF Affects(c)
     THEN /\ StoreUser(req[c].e, WithStatus(Row(c), "active"))
          /\ answer' = [answer EXCEPT ![c] = "ok"]
          /\ req' = [d \in Caller |-> IF d = c THEN NoReq
                       ELSE [req[d] EXCEPT !.shut = @ /\ req[d].e # req[c].e]]
          /\ UNCHANGED <<vlock, permits>>
     ELSE UNCHANGED users /\ Return(c, "refused")
  /\ UNCHANGED <<linked, vaulted, devices, sessions, minted, bounds>>

-----------------------------------------------------------------------------
\* A statement fails, or the client is gone and the handler is dropped: what
\* is committed stays, an open transaction is rolled back.
Abandon(c) ==
  /\ ~At(c, "idle")
  /\ accountFaults < MaxAccountFaults
  /\ accountFaults' = accountFaults + 1
  /\ Return(c, "none")
  /\ UNCHANGED <<users, linked, vaulted, devices, sessions, minted, menu, accountCalls>>

AccountStep(c) ==
  \/ ReadUser(c)
  \/ RegisterKdf(c) \/ CreateKdf(c) \/ LoginKdf(c) \/ ChangeKdf(c) \/ ResetKdf(c) \/ KitKdf(c)
  \/ AcquireSecond(c)
  \/ CheckEmail(c) \/ RegisterInsert(c) \/ CreateUser(c)
  \/ FindIdentity(c) \/ FindByEmail(c) \/ CreateOidcUser(c) \/ LinkIdentity(c)
  \/ LoginDevice(c) \/ OidcDevice(c) \/ LoginSession(c) \/ OidcSession(c)
  \/ BeginVault(c) \/ LockVault(c) \/ SelectVault(c)
  \/ InsertVault(c) \/ LastLogin(c)
  \/ ReadSession(c) \/ Refresh(c) \/ Logout(c) \/ Authenticate(c) \/ RevokeDevice(c)
  \/ UpdateMe(c) \/ ChangePassword(c) \/ ResetPassword(c) \/ RecoveryKit(c)
  \/ DeleteUser(c) \/ BlockUser(c) \/ UnblockUser(c)

AccountsNext ==
  \/ \E c \in Caller :
       \/ \E op \in menu, e \in Email, s \in Subject \cup {Nobody}, arg \in 0 .. minted,
             id \in 0 .. MaxSessions : BeginCall(c, op, e, s, arg, id)
       \/ AccountStep(c)
       \/ Abandon(c)
  \/ \E i \in SessionId : Expire(i)

AccountsSpec == AccountsInit /\ [][AccountsNext]_accountVars

\* While a request can go on, one does: statements return, hashes are computed,
\* and a free permit or lock is handed to someone who waits for it.
AccountsFair == WF_accountVars(\E c \in Caller : AccountStep(c))

-----------------------------------------------------------------------------
\* change_password replaces the password that it has verified and no other:
\* one that was reset or changed in the meantime stays (update_password_hash
\* compares row_version).
VerifiedPasswordReplaced ==
  \A c \in Caller : At(c, "write") /\ req[c].op = "change" /\ answer'[c] = "ok" =>
    users[req[c].e].pw = req[c].arg

\* A request that began after the user was blocked or deleted, and was not
\* overtaken by an unblock, is refused, whatever sessions were made while the
\* block was under way (identity_from_user reads the status every time).
BlockedUserIsRefused ==
  \A c \in Caller : At(c, "user") /\ req[c].shut => answer'[c] # "ok"

\* First logins from several devices make one personal vault, and none of
\* them fails over it: a login that is answered has a vault
\* (ensure_personal_vault_tx, pg_advisory_xact_lock).
FirstLoginsAgree ==
  /\ \A c \in Caller : answer[c] # "stumbled"
  /\ \A c \in Caller : At(c, "seen") => req[c].e \in vaulted

\* Only a login makes a session: a refresh that read the session before its
\* logout does not bring it back (update_refresh_token is an UPDATE by id).
LogoutIsFinal ==
  \A i \in SessionId : sessions[i] = NoSession /\ sessions'[i] # NoSession =>
    \E c \in Caller : \/ At(c, "session") /\ req[c].id = i
                      \/ At(c, "insert") /\ users[req[c].e] = NoUser

\* No request succeeds on what it has read before and is no longer so: the
\* password that change_password verified, the status of a user who is blocked
\* or deleted, the session that refresh found and a logout has removed.
NoStaleSuccess ==
  [][VerifiedPasswordReplaced /\ BlockedUserIsRefused /\ LogoutIsFinal]_accountVars

\* Every request that begins is answered: nobody waits for an Argon2 permit
\* or for the advisory lock for ever.
AccountCallsEnd == \A c \in Caller : ~At(c, "idle") ~> At(c, "idle")
=============================================================================
