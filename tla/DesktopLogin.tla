----------------------------- MODULE DesktopLogin -----------------------------
(***************************************************************************)
(* Logins of the desktop and what they leave on the device                 *)
(* (services/auth.rs, auth_password.rs, auth_oidc.rs, infra/config.rs):    *)
(* the contexts of the configuration file, the rows of the table storages  *)
(* and the changes that wait in a storage for a push.                      *)
(*                                                                         *)
(* The file is read and written as a whole, and between the two a command  *)
(* waits for the database or the network.  A browser login goes on in the  *)
(* background, so that another login and the refresh of a token by a sync  *)
(* come between any two of its steps.                                      *)
(***************************************************************************)
EXTENDS Naturals, FiniteSets

CONSTANTS
  Origin,          \* scheme, host and port of a server
  LoginServer,     \* the servers, by server_id
  Login,           \* logins, by login_id
  LoginMenus,      \* what happens in one behaviour beside password logins, subsets of
                   \* {"browser", "path", "move", "secrets", "sync", "edit", "remove", "crash"}
  MaxLogins,
  MaxMoves,        \* changes of an address or of the secrets of a server
  MaxCrashes,
  NoOrigin, NoServer

ASSUME DesktopLoginAssumption ==
  /\ {MaxLogins, MaxMoves, MaxCrashes} \subseteq Nat /\ IsFiniteSet(LoginServer)
  /\ NoOrigin \notin Origin /\ "torn" \notin Origin \cup {NoOrigin} /\ NoServer \notin LoginServer

VARIABLES
  answers,       \* the server behind an origin
  secrets,       \* the fingerprint of a server
  config,        \* config.json
  storageRows,   \* table storages: a set of [id, url, fp]
  waiting,       \* the storages with rows in pending_changes
  asked,         \* state.pending_logins
  login,         \* the logins that run
  tokenSync,     \* the copy of the file that a running sync has
  accepted,      \* the fingerprints that were met first or trusted by the user
  raced,         \* a login and another command changed the device at a time, or a file
                 \* was saved that another command had changed meanwhile
  cut,           \* a login was killed halfway, or a kill has torn the file
  takenOver,     \* the context of one server has become that of another one
  discarded,     \* storages whose waiting changes a login threw away
  loginMenu, nextId, loginsBegun, moves, crashes

loginVars == <<answers, secrets, config, storageRows, waiting, asked, login, tokenSync, accepted,
               raced, cut, takenOver, discarded, loginMenu, nextId, loginsBegun, moves, crashes>>
world == <<answers, secrets, moves>>
counts == <<loginMenu, loginsBegun, crashes, cut>>
tables == <<storageRows, waiting, discarded>>
file == <<config, accepted, raced, takenOver>>

\* An address as the user types it; context_name_from_url keeps its origin.
Address == [origin : Origin, path : BOOLEAN]
ContextName(url) == url.origin

NoAddress == [origin |-> NoOrigin, path |-> FALSE]
NoContext == [addr |-> NoAddress, server |-> NoServer, fp |-> 0, storage |-> 0, token |-> FALSE]
NoConfig == [contexts |-> [o \in Origin |-> NoContext], current |-> NoOrigin]
Unreadable == [contexts |-> [o \in Origin |-> NoContext], current |-> "torn"]

NoResult == [server |-> NoServer, fp |-> 0]
NotAsked == [open |-> FALSE, fp |-> 0, result |-> NoResult]
NoLogin == [at |-> "idle", url |-> NoAddress, result |-> NoResult, read |-> NoConfig,
            storage |-> 0]
NoTokenSync == [at |-> "idle", read |-> NoConfig]

Context == [addr : Address \cup {NoAddress}, server : LoginServer \cup {NoServer}, fp : Nat,
            storage : Nat, token : BOOLEAN]
LoginSteps == {"idle", "listen", "request", "load", "save", "clean", "row", "finish"}

DesktopLoginTypeOK ==
  /\ answers \in [Origin -> LoginServer] /\ secrets \in [LoginServer -> Nat]
  /\ config.contexts \in [Origin -> Context]
  /\ config.current \in Origin \cup {NoOrigin, "torn"}
  /\ storageRows \subseteq [id : 1 .. nextId, url : Address, fp : Nat]
  /\ \A a, b \in storageRows : a.id = b.id => a = b
  /\ waiting \subseteq {row.id : row \in storageRows}
  /\ \A l \in Login : login[l].at \in LoginSteps

DesktopLoginInit ==
  /\ loginMenu \in LoginMenus
  /\ answers \in [Origin -> LoginServer]
  /\ secrets \in {f \in [LoginServer -> 1 .. Cardinality(LoginServer)] :
                    \A s, t \in LoginServer : f[s] = f[t] => s = t}
  /\ config = NoConfig /\ storageRows = {} /\ waiting = {}
  /\ asked = [l \in Login |-> NotAsked] /\ login = [l \in Login |-> NoLogin] /\ tokenSync = NoTokenSync
  /\ accepted = {} /\ raced = FALSE /\ cut = FALSE /\ takenOver = FALSE /\ discarded = {}
  /\ nextId = 0 /\ loginsBegun = 0 /\ moves = 0 /\ crashes = 0

-----------------------------------------------------------------------------
(* The configuration file.                                                 *)

Readable(c) == c.current # "torn"

\* load_config(..).unwrap_or_else(default)
LoadConfig == IF Readable(config) THEN config ELSE NoConfig

Known(c, o) == c.contexts[o] # NoContext

\* The contexts of a server; a HashMap finds any of them first.
ContextsOf(c, server) == {o \in Origin : Known(c, o) /\ c.contexts[o].server = server}

EnsureContext(c, url) ==
  IF Known(c, ContextName(url)) THEN c
  ELSE [c EXCEPT !.contexts[ContextName(url)] = [NoContext EXCEPT !.addr = url]]

\* The logins that change the device, and those that have written part of it.
Applying == {l \in Login : login[l].at \in {"load", "save", "clean", "row"}}
Halfway == {l \in Applying : login[l].at # "save" \/ asked[l].fp # 0}

\* save_config by a command that has read the file before, while others change
\* the device.
SaveConfig(c, read, others) ==
  /\ config' = c
  /\ takenOver' = (takenOver \/ \E o \in Origin :
       LET old == LoadConfig.contexts[o].server
           new == c.contexts[o].server
       IN  old # new /\ NoServer \notin {old, new})
  /\ raced' = (raced \/ LoadConfig # read \/ others # {})

\* The device knows neither the server nor what was at the address.
FirstMet(url, server) ==
  ContextsOf(LoadConfig, server) = {} /\ LoadConfig.contexts[ContextName(url)].fp = 0

-----------------------------------------------------------------------------
(* The servers.                                                            *)

\* Another server answers at an origin.
MoveServer(o, s) ==
  /\ "move" \in loginMenu /\ moves < MaxMoves /\ answers[o] # s
  /\ answers' = [answers EXCEPT ![o] = s] /\ moves' = moves + 1
  /\ UNCHANGED <<file, tables, asked, login, tokenSync, secrets, nextId, counts>>

\* A server gets a new pepper or master key, so another fingerprint
\* (compute_fingerprint); its identity key and its id stay.
NewSecrets(s) ==
  /\ "secrets" \in loginMenu /\ moves < MaxMoves
  /\ secrets' = [secrets EXCEPT ![s] = Cardinality(LoginServer) + moves + 1]
  /\ moves' = moves + 1
  /\ UNCHANGED <<file, tables, asked, login, tokenSync, answers, nextId, counts>>

-----------------------------------------------------------------------------
(* A login.                                                                *)

\* An id that no login has; which one does not matter.
FreshId(l) ==
  l = CHOOSE k \in Login : login[k].at = "idle" /\ ~asked[k].open

Begin(l, url, at) ==
  /\ loginsBegun < MaxLogins /\ login[l].at = "idle" /\ ~asked[l].open /\ FreshId(l)
  /\ login' = [login EXCEPT ![l] = [NoLogin EXCEPT !.at = at, !.url = url]]
  /\ loginsBegun' = loginsBegun + 1
  /\ url.path => "path" \in loginMenu
  /\ UNCHANGED <<world, file, tables, tokenSync, nextId, loginMenu, crashes, cut>>

\* password_login and password_register send other requests and go on alike.
PasswordLogin(l, url) == Begin(l, url, "request") /\ UNCHANGED asked
PasswordRegister(l, url) == Begin(l, url, "request") /\ UNCHANGED asked

\* begin_login: the callback has a fixed port, so there is one listener.
BeginLogin(l, url) ==
  /\ "browser" \in loginMenu
  /\ \A k \in Login : login[k].at # "listen"
  /\ Begin(l, url, "listen")
  /\ asked' = [asked EXCEPT ![l] = [NotAsked EXCEPT !.open = TRUE]]

\* listen_for_oidc_callback ends with the callback; complete_oidc_login checks
\* that the login is still known and that the state is the one it sent.  A wrong
\* state ends the login and leaves its entry.
Callback(l, stateMatches) ==
  /\ login[l].at = "listen"
  /\ login' = [login EXCEPT ![l] =
       IF asked[l].open /\ stateMatches THEN [@ EXCEPT !.at = "request"] ELSE NoLogin]
  /\ UNCHANGED <<world, file, tables, asked, tokenSync, nextId, counts>>

\* An error of the identity provider or ten minutes without a callback.
ListenerFails(l) ==
  /\ login[l].at = "listen"
  /\ login' = [login EXCEPT ![l] = NoLogin] /\ asked' = [asked EXCEPT ![l] = NotAsked]
  /\ UNCHANGED <<world, file, tables, tokenSync, nextId, counts>>

\* A request of the login fails.
RequestFails(l) ==
  /\ login[l].at = "request"
  /\ login' = [login EXCEPT ![l] = NoLogin]
  /\ UNCHANGED <<world, file, tables, asked, tokenSync, nextId, counts>>

\* Faulty: a server that has another address is a new one.
PinByAddress(url, server) == {ContextName(url)}

\* The context whose fingerprint counts: one of the server, else the one of the
\* address (update_pending_login_for_fingerprint, password_login).  An
\* unreadable file has none (fingerprint_change_for_context).
PinContexts(url, server) ==
  LET known == ContextsOf(LoadConfig, server)
  IN  IF known = {} THEN {ContextName(url)} ELSE known

FingerprintChanged(o, fp) == LoadConfig.contexts[o].fp \notin {0, fp}

\* The session, the system information and the salt of the account are there.
\* With another fingerprint than the stored one the login waits for the user;
\* else apply_login_context reads the file.
Answered(l) ==
  LET url == login[l].url
      server == answers[ContextName(url)]
      result == [server |-> server, fp |-> secrets[server]]
  IN  /\ login[l].at = "request"
      /\ \E o \in PinContexts(url, server) :
           IF FingerprintChanged(o, result.fp)
           THEN /\ asked' = [asked EXCEPT ![l] =
                     [open |-> TRUE, fp |-> result.fp, result |-> result]]
                /\ login' = [login EXCEPT ![l] = [NoLogin EXCEPT !.url = url]]
           ELSE /\ login' = [login EXCEPT ![l] =
                     [@ EXCEPT !.at = "save", !.result = result, !.read = LoadConfig]]
                /\ UNCHANGED asked
      /\ UNCHANGED <<world, file, tables, tokenSync, nextId, counts>>

\* trust_fingerprint: the new fingerprint and the server go to the context of
\* the address, and finalize_login is spawned.
TrustFingerprint(l) ==
  LET url == login[l].url
      c == EnsureContext(LoadConfig, url)
      o == ContextName(url)
  IN  /\ login[l].at = "idle" /\ asked[l].open /\ asked[l].fp # 0
      /\ SaveConfig([c EXCEPT !.contexts[o].fp = asked[l].fp,
                              !.contexts[o].server = asked[l].result.server],
                    LoadConfig, Applying)
      /\ accepted' = accepted \cup {asked[l].fp}
      /\ login' = [login EXCEPT ![l] = [@ EXCEPT !.at = "load", !.result = asked[l].result]]
      /\ UNCHANGED <<world, tables, asked, tokenSync, nextId, counts>>

\* finalize_login starts.
LoadForLogin(l) ==
  /\ login[l].at = "load"
  /\ login' = [login EXCEPT ![l] = [@ EXCEPT !.at = "save", !.read = LoadConfig]]
  /\ UNCHANGED <<world, file, tables, asked, tokenSync, nextId, counts>>

\* migrate_context_for_server_id: what the configuration is with the context of
\* the server moved from another name, if the name is free or of the server.
Migrations(c, name, server) ==
  LET others == ContextsOf(c, server) \ {name}
  IN  IF others = {} \/ c.contexts[name].server \notin {NoServer, server}
      THEN {c}
      ELSE {[c EXCEPT !.contexts = [@ EXCEPT ![name] = c.contexts[old], ![old] = NoContext]] :
              old \in others}

RowsAt(url) == {row \in storageRows : row.url = url}

\* The rest of apply_login_context up to its save: the context of the address
\* gets the session, the server and a storage, which is its own, that of the
\* migrated context, one with the address, or a new one.
SaveForLogin(l) ==
  LET run == login[l]
      name == ContextName(run.url)
      own(c) == c.contexts[name].storage
      found == IF RowsAt(run.url) = {} THEN {nextId + 1} ELSE {row.id : row \in RowsAt(run.url)}
  IN  /\ run.at = "save"
      /\ \E c \in Migrations(run.read, name, run.result.server) :
         \E storage \in IF own(c) # 0 THEN {own(c)} ELSE found :
           /\ SaveConfig([contexts |-> [c.contexts EXCEPT ![name] =
                            [addr |-> run.url, server |-> run.result.server,
                             fp |-> run.result.fp, storage |-> storage, token |-> TRUE]],
                          current |-> name], run.read, Applying \ {l})
           /\ nextId' = IF storage > nextId THEN storage ELSE nextId
           /\ login' = [login EXCEPT ![l] = [@ EXCEPT !.at = "clean", !.storage = storage]]
      /\ accepted' = IF FirstMet(run.url, run.result.server)
                     THEN accepted \cup {run.result.fp} ELSE accepted
      /\ UNCHANGED <<world, tables, asked, tokenSync, counts>>

\* The contexts of a set of storages are removed (cleanup_duplicate_storages,
\* storage_delete).
WithoutContexts(c, ids) ==
  [contexts |-> [o \in Origin |->
     IF c.contexts[o].storage \in ids THEN NoContext ELSE c.contexts[o]],
   current |-> IF c.current \in Origin /\ c.contexts[c.current].storage \in ids
               THEN NoOrigin ELSE c.current]

\* cleanup_duplicate_storages
CleanForLogin(l) ==
  LET run == login[l]
      others == {row.id : row \in RowsAt(run.url)} \ {run.storage}
  IN  /\ run.at = "clean"
      /\ storageRows' = {row \in storageRows : row.id \notin others}
      /\ waiting' = waiting \ others /\ discarded' = discarded \cup (waiting \cap others)
      /\ config' = WithoutContexts(config, others)
      /\ login' = [login EXCEPT ![l] = [@ EXCEPT !.at = "row"]]
      /\ UNCHANGED <<world, asked, tokenSync, accepted, raced, takenOver, nextId, counts>>

PutRow(id, url, fp) ==
  {row \in storageRows : row.id # id} \cup {[id |-> id, url |-> url, fp |-> fp]}

RowForLogin(l) ==
  /\ login[l].at = "row"
  /\ storageRows' = PutRow(login[l].storage, login[l].url, login[l].result.fp)
  /\ login' = [login EXCEPT ![l] = [@ EXCEPT !.at = "finish"]]
  /\ UNCHANGED <<world, file, waiting, discarded, asked, tokenSync, nextId, counts>>

\* finalize_login removes its entry after the answer about personal vaults,
\* which may fail.
FinishLogin(l) ==
  /\ login[l].at = "finish"
  /\ login' = [login EXCEPT ![l] = NoLogin] /\ asked' = [asked EXCEPT ![l] = NotAsked]
  /\ UNCHANGED <<world, file, tables, tokenSync, nextId, counts>>

-----------------------------------------------------------------------------
(* What else changes the file and the storages.                            *)

\* remote_sync reads the file, waits for a new access token, saves the file,
\* and may save the same copy once more at its end (expected_master_key_fp).
SyncReads ==
  /\ "sync" \in loginMenu /\ tokenSync.at = "idle" /\ LoadConfig.current \in Origin
  /\ LoadConfig.contexts[LoadConfig.current].token
  /\ tokenSync' = [at |-> "refresh", read |-> LoadConfig]
  /\ UNCHANGED <<world, file, tables, asked, login, nextId, counts>>

SyncSaves(last) ==
  /\ tokenSync.at # "idle"
  /\ SaveConfig(tokenSync.read, tokenSync.read, {})
  /\ tokenSync' = IF last THEN NoTokenSync ELSE [tokenSync EXCEPT !.at = "pull"]
  /\ UNCHANGED <<world, tables, accepted, asked, login, nextId, counts>>

SyncEnds ==
  /\ tokenSync.at # "idle" /\ tokenSync' = NoTokenSync
  /\ UNCHANGED <<world, file, tables, asked, login, nextId, counts>>

\* The user edits an item offline; a later push would take the change away.
EditOffline(id) ==
  /\ "edit" \in loginMenu /\ id \in {row.id : row \in storageRows} \ waiting
  /\ waiting' = waiting \cup {id}
  /\ UNCHANGED <<world, file, storageRows, discarded, asked, login, tokenSync, nextId, counts>>

\* storage_delete and storage_disconnect
RemoveStorage(id) ==
  /\ "remove" \in loginMenu /\ id \in {row.id : row \in storageRows}
  /\ storageRows' = {row \in storageRows : row.id # id} /\ waiting' = waiting \ {id}
  /\ config' = WithoutContexts(config, {id})
  /\ raced' = (raced \/ Applying # {})
  /\ UNCHANGED <<world, accepted, takenOver, discarded, asked, login, tokenSync, nextId, counts>>

\* storage_sign_out, which may erase the cache.
SignOut(id, erase) ==
  /\ "remove" \in loginMenu /\ id \in {row.id : row \in storageRows}
  /\ config' = [config EXCEPT !.contexts = [o \in Origin |->
       IF @[o].storage = id THEN [@[o] EXCEPT !.token = FALSE] ELSE @[o]]]
  /\ waiting' = IF erase THEN waiting \ {id} ELSE waiting
  /\ UNCHANGED <<world, storageRows, discarded, accepted, raced, takenOver, asked, login, tokenSync,
                 nextId, counts>>

\* The application is killed, or while it writes the file, which then cannot
\* be read (save_config writes in place).
KillDesktop(torn) ==
  /\ "crash" \in loginMenu /\ crashes < MaxCrashes /\ crashes' = crashes + 1
  /\ torn => tokenSync.at = "refresh" \/ \E l \in Login : login[l].at = "save"
  /\ config' = IF torn THEN Unreadable ELSE config
  /\ login' = [l \in Login |-> NoLogin] /\ asked' = [l \in Login |-> NotAsked]
  /\ tokenSync' = NoTokenSync
  /\ cut' = (cut \/ torn \/ Halfway # {})
  /\ UNCHANGED <<world, tables, accepted, raced, takenOver, nextId, loginMenu, loginsBegun>>

LoginStep(l) ==
  \/ \E url \in Address : PasswordLogin(l, url) \/ PasswordRegister(l, url) \/ BeginLogin(l, url)
  \/ \E matches \in BOOLEAN : Callback(l, matches)
  \/ ListenerFails(l) \/ RequestFails(l) \/ Answered(l) \/ TrustFingerprint(l)
  \/ LoadForLogin(l) \/ SaveForLogin(l) \/ CleanForLogin(l) \/ RowForLogin(l) \/ FinishLogin(l)

DesktopLoginNext ==
  \/ \E l \in Login : LoginStep(l)
  \/ \E o \in Origin, s \in LoginServer : MoveServer(o, s)
  \/ \E s \in LoginServer : NewSecrets(s)
  \/ SyncReads \/ SyncEnds \/ \E last \in BOOLEAN : SyncSaves(last)
  \/ \E id \in 1 .. nextId : EditOffline(id) \/ RemoveStorage(id)
  \/ \E id \in 1 .. nextId, erase \in BOOLEAN : SignOut(id, erase)
  \/ \E torn \in BOOLEAN : KillDesktop(torn)

DesktopLoginSpec == DesktopLoginInit /\ [][DesktopLoginNext]_loginVars

-----------------------------------------------------------------------------
(* Properties.                                                             *)

Quiet == tokenSync.at = "idle" /\ \A l \in Login : login[l].at = "idle"

\* The device holds no fingerprint that was not met first or trusted by the user,
\* after moves of a server, changes of its secrets, waiting and repeated logins
\* and a torn file (fingerprint_change_for_context, trust_fingerprint).
FingerprintsAccepted ==
  /\ \A o \in Origin : config.contexts[o].fp \in accepted \cup {0}
  /\ \A row \in storageRows : row.fp \in accepted

\* A login throws no change away that waits for its push
\* (cleanup_duplicate_storages), unless an address of the device was taken over
\* by another server of it.
EditsSurviveLogins == takenOver \/ discarded = {}

\* Two contexts never share a storage, and when nothing runs a context with a
\* session has the row of its storage (apply_login_context,
\* migrate_context_for_server_id).
ContextsHaveStorage ==
  /\ \A o, q \in Origin :
       o # q /\ config.contexts[o].storage # 0
         => config.contexts[o].storage # config.contexts[q].storage
  /\ Quiet => \A o \in Origin :
       config.contexts[o].token => config.contexts[o].storage \in {row.id : row \in storageRows}

\* What logins leave on the device, as long as no two commands have changed it at
\* a time; what a login that was killed halfway leaves is right for its
\* fingerprints only.
LoginsKeepDevice ==
  raced \/ (FingerprintsAccepted /\ (cut \/ (EditsSurviveLogins /\ ContextsHaveStorage)))

\* The file, the storages and the queues are of their type, and a login leaves no
\* fingerprint that nobody accepted, no context without its storage and no change
\* thrown away (apply_login_context, cleanup_duplicate_storages), as long as no
\* two commands overlapped.
DeviceLoginsKept == DesktopLoginTypeOK /\ LoginsKeepDevice
=============================================================================
