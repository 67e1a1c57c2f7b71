---------------------------- MODULE ServiceTokens ----------------------------
(***************************************************************************)
(* Service accounts: the command line that provisions, creates and revokes *)
(* their tokens, and the requests of the services that use them.  A        *)
(* command is a process of its own that can be killed anywhere; it reads a *)
(* row, and its UPDATE writes every column of the row back.                *)
(*                                                                         *)
(* A token is a number in the order of making.  Accounts have the name     *)
(* "app", which is provisioned, or "adhoc", which an operator creates.     *)
(***************************************************************************)
EXTENDS Naturals, FiniteSets

CONSTANTS
  Cli,             \* command line processes
  Service,         \* concurrent requests of services
  MaxServiceAccounts, MaxCommands, MaxServiceCalls, MaxKills,
  NoAccount

ASSUME ServiceTokensAssumption ==
  /\ {MaxServiceAccounts, MaxCommands, MaxServiceCalls, MaxKills} \subseteq Nat
  /\ MaxServiceAccounts >= MaxCommands

VARIABLES
  accounts,   \* table service_accounts
  system,     \* which of the system user, the shared vault and its member exist
  tokenFile,  \* the token in the file of --write-token-file, 0 for none
  staged,     \* tokens in temporary files next to it
  handed,     \* tokens a service may have: from the file, or printed
  made,       \* how many tokens were generated
  cli,        \* per process, the command it runs
  svc,        \* per request, its progress
  openSessions, \* table service_account_sessions: accounts with one
  commands, serviceCalls, kills

tokenTables == <<accounts, system, openSessions>>
files == <<tokenFile, staged, handed>>
tokenBounds == <<commands, serviceCalls, kills>>
tokenVars == <<tokenTables, files, made, cli, svc, tokenBounds>>

AccountId == 1 .. MaxServiceAccounts
ServiceAccount == [name : {"app", "adhoc"}, token : Nat, scopes : 1 .. 2, used : Nat,
                   revoked : BOOLEAN, expired : BOOLEAN]

\* No account is no row.
ASSUME NoAccountAssumption == NoAccount \notin ServiceAccount

NoCommand == [pc |-> "idle", cmd |-> "none", rotate |-> FALSE, scopes |-> 1,
              id |-> 0, row |-> NoAccount, token |-> 0]
NoService == [pc |-> "idle", by |-> "token", key |-> 0, id |-> 0, row |-> NoAccount,
              dead |-> FALSE, answer |-> "none"]

\* A temporary file that was renamed is no longer there.
ServiceTokensTypeOK ==
  /\ accounts \in [AccountId -> ServiceAccount \cup {NoAccount}]
  /\ system \subseteq {"user", "vault", "member"}
  /\ openSessions \subseteq AccountId
  /\ staged \cup handed \subseteq 1 .. made
  /\ tokenFile \in (0 .. made) \ staged
  /\ \A p \in Cli : cli[p].row \in ServiceAccount \cup {NoAccount}
  /\ \A s \in Service : svc[s].answer \in {"none", "ok", "refused"}

ServiceTokensInit ==
  /\ accounts = [i \in AccountId |-> NoAccount]
  /\ system = {}
  /\ tokenFile = 0 /\ staged = {} /\ handed = {} /\ made = 0
  /\ cli = [p \in Cli |-> NoCommand]
  /\ svc = [s \in Service |-> NoService]
  /\ openSessions = {}
  /\ commands = 0 /\ serviceCalls = 0 /\ kills = 0

-----------------------------------------------------------------------------
(* ServiceAccountRepo *)

Rows == {i \in AccountId : accounts[i] # NoAccount}

\* get_active_by_owner_and_name
Active(i) == accounts[i].name = "app" /\ ~accounts[i].revoked /\ ~accounts[i].expired

\* list_by_prefix, then the row with the hash of the token
ByToken(t) == {i \in Rows : accounts[i].token = t}

CreateAccount(row) ==
  LET i == CHOOSE j \in AccountId \ Rows : \A k \in AccountId \ Rows : j <= k
  IN accounts' = [accounts EXCEPT ![i] = row]

\* update: every column, from the row that was read some time ago.
UpdateAccount(i, row) == accounts' = [accounts EXCEPT ![i] = row]

UpdateUsage(i) == accounts' = [accounts EXCEPT ![i].used = @ + 1]

-----------------------------------------------------------------------------
(* The command line *)

CliAt(p, pc) == cli[p].pc = pc
CliStep(p, pc) == cli' = [cli EXCEPT ![p].pc = pc]
CliEnd(p) == cli' = [cli EXCEPT ![p] = NoCommand]

Run(p, cmd, rotate, scopes) ==
  /\ CliAt(p, "idle")
  /\ commands < MaxCommands
  /\ commands' = commands + 1
  /\ rotate => cmd = "ensure_token"
  /\ scopes = 1 \/ cmd = "ensure_token"
  /\ cli' = [cli EXCEPT ![p] = [NoCommand EXCEPT !.cmd = cmd, !.rotate = rotate,
               !.scopes = scopes,
               !.pc = CASE cmd \in {"ensure_token", "ensure_vault"} -> "user"
                        [] cmd = "create" -> "create"
                        [] cmd = "revoke" -> "find"]]
  /\ UNCHANGED <<tokenTables, files, made, svc, serviceCalls, kills>>

\* ensure_system_user: SELECT, and an INSERT when there is none.
EnsureSystemUser(p) ==
  /\ CliAt(p, "user")
  /\ system' = system \cup {"user"}
  /\ CliStep(p, "vault")
  /\ UNCHANGED <<accounts, openSessions, files, made, svc, tokenBounds>>

\* build_token_spec needs the vault; ensure_shared_vault creates it.
EnsureVault(p) ==
  /\ CliAt(p, "vault")
  /\ IF cli[p].cmd = "ensure_vault"
     THEN system' = system \cup {"vault"} /\ CliStep(p, "member")
     ELSE /\ IF "vault" \in system THEN CliStep(p, "lookup") ELSE CliEnd(p)
          /\ UNCHANGED system
  /\ UNCHANGED <<accounts, openSessions, files, made, svc, tokenBounds>>

\* ensure_vault_member, for a vault that was there as well.
EnsureVaultMember(p) == system \cup {"member"}

JoinVault(p) ==
  /\ CliAt(p, "member")
  /\ system' = EnsureVaultMember(p)
  /\ CliEnd(p)
  /\ UNCHANGED <<accounts, openSessions, files, made, svc, tokenBounds>>

Found(p) == {i \in Rows : Active(i)}

\* ensure_token_command: the newest active account of the name.
LookupAccount(p) ==
  LET found == Found(p) IN
  /\ CliAt(p, "lookup")
  /\ \/ /\ found = {}
        /\ CliStep(p, "stage")
     \/ \E i \in found :
          /\ \A j \in found : j <= i
          /\ cli' = [cli EXCEPT ![p].id = i, ![p].row = accounts[i],
               ![p].pc = IF accounts[i].scopes # cli[p].scopes THEN "metadata"
                         ELSE IF cli[p].rotate THEN "stage" ELSE "end"]
  /\ UNCHANGED <<tokenTables, files, made, svc, tokenBounds>>

UpdateMetadata(p) ==
  LET row == [cli[p].row EXCEPT !.scopes = cli[p].scopes] IN
  /\ CliAt(p, "metadata")
  /\ UpdateAccount(cli[p].id, row)
  /\ cli' = [cli EXCEPT ![p].row = row, ![p].pc = IF cli[p].rotate THEN "stage" ELSE "end"]
  /\ UNCHANGED <<system, openSessions, files, made, svc, tokenBounds>>

\* Faulty: the token is written when all is done.
StageInMemory(p) == staged

StagedFiles(p) == staged \cup {made + 1}

\* generate_service_account_token and stage_secret_file
StageSecret(p) ==
  /\ CliAt(p, "stage")
  /\ made' = made + 1
  /\ staged' = StagedFiles(p)
  /\ cli' = [cli EXCEPT ![p].token = made + 1, ![p].pc = "store"]
  /\ UNCHANGED <<tokenTables, tokenFile, handed, svc, tokenBounds>>

NewAccount(name, scopes, token) ==
  [name |-> name, token |-> token, scopes |-> scopes, used |-> 0,
   revoked |-> FALSE, expired |-> FALSE]

\* Faulty: the new hash is not assigned.
RotatedScopes(p) == [cli[p].row EXCEPT !.scopes = cli[p].scopes, !.revoked = FALSE]

RotatedRow(p) == [cli[p].row EXCEPT !.token = cli[p].token, !.scopes = cli[p].scopes,
                                    !.revoked = FALSE]

\* The rotated row or the new one; a failing statement discards the file.
StoreToken(p) ==
  /\ CliAt(p, "store")
  /\ \/ /\ IF cli[p].row = NoAccount
           THEN CreateAccount(NewAccount("app", cli[p].scopes, cli[p].token))
           ELSE UpdateAccount(cli[p].id, RotatedRow(p))
        /\ CliStep(p, "finalize")
        /\ UNCHANGED <<staged, kills>>
     \/ /\ kills < MaxKills
        /\ kills' = kills + 1
        /\ staged' = staged \ {cli[p].token}
        /\ CliEnd(p)
        /\ UNCHANGED accounts
  /\ UNCHANGED <<system, openSessions, tokenFile, handed, made, svc, commands, serviceCalls>>

\* finalize: rename the temporary file.
Finalize(p) ==
  /\ CliAt(p, "finalize")
  /\ tokenFile' = cli[p].token
  /\ staged' = staged \ {cli[p].token}
  /\ handed' = handed \cup {cli[p].token}
  /\ CliStep(p, "end")
  /\ UNCHANGED <<tokenTables, made, svc, tokenBounds>>

\* The JSON that says "existing", "updated", "rotated" or "created".
Report(p) ==
  /\ CliAt(p, "end")
  /\ CliEnd(p)
  /\ UNCHANGED <<tokenTables, files, made, svc, tokenBounds>>

\* tokens_create: the row, then the token on stdout.
TokensCreate(p) ==
  /\ CliAt(p, "create")
  /\ IF "vault" \in system
     THEN /\ made' = made + 1
          /\ CreateAccount(NewAccount("adhoc", cli[p].scopes, made + 1))
          /\ cli' = [cli EXCEPT ![p].token = made + 1, ![p].pc = "print"]
     ELSE CliEnd(p) /\ UNCHANGED <<accounts, made>>
  /\ UNCHANGED <<system, openSessions, files, svc, tokenBounds>>

PrintToken(p) ==
  /\ CliAt(p, "print")
  /\ handed' = handed \cup {cli[p].token}
  /\ CliEnd(p)
  /\ UNCHANGED <<tokenTables, tokenFile, staged, made, svc, tokenBounds>>

\* tokens_revoke: read the row, write it back with revoked_at.
FindAccount(p) ==
  /\ CliAt(p, "find")
  /\ \/ Rows = {} /\ CliEnd(p)
     \/ \E i \in Rows :
          cli' = [cli EXCEPT ![p].id = i, ![p].row = accounts[i], ![p].pc = "revoke"]
  /\ UNCHANGED <<tokenTables, files, made, svc, tokenBounds>>

RevokeAccount(p) ==
  /\ CliAt(p, "revoke")
  /\ UpdateAccount(cli[p].id, [cli[p].row EXCEPT !.revoked = TRUE])
  /\ CliEnd(p)
  /\ UNCHANGED <<system, openSessions, files, made, svc, tokenBounds>>

\* The process is killed: the temporary file stays.
Kill(p) ==
  /\ ~CliAt(p, "idle")
  /\ kills < MaxKills
  /\ kills' = kills + 1
  /\ CliEnd(p)
  /\ UNCHANGED <<tokenTables, files, made, svc, commands, serviceCalls>>

-----------------------------------------------------------------------------
(* The services *)

Usable(row) == ~row.revoked /\ ~row.expired

\* A request presents a token, to log in or directly, or the access token of
\* an earlier login.  dead: it could not be answered when it began.
Present(s, by, key) ==
  /\ svc[s].pc = "idle"
  /\ serviceCalls < MaxServiceCalls
  /\ serviceCalls' = serviceCalls + 1
  /\ key \in (IF by = "session" THEN openSessions ELSE handed)
  /\ svc' = [svc EXCEPT ![s] = [NoService EXCEPT !.by = by, !.key = key, !.pc = "row",
       !.dead = IF by = "session" THEN ~Usable(accounts[key])
                ELSE \A i \in ByToken(key) : ~Usable(accounts[i])]]
  /\ UNCHANGED <<tokenTables, files, made, cli, commands, kills>>

\* list_by_prefix and the comparison of hashes, or get_by_access_token_hash
\* and get_by_id.
ReadAccount(s) ==
  LET found == IF svc[s].by = "session" THEN {svc[s].key} ELSE ByToken(svc[s].key) IN
  /\ svc[s].pc = "row"
  /\ \/ /\ found = {}
        /\ svc' = [svc EXCEPT ![s].pc = "idle", ![s].answer = "refused"]
     \/ \E i \in found :
          svc' = [svc EXCEPT ![s].id = i, ![s].row = accounts[i], ![s].pc = "judge"]
  /\ UNCHANGED <<tokenTables, files, made, cli, tokenBounds>>

\* revoked_at of the row that was read; expires_at against the clock.
Accepted(s) == ~svc[s].row.revoked /\ ~accounts[svc[s].id].expired

\* A login stores a session; every use of the token is counted.
Judge(s) ==
  LET i == svc[s].id IN
  /\ svc[s].pc = "judge"
  /\ svc' = [svc EXCEPT ![s].pc = "idle",
                        ![s].answer = IF Accepted(s) THEN "ok" ELSE "refused"]
  /\ openSessions' = IF Accepted(s) /\ svc[s].by = "login" THEN openSessions \cup {i}
                     ELSE openSessions
  /\ IF Accepted(s) /\ svc[s].by # "session" THEN UpdateUsage(i) ELSE UNCHANGED accounts
  /\ UNCHANGED <<system, files, made, cli, tokenBounds>>

\* expires_at passes, of the accounts with --ttl.  A copy of the row in a
\* command would have the same expires_at, so commands are not under way.
ExpireAccount(i) ==
  /\ i \in Rows /\ ~accounts[i].expired /\ accounts[i].scopes = 2
  /\ \A p \in Cli : CliAt(p, "idle")
  /\ accounts' = [accounts EXCEPT ![i].expired = TRUE]
  /\ UNCHANGED <<system, openSessions, files, made, cli, svc, tokenBounds>>

CliNext(p) ==
  \/ \E cmd \in {"ensure_token", "ensure_vault", "create", "revoke"},
        rotate \in BOOLEAN, scopes \in 1 .. 2 : Run(p, cmd, rotate, scopes)
  \/ EnsureSystemUser(p) \/ EnsureVault(p) \/ JoinVault(p)
  \/ LookupAccount(p) \/ UpdateMetadata(p) \/ StageSecret(p) \/ StoreToken(p)
  \/ Finalize(p) \/ Report(p)
  \/ TokensCreate(p) \/ PrintToken(p) \/ FindAccount(p) \/ RevokeAccount(p)
  \/ Kill(p)

ServiceNext(s) ==
  \/ \E by \in {"token", "login", "session"}, key \in handed \cup openSessions : Present(s, by, key)
  \/ ReadAccount(s) \/ Judge(s)

ServiceTokensNext ==
  \/ \E p \in Cli : CliNext(p)
  \/ \E s \in Service : ServiceNext(s)
  \/ \E i \in AccountId : ExpireAccount(i)

ServiceTokensSpec == ServiceTokensInit /\ [][ServiceTokensNext]_tokenVars

-----------------------------------------------------------------------------
\* The token of a provisioned account that is in force is never lost: it is in
\* the token file or in a temporary file next to it, wherever the command was
\* killed (ensure_token_command stages the file before it stores the hash and
\* renames it afterwards).
TokenReachable ==
  \A i \in Rows : Active(i) => accounts[i].token \in staged \cup {tokenFile}

\* However often ensure-token runs and is killed, there is one account of the
\* name in force.
ProvisionedOnce == Cardinality({i \in Rows : Active(i)}) <= 1

\* A command that says it has rotated or created a token has left the token
\* in force in the file.
RotationDelivered ==
  \A p \in Cli : CliAt(p, "finalize") /\ cli'[p].pc = "end" =>
    \E i \in Rows : Active(i) /\ accounts[i].token = tokenFile'

\* A token that was revoked, rotated away or expired, and the sessions of a
\* revoked account, get no answer in requests that begin afterwards: reading
\* the row again never finds it in force.
DeadTokenRefused ==
  \A s \in Service : svc[s].dead => svc[s].answer # "ok"

\* ensure-vault repairs what a killed run has left: when it ends, user, vault
\* and membership are there.
EnsureVaultRepairs ==
  \A p \in Cli : CliAt(p, "member") /\ kills' = kills /\ cli'[p].pc = "idle"
    => system' = {"user", "vault", "member"}

\* A command that ends well has done what it says, also when an earlier one was
\* killed half way: the token in the file is in force, user, vault and member
\* are there.
CommandsDeliver == [][RotationDelivered /\ EnsureVaultRepairs]_tokenVars

\* There is one token in force for the name, it can be found, and no other is
\* answered: provisioning, kills, rotations, revocations and requests in any
\* order.
OneLiveToken == ProvisionedOnce /\ TokenReachable /\ DeadTokenRefused
=============================================================================
