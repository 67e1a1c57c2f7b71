----------------------------- MODULE AdminProofs -----------------------------
(***************************************************************************)
(* What holds of the administration of a server: of vaults and groups for  *)
(* every number of callers, users and slugs and wherever the server stops, *)
(* and of the tokens of service accounts for every number of requests,     *)
(* accounts, kills and commands, when the commands that provision them run *)
(* one after the other.                                                    *)
(***************************************************************************)
EXTENDS VaultAdmin, ServiceTokens, FiniteSetTheorems, TLAPS

(* Tokens of service accounts.                                             *)

\* The operator runs one command at a time.
OneCommandAtATime == \A p, q \in Cli : p = q

BeforeInsert == {"user", "vault", "lookup", "metadata", "stage", "store", "create"}

Command == [pc : BeforeInsert \cup {"idle", "member", "finalize", "end", "print", "find", "revoke"},
            cmd : {"none", "ensure_token", "ensure_vault", "create", "revoke"},
            rotate : BOOLEAN, scopes : 1 .. 2, id : Nat,
            row : ServiceAccount \cup {NoAccount}, token : Nat]
Request == [pc : {"idle", "row", "judge"}, by : {"token", "login", "session"}, key : Nat,
            id : Nat, row : ServiceAccount \cup {NoAccount}, dead : BOOLEAN,
            answer : {"none", "ok", "refused"}]

TokensTyped ==
  /\ accounts \in [AccountId -> ServiceAccount \cup {NoAccount}]
  /\ system \subseteq {"user", "vault", "member"}
  /\ openSessions \subseteq Rows
  /\ made \in Nat /\ commands \in Nat /\ commands <= MaxCommands
  /\ staged \cup handed \subseteq 1 .. made
  /\ tokenFile \in (0 .. made) \ staged
  /\ cli \in [Cli -> Command]
  /\ svc \in [Service -> Request]

\* Accounts are inserted one after the other, at most one by every command, so
\* there is room for the next.
RowsInOrder ==
  \E n \in Nat : /\ Rows = 1 .. n /\ n <= commands
                 /\ \A p \in Cli : cli[p].pc \in BeforeInsert => n < commands

\* The copy of a row in a command differs from the row in the count of uses only.
CopyOf(row, i) ==
  /\ i \in Rows /\ row \in ServiceAccount
  /\ row.name = accounts[i].name /\ row.token = accounts[i].token
  /\ row.scopes = accounts[i].scopes
  /\ row.revoked = accounts[i].revoked /\ row.expired = accounts[i].expired

\* What a command knows: the account it has read, or that there was none, and
\* that the token it has staged is nobody's until it is stored.
CommandSound(p) ==
  /\ cli[p].pc = "vault" => "user" \in system
  /\ cli[p].pc = "member" => {"user", "vault"} \subseteq system
  /\ cli[p].pc \in {"user", "vault", "lookup"} => cli[p].row = NoAccount
  /\ cli[p].pc \in {"metadata", "revoke"} => CopyOf(cli[p].row, cli[p].id)
  /\ cli[p].pc = "metadata" => Active(cli[p].id)
  /\ cli[p].pc \in {"stage", "store"} =>
       \/ cli[p].row = NoAccount /\ \A i \in Rows : ~Active(i)
       \/ CopyOf(cli[p].row, cli[p].id) /\ Active(cli[p].id)
  /\ cli[p].pc = "store" => /\ cli[p].token \in staged \ handed
                            /\ \A i \in Rows : accounts[i].token # cli[p].token
  /\ cli[p].pc = "finalize" => /\ cli[p].token \in staged
                               /\ \E i \in Rows : Active(i) /\ accounts[i].token = cli[p].token
  /\ cli[p].pc = "print" => cli[p].token \in 1 .. made

\* What a request knows: a token that was dead when it was presented has no
\* account in force now either.
RequestSound(s) ==
  /\ svc[s].pc # "idle" =>
       IF svc[s].by = "session"
       THEN svc[s].key \in Rows /\ (svc[s].dead => ~Usable(accounts[svc[s].key]))
       ELSE svc[s].key \in handed
            /\ (svc[s].dead => \A i \in ByToken(svc[s].key) : ~Usable(accounts[i]))
  /\ svc[s].pc = "judge" =>
       /\ svc[s].id \in Rows
       /\ svc[s].dead => svc[s].row.revoked \/ accounts[svc[s].id].expired
  /\ svc[s].dead => svc[s].answer # "ok"

TokensNumbered == \A i \in Rows : accounts[i].token \in 1 .. made

OneActive == \A i, j \in Rows : Active(i) /\ Active(j) => i = j

\* The inductive invariant.
TokensInv ==
  /\ TokensTyped
  /\ RowsInOrder
  /\ \A p \in Cli : CommandSound(p)
  /\ \A s \in Service : RequestSound(s)
  /\ TokensNumbered
  /\ OneActive
  /\ TokenReachable

-----------------------------------------------------------------------------
LEMMA ConstantFacts ==
  /\ MaxServiceAccounts \in Nat /\ MaxCommands \in Nat /\ MaxServiceAccounts >= MaxCommands
  /\ NoAccount \notin ServiceAccount
BY ServiceTokensAssumption, NoAccountAssumption

LEMMA AbsentTyped == NoCommand \in Command /\ NoService \in Request
<1>1. NoCommand \in Command
  BY DEF NoCommand, Command, BeforeInsert
<1>2. NoService \in Request
  BY DEF NoService, Request
<1> QED
  BY <1>1, <1>2

\* A row of the table is an account.
LEMMA RowTyped ==
  ASSUME TokensTyped, NEW i \in Rows
  PROVE  i \in AccountId /\ accounts[i] \in ServiceAccount
BY DEF TokensTyped, Rows

\* What a step on the table leaves of every account that was there: it never
\* comes back into force, never lives longer, and only a token that nobody
\* holds gets an account.
NothingRevived ==
  /\ Rows \subseteq Rows'
  /\ \A i \in Rows : /\ ~Usable(accounts[i]) => ~Usable(accounts'[i])
                     /\ accounts[i].expired => accounts'[i].expired
  /\ \A t \in handed : ByToken(t)' \subseteq ByToken(t)

\* Such a step keeps what the requests know.
LEMMA RequestsStay ==
  ASSUME TokensInv, NothingRevived, handed \subseteq handed', NEW s \in Service, svc'[s] = svc[s]
  PROVE  RequestSound(s)'
<1>1. RequestSound(s)
  BY DEF TokensInv
<1>2. ASSUME svc[s].pc # "idle", svc[s].by = "session"
      PROVE  svc[s].key \in Rows' /\ (svc[s].dead => ~Usable(accounts'[svc[s].key]))
  BY <1>1, <1>2 DEF RequestSound, NothingRevived
<1>3. ASSUME svc[s].pc # "idle", svc[s].by # "session"
      PROVE  /\ svc[s].key \in handed'
             /\ svc[s].dead => \A i \in ByToken(svc[s].key)' : ~Usable(accounts'[i])
  <2>1. ByToken(svc[s].key)' \subseteq ByToken(svc[s].key) /\ ByToken(svc[s].key) \subseteq Rows
    BY <1>1, <1>3 DEF RequestSound, NothingRevived, ByToken
  <2> QED
    BY <1>1, <1>3, <2>1 DEF RequestSound, NothingRevived
<1>4. ASSUME svc[s].pc = "judge"
      PROVE  /\ svc[s].id \in Rows'
             /\ svc[s].dead => svc[s].row.revoked \/ accounts'[svc[s].id].expired
  BY <1>1, <1>4 DEF RequestSound, NothingRevived
<1> QED
  BY <1>1, <1>2, <1>3, <1>4 DEF RequestSound, ByToken, Rows

\* An unchanged table.
LEMMA TableStays ==
  ASSUME UNCHANGED accounts
  PROVE  NothingRevived
BY DEF NothingRevived, Rows, ByToken

\* UPDATE of a row: the row keeps its expires_at, stays revoked if it was and
\* gets its own token or one that nobody holds.
LEMMA RowUpdated ==
  ASSUME TokensInv, NEW i \in Rows, NEW row \in ServiceAccount, UpdateAccount(i, row),
         row.expired = accounts[i].expired, accounts[i].revoked => row.revoked,
         row.token = accounts[i].token \/ row.token \notin handed
  PROVE  /\ accounts' \in [AccountId -> ServiceAccount \cup {NoAccount}]
         /\ accounts'[i] = row /\ Rows' = Rows
         /\ \A j \in Rows \ {i} : accounts'[j] = accounts[j]
         /\ NothingRevived
<1>1. /\ accounts \in [AccountId -> ServiceAccount \cup {NoAccount}]
      /\ i \in AccountId /\ accounts[i] \in ServiceAccount
  BY RowTyped DEF TokensInv, TokensTyped
<1>2. /\ accounts' \in [AccountId -> ServiceAccount \cup {NoAccount}]
      /\ accounts'[i] = row
      /\ \A j \in AccountId \ {i} : accounts'[j] = accounts[j]
  BY <1>1 DEF UpdateAccount
<1>3. Rows' = Rows
  BY <1>1, <1>2, ConstantFacts DEF Rows
<1>4. \A j \in Rows : /\ ~Usable(accounts[j]) => ~Usable(accounts'[j])
                      /\ accounts[j].expired => accounts'[j].expired
  BY <1>2 DEF Usable, Rows
<1>5. \A t \in handed : ByToken(t)' \subseteq ByToken(t)
  BY <1>2, <1>3 DEF ByToken, Rows
<1> QED
  BY <1>2, <1>3, <1>4, <1>5 DEF NothingRevived, Rows

\* INSERT: the rows are numbered in order, and there is room for one more.
LEMMA RowInserted ==
  ASSUME TokensInv, NEW p \in Cli, cli[p].pc \in BeforeInsert,
         NEW row \in ServiceAccount, row.token \notin handed, CreateAccount(row)
  PROVE  \E n \in Nat :
           /\ Rows = 1 .. n /\ n + 1 <= commands
           /\ Rows' = 1 .. (n + 1) /\ accounts'[n + 1] = row
           /\ accounts' \in [AccountId -> ServiceAccount \cup {NoAccount}]
           /\ \A j \in Rows : accounts'[j] = accounts[j]
           /\ NothingRevived
<1>1. PICK n \in Nat : Rows = 1 .. n /\ n < commands
  BY DEF TokensInv, RowsInOrder
<1>2. /\ commands \in Nat /\ commands <= MaxCommands
      /\ accounts \in [AccountId -> ServiceAccount \cup {NoAccount}]
  BY DEF TokensInv, TokensTyped
<1> DEFINE i == CHOOSE j \in AccountId \ Rows : \A k \in AccountId \ Rows : j <= k
<1>3. n + 1 \in AccountId \ Rows /\ \A k \in AccountId \ Rows : n + 1 <= k
  BY <1>1, <1>2, ConstantFacts DEF AccountId
<1>4. i = n + 1
  <2>1. i \in AccountId \ Rows /\ \A k \in AccountId \ Rows : i <= k
    BY <1>3
  <2> HIDE DEF i
  <2>2. i \in Int /\ i <= n + 1 /\ n + 1 <= i
    BY <1>3, <2>1 DEF AccountId
  <2> QED
    BY <1>1, <2>2
<1>5. accounts' = [accounts EXCEPT ![n + 1] = row]
  BY <1>4 DEF CreateAccount
<1>6. /\ accounts' \in [AccountId -> ServiceAccount \cup {NoAccount}]
      /\ accounts'[n + 1] = row
      /\ \A j \in AccountId \ {n + 1} : accounts'[j] = accounts[j]
  BY <1>2, <1>3, <1>5
<1>7. Rows' = Rows \cup {n + 1}
  BY <1>3, <1>6, ConstantFacts DEF Rows
<1>8. \A j \in Rows : accounts'[j] = accounts[j]
  BY <1>3, <1>6 DEF Rows
<1>9. NothingRevived
  BY <1>7, <1>8, <1>6 DEF NothingRevived, ByToken
<1>10. Rows' = 1 .. (n + 1) /\ n + 1 <= commands
  BY <1>1, <1>2, <1>7
<1> QED
  BY <1>1, <1>6, <1>8, <1>9, <1>10

-----------------------------------------------------------------------------
(* Commands. *)

LEMMA CliMoved ==
  ASSUME cli \in [Cli -> Command], NEW p \in Cli, NEW pc,
         pc \in BeforeInsert \cup {"member", "finalize", "end"}, CliStep(p, pc)
  PROVE  /\ cli' \in [Cli -> Command] /\ cli'[p].pc = pc
         /\ cli'[p].row = cli[p].row /\ cli'[p].id = cli[p].id /\ cli'[p].token = cli[p].token
<1>1. cli[p] \in Command
  OBVIOUS
<1> DEFINE k == [cli[p] EXCEPT !.pc = pc]
<1>2. /\ k \in Command /\ k.pc = pc
      /\ k.row = cli[p].row /\ k.id = cli[p].id /\ k.token = cli[p].token
  BY <1>1 DEF Command
<1>3. cli' = [cli EXCEPT ![p] = k]
  BY DEF CliStep
<1> QED
  BY <1>2, <1>3

\* A command that has read the account i.
LEMMA CliRead ==
  ASSUME cli \in [Cli -> Command], NEW p \in Cli, NEW i \in Nat, NEW row \in ServiceAccount, NEW pc,
         pc \in BeforeInsert \cup {"end", "revoke"},
         cli' = [cli EXCEPT ![p].id = i, ![p].row = row, ![p].pc = pc]
  PROVE  /\ cli' \in [Cli -> Command] /\ cli'[p].pc = pc
         /\ cli'[p].row = row /\ cli'[p].id = i
<1>1. cli[p] \in Command
  OBVIOUS
<1> DEFINE k == [cli[p] EXCEPT !.id = i, !.row = row, !.pc = pc]
<1>2. k \in Command /\ k.pc = pc /\ k.row = row /\ k.id = i
  BY <1>1 DEF Command
<1>3. cli' = [cli EXCEPT ![p] = k]
  OBVIOUS
<1> QED
  BY <1>2, <1>3

LEMMA CliEnded ==
  ASSUME cli \in [Cli -> Command], NEW p \in Cli, CliEnd(p)
  PROVE  cli' \in [Cli -> Command] /\ cli'[p].pc = "idle"
<1>1. cli' \in [Cli -> Command] /\ cli'[p] = NoCommand
  BY AbsentTyped DEF CliEnd
<1> QED
  BY <1>1 DEF NoCommand

\* A step of the one command that changes neither accounts nor files.
LEMMA OnlyCommandMoves ==
  ASSUME OneCommandAtATime, TokensInv, NEW p \in Cli, cli' \in [Cli -> Command],
         UNCHANGED <<accounts, openSessions, files, made, svc, commands>>,
         system' \subseteq {"user", "vault", "member"},
         cli'[p].pc \in BeforeInsert => cli[p].pc \in BeforeInsert,
         CommandSound(p)'
  PROVE  TokensInv'
<1> USE DEF files
<1>0. Rows' = Rows
  BY DEF Rows
<1>1. TokensTyped'
  BY <1>0 DEF TokensInv, TokensTyped
<1>2. RowsInOrder'
  BY <1>0 DEF TokensInv, RowsInOrder, OneCommandAtATime
<1>3. \A q \in Cli : CommandSound(q)'
  BY DEF OneCommandAtATime
<1>4. \A s \in Service : RequestSound(s)'
  BY TableStays, RequestsStay
<1>5. TokensNumbered' /\ OneActive' /\ TokenReachable'
  BY <1>0 DEF TokensInv, TokensNumbered, OneActive, TokenReachable, Active
<1> QED
  BY <1>1, <1>2, <1>3, <1>4, <1>5 DEF TokensInv

\* A step of the one command that writes the account it has read a copy of,
\* with its own token or the one it has staged.
LEMMA CommandWrites ==
  ASSUME OneCommandAtATime, TokensInv, NEW p \in Cli, cli' \in [Cli -> Command],
         CopyOf(cli[p].row, cli[p].id), NEW row \in ServiceAccount, UpdateAccount(cli[p].id, row),
         row.name = cli[p].row.name, row.expired = cli[p].row.expired,
         cli[p].row.revoked => row.revoked,
         \/ row.token = cli[p].row.token
         \/ row.token \in staged \ handed,
         UNCHANGED <<system, openSessions, tokenFile, staged, handed, made, svc, commands>>,
         cli'[p].pc \in BeforeInsert => cli[p].pc \in BeforeInsert,
         CommandSound(p)'
  PROVE  TokensInv'
<1> DEFINE i == cli[p].id
<1>0. /\ i \in Rows /\ row.name = accounts[i].name /\ row.expired = accounts[i].expired
      /\ accounts[i].revoked => row.revoked
      /\ row.token = accounts[i].token \/ row.token \in staged \ handed
  BY DEF CopyOf
<1>1. /\ accounts' \in [AccountId -> ServiceAccount \cup {NoAccount}]
      /\ accounts'[i] = row /\ Rows' = Rows
      /\ \A j \in Rows \ {i} : accounts'[j] = accounts[j]
      /\ NothingRevived
  BY <1>0, RowUpdated
<1>2. TokensTyped'
  BY <1>1 DEF TokensInv, TokensTyped
<1>3. RowsInOrder'
  BY <1>1 DEF TokensInv, RowsInOrder, OneCommandAtATime
<1>4. \A q \in Cli : CommandSound(q)'
  BY DEF OneCommandAtATime
<1>5. \A s \in Service : RequestSound(s)'
  BY <1>1, RequestsStay
<1>6. \A j \in Rows : Active(j)' => Active(j)
  BY <1>0, <1>1 DEF Active
<1>7. TokensNumbered'
  BY <1>0, <1>1 DEF TokensInv, TokensNumbered, TokensTyped
<1>8. OneActive'
  BY <1>1, <1>6 DEF TokensInv, OneActive
<1>9. TokenReachable'
  BY <1>0, <1>1, <1>6 DEF TokensInv, TokenReachable
<1> QED
  BY <1>2, <1>3, <1>4, <1>5, <1>7, <1>8, <1>9 DEF TokensInv

\* A step of the one command that inserts an account: of the provisioned name
\* only when there is none in force, and then with the token it has staged.
LEMMA CommandInserts ==
  ASSUME OneCommandAtATime, TokensInv, NEW p \in Cli, cli' \in [Cli -> Command],
         NEW row \in ServiceAccount, CreateAccount(row), cli[p].pc \in BeforeInsert,
         cli'[p].pc \notin BeforeInsert,
         row.token \notin handed, row.token \in 1 .. made',
         row.name = "app" => row.token \in staged /\ \A j \in Rows : ~Active(j),
         made' \in Nat, made <= made',
         UNCHANGED <<system, openSessions, tokenFile, staged, handed, svc, commands>>,
         CommandSound(p)'
  PROVE  TokensInv'
<1>1. PICK n \in Nat :
        /\ Rows = 1 .. n /\ n + 1 <= commands
        /\ Rows' = 1 .. (n + 1) /\ accounts'[n + 1] = row
        /\ accounts' \in [AccountId -> ServiceAccount \cup {NoAccount}]
        /\ \A j \in Rows : accounts'[j] = accounts[j]
        /\ NothingRevived
  BY RowInserted
<1>2. Rows' = Rows \cup {n + 1} /\ n + 1 \notin Rows
  BY <1>1
<1>3. TokensTyped'
  <2>1. made \in Nat /\ 1 .. made \subseteq 1 .. made' /\ 0 .. made \subseteq 0 .. made'
    BY DEF TokensInv, TokensTyped
  <2> QED
    BY <1>1, <1>2, <2>1 DEF TokensInv, TokensTyped
<1>4. RowsInOrder'
  <2>1. \A q \in Cli : cli'[q].pc \notin BeforeInsert
    BY DEF OneCommandAtATime
  <2> QED
    BY <1>1, <2>1 DEF RowsInOrder
<1>5. \A q \in Cli : CommandSound(q)'
  BY DEF OneCommandAtATime
<1>6. \A s \in Service : RequestSound(s)'
  BY <1>1, RequestsStay
<1>7. TokensNumbered'
  BY <1>1, <1>2 DEF TokensInv, TokensNumbered, TokensTyped
<1>8. \A j \in Rows : Active(j)' <=> Active(j)
  BY <1>1 DEF Active
<1>9. Active(n + 1)' => row.name = "app"
  BY <1>1 DEF Active
<1>10. OneActive'
  BY <1>2, <1>8, <1>9 DEF TokensInv, OneActive
<1>11. TokenReachable'
  BY <1>1, <1>2, <1>8, <1>9 DEF TokensInv, TokenReachable
<1> QED
  BY <1>3, <1>4, <1>5, <1>6, <1>7, <1>10, <1>11 DEF TokensInv

LEMMA CliNextInv ==
  ASSUME OneCommandAtATime, TokensInv, NEW p \in Cli, CliNext(p)
  PROVE  TokensInv'
<1>t. cli \in [Cli -> Command] /\ cli[p] \in Command /\ CommandSound(p)
      /\ system \subseteq {"user", "vault", "member"}
  BY DEF TokensInv, TokensTyped
<1>1. ASSUME NEW cmd \in {"ensure_token", "ensure_vault", "create", "revoke"},
             NEW rotate \in BOOLEAN, NEW scopes \in 1 .. 2, Run(p, cmd, rotate, scopes)
      PROVE  TokensInv'
  <2> DEFINE pc == CASE cmd \in {"ensure_token", "ensure_vault"} -> "user"
                     [] cmd = "create" -> "create"
                     [] cmd = "revoke" -> "find"
             k == [NoCommand EXCEPT !.cmd = cmd, !.rotate = rotate, !.scopes = scopes, !.pc = pc]
  <2>1. pc \in {"user", "create", "find"}
    OBVIOUS
  <2>2. cli' = [cli EXCEPT ![p] = k]
    BY <1>1 DEF Run
  <2> HIDE DEF pc
  <2>3. k \in Command /\ k.pc = pc /\ k.row = NoCommand.row
    BY <2>1, AbsentTyped DEF Command, BeforeInsert
  <2>4. cli' \in [Cli -> Command] /\ cli'[p].pc = pc /\ cli'[p].row = NoCommand.row
    BY <1>t, <2>2, <2>3
  <2>5. /\ UNCHANGED <<accounts, system, openSessions, tokenFile, staged, handed, made, svc>>
        /\ commands < MaxCommands /\ commands' = commands + 1
    BY <1>1 DEF Run, tokenTables, files
  <2>6. Rows' = Rows
    BY <2>5 DEF Rows
  <2>7. TokensTyped'
    BY <2>4, <2>5, <2>6, ConstantFacts DEF TokensInv, TokensTyped
  <2>8. RowsInOrder'
    BY <2>5, <2>6 DEF TokensInv, TokensTyped, RowsInOrder
  <2>9. \A q \in Cli : CommandSound(q)'
    BY <2>1, <2>4 DEF CommandSound, OneCommandAtATime, NoCommand
  <2>10. \A s \in Service : RequestSound(s)'
    BY <2>5, TableStays, RequestsStay
  <2>11. TokensNumbered' /\ OneActive' /\ TokenReachable'
    BY <2>5, <2>6 DEF TokensInv, TokensNumbered, OneActive, TokenReachable, Active
  <2> QED
    BY <2>7, <2>8, <2>9, <2>10, <2>11 DEF TokensInv
<1>2. CASE EnsureSystemUser(p)
  <2>1. cli' \in [Cli -> Command] /\ cli'[p].pc = "vault" /\ cli'[p].row = cli[p].row
    BY <1>2, <1>t, CliMoved DEF EnsureSystemUser, BeforeInsert
  <2>2. CommandSound(p)'
    BY <1>2, <1>t, <2>1 DEF EnsureSystemUser, CliAt, CommandSound
  <2> QED
    BY <1>2, <1>t, <2>1, <2>2, OnlyCommandMoves
    DEF EnsureSystemUser, CliAt, BeforeInsert, tokenBounds
<1>3. CASE EnsureVault(p)
  <2>0. "user" \in system /\ cli[p].pc = "vault"
    BY <1>3, <1>t DEF EnsureVault, CliAt, CommandSound
  <2>1. CASE CliEnd(p) /\ UNCHANGED system
    BY <1>3, <1>t, <2>1, CliEnded, OnlyCommandMoves
    DEF EnsureVault, CommandSound, BeforeInsert, tokenBounds
  <2>2. CASE system' = system \cup {"vault"} /\ CliStep(p, "member")
    <3>1. cli' \in [Cli -> Command] /\ cli'[p].pc = "member"
      BY <1>t, <2>2, CliMoved
    <3>2. CommandSound(p)'
      BY <2>0, <2>2, <3>1 DEF CommandSound
    <3> QED
      BY <1>3, <1>t, <2>2, <3>1, <3>2, OnlyCommandMoves DEF EnsureVault, BeforeInsert, tokenBounds
  <2>3. CASE UNCHANGED system /\ CliStep(p, "lookup")
    <3>1. cli' \in [Cli -> Command] /\ cli'[p].pc = "lookup" /\ cli'[p].row = cli[p].row
      BY <1>t, <2>3, CliMoved DEF BeforeInsert
    <3>2. CommandSound(p)'
      BY <1>t, <2>0, <3>1 DEF CommandSound
    <3> QED
      BY <1>3, <1>t, <2>0, <2>3, <3>1, <3>2, OnlyCommandMoves
      DEF EnsureVault, BeforeInsert, tokenBounds
  <2> QED
    BY <1>3, <2>1, <2>2, <2>3 DEF EnsureVault
<1>4. CASE JoinVault(p)
  BY <1>4, <1>t, CliEnded, OnlyCommandMoves
  DEF JoinVault, EnsureVaultMember, CommandSound, BeforeInsert, tokenBounds
<1>5. CASE LookupAccount(p)
  <2>0. cli[p].pc = "lookup" /\ cli[p].row = NoAccount
        /\ UNCHANGED <<accounts, system, openSessions, files, made, svc, commands>>
    BY <1>5, <1>t DEF LookupAccount, CliAt, CommandSound, tokenTables, tokenBounds
  <2>1. CASE Found(p) = {} /\ CliStep(p, "stage")
    <3>1. cli' \in [Cli -> Command] /\ cli'[p].pc = "stage" /\ cli'[p].row = NoAccount
      BY <1>t, <2>0, <2>1, CliMoved DEF BeforeInsert
    <3>2. \A i \in Rows' : ~Active(i)'
      BY <2>0, <2>1 DEF Found, Active, Rows
    <3>3. CommandSound(p)'
      BY <3>1, <3>2 DEF CommandSound
    <3> QED
      BY <1>t, <2>0, <3>1, <3>3, OnlyCommandMoves DEF BeforeInsert
  <2>2. ASSUME NEW i \in Found(p), NEW pc \in {"metadata", "stage", "end"},
               cli' = [cli EXCEPT ![p].id = i, ![p].row = accounts[i], ![p].pc = pc]
        PROVE  TokensInv'
    <3>1. i \in Rows /\ Active(i) /\ i \in Nat /\ accounts[i] \in ServiceAccount
      BY <2>2, RowTyped, ConstantFacts DEF Found, TokensInv, AccountId
    <3>2. /\ cli' \in [Cli -> Command] /\ cli'[p].pc = pc
          /\ cli'[p].row = accounts[i] /\ cli'[p].id = i
      BY <1>t, <2>2, <3>1, CliRead DEF BeforeInsert
    <3>3. CopyOf(cli[p].row, cli[p].id)' /\ Active(cli[p].id)'
      BY <2>0, <3>1, <3>2 DEF CopyOf, Rows, Active
    <3>4. CommandSound(p)'
      BY <3>2, <3>3 DEF CommandSound
    <3> QED
      BY <1>t, <2>0, <3>2, <3>4, OnlyCommandMoves DEF BeforeInsert
  <2> QED
    BY <1>5, <2>1, <2>2 DEF LookupAccount
<1>6. CASE UpdateMetadata(p)
  <2> DEFINE old == cli[p].row
             row == [old EXCEPT !.scopes = cli[p].scopes]
             pc == IF cli[p].rotate THEN "stage" ELSE "end"
             i == cli[p].id
  <2>0. /\ cli[p].pc = "metadata" /\ CopyOf(old, i) /\ Active(i)
        /\ UpdateAccount(i, row) /\ cli' = [cli EXCEPT ![p].row = row, ![p].pc = pc]
        /\ UNCHANGED <<system, openSessions, tokenFile, staged, handed, made, svc, commands>>
    BY <1>6, <1>t DEF UpdateMetadata, CliAt, CommandSound, files, tokenBounds
  <2>1. old \in ServiceAccount /\ i \in Rows /\ cli[p].scopes \in 1 .. 2
    BY <1>t, <2>0 DEF CopyOf, Command
  <2>2. /\ row \in ServiceAccount /\ row.name = old.name /\ row.token = old.token
        /\ row.expired = old.expired /\ row.revoked = old.revoked
    BY <2>1 DEF ServiceAccount
  <2>3. /\ cli' \in [Cli -> Command] /\ cli'[p].pc = pc /\ pc \in {"stage", "end"}
        /\ cli'[p].row = row /\ cli'[p].id = i
    <3> DEFINE k == [cli[p] EXCEPT !.row = row, !.pc = pc]
    <3>1. pc \in {"stage", "end"}
      OBVIOUS
    <3> HIDE DEF row, pc
    <3>2. k \in Command /\ k.pc = pc /\ k.row = row /\ k.id = i
      BY <1>t, <2>2, <3>1 DEF Command, BeforeInsert
    <3>3. cli' = [cli EXCEPT ![p] = k]
      BY <1>t, <2>0
    <3> QED
      BY <1>t, <3>1, <3>2, <3>3
  <2>4. accounts'[i] = row /\ Rows' = Rows
    BY <2>0, <2>1, <2>2, RowUpdated DEF CopyOf
  <2> HIDE DEF row, pc
  <2>5. CopyOf(cli[p].row, cli[p].id)' /\ Active(cli[p].id)'
    BY <2>0, <2>1, <2>2, <2>3, <2>4 DEF CopyOf, Active
  <2>6. CommandSound(p)'
    BY <2>3, <2>5 DEF CommandSound
  <2> QED
    BY <1>t, <2>0, <2>2, <2>3, <2>6, CommandWrites DEF BeforeInsert
<1>7. CASE StageSecret(p)
  <2>0. /\ cli[p].pc = "stage" /\ made' = made + 1 /\ staged' = staged \cup {made + 1}
        /\ cli' = [cli EXCEPT ![p].token = made + 1, ![p].pc = "store"]
        /\ UNCHANGED <<accounts, system, openSessions, tokenFile, handed, svc, commands>>
    BY <1>7 DEF StageSecret, StagedFiles, CliAt, tokenTables, tokenBounds
  <2>1. made \in Nat /\ made + 1 \in Nat
    BY DEF TokensInv, TokensTyped
  <2>2. /\ cli' \in [Cli -> Command] /\ cli'[p].pc = "store" /\ cli'[p].token = made + 1
        /\ cli'[p].row = cli[p].row /\ cli'[p].id = cli[p].id
    <3> DEFINE k == [cli[p] EXCEPT !.token = made + 1, !.pc = "store"]
    <3>1. /\ k \in Command /\ k.pc = "store" /\ k.token = made + 1
          /\ k.row = cli[p].row /\ k.id = cli[p].id
      BY <1>t, <2>1 DEF Command, BeforeInsert
    <3>2. cli' = [cli EXCEPT ![p] = k]
      BY <1>t, <2>0
    <3> QED
      BY <1>t, <3>1, <3>2
  <2>3. Rows' = Rows
    BY <2>0 DEF Rows
  <2>4. TokensTyped'
    <3>1. made + 1 \notin handed /\ tokenFile # made + 1 /\ handed \cup staged \subseteq 1 .. made'
      BY <2>0, <2>1 DEF TokensInv, TokensTyped
    <3> QED
      BY <2>0, <2>1, <2>2, <2>3, <3>1 DEF TokensInv, TokensTyped
  <2>5. RowsInOrder'
    BY <2>0, <2>2, <2>3 DEF TokensInv, RowsInOrder, OneCommandAtATime, BeforeInsert
  <2>6. CommandSound(p)'
    <3>1. made + 1 \notin handed /\ \A i \in Rows : accounts[i].token # made + 1
      BY <2>1 DEF TokensInv, TokensTyped, TokensNumbered
    <3>2. \/ cli[p].row = NoAccount /\ \A i \in Rows : ~Active(i)
          \/ CopyOf(cli[p].row, cli[p].id) /\ Active(cli[p].id)
      BY <1>t, <2>0 DEF CommandSound
    <3>3. \/ cli'[p].row = NoAccount /\ \A i \in Rows' : ~Active(i)'
          \/ CopyOf(cli[p].row, cli[p].id)' /\ Active(cli[p].id)'
      BY <2>0, <2>2, <2>3, <3>2 DEF CopyOf, Active
    <3> QED
      BY <2>0, <2>2, <2>3, <3>1, <3>3 DEF CommandSound
  <2>7. \A s \in Service : RequestSound(s)'
    BY <2>0, TableStays, RequestsStay
  <2>8. TokensNumbered' /\ OneActive' /\ TokenReachable'
    BY <2>0, <2>1, <2>3 DEF TokensInv, TokensNumbered, OneActive, TokenReachable, Active
  <2> QED
    BY <2>4, <2>5, <2>6, <2>7, <2>8 DEF TokensInv, OneCommandAtATime
<1>8. CASE StoreToken(p)
  <2>0. /\ cli[p].pc = "store" /\ cli[p].token \in staged \ handed
        /\ \A i \in Rows : accounts[i].token # cli[p].token
        /\ \/ cli[p].row = NoAccount /\ \A i \in Rows : ~Active(i)
           \/ CopyOf(cli[p].row, cli[p].id) /\ Active(cli[p].id)
        /\ UNCHANGED <<system, openSessions, tokenFile, handed, made, svc, commands>>
    BY <1>8, <1>t DEF StoreToken, CliAt, CommandSound
  <2>1. cli[p].token \in 1 .. made /\ cli[p].scopes \in 1 .. 2 /\ cli[p].token \in Nat
    BY <1>t, <2>0 DEF TokensInv, TokensTyped, Command
  <2>2. CASE cli[p].row = NoAccount /\ CliStep(p, "finalize") /\ UNCHANGED staged
             /\ CreateAccount(NewAccount("app", cli[p].scopes, cli[p].token))
    <3> DEFINE row == NewAccount("app", cli[p].scopes, cli[p].token)
    <3>1. row \in ServiceAccount /\ row.name = "app" /\ row.token = cli[p].token
          /\ ~row.revoked /\ ~row.expired
      BY <2>1 DEF NewAccount, ServiceAccount
    <3> HIDE DEF row
    <3>2. cli' \in [Cli -> Command] /\ cli'[p].pc = "finalize" /\ cli'[p].token = cli[p].token
      BY <1>t, <2>2, CliMoved
    <3>3. \A i \in Rows : ~Active(i)
      BY <2>0, <2>2, ConstantFacts DEF CopyOf
    <3>4. CommandSound(p)'
      <4>1. PICK n \in Nat : Rows' = 1 .. (n + 1) /\ accounts'[n + 1] = row
        BY <2>0, <2>2, <3>1, RowInserted DEF BeforeInsert, row
      <4>2. n + 1 \in Rows' /\ Active(n + 1)' /\ accounts'[n + 1].token = cli'[p].token
        BY <3>1, <3>2, <4>1 DEF Active
      <4> QED
        BY <2>0, <2>2, <3>2, <4>2 DEF CommandSound
    <3> QED
      BY <1>t, <2>0, <2>1, <2>2, <3>1, <3>2, <3>3, <3>4, CommandInserts
      DEF BeforeInsert, TokensInv, TokensTyped, row
  <2>3. CASE cli[p].row # NoAccount /\ CliStep(p, "finalize") /\ UNCHANGED staged
             /\ UpdateAccount(cli[p].id, RotatedRow(p))
    <3> DEFINE old == cli[p].row
               row == RotatedRow(p)
    <3>0. old \in ServiceAccount /\ cli[p].id \in Rows /\ CopyOf(old, cli[p].id) /\ Active(cli[p].id)
          /\ ~old.revoked /\ ~old.expired /\ old.name = "app"
      BY <2>0, <2>3 DEF CopyOf, Active
    <3>1. /\ row \in ServiceAccount /\ row.name = old.name /\ row.token = cli[p].token
          /\ row.expired = old.expired /\ ~row.revoked
      BY <2>1, <3>0 DEF RotatedRow, ServiceAccount
    <3> HIDE DEF row
    <3>2. /\ cli' \in [Cli -> Command] /\ cli'[p].pc = "finalize" /\ cli'[p].token = cli[p].token
          /\ cli'[p].id = cli[p].id
      BY <1>t, <2>3, CliMoved
    <3>3. accounts'[cli[p].id] = row /\ Rows' = Rows
      BY <2>0, <2>3, <3>0, <3>1, RowUpdated DEF CopyOf, row
    <3>4. CommandSound(p)'
      <4>1. Active(cli[p].id)' /\ accounts'[cli[p].id].token = cli'[p].token
        BY <3>0, <3>1, <3>2, <3>3 DEF Active
      <4> QED
        BY <2>0, <2>3, <3>0, <3>2, <3>3, <4>1 DEF CommandSound
    <3> QED
      BY <1>t, <2>0, <2>3, <3>0, <3>1, <3>2, <3>4, CommandWrites DEF BeforeInsert, row
  <2>4. CASE staged' = staged \ {cli[p].token} /\ CliEnd(p) /\ UNCHANGED accounts
    <3>1. cli' \in [Cli -> Command] /\ cli'[p].pc = "idle" /\ Rows' = Rows
      BY <1>t, <2>4, CliEnded DEF Rows
    <3>2. TokensTyped'
      BY <2>0, <2>4, <3>1 DEF TokensInv, TokensTyped
    <3>3. RowsInOrder'
      BY <2>0, <3>1 DEF TokensInv, RowsInOrder, OneCommandAtATime, BeforeInsert
    <3>4. \A q \in Cli : CommandSound(q)'
      BY <3>1 DEF CommandSound, OneCommandAtATime
    <3>5. \A s \in Service : RequestSound(s)'
      BY <2>0, <2>4, TableStays, RequestsStay
    <3>6. TokensNumbered' /\ OneActive' /\ TokenReachable'
      BY <2>0, <2>4, <3>1 DEF TokensInv, TokensNumbered, OneActive, TokenReachable, Active
    <3> QED
      BY <3>2, <3>3, <3>4, <3>5, <3>6 DEF TokensInv
  <2> QED
    BY <1>8, <2>2, <2>3, <2>4 DEF StoreToken
<1>9. CASE Finalize(p)
  <2>0. /\ cli[p].pc = "finalize" /\ cli[p].token \in staged
        /\ \E i \in Rows : Active(i) /\ accounts[i].token = cli[p].token
        /\ tokenFile' = cli[p].token /\ staged' = staged \ {cli[p].token}
        /\ handed' = handed \cup {cli[p].token}
        /\ UNCHANGED <<accounts, system, openSessions, made, svc, commands>>
    BY <1>9, <1>t DEF Finalize, CliAt, CommandSound, tokenTables, tokenBounds
  <2>1. cli' \in [Cli -> Command] /\ cli'[p].pc = "end" /\ Rows' = Rows
    BY <1>9, <1>t, <2>0, CliMoved DEF Finalize, Rows
  <2>2. TokensTyped'
    BY <2>0, <2>1 DEF TokensInv, TokensTyped
  <2>3. RowsInOrder'
    BY <2>0, <2>1 DEF TokensInv, RowsInOrder, OneCommandAtATime, BeforeInsert
  <2>4. \A q \in Cli : CommandSound(q)'
    BY <2>1 DEF CommandSound, OneCommandAtATime
  <2>5. \A s \in Service : RequestSound(s)'
    BY <2>0, TableStays, RequestsStay
  <2>6. TokensNumbered' /\ OneActive'
    BY <2>0, <2>1 DEF TokensInv, TokensNumbered, OneActive, Active
  <2>7. \A i \in Rows : Active(i) => accounts[i].token = cli[p].token
    BY <2>0 DEF TokensInv, OneActive
  <2>8. TokenReachable'
    BY <2>0, <2>1, <2>7 DEF TokenReachable, Active
  <2> QED
    BY <2>2, <2>3, <2>4, <2>5, <2>6, <2>8 DEF TokensInv
<1>10. CASE Report(p)
  BY <1>10, <1>t, CliEnded, OnlyCommandMoves
  DEF Report, CommandSound, BeforeInsert, tokenBounds, tokenTables
<1>11. CASE TokensCreate(p)
  <2>0. cli[p].pc = "create"
        /\ UNCHANGED <<system, openSessions, tokenFile, staged, handed, svc, commands>>
    BY <1>11 DEF TokensCreate, CliAt, files, tokenBounds
  <2>1. CASE CliEnd(p) /\ UNCHANGED <<accounts, made>>
    BY <1>t, <2>0, <2>1, CliEnded, OnlyCommandMoves DEF CommandSound, BeforeInsert, files
  <2>2. CASE /\ made' = made + 1
             /\ CreateAccount(NewAccount("adhoc", cli[p].scopes, made + 1))
             /\ cli' = [cli EXCEPT ![p].token = made + 1, ![p].pc = "print"]
    <3> DEFINE row == NewAccount("adhoc", cli[p].scopes, made + 1)
    <3>1. made \in Nat /\ made + 1 \in Nat /\ cli[p].scopes \in 1 .. 2 /\ made + 1 \notin handed
      BY <1>t DEF TokensInv, TokensTyped, Command
    <3>2. row \in ServiceAccount /\ row.name = "adhoc" /\ row.token = made + 1
      BY <3>1 DEF NewAccount, ServiceAccount
    <3>3. cli' \in [Cli -> Command] /\ cli'[p].pc = "print" /\ cli'[p].token = made + 1
      <4> DEFINE k == [cli[p] EXCEPT !.token = made + 1, !.pc = "print"]
      <4>1. k \in Command /\ k.pc = "print" /\ k.token = made + 1
        BY <1>t, <3>1 DEF Command, BeforeInsert
      <4>2. cli' = [cli EXCEPT ![p] = k]
        BY <1>t, <2>2
      <4> QED
        BY <1>t, <4>1, <4>2
    <3>4. CommandSound(p)'
      BY <2>2, <3>1, <3>3 DEF CommandSound
    <3> HIDE DEF row
    <3> QED
      BY <1>t, <2>0, <2>2, <3>1, <3>2, <3>3, <3>4, CommandInserts DEF BeforeInsert, row
  <2> QED
    BY <1>11, <2>1, <2>2 DEF TokensCreate
<1>12. CASE PrintToken(p)
  <2>0. /\ cli[p].pc = "print" /\ cli[p].token \in 1 .. made
        /\ handed' = handed \cup {cli[p].token}
        /\ UNCHANGED <<accounts, system, openSessions, tokenFile, staged, made, svc, commands>>
    BY <1>12, <1>t DEF PrintToken, CliAt, CommandSound, tokenTables, tokenBounds
  <2>1. cli' \in [Cli -> Command] /\ cli'[p].pc = "idle" /\ Rows' = Rows
    BY <1>12, <1>t, <2>0, CliEnded DEF PrintToken, Rows
  <2>2. TokensTyped'
    BY <2>0, <2>1 DEF TokensInv, TokensTyped
  <2>3. RowsInOrder'
    BY <2>0, <2>1 DEF TokensInv, RowsInOrder, OneCommandAtATime, BeforeInsert
  <2>4. \A q \in Cli : CommandSound(q)'
    BY <2>1 DEF CommandSound, OneCommandAtATime
  <2>5. \A s \in Service : RequestSound(s)'
    BY <2>0, TableStays, RequestsStay
  <2>6. TokensNumbered' /\ OneActive' /\ TokenReachable'
    BY <2>0, <2>1 DEF TokensInv, TokensNumbered, OneActive, TokenReachable, Active
  <2> QED
    BY <2>2, <2>3, <2>4, <2>5, <2>6 DEF TokensInv
<1>13. CASE FindAccount(p)
  <2>0. cli[p].pc = "find"
        /\ UNCHANGED <<accounts, system, openSessions, files, made, svc, commands>>
    BY <1>13 DEF FindAccount, CliAt, tokenTables, tokenBounds
  <2>1. CASE CliEnd(p)
    BY <1>t, <2>0, <2>1, CliEnded, OnlyCommandMoves DEF CommandSound, BeforeInsert
  <2>2. ASSUME NEW i \in Rows,
               cli' = [cli EXCEPT ![p].id = i, ![p].row = accounts[i], ![p].pc = "revoke"]
        PROVE  TokensInv'
    <3>1. i \in Nat /\ accounts[i] \in ServiceAccount
      BY <2>2, RowTyped, ConstantFacts DEF TokensInv, AccountId
    <3>2. /\ cli' \in [Cli -> Command] /\ cli'[p].pc = "revoke"
          /\ cli'[p].row = accounts[i] /\ cli'[p].id = i
      BY <1>t, <2>2, <3>1, CliRead
    <3>3. CopyOf(cli[p].row, cli[p].id)'
      BY <2>0, <2>2, <3>1, <3>2 DEF CopyOf, Rows
    <3>4. CommandSound(p)'
      BY <3>2, <3>3 DEF CommandSound
    <3> QED
      BY <1>t, <2>0, <3>2, <3>4, OnlyCommandMoves DEF BeforeInsert
  <2> QED
    BY <1>13, <2>1, <2>2 DEF FindAccount
<1>14. CASE RevokeAccount(p)
  <2> DEFINE old == cli[p].row
             row == [old EXCEPT !.revoked = TRUE]
  <2>0. /\ CopyOf(old, cli[p].id) /\ UpdateAccount(cli[p].id, row)
        /\ UNCHANGED <<system, openSessions, tokenFile, staged, handed, made, svc, commands>>
    BY <1>14, <1>t DEF RevokeAccount, CliAt, CommandSound, files, tokenBounds
  <2>1. old \in ServiceAccount
    BY <2>0 DEF CopyOf
  <2>2. /\ row \in ServiceAccount /\ row.name = old.name /\ row.token = old.token
        /\ row.expired = old.expired /\ row.revoked
    BY <2>1 DEF ServiceAccount
  <2>3. cli' \in [Cli -> Command] /\ cli'[p].pc = "idle"
    BY <1>14, <1>t, CliEnded DEF RevokeAccount
  <2>4. CommandSound(p)'
    BY <2>3 DEF CommandSound
  <2> HIDE DEF row
  <2> QED
    BY <1>t, <2>0, <2>2, <2>3, <2>4, CommandWrites DEF BeforeInsert
<1>15. CASE Kill(p)
  BY <1>15, <1>t, CliEnded, OnlyCommandMoves DEF Kill, CommandSound, BeforeInsert, tokenTables
<1> QED
  BY <1>1, <1>2, <1>3, <1>4, <1>5, <1>6, <1>7, <1>8, <1>9, <1>10, <1>11, <1>12, <1>13, <1>14,
     <1>15 DEF CliNext

-----------------------------------------------------------------------------
(* Requests. *)

\* A step of a request that writes no account.
LEMMA OnlyRequestMoves ==
  ASSUME TokensInv, NEW s \in Service, svc' \in [Service -> Request],
         \A r \in Service \ {s} : svc'[r] = svc[r],
         UNCHANGED <<accounts, system, files, made, cli, commands>>,
         openSessions' \subseteq Rows, RequestSound(s)'
  PROVE  TokensInv'
<1> USE DEF files
<1>0. Rows' = Rows
  BY DEF Rows
<1>1. TokensTyped'
  BY <1>0 DEF TokensInv, TokensTyped
<1>2. RowsInOrder'
  BY <1>0 DEF TokensInv, RowsInOrder
<1>3. \A q \in Cli : CommandSound(q)'
  BY <1>0 DEF TokensInv, CommandSound, CopyOf, Active
<1>4. \A r \in Service : RequestSound(r)'
  BY TableStays, RequestsStay
<1>5. TokensNumbered' /\ OneActive' /\ TokenReachable'
  BY <1>0 DEF TokensInv, TokensNumbered, OneActive, TokenReachable, Active
<1> QED
  BY <1>1, <1>2, <1>3, <1>4, <1>5 DEF TokensInv

LEMMA ServiceNextInv ==
  ASSUME TokensInv, NEW s \in Service, ServiceNext(s)
  PROVE  TokensInv'
<1>t. /\ svc \in [Service -> Request] /\ svc[s] \in Request /\ RequestSound(s)
      /\ openSessions \subseteq Rows /\ Rows \subseteq Nat /\ handed \subseteq Nat
  BY DEF TokensInv, TokensTyped, Rows, AccountId
<1>1. ASSUME NEW by \in {"token", "login", "session"}, NEW key \in handed \cup openSessions,
             Present(s, by, key)
      PROVE  TokensInv'
  <2> DEFINE dead == IF by = "session" THEN ~Usable(accounts[key])
                     ELSE \A i \in ByToken(key) : ~Usable(accounts[i])
             k == [NoService EXCEPT !.by = by, !.key = key, !.pc = "row", !.dead = dead]
  <2>0. /\ svc' = [svc EXCEPT ![s] = k]
        /\ key \in (IF by = "session" THEN openSessions ELSE handed)
        /\ UNCHANGED <<accounts, system, openSessions, files, made, cli, commands>>
    BY <1>1 DEF Present, tokenTables
  <2>1. dead \in BOOLEAN /\ key \in Nat
    BY <1>t
  <2> HIDE DEF dead
  <2>2. k \in Request /\ k.pc = "row" /\ k.by = by /\ k.key = key /\ k.dead = dead
        /\ k.answer = NoService.answer
    BY <2>1, AbsentTyped DEF Request
  <2>3. /\ svc' \in [Service -> Request] /\ svc'[s] = k
        /\ \A r \in Service \ {s} : svc'[r] = svc[r]
    BY <1>t, <2>0, <2>2
  <2>4. Rows' = Rows /\ ByToken(key)' = ByToken(key) /\ handed' = handed
    BY <2>0 DEF Rows, ByToken, files
  <2>5. RequestSound(s)'
    BY <1>t, <2>0, <2>2, <2>3, <2>4 DEF RequestSound, dead, NoService, ByToken, Rows
  <2> QED
    BY <1>t, <2>0, <2>3, <2>5, OnlyRequestMoves
<1>2. CASE ReadAccount(s)
  <2>0. svc[s].pc = "row"
        /\ UNCHANGED <<accounts, system, openSessions, files, made, cli, commands>>
    BY <1>2 DEF ReadAccount, tokenTables, tokenBounds
  <2>1. CASE svc' = [svc EXCEPT ![s].pc = "idle", ![s].answer = "refused"]
    <3> DEFINE k == [svc[s] EXCEPT !.pc = "idle", !.answer = "refused"]
    <3>1. k \in Request /\ k.pc = "idle" /\ k.answer = "refused"
      BY <1>t DEF Request
    <3>2. svc' = [svc EXCEPT ![s] = k]
      BY <1>t, <2>1
    <3>3. /\ svc' \in [Service -> Request] /\ svc'[s] = k
          /\ \A r \in Service \ {s} : svc'[r] = svc[r]
      BY <1>t, <3>1, <3>2
    <3>4. RequestSound(s)'
      BY <3>1, <3>3 DEF RequestSound
    <3> QED
      BY <1>t, <2>0, <3>3, <3>4, OnlyRequestMoves
  <2>2. ASSUME NEW i \in (IF svc[s].by = "session" THEN {svc[s].key} ELSE ByToken(svc[s].key)),
               svc' = [svc EXCEPT ![s].id = i, ![s].row = accounts[i], ![s].pc = "judge"]
        PROVE  TokensInv'
    <3> DEFINE k == [svc[s] EXCEPT !.id = i, !.row = accounts[i], !.pc = "judge"]
    <3>1. i \in Rows /\ i \in Nat /\ (svc[s].dead => ~Usable(accounts[i]))
      BY <1>t, <2>0, <2>2 DEF RequestSound, ByToken
    <3>2. accounts[i] \in ServiceAccount
      BY <3>1, RowTyped DEF TokensInv
    <3>3. /\ k \in Request /\ k.pc = "judge" /\ k.id = i /\ k.row = accounts[i]
          /\ k.by = svc[s].by /\ k.key = svc[s].key /\ k.dead = svc[s].dead
          /\ k.answer = svc[s].answer
      BY <1>t, <3>1, <3>2 DEF Request
    <3>4. svc' = [svc EXCEPT ![s] = k]
      BY <1>t, <2>2
    <3>5. /\ svc' \in [Service -> Request] /\ svc'[s] = k
          /\ \A r \in Service \ {s} : svc'[r] = svc[r]
      BY <1>t, <3>3, <3>4
    <3>6. Rows' = Rows /\ handed' = handed /\ accounts' = accounts
      BY <2>0 DEF Rows, files
    <3> HIDE DEF k
    <3>7. RequestSound(s)'
      BY <1>t, <2>0, <3>1, <3>3, <3>5, <3>6 DEF RequestSound, Usable, ByToken
    <3> QED
      BY <1>t, <2>0, <3>5, <3>7, OnlyRequestMoves
  <2> QED
    BY <1>2, <2>1, <2>2 DEF ReadAccount
<1>3. CASE Judge(s)
  <2> DEFINE i == svc[s].id
             answer == IF Accepted(s) THEN "ok" ELSE "refused"
             k == [svc[s] EXCEPT !.pc = "idle", !.answer = answer]
  <2>0. /\ i \in Rows
        /\ svc' = [svc EXCEPT ![s].pc = "idle", ![s].answer = answer]
        /\ UNCHANGED <<system, tokenFile, staged, handed, made, cli, commands>>
        /\ openSessions' \subseteq Rows
        /\ UpdateUsage(i) \/ UNCHANGED accounts
        /\ svc[s].dead => ~Accepted(s)
    BY <1>3, <1>t DEF Judge, RequestSound, files, tokenBounds, Accepted
  <2>1. answer \in {"ok", "refused"} /\ (svc[s].dead => answer = "refused")
    BY <2>0
  <2> HIDE DEF answer
  <2>2. k \in Request /\ k.pc = "idle" /\ k.answer = answer /\ k.dead = svc[s].dead
    BY <1>t, <2>1 DEF Request
  <2>3. svc' = [svc EXCEPT ![s] = k]
    BY <1>t, <2>0
  <2>4. /\ svc' \in [Service -> Request] /\ svc'[s] = k
        /\ \A r \in Service \ {s} : svc'[r] = svc[r]
    BY <1>t, <2>2, <2>3
  <2>5. RequestSound(s)'
    BY <2>1, <2>2, <2>4 DEF RequestSound
  <2>6. CASE UNCHANGED accounts
    BY <2>0, <2>4, <2>5, <2>6, OnlyRequestMoves DEF files
  <2>7. CASE UpdateUsage(i)
    <3> DEFINE row == [accounts[i] EXCEPT !.used = accounts[i].used + 1]
    <3>1. accounts[i] \in ServiceAccount
      BY <2>0, RowTyped DEF TokensInv
    <3>2. accounts[i].used + 1 \in Nat
      BY <3>1 DEF ServiceAccount
    <3>3. /\ row \in ServiceAccount /\ row.name = accounts[i].name /\ row.token = accounts[i].token
          /\ row.scopes = accounts[i].scopes /\ row.revoked = accounts[i].revoked
          /\ row.expired = accounts[i].expired
      BY <3>1, <3>2 DEF ServiceAccount
    <3>4. UpdateAccount(i, row)
      BY <2>7 DEF UpdateUsage, UpdateAccount
    <3> HIDE DEF row
    <3>5. /\ accounts' \in [AccountId -> ServiceAccount \cup {NoAccount}]
          /\ accounts'[i] = row /\ Rows' = Rows
          /\ \A j \in Rows \ {i} : accounts'[j] = accounts[j]
          /\ NothingRevived
      BY <2>0, <3>3, <3>4, RowUpdated
    <3>6. \A j \in Rows : /\ accounts'[j].name = accounts[j].name
                          /\ accounts'[j].token = accounts[j].token
                          /\ accounts'[j].scopes = accounts[j].scopes
                          /\ accounts'[j].revoked = accounts[j].revoked
                          /\ accounts'[j].expired = accounts[j].expired
      BY <3>3, <3>5
    <3>7. \A j \in Rows : Active(j)' <=> Active(j)
      BY <3>6 DEF Active
    <3>8. TokensTyped'
      BY <2>0, <2>4, <3>5 DEF TokensInv, TokensTyped
    <3>9. RowsInOrder'
      BY <2>0, <3>5 DEF TokensInv, RowsInOrder
    <3>10. ASSUME NEW q \in Cli PROVE CommandSound(q)'
      <4>1. CommandSound(q) /\ cli' = cli
        BY <2>0 DEF TokensInv
      <4>2. CopyOf(cli[q].row, cli[q].id) => CopyOf(cli[q].row, cli[q].id)'
        BY <3>5, <3>6, <4>1 DEF CopyOf
      <4>3. CopyOf(cli[q].row, cli[q].id) /\ Active(cli[q].id) => Active(cli[q].id)'
        BY <3>7, <4>1 DEF CopyOf, Active
      <4> QED
        BY <2>0, <3>5, <3>6, <3>7, <4>1, <4>2, <4>3 DEF CommandSound
    <3>11. \A r \in Service : RequestSound(r)'
      BY <2>0, <2>4, <2>5, <3>5, RequestsStay
    <3>12. TokensNumbered' /\ OneActive' /\ TokenReachable'
      BY <2>0, <3>5, <3>6, <3>7 DEF TokensInv, TokensNumbered, OneActive, TokenReachable
    <3> QED
      BY <3>8, <3>9, <3>10, <3>11, <3>12 DEF TokensInv
  <2> QED
    BY <2>0, <2>6, <2>7
<1> QED
  BY <1>1, <1>2, <1>3 DEF ServiceNext

LEMMA ExpireInv ==
  ASSUME TokensInv, NEW i \in AccountId, ExpireAccount(i)
  PROVE  TokensInv'
<1> DEFINE row == [accounts[i] EXCEPT !.expired = TRUE]
<1>0. /\ i \in Rows /\ \A p \in Cli : cli[p].pc = "idle"
      /\ accounts' = [accounts EXCEPT ![i].expired = TRUE]
      /\ UNCHANGED <<system, openSessions, tokenFile, staged, handed, made, cli, svc, commands>>
  BY DEF ExpireAccount, CliAt, files, tokenBounds
<1>1. accounts \in [AccountId -> ServiceAccount \cup {NoAccount}] /\ accounts[i] \in ServiceAccount
  BY <1>0, RowTyped DEF TokensInv, TokensTyped
<1>2. /\ row \in ServiceAccount /\ row.name = accounts[i].name /\ row.token = accounts[i].token
      /\ row.revoked = accounts[i].revoked /\ row.expired
  BY <1>1 DEF ServiceAccount
<1>3. accounts' = [accounts EXCEPT ![i] = row]
  BY <1>0, <1>1
<1> HIDE DEF row
<1>4. /\ accounts' \in [AccountId -> ServiceAccount \cup {NoAccount}]
      /\ accounts'[i] = row /\ \A j \in AccountId \ {i} : accounts'[j] = accounts[j]
  BY <1>1, <1>2, <1>3
<1>5. Rows' = Rows
  BY <1>1, <1>2, <1>4, ConstantFacts DEF Rows
<1>6. NothingRevived
  BY <1>2, <1>4, <1>5 DEF NothingRevived, Usable, ByToken, Rows
<1>7. \A j \in Rows : Active(j)' => Active(j) /\ accounts'[j] = accounts[j]
  BY <1>2, <1>4 DEF Active, Rows
<1>8. TokensTyped'
  BY <1>0, <1>4, <1>5 DEF TokensInv, TokensTyped
<1>9. RowsInOrder'
  BY <1>0, <1>5 DEF TokensInv, RowsInOrder
<1>10. \A q \in Cli : CommandSound(q)'
  BY <1>0 DEF CommandSound
<1>11. \A r \in Service : RequestSound(r)'
  BY <1>0, <1>6, RequestsStay
<1>12. TokensNumbered'
  BY <1>0, <1>2, <1>4, <1>5 DEF TokensInv, TokensNumbered, Rows
<1>13. OneActive' /\ TokenReachable'
  BY <1>0, <1>5, <1>7 DEF TokensInv, OneActive, TokenReachable
<1> QED
  BY <1>8, <1>9, <1>10, <1>11, <1>12, <1>13 DEF TokensInv

-----------------------------------------------------------------------------
LEMMA TokensInitInv == ServiceTokensInit => TokensInv
<1> SUFFICES ASSUME ServiceTokensInit PROVE TokensInv
  OBVIOUS
<1> USE DEF ServiceTokensInit
<1>1. Rows = {}
  BY DEF Rows
<1>2. TokensTyped
  BY <1>1, AbsentTyped, ConstantFacts DEF TokensTyped
<1>3. RowsInOrder
  <2>1. Rows = 1 .. 0 /\ \A p \in Cli : cli[p].pc = "idle"
    BY <1>1 DEF NoCommand
  <2> QED
    BY <2>1 DEF RowsInOrder, BeforeInsert
<1>4. \A p \in Cli : CommandSound(p)
  BY DEF CommandSound, NoCommand
<1>5. \A s \in Service : RequestSound(s)
  BY DEF RequestSound, NoService
<1>6. TokensNumbered /\ OneActive /\ TokenReachable
  BY <1>1 DEF TokensNumbered, OneActive, TokenReachable
<1> QED
  BY <1>2, <1>3, <1>4, <1>5, <1>6 DEF TokensInv

LEMMA TokensStepInv ==
  ASSUME OneCommandAtATime
  PROVE  TokensInv /\ [ServiceTokensNext]_tokenVars => TokensInv'
<1> SUFFICES ASSUME TokensInv, [ServiceTokensNext]_tokenVars PROVE TokensInv'
  OBVIOUS
<1>1. CASE UNCHANGED tokenVars
  <2> USE <1>1 DEF tokenVars, tokenTables, files, tokenBounds
  <2>1. Rows' = Rows
    BY DEF Rows
  <2>2. TokensTyped' /\ RowsInOrder'
    BY <2>1 DEF TokensInv, TokensTyped, RowsInOrder
  <2>3. \A q \in Cli : CommandSound(q)'
    BY <2>1 DEF TokensInv, CommandSound, CopyOf, Active
  <2>4. \A r \in Service : RequestSound(r)'
    BY TableStays, RequestsStay
  <2>5. TokensNumbered' /\ OneActive' /\ TokenReachable'
    BY <2>1 DEF TokensInv, TokensNumbered, OneActive, TokenReachable, Active
  <2> QED
    BY <2>2, <2>3, <2>4, <2>5 DEF TokensInv
<1> QED
  BY <1>1, CliNextInv, ServiceNextInv, ExpireInv DEF ServiceTokensNext

\* The accounts, the files with tokens and the requests keep their types, and
\* a token that has been renamed into place is in no temporary file.
THEOREM TokensTypeCorrect ==
  ASSUME OneCommandAtATime
  PROVE  ServiceTokensSpec => []ServiceTokensTypeOK
<1>1. TokensInv => ServiceTokensTypeOK
  BY DEF TokensInv, TokensTyped, ServiceTokensTypeOK, Rows, Command, Request
<1> QED
  BY <1>1, TokensInitInv, TokensStepInv, PTL DEF ServiceTokensSpec

\* When commands run one at a time, and wherever each of them is killed, there
\* is at most one provisioned account in force, its token is in the token file
\* or in a temporary file next to it, and a token that was revoked, rotated
\* away or expired when a request presented it is not answered.
THEOREM TokenInForce ==
  ASSUME OneCommandAtATime
  PROVE  ServiceTokensSpec => []OneLiveToken
<1>1. TokensInv => OneLiveToken
  <2> SUFFICES ASSUME TokensInv PROVE OneLiveToken
    OBVIOUS
  <2> DEFINE live == {i \in Rows : Active(i)}
  <2>1. live = {} \/ \E i : live = {i}
    BY DEF TokensInv, OneActive
  <2>2. Cardinality(live) <= 1
    <3>1. Cardinality({}) = 0 /\ \A i : Cardinality({i}) = 1
      BY FS_EmptySet, FS_Singleton
    <3> HIDE DEF live
    <3>2. Cardinality(live) \in {0, 1}
      BY <2>1, <3>1
    <3> QED
      BY <3>2
  <2>3. DeadTokenRefused
    BY DEF TokensInv, RequestSound, DeadTokenRefused
  <2> QED
    BY <2>2, <2>3 DEF OneLiveToken, ProvisionedOnce, TokensInv
<1> QED
  BY <1>1, TokensInitInv, TokensStepInv, PTL DEF ServiceTokensSpec

KillsTyped == kills \in Nat

LEMMA KillsCounted == KillsTyped /\ [ServiceTokensNext]_tokenVars => KillsTyped'
<1> SUFFICES ASSUME kills \in Nat, [ServiceTokensNext]_tokenVars PROVE kills' \in {kills, kills + 1}
  BY DEF KillsTyped
<1>1. ASSUME NEW p \in Cli, CliNext(p) PROVE kills' \in {kills, kills + 1}
  <2>1. CASE StoreToken(p) \/ Kill(p)
    BY <2>1 DEF StoreToken, Kill
  <2>2. CASE ~StoreToken(p) /\ ~Kill(p)
    BY <1>1, <2>2 DEF CliNext, Run, EnsureSystemUser, EnsureVault, JoinVault, LookupAccount,
      UpdateMetadata, StageSecret, Finalize, Report, TokensCreate, PrintToken, FindAccount,
      RevokeAccount, tokenBounds
  <2> QED
    BY <2>1, <2>2
<1>2. ASSUME NEW s \in Service, ServiceNext(s) PROVE UNCHANGED kills
  BY <1>2 DEF ServiceNext, Present, ReadAccount, Judge, tokenBounds
<1>3. ASSUME NEW i \in AccountId, ExpireAccount(i) PROVE UNCHANGED kills
  BY <1>3 DEF ExpireAccount, tokenBounds
<1>4. CASE UNCHANGED tokenVars
  BY <1>4 DEF tokenVars, tokenBounds
<1> QED
  BY <1>1, <1>2, <1>3, <1>4 DEF ServiceTokensNext

\* A command that reports has done what it says: ensure_token_command has put
\* the token in force into the file, and ensure_shared_vault leaves user, vault
\* and member, also what an earlier command was killed before.
THEOREM CommandsDone ==
  ASSUME OneCommandAtATime
  PROVE  ServiceTokensSpec => CommandsDeliver
<1>0. ServiceTokensInit => KillsTyped
  BY DEF ServiceTokensInit, KillsTyped
<1>1. TokensInv /\ KillsTyped /\ [ServiceTokensNext]_tokenVars =>
        [RotationDelivered /\ EnsureVaultRepairs]_tokenVars
  <2> SUFFICES ASSUME TokensInv, KillsTyped, ServiceTokensNext PROVE RotationDelivered /\ EnsureVaultRepairs
    OBVIOUS
  <2>0. cli \in [Cli -> Command]
    BY DEF TokensInv, TokensTyped
  <2>1. ASSUME NEW p \in Cli, NEW q \in Cli, CliNext(q), CliAt(p, "finalize"), cli'[p].pc = "end"
        PROVE  \E i \in Rows : Active(i) /\ accounts[i].token = tokenFile'
    <3>1. CommandSound(p) /\ q = p
      BY DEF TokensInv, OneCommandAtATime
    <3>2. Finalize(p) \/ Kill(p)
      BY <2>1, <3>1 DEF CliNext, CliAt, Run, EnsureSystemUser, EnsureVault, JoinVault, LookupAccount,
        UpdateMetadata, StageSecret, StoreToken, Report, TokensCreate, PrintToken, FindAccount,
        RevokeAccount
    <3>3. ~Kill(p)
      BY <2>0, <2>1, CliEnded DEF Kill
    <3> QED
      BY <2>1, <3>1, <3>2, <3>3 DEF Finalize, CommandSound, CliAt
  <2>2. ASSUME NEW p \in Cli, NEW q \in Cli, CliNext(q), CliAt(p, "member"), kills' = kills,
               cli'[p].pc = "idle"
        PROVE  system' = {"user", "vault", "member"}
    <3>1. CommandSound(p) /\ q = p /\ system \subseteq {"user", "vault", "member"}
      BY DEF TokensInv, TokensTyped, OneCommandAtATime
    <3>2. JoinVault(p) \/ Kill(p)
      BY <2>2, <3>1 DEF CliNext, CliAt, Run, EnsureSystemUser, EnsureVault, LookupAccount,
        UpdateMetadata, StageSecret, StoreToken, Finalize, Report, TokensCreate, PrintToken,
        FindAccount, RevokeAccount
    <3>3. ~Kill(p)
      BY <2>2 DEF Kill, KillsTyped
    <3>4. {"user", "vault"} \subseteq system
      BY <2>2, <3>1 DEF CommandSound, CliAt
    <3> QED
      BY <3>1, <3>2, <3>3, <3>4 DEF JoinVault, EnsureVaultMember
  <2>3. ASSUME NEW p \in Cli, UNCHANGED cli
        PROVE  /\ ~(CliAt(p, "finalize") /\ cli'[p].pc = "end")
               /\ ~(CliAt(p, "member") /\ cli'[p].pc = "idle")
    BY <2>3 DEF CliAt
  <2>4. (\E s \in Service : ServiceNext(s)) \/ (\E i \in AccountId : ExpireAccount(i)) =>
          UNCHANGED cli
    BY DEF ServiceNext, Present, ReadAccount, Judge, ExpireAccount
  <2> QED
    BY <2>1, <2>2, <2>3, <2>4 DEF ServiceTokensNext, RotationDelivered, EnsureVaultRepairs
<1> QED
  BY <1>0, <1>1, TokensInitInv, TokensStepInv, KillsCounted, PTL
  DEF ServiceTokensSpec, CommandsDeliver

-----------------------------------------------------------------------------
(* Vaults and groups.                                                      *)

GroupRow == [slug : VaultSlug \cup {Idle}, name : Nat]
AdminCall == [op : AdminOps \cup {Idle},
              at : {"idle", "find", "insert", "member", "role", "write"},
              slug : VaultSlug \cup {PersonalOwner, Idle},
              id : Nat, rv : Nat, row : GroupRow]

TablesTyped ==
  /\ vaultRows \in Seq(VaultRow)
  /\ vaultMembers \subseteq (DOMAIN vaultRows) \X AdminUser
  /\ groupRows \in Seq(GroupRow)
  /\ groupMembers \subseteq GroupId \X AdminUser
  /\ granted \subseteq AdminUser \X (DOMAIN vaultRows)
  /\ adminCall \in [Admin -> AdminCall]
  /\ adminCalls \in Nat

\* What a call has read stays a row: vaults are only marked, and a deleted
\* group leaves its place.  A vault or a group is created with a slug of its
\* own, never with the slug of a personal vault.
CallRefers(c) ==
  /\ adminCall[c].at \in {"find", "insert"} /\ adminCall[c].op \in {"create", "new_group"} =>
       adminCall[c].slug \in VaultSlug
  /\ adminCall[c].at \in {"member", "role"} => adminCall[c].id \in DOMAIN vaultRows
  /\ adminCall[c].at = "write" /\ adminCall[c].op \in {"rekey", "delete"} =>
       adminCall[c].id \in DOMAIN vaultRows
  /\ adminCall[c].at = "write" /\ adminCall[c].op \in {"rename", "drop_group", "add", "remove"} =>
       adminCall[c].id \in GroupId

\* A group that is there has a slug.
GroupsNamed == \A g \in GroupId : groupRows[g] # NoGroup => groupRows[g].slug \in VaultSlug

\* The calls that may still insert a vault.  Each of them has been counted and
\* has not inserted, which bounds the table.
Creating == {c \in Admin : adminCall[c].op = "create" /\ adminCall[c].at \in {"find", "insert"}}
RowsCounted ==
  /\ IsFiniteSet(Creating)
  /\ Len(vaultRows) + Cardinality(Creating) <= adminCalls + 1
  /\ adminCalls <= MaxAdminCalls

\* The inductive invariant.
AdminInv ==
  /\ TablesTyped
  /\ \A c \in Admin : CallRefers(c)
  /\ GroupsNamed
  /\ SlugNamesOneVault
  /\ CreatorAdministers
  /\ GroupsConsistent

USE DEF GroupId

-----------------------------------------------------------------------------
\* The absent group and the absent call have their types.
LEMMA NothingTyped == NoGroup \in GroupRow /\ NoAdminCall \in AdminCall
<1>1. NoGroup \in GroupRow
  BY DEF NoGroup, GroupRow
<1> QED
  BY <1>1 DEF NoAdminCall, AdminCall

\* A call that ends leaves the others as they are.
LEMMA EndTyped ==
  ASSUME adminCall \in [Admin -> AdminCall], NEW c \in Admin, EndAdminCall(c)
  PROVE  /\ adminCall' \in [Admin -> AdminCall]
         /\ adminCall'[c] = NoAdminCall
         /\ \A d \in Admin \ {c} : adminCall'[d] = adminCall[d]
BY NothingTyped DEF EndAdminCall

LEMMA MoveOnTyped ==
  ASSUME adminCall \in [Admin -> AdminCall], NEW c \in Admin,
         NEW at \in {"insert", "write"}, MoveOn(c, at)
  PROVE  /\ adminCall' \in [Admin -> AdminCall]
         /\ adminCall'[c].at = at
         /\ adminCall'[c].op = adminCall[c].op /\ adminCall'[c].slug = adminCall[c].slug
         /\ adminCall'[c].id = adminCall[c].id
         /\ \A d \in Admin \ {c} : adminCall'[d] = adminCall[d]
BY DEF MoveOn, AdminCall

LEMMA AskTyped ==
  ASSUME adminCall \in [Admin -> AdminCall], NEW c \in Admin, NEW op \in AdminOps,
         NEW s \in VaultSlug \cup {PersonalOwner},
         adminCall' = [adminCall EXCEPT ![c] = [NoAdminCall EXCEPT !.op = op, !.at = "find", !.slug = s]]
  PROVE  /\ adminCall' \in [Admin -> AdminCall]
         /\ adminCall'[c].op = op /\ adminCall'[c].at = "find" /\ adminCall'[c].slug = s
         /\ \A d \in Admin \ {c} : adminCall'[d] = adminCall[d]
<1> DEFINE call == [NoAdminCall EXCEPT !.op = op, !.at = "find", !.slug = s]
<1>1. call \in AdminCall /\ call.op = op /\ call.at = "find" /\ call.slug = s
  BY NothingTyped DEF AdminCall
<1> QED
  BY <1>1

\* A call that has read a vault keeps its id and version.
LEMMA VaultReadTyped ==
  ASSUME adminCall \in [Admin -> AdminCall], NEW c \in Admin, NEW id \in Nat, NEW rv \in Nat,
         adminCall' = [adminCall EXCEPT ![c].at = "role", ![c].id = id, ![c].rv = rv]
  PROVE  /\ adminCall' \in [Admin -> AdminCall]
         /\ adminCall'[c].at = "role" /\ adminCall'[c].id = id
         /\ adminCall'[c].op = adminCall[c].op
         /\ \A d \in Admin \ {c} : adminCall'[d] = adminCall[d]
<1> DEFINE call == [adminCall[c] EXCEPT !.at = "role", !.id = id, !.rv = rv]
<1>1. adminCall[c] \in AdminCall
  OBVIOUS
<1>2. call \in AdminCall /\ call.at = "role" /\ call.id = id /\ call.op = adminCall[c].op
  BY <1>1 DEF AdminCall
<1>3. adminCall' = [adminCall EXCEPT ![c] = call]
  OBVIOUS
<1> QED
  BY <1>2, <1>3

\* A call that has read a group keeps its id and the row.
LEMMA GroupReadTyped ==
  ASSUME adminCall \in [Admin -> AdminCall], NEW c \in Admin, NEW id \in Nat, NEW row \in GroupRow,
         adminCall' = [adminCall EXCEPT ![c].at = "write", ![c].id = id, ![c].row = row]
  PROVE  /\ adminCall' \in [Admin -> AdminCall]
         /\ adminCall'[c].at = "write" /\ adminCall'[c].id = id
         /\ adminCall'[c].op = adminCall[c].op
         /\ \A d \in Admin \ {c} : adminCall'[d] = adminCall[d]
<1> DEFINE call == [adminCall[c] EXCEPT !.at = "write", !.id = id, !.row = row]
<1>1. adminCall[c] \in AdminCall
  OBVIOUS
<1>2. call \in AdminCall /\ call.at = "write" /\ call.id = id /\ call.op = adminCall[c].op
  BY <1>1 DEF AdminCall
<1>3. adminCall' = [adminCall EXCEPT ![c] = call]
  OBVIOUS
<1> QED
  BY <1>2, <1>3

\* The references of a call survive when the tables keep their places.
LEMMA RefersStays ==
  ASSUME NEW d, CallRefers(d), adminCall'[d] = adminCall[d],
         DOMAIN vaultRows \subseteq DOMAIN vaultRows', GroupId \subseteq GroupId'
  PROVE  CallRefers(d)'
BY DEF CallRefers

LEMMA NoCallRefers ==
  ASSUME NEW d, adminCall[d] = NoAdminCall
  PROVE  CallRefers(d)
BY DEF CallRefers, NoAdminCall

\* What a call that ends leaves of the invariant when the tables only grow.
LEMMA EndRefers ==
  ASSUME AdminInv, NEW c \in Admin, EndAdminCall(c),
         DOMAIN vaultRows \subseteq DOMAIN vaultRows', GroupId \subseteq GroupId'
  PROVE  /\ adminCall' \in [Admin -> AdminCall]
         /\ \A d \in Admin : CallRefers(d)'
<1>1. /\ adminCall' \in [Admin -> AdminCall]
      /\ adminCall'[c] = NoAdminCall
      /\ \A d \in Admin \ {c} : adminCall'[d] = adminCall[d]
  BY EndTyped DEF AdminInv, TablesTyped
<1>2. CallRefers(c)'
  BY <1>1 DEF CallRefers, NoAdminCall
<1>3. ASSUME NEW d \in Admin \ {c} PROVE CallRefers(d)'
  BY <1>1, RefersStays DEF AdminInv
<1> QED
  BY <1>1, <1>2, <1>3

\* A step that only moves calls keeps all that is said of the tables.
LEMMA TablesStay ==
  ASSUME AdminInv, UNCHANGED <<vaultTables, groupTables, granted>>,
         adminCall' \in [Admin -> AdminCall], adminCalls' \in Nat,
         \A d \in Admin : CallRefers(d)'
  PROVE  AdminInv'
<1>1. TablesTyped'
  BY DEF AdminInv, TablesTyped, vaultTables, groupTables
<1> QED
  BY <1>1 DEF AdminInv, vaultTables, groupTables, GroupsNamed, SlugNamesOneVault,
              CreatorAdministers, Administers, GroupsConsistent

\* A step that moves the call of c, which refers to rows, and no table.
LEMMA OneCallMoves ==
  ASSUME AdminInv, UNCHANGED <<vaultTables, groupTables, granted>>, adminCalls' \in Nat,
         adminCall' \in [Admin -> AdminCall], NEW c \in Admin, CallRefers(c)',
         \A d \in Admin \ {c} : adminCall'[d] = adminCall[d]
  PROVE  AdminInv'
<1>1. ASSUME NEW d \in Admin \ {c} PROVE CallRefers(d)'
  BY <1>1, RefersStays DEF AdminInv, vaultTables, groupTables
<1> QED
  BY <1>1, TablesStay

\* A vault keeps its place, its slug and its kind when its key is written or
\* it is marked deleted, and the others stay.
LEMMA RowWritten ==
  ASSUME AdminInv, NEW i \in DOMAIN vaultRows, WriteKey(i) \/ MarkDeleted(i)
  PROVE  /\ vaultRows' \in Seq(VaultRow)
         /\ DOMAIN vaultRows' = DOMAIN vaultRows /\ Len(vaultRows') = Len(vaultRows)
         /\ \A j \in DOMAIN vaultRows : vaultRows'[j].slug = vaultRows[j].slug
<1>0. vaultRows \in Seq(VaultRow) /\ vaultRows[i] \in VaultRow
  BY DEF AdminInv, TablesTyped
<1>1. vaultRows[i].key + 1 \in Nat /\ vaultRows[i].row_version + 1 \in Nat
  BY <1>0 DEF VaultRow
<1>2. ASSUME NEW row \in VaultRow, row.slug = vaultRows[i].slug,
             vaultRows' = [vaultRows EXCEPT ![i] = row]
      PROVE  /\ vaultRows' \in Seq(VaultRow)
             /\ DOMAIN vaultRows' = DOMAIN vaultRows /\ Len(vaultRows') = Len(vaultRows)
             /\ \A j \in DOMAIN vaultRows : vaultRows'[j].slug = vaultRows[j].slug
  BY <1>0, <1>2
<1>3. CASE WriteKey(i)
  <2> DEFINE row == [vaultRows[i] EXCEPT !.key = vaultRows[i].key + 1,
                                         !.row_version = vaultRows[i].row_version + 1]
  <2>1. row \in VaultRow /\ row.slug = vaultRows[i].slug
    BY <1>0, <1>1 DEF VaultRow
  <2>2. vaultRows' = [vaultRows EXCEPT ![i] = row]
    BY <1>0, <1>3 DEF WriteKey
  <2> QED
    BY <1>2, <2>1, <2>2
<1>4. CASE MarkDeleted(i)
  <2> DEFINE row == [vaultRows[i] EXCEPT !.live = FALSE,
                                         !.row_version = vaultRows[i].row_version + 1]
  <2>1. row \in VaultRow /\ row.slug = vaultRows[i].slug
    BY <1>0, <1>1 DEF VaultRow
  <2>2. vaultRows' = [vaultRows EXCEPT ![i] = row]
    BY <1>0, <1>4 DEF MarkDeleted
  <2> QED
    BY <1>2, <2>1, <2>2
<1> QED
  BY <1>3, <1>4

\* Writes to the vault a call has read, or none, and the end of the call.
LEMMA VaultWrite ==
  ASSUME AdminInv, NEW c \in Admin, NEW i \in DOMAIN vaultRows,
         WriteKey(i) \/ MarkDeleted(i) \/ UNCHANGED vaultRows, EndAdminCall(c),
         UNCHANGED <<vaultMembers, groupTables, granted, adminCalls>>
  PROVE  AdminInv'
<1>1. /\ vaultRows' \in Seq(VaultRow)
      /\ DOMAIN vaultRows' = DOMAIN vaultRows
      /\ \A j \in DOMAIN vaultRows : vaultRows'[j].slug = vaultRows[j].slug
  BY RowWritten DEF AdminInv, TablesTyped
<1>2. adminCall' \in [Admin -> AdminCall] /\ \A d \in Admin : CallRefers(d)'
  BY <1>1, EndRefers DEF groupTables
<1>3. TablesTyped'
  BY <1>1, <1>2 DEF AdminInv, TablesTyped, groupTables
<1>4. SlugNamesOneVault'
  BY <1>1 DEF AdminInv, SlugNamesOneVault
<1> QED
  BY <1>2, <1>3, <1>4 DEF AdminInv, groupTables, GroupsNamed, CreatorAdministers,
                          Administers, GroupsConsistent

-----------------------------------------------------------------------------
LEMMA AdminInitInv == VaultAdminInit => AdminInv
<1> SUFFICES ASSUME VaultAdminInit PROVE AdminInv
  OBVIOUS
<1> USE DEF VaultAdminInit
<1>1. TablesTyped
  <2>1. vaultRows[1] \in VaultRow
    BY DEF VaultRow
  <2> QED
    BY <2>1, VaultAdminAssumption, NothingTyped DEF TablesTyped
<1>2. \A c \in Admin : CallRefers(c)
  BY NoCallRefers
<1>3. GroupsNamed /\ SlugNamesOneVault /\ CreatorAdministers /\ GroupsConsistent
  BY DEF GroupsNamed, SlugNamesOneVault, CreatorAdministers, GroupsConsistent
<1> QED
  BY <1>1, <1>2, <1>3 DEF AdminInv

LEMMA AdminStepInv == AdminInv /\ [VaultAdminNext]_adminVars => AdminInv'
<1> SUFFICES ASSUME AdminInv, [VaultAdminNext]_adminVars PROVE AdminInv'
  OBVIOUS
<1> USE DEF AdminInv
<1>0. CASE UNCHANGED adminVars
  <2>1. TablesTyped' /\ \A c \in Admin : CallRefers(c)'
    BY <1>0 DEF adminVars, TablesTyped, CallRefers
  <2> QED
    BY <1>0, <2>1 DEF adminVars, GroupsNamed, SlugNamesOneVault, CreatorAdministers,
                      Administers, GroupsConsistent
<1>1. ASSUME NEW c \in Admin, NEW op \in AdminOps, NEW s \in VaultSlug \cup {PersonalOwner},
             AskAdmin(c, op, s)
      PROVE  AdminInv'
  <2>1. /\ adminCall' \in [Admin -> AdminCall] /\ adminCalls' \in Nat
        /\ adminCall'[c].op = op /\ adminCall'[c].at = "find" /\ adminCall'[c].slug = s
        /\ \A d \in Admin \ {c} : adminCall'[d] = adminCall[d]
    <3>1. adminCall \in [Admin -> AdminCall] /\ adminCalls' \in Nat
      BY <1>1 DEF AskAdmin, TablesTyped
    <3> QED
      BY <1>1, <3>1, AskTyped DEF AskAdmin
  <2>2. CallRefers(c)'
    BY <1>1, <2>1 DEF CallRefers, AskAdmin
  <2> QED
    BY <1>1, <2>1, <2>2, OneCallMoves DEF AskAdmin
<1>2. ASSUME NEW c \in Admin, CheckVaultSlug(c) PROVE AdminInv'
  <2>1. CASE EndAdminCall(c)
    BY <1>2, <2>1, EndRefers, TablesStay DEF CheckVaultSlug, TablesTyped, vaultTables, groupTables
  <2>2. CASE MoveOn(c, "insert")
    <3>1. CallRefers(c)'
      BY <1>2, <2>2, MoveOnTyped DEF CallRefers, CheckVaultSlug, Doing, TablesTyped
    <3> QED
      BY <1>2, <2>2, <3>1, MoveOnTyped, OneCallMoves DEF CheckVaultSlug, TablesTyped
  <2> QED
    BY <1>2, <2>1, <2>2 DEF CheckVaultSlug
<1>3. ASSUME NEW c \in Admin, InsertVaultRow(c) PROVE AdminInv'
  <2> DEFINE new == NewSharedVault(adminCall[c].slug)
  <2>0. adminCall[c].slug \in VaultSlug /\ new \in VaultRow
    BY <1>3 DEF CallRefers, InsertVaultRow, Doing, NewSharedVault, VaultRow
  <2>1. CASE ~SlugInsertable(adminCall[c].slug)
    BY <1>3, <2>1, EndRefers, TablesStay DEF InsertVaultRow, TablesTyped, vaultTables, groupTables
  <2>2. CASE SlugInsertable(adminCall[c].slug)
    <3>1. /\ vaultRows' = Append(vaultRows, new)
          /\ adminCall' = [adminCall EXCEPT ![c].at = "member", ![c].id = Len(vaultRows) + 1]
          /\ UNCHANGED <<vaultMembers, groupRows, groupMembers, granted, adminCalls>>
      BY <1>3, <2>2 DEF InsertVaultRow, groupTables
    <3>2. /\ vaultRows' \in Seq(VaultRow)
          /\ DOMAIN vaultRows' = DOMAIN vaultRows \cup {Len(vaultRows) + 1}
          /\ \A i \in DOMAIN vaultRows : vaultRows'[i] = vaultRows[i]
          /\ vaultRows'[Len(vaultRows) + 1] = new
      BY <2>0, <3>1 DEF TablesTyped
    <3>3. /\ adminCall' \in [Admin -> AdminCall]
          /\ adminCall'[c].at = "member" /\ adminCall'[c].id = Len(vaultRows) + 1
          /\ \A d \in Admin \ {c} : adminCall'[d] = adminCall[d]
      <4>1. Len(vaultRows) + 1 \in Nat
        BY DEF TablesTyped
      <4> QED
        BY <3>1, <4>1 DEF TablesTyped, AdminCall
    <3>4. TablesTyped'
      BY <3>1, <3>2, <3>3 DEF TablesTyped
    <3>5. \A d \in Admin : CallRefers(d)'
      <4>1. CallRefers(c)'
        BY <3>2, <3>3 DEF CallRefers
      <4>2. ASSUME NEW d \in Admin \ {c} PROVE CallRefers(d)'
        BY <3>1, <3>2, <3>3, <4>2, RefersStays
      <4> QED
        BY <4>1, <4>2
    <3>6. SlugNamesOneVault'
      BY <2>2, <3>2 DEF SlugNamesOneVault, SlugInsertable, NewSharedVault
    <3> QED
      BY <3>1, <3>4, <3>5, <3>6 DEF GroupsNamed, CreatorAdministers, Administers, GroupsConsistent
  <2> QED
    BY <2>1, <2>2
<1>4. ASSUME NEW c \in Admin, InsertVaultMember(c) PROVE AdminInv'
  <2>1. /\ adminCall[c].id \in DOMAIN vaultRows /\ UserOf[c] \in AdminUser
        /\ vaultMembers' = vaultMembers \cup {<<adminCall[c].id, UserOf[c]>>}
        /\ granted' = granted \cup {<<UserOf[c], adminCall[c].id>>}
        /\ UNCHANGED <<vaultRows, groupRows, groupMembers, adminCalls>>
    BY <1>4, VaultAdminAssumption DEF InsertVaultMember, CallRefers, Doing, groupTables
  <2>2. adminCall' \in [Admin -> AdminCall] /\ \A d \in Admin : CallRefers(d)'
    BY <1>4, <2>1, EndRefers DEF InsertVaultMember
  <2>3. TablesTyped'
    BY <2>1, <2>2 DEF TablesTyped
  <2>4. CreatorAdministers'
    <3> SUFFICES ASSUME NEW p \in granted' PROVE <<p[2], p[1]>> \in vaultMembers'
      BY DEF CreatorAdministers, Administers
    <3>1. CASE p \in granted
      BY <2>1, <3>1 DEF CreatorAdministers, Administers
    <3>2. CASE p = <<UserOf[c], adminCall[c].id>>
      BY <2>1, <3>2
    <3> QED
      BY <2>1, <3>1, <3>2
  <2> QED
    BY <2>1, <2>2, <2>3, <2>4 DEF GroupsNamed, SlugNamesOneVault, GroupsConsistent
<1>5. ASSUME NEW c \in Admin, FindVault(c) PROVE AdminInv'
  <2>1. CASE EndAdminCall(c)
    BY <1>5, <2>1, EndRefers, TablesStay DEF FindVault, TablesTyped, vaultTables, groupTables
  <2>2. ASSUME NEW i \in LiveWithSlug(adminCall[c].slug),
               adminCall' = [adminCall EXCEPT ![c].at = "role", ![c].id = i,
                                              ![c].rv = vaultRows[i].row_version]
        PROVE  AdminInv'
    <3>1. /\ adminCall' \in [Admin -> AdminCall]
          /\ adminCall'[c].at = "role" /\ adminCall'[c].id = i /\ i \in DOMAIN vaultRows
          /\ \A d \in Admin \ {c} : adminCall'[d] = adminCall[d]
      <4>1. i \in DOMAIN vaultRows /\ i \in Nat /\ vaultRows[i] \in VaultRow
        BY <2>2 DEF TablesTyped, LiveWithSlug
      <4>2. vaultRows[i].row_version \in Nat
        BY <4>1 DEF VaultRow
      <4> QED
        BY <2>2, <4>1, <4>2, VaultReadTyped DEF TablesTyped
    <3>2. CallRefers(c)'
      BY <1>5, <3>1 DEF CallRefers, FindVault, vaultTables
    <3> QED
      BY <1>5, <3>1, <3>2, OneCallMoves DEF FindVault, TablesTyped
  <2> QED
    BY <1>5, <2>1, <2>2 DEF FindVault
<1>6. ASSUME NEW c \in Admin, CheckVaultRole(c) PROVE AdminInv'
  <2>1. CASE EndAdminCall(c)
    BY <1>6, <2>1, EndRefers, TablesStay DEF CheckVaultRole, TablesTyped, vaultTables, groupTables
  <2>2. CASE MoveOn(c, "write")
    <3>1. CallRefers(c)'
      BY <1>6, <2>2, MoveOnTyped DEF CallRefers, CheckVaultRole, Doing, TablesTyped, vaultTables
    <3> QED
      BY <1>6, <2>2, <3>1, MoveOnTyped, OneCallMoves DEF CheckVaultRole, TablesTyped
  <2> QED
    BY <1>6, <2>1, <2>2 DEF CheckVaultRole
<1>7. ASSUME NEW c \in Admin, UpdateVaultKey(c) PROVE AdminInv'
  <2>1. adminCall[c].id \in DOMAIN vaultRows
    BY <1>7 DEF UpdateVaultKey, CallRefers, Doing
  <2> QED
    BY <1>7, <2>1, VaultWrite DEF UpdateVaultKey
<1>8. ASSUME NEW c \in Admin, DeleteVault(c) PROVE AdminInv'
  <2>1. adminCall[c].id \in DOMAIN vaultRows
    BY <1>8 DEF DeleteVault, CallRefers, Doing
  <2> QED
    BY <1>8, <2>1, VaultWrite DEF DeleteVault
<1>9. ASSUME NEW c \in Admin, CheckGroupSlug(c) PROVE AdminInv'
  <2>1. CASE EndAdminCall(c)
    BY <1>9, <2>1, EndRefers, TablesStay DEF CheckGroupSlug, TablesTyped, vaultTables, groupTables
  <2>2. CASE MoveOn(c, "insert")
    <3>1. CallRefers(c)'
      BY <1>9, <2>2, MoveOnTyped DEF CallRefers, CheckGroupSlug, Doing, TablesTyped
    <3> QED
      BY <1>9, <2>2, <3>1, MoveOnTyped, OneCallMoves DEF CheckGroupSlug, TablesTyped
  <2> QED
    BY <1>9, <2>1, <2>2 DEF CheckGroupSlug
<1>10. ASSUME NEW c \in Admin, InsertGroup(c) PROVE AdminInv'
  <2> DEFINE new == [slug |-> adminCall[c].slug, name |-> 1]
  <2>0. adminCall[c].slug \in VaultSlug /\ new \in GroupRow /\ new # NoGroup
    BY <1>10 DEF CallRefers, InsertGroup, Doing, NoGroup, GroupRow
  <2>1. CASE ~GroupSlugFree(adminCall[c].slug, 0)
    BY <1>10, <2>1, EndRefers, TablesStay DEF InsertGroup, TablesTyped, vaultTables, groupTables
  <2>2. CASE GroupSlugFree(adminCall[c].slug, 0)
    <3>1. /\ groupRows' = Append(groupRows, new)
          /\ UNCHANGED <<vaultRows, vaultMembers, groupMembers, granted, adminCalls>>
      BY <1>10, <2>2 DEF InsertGroup, vaultTables
    <3>2. /\ groupRows' \in Seq(GroupRow)
          /\ DOMAIN groupRows' = DOMAIN groupRows \cup {Len(groupRows) + 1}
          /\ \A g \in DOMAIN groupRows : groupRows'[g] = groupRows[g]
          /\ groupRows'[Len(groupRows) + 1] = new
      BY <2>0, <3>1 DEF TablesTyped
    <3>3. adminCall' \in [Admin -> AdminCall] /\ \A d \in Admin : CallRefers(d)'
      BY <1>10, <3>1, <3>2, EndRefers DEF InsertGroup
    <3>4. TablesTyped'
      BY <3>1, <3>2, <3>3 DEF TablesTyped
    <3>5. GroupsNamed'
      BY <2>0, <3>2 DEF GroupsNamed, NoGroup
    <3>6. \A g \in DOMAIN groupRows : groupRows[g].slug # adminCall[c].slug
      BY <2>2 DEF GroupSlugFree, GroupWithSlug, TablesTyped
    <3>7. GroupsConsistent'
      BY <2>0, <3>1, <3>2, <3>6 DEF GroupsConsistent, TablesTyped, NoGroup
    <3> QED
      BY <3>1, <3>3, <3>4, <3>5, <3>7 DEF SlugNamesOneVault, CreatorAdministers, Administers
  <2> QED
    BY <2>1, <2>2
<1>11. ASSUME NEW c \in Admin, FindGroup(c) PROVE AdminInv'
  <2>1. CASE EndAdminCall(c)
    BY <1>11, <2>1, EndRefers, TablesStay DEF FindGroup, TablesTyped, vaultTables, groupTables
  <2>2. ASSUME NEW g \in GroupWithSlug(adminCall[c].slug),
               adminCall' = [adminCall EXCEPT ![c].at = "write", ![c].id = g,
                                              ![c].row = groupRows[g]]
        PROVE  AdminInv'
    <3>1. /\ adminCall' \in [Admin -> AdminCall] /\ g \in GroupId
          /\ adminCall'[c].at = "write" /\ adminCall'[c].id = g
          /\ adminCall'[c].op = adminCall[c].op
          /\ \A d \in Admin \ {c} : adminCall'[d] = adminCall[d]
      <4>1. g \in GroupId /\ g \in Nat /\ groupRows[g] \in GroupRow
        BY <2>2 DEF TablesTyped, GroupWithSlug
      <4> QED
        BY <2>2, <4>1, GroupReadTyped DEF TablesTyped
    <3>2. CallRefers(c)'
      BY <1>11, <3>1 DEF CallRefers, FindGroup, groupTables
    <3> QED
      BY <1>11, <3>1, <3>2, OneCallMoves DEF FindGroup, TablesTyped
  <2> QED
    BY <1>11, <2>1, <2>2 DEF FindGroup
<1>12. ASSUME NEW c \in Admin, UpdateGroup(c) PROVE AdminInv'
  <2> DEFINE k == adminCall[c].id
  <2>0. k \in GroupId /\ EndAdminCall(c)
        /\ UNCHANGED <<vaultRows, vaultMembers, groupMembers, granted, adminCalls>>
    BY <1>12 DEF UpdateGroup, CallRefers, Doing, vaultTables
  <2>1. CASE UNCHANGED groupRows
    BY <2>0, <2>1, EndRefers, TablesStay DEF TablesTyped, vaultTables, groupTables
  <2>2. ASSUME NEW s \in VaultSlug, NEW n \in 1 .. 2, groupRows[k] # NoGroup, GroupSlugFree(s, k),
               groupRows' = [groupRows EXCEPT ![k] = [slug |-> s, name |-> n]]
        PROVE  AdminInv'
    <3>1. /\ groupRows' \in Seq(GroupRow)
          /\ DOMAIN groupRows' = DOMAIN groupRows
          /\ \A g \in DOMAIN groupRows \ {k} : groupRows'[g] = groupRows[g]
          /\ groupRows'[k] = [slug |-> s, name |-> n]
      <4>1. [slug |-> s, name |-> n] \in GroupRow
        BY DEF GroupRow
      <4> QED
        BY <2>0, <2>2, <4>1 DEF TablesTyped
    <3>2. adminCall' \in [Admin -> AdminCall] /\ \A d \in Admin : CallRefers(d)'
      BY <2>0, <3>1, EndRefers
    <3>3. TablesTyped'
      BY <2>0, <3>1, <3>2 DEF TablesTyped
    <3>4. GroupsNamed'
      BY <3>1 DEF GroupsNamed, NoGroup
    <3>5. \A g \in DOMAIN groupRows \ {k} : groupRows[g].slug # s
      BY <2>2 DEF GroupSlugFree, GroupWithSlug
    <3>6. GroupsConsistent'
      <4>1. groupRows'[k].slug = s /\ groupRows'[k] # NoGroup
        BY <3>1 DEF NoGroup
      <4>2. \A g, h \in GroupId' : g # h /\ groupRows'[g] # NoGroup =>
              groupRows'[g].slug # groupRows'[h].slug
        BY <2>0, <3>1, <3>5, <4>1 DEF GroupsConsistent
      <4>3. \A m \in groupMembers' : groupRows'[m[1]] # NoGroup
        BY <2>0, <3>1, <4>1 DEF GroupsConsistent, TablesTyped
      <4> QED
        BY <4>2, <4>3 DEF GroupsConsistent, NoGroup
    <3> QED
      BY <2>0, <3>2, <3>3, <3>4, <3>6 DEF SlugNamesOneVault, CreatorAdministers, Administers
  <2> QED
    BY <1>12, <2>1, <2>2 DEF UpdateGroup
<1>13. ASSUME NEW c \in Admin, DeleteGroup(c) PROVE AdminInv'
  <2> DEFINE k == adminCall[c].id
  <2>0. /\ k \in GroupId /\ EndAdminCall(c) /\ DropGroup(k)
        /\ UNCHANGED <<vaultRows, vaultMembers, granted, adminCalls>>
    BY <1>13 DEF DeleteGroup, CallRefers, Doing, vaultTables
  <2>1. /\ groupRows' \in Seq(GroupRow)
        /\ DOMAIN groupRows' = DOMAIN groupRows
        /\ \A g \in DOMAIN groupRows \ {k} : groupRows'[g] = groupRows[g]
        /\ groupRows'[k] = NoGroup
        /\ groupMembers' = {m \in groupMembers : m[1] # k}
    BY <2>0, NothingTyped DEF TablesTyped, DropGroup
  <2>2. adminCall' \in [Admin -> AdminCall] /\ \A d \in Admin : CallRefers(d)'
    BY <2>0, <2>1, EndRefers
  <2>3. TablesTyped'
    BY <2>0, <2>1, <2>2 DEF TablesTyped
  <2>4. GroupsNamed'
    BY <2>1 DEF GroupsNamed, NoGroup
  <2>5. GroupsConsistent'
    <3>1. NoGroup.slug \notin VaultSlug
      BY VaultAdminAssumption DEF NoGroup
    <3> QED
      BY <2>0, <2>1, <3>1 DEF GroupsConsistent, GroupsNamed, TablesTyped, NoGroup
  <2> QED
    BY <2>0, <2>2, <2>3, <2>4, <2>5 DEF SlugNamesOneVault, CreatorAdministers, Administers
<1>14. ASSUME NEW c \in Admin, AddGroupMember(c) \/ RemoveGroupMember(c) PROVE AdminInv'
  <2> DEFINE k == adminCall[c].id
  <2>0. /\ k \in GroupId /\ UserOf[c] \in AdminUser /\ EndAdminCall(c)
        /\ UNCHANGED <<vaultRows, vaultMembers, groupRows, granted, adminCalls>>
    BY <1>14, VaultAdminAssumption
    DEF AddGroupMember, RemoveGroupMember, CallRefers, Doing, vaultTables
  <2>1. \/ groupMembers' \subseteq groupMembers
        \/ groupMembers' = groupMembers \cup {<<k, UserOf[c]>>} /\ groupRows[k] # NoGroup
    BY <1>14 DEF AddGroupMember, RemoveGroupMember
  <2>2. adminCall' \in [Admin -> AdminCall] /\ \A d \in Admin : CallRefers(d)'
    BY <2>0, EndRefers
  <2>3. TablesTyped'
    BY <2>0, <2>1, <2>2 DEF TablesTyped
  <2>4. GroupsConsistent'
    BY <2>0, <2>1 DEF GroupsConsistent
  <2> QED
    BY <2>0, <2>2, <2>3, <2>4 DEF GroupsNamed, SlugNamesOneVault, CreatorAdministers, Administers
<1>15. CASE StopServer
  <2>1. adminCall' \in [Admin -> AdminCall] /\ \A d \in Admin : adminCall'[d] = NoAdminCall
    BY <1>15, NothingTyped DEF StopServer
  <2>2. \A d \in Admin : CallRefers(d)'
    BY <2>1 DEF CallRefers, NoAdminCall
  <2> QED
    BY <1>15, <2>1, <2>2, TablesStay DEF StopServer, TablesTyped
<1> QED
  BY <1>0, <1>1, <1>2, <1>3, <1>4, <1>5, <1>6, <1>7, <1>8, <1>9, <1>10, <1>11, <1>12, <1>13,
     <1>14, <1>15 DEF VaultAdminNext, AdminStep

-----------------------------------------------------------------------------
\* Vaults are inserted by calls that were counted, once each.

LEMMA CountStays ==
  ASSUME AdminInv, RowsCounted, Creating' \subseteq Creating,
         Len(vaultRows') = Len(vaultRows), adminCalls' = adminCalls
  PROVE  RowsCounted'
<1>1. IsFiniteSet(Creating') /\ Cardinality(Creating') <= Cardinality(Creating)
  BY FS_Subset DEF RowsCounted
<1>2. Cardinality(Creating') \in Nat /\ Cardinality(Creating) \in Nat
  BY <1>1, FS_CardinalityType DEF RowsCounted
<1> QED
  BY <1>1, <1>2 DEF RowsCounted, AdminInv, TablesTyped

LEMMA CountInit == VaultAdminInit => RowsCounted
<1> SUFFICES ASSUME VaultAdminInit PROVE RowsCounted
  OBVIOUS
<1>1. Creating = {}
  BY DEF VaultAdminInit, Creating, NoAdminCall
<1> QED
  BY <1>1, FS_EmptySet, VaultAdminAssumption DEF VaultAdminInit, RowsCounted

LEMMA CountStep == AdminInv /\ RowsCounted /\ [VaultAdminNext]_adminVars => RowsCounted'
<1> SUFFICES ASSUME AdminInv, RowsCounted, [VaultAdminNext]_adminVars PROVE RowsCounted'
  OBVIOUS
<1> USE DEF AdminInv
<1>t. adminCall \in [Admin -> AdminCall]
  BY DEF TablesTyped
<1>c. Cardinality(Creating) \in Nat /\ Len(vaultRows) \in Nat /\ adminCalls \in Nat
      /\ MaxAdminCalls \in Nat
  BY FS_CardinalityType, VaultAdminAssumption DEF RowsCounted, TablesTyped
<1>0. CASE UNCHANGED adminVars
  BY <1>0, CountStays DEF adminVars, Creating
<1>1. ASSUME NEW c \in Admin, NEW op \in AdminOps, NEW s \in VaultSlug \cup {PersonalOwner},
             AskAdmin(c, op, s)
      PROVE  RowsCounted'
  <2>1. \A d \in Admin \ {c} : adminCall'[d] = adminCall[d]
    BY <1>1, <1>t DEF AskAdmin
  <2>2. Creating' \subseteq Creating \cup {c}
    BY <2>1 DEF Creating
  <2>3. /\ IsFiniteSet(Creating \cup {c})
        /\ Cardinality(Creating \cup {c}) <= Cardinality(Creating) + 1
        /\ Cardinality(Creating \cup {c}) \in Nat
    <3>1. /\ IsFiniteSet(Creating \cup {c})
          /\ Cardinality(Creating \cup {c}) =
               IF c \in Creating THEN Cardinality(Creating) ELSE Cardinality(Creating) + 1
      BY FS_AddElement, Zenon DEF RowsCounted
    <3> QED
      BY <1>c, <3>1
  <2>4. /\ IsFiniteSet(Creating') /\ Cardinality(Creating') \in Nat
        /\ Cardinality(Creating') <= Cardinality(Creating \cup {c})
    BY <2>2, <2>3, FS_Subset, FS_CardinalityType
  <2>5. /\ vaultRows' = vaultRows /\ adminCalls' = adminCalls + 1
        /\ adminCalls < MaxAdminCalls
    BY <1>1 DEF AskAdmin, vaultTables
  <2> QED
    BY <1>c, <2>3, <2>4, <2>5 DEF RowsCounted
<1>2. ASSUME NEW c \in Admin, InsertVaultRow(c), SlugInsertable(adminCall[c].slug)
      PROVE  RowsCounted'
  <2>1. /\ adminCall'[c].at = "member" /\ \A d \in Admin \ {c} : adminCall'[d] = adminCall[d]
        /\ adminCalls' = adminCalls /\ Len(vaultRows') = Len(vaultRows) + 1
    <3>1. adminCall[c] \in AdminCall
      BY <1>t
    <3>2. adminCall'[c].at = "member" /\ \A d \in Admin \ {c} : adminCall'[d] = adminCall[d]
      BY <1>2, <1>t, <3>1 DEF InsertVaultRow, AdminCall
    <3>3. vaultRows \in Seq(VaultRow) /\ vaultRows' = Append(vaultRows, NewSharedVault(adminCall[c].slug))
      BY <1>2 DEF InsertVaultRow, TablesTyped
    <3>4. Len(vaultRows') = Len(vaultRows) + 1
      BY <3>3
    <3> QED
      BY <1>2, <3>2, <3>4 DEF InsertVaultRow
  <2>2. c \in Creating /\ Creating' = Creating \ {c}
    BY <1>2, <2>1 DEF Creating, InsertVaultRow, Doing
  <2>3. IsFiniteSet(Creating') /\ Cardinality(Creating') = Cardinality(Creating) - 1
    BY <2>2, FS_RemoveElement DEF RowsCounted
  <2> QED
    BY <1>c, <2>1, <2>3 DEF RowsCounted
<1>3. ASSUME NEW c \in Admin, AdminStep(c),
             ~(InsertVaultRow(c) /\ SlugInsertable(adminCall[c].slug))
      PROVE  RowsCounted'
  <2>1. Len(vaultRows') = Len(vaultRows) /\ adminCalls' = adminCalls
    <3>1. ASSUME UpdateVaultKey(c) \/ DeleteVault(c)
          PROVE  Len(vaultRows') = Len(vaultRows)
      <4>1. adminCall[c].id \in DOMAIN vaultRows
        BY <3>1 DEF UpdateVaultKey, DeleteVault, CallRefers, Doing
      <4> QED
        BY <3>1, <4>1, RowWritten DEF UpdateVaultKey, DeleteVault
    <3> QED
      BY <1>3, <3>1 DEF AdminStep, CheckVaultSlug, InsertVaultRow, InsertVaultMember, FindVault,
        CheckVaultRole, UpdateVaultKey, DeleteVault, CheckGroupSlug, InsertGroup, FindGroup,
        UpdateGroup, DeleteGroup, AddGroupMember, RemoveGroupMember, vaultTables
  <2>2. \A d \in Admin \ {c} : adminCall'[d] = adminCall[d]
    BY <1>3, <1>t DEF AdminStep, CheckVaultSlug, InsertVaultRow, InsertVaultMember, FindVault,
      CheckVaultRole, UpdateVaultKey, DeleteVault, CheckGroupSlug, InsertGroup, FindGroup,
      UpdateGroup, DeleteGroup, AddGroupMember, RemoveGroupMember, EndAdminCall, MoveOn
  <2>3. c \in Creating' => c \in Creating
    <3>1. CASE CheckVaultSlug(c)
      BY <3>1 DEF CheckVaultSlug, Creating, Doing
    <3>2. CASE EndAdminCall(c)
      BY <3>2, <1>t, EndTyped DEF Creating, NoAdminCall
    <3>3. CASE CheckVaultRole(c) /\ ~EndAdminCall(c)
      BY <3>3, <1>t, MoveOnTyped DEF CheckVaultRole, Creating
    <3>4. CASE CheckGroupSlug(c) /\ ~EndAdminCall(c)
      BY <3>4, <1>t, MoveOnTyped DEF CheckGroupSlug, Doing, Creating
    <3>5. CASE (FindVault(c) \/ FindGroup(c)) /\ ~EndAdminCall(c)
      <4>1. adminCall[c] \in AdminCall
        BY <1>t
      <4>2. adminCall'[c].at \in {"role", "write"}
        <5>1. CASE FindVault(c)
          <6>1. PICK i : adminCall' = [adminCall EXCEPT ![c].at = "role", ![c].id = i,
                                                        ![c].rv = vaultRows[i].row_version]
            BY <3>5, <5>1 DEF FindVault
          <6> QED
            BY <1>t, <4>1, <6>1 DEF AdminCall
        <5>2. CASE FindGroup(c)
          <6>1. PICK g : adminCall' = [adminCall EXCEPT ![c].at = "write", ![c].id = g,
                                                        ![c].row = groupRows[g]]
            BY <3>5, <5>2 DEF FindGroup
          <6> QED
            BY <1>t, <4>1, <6>1 DEF AdminCall
        <5> QED
          BY <3>5, <5>1, <5>2
      <4> QED
        BY <4>2 DEF Creating
    <3> QED
      BY <1>3, <3>1, <3>2, <3>3, <3>4, <3>5 DEF AdminStep, InsertVaultRow, InsertVaultMember,
        UpdateVaultKey, DeleteVault, InsertGroup, UpdateGroup, DeleteGroup, AddGroupMember,
        RemoveGroupMember
  <2>4. Creating' \subseteq Creating
    BY <2>2, <2>3 DEF Creating
  <2> QED
    BY <2>1, <2>4, CountStays
<1>4. CASE StopServer
  <2>1. Creating' = {} /\ Len(vaultRows') = Len(vaultRows) /\ adminCalls' = adminCalls
    BY <1>4 DEF StopServer, Creating, NoAdminCall, vaultTables
  <2> QED
    BY <2>1, CountStays
<1> QED
  BY <1>0, <1>1, <1>2, <1>3, <1>4 DEF VaultAdminNext, AdminStep

-----------------------------------------------------------------------------
\* Vaults, their members, groups and their members keep their types and refer
\* to rows, and there is never more than one vault per call of create_vault
\* beside the personal one.
THEOREM AdminTypeCorrect == VaultAdminSpec => []VaultAdminTypeOK
<1>1. AdminInv /\ RowsCounted => VaultAdminTypeOK
  <2> SUFFICES ASSUME AdminInv, RowsCounted PROVE VaultAdminTypeOK
    OBVIOUS
  <2>1. Cardinality(Creating) \in Nat /\ Len(vaultRows) \in Nat /\ adminCalls \in Nat
        /\ MaxAdminCalls \in Nat /\ MaxVaultRows \in Nat /\ MaxVaultRows > MaxAdminCalls
    BY FS_CardinalityType, VaultAdminAssumption DEF RowsCounted, AdminInv, TablesTyped
  <2>2. Len(vaultRows) <= MaxVaultRows
    BY <2>1 DEF RowsCounted
  <2> QED
    BY <2>2 DEF VaultAdminTypeOK, AdminInv, TablesTyped, GroupRow
<1> QED
  BY <1>1, AdminInitInv, AdminStepInv, CountInit, CountStep, PTL DEF VaultAdminSpec

\* A slug names one vault for ever, whoever was told that a vault is created
\* administers it, two groups never share a slug and no member outlives its
\* group: for every number of callers whose handlers read first and write
\* later (create_vault, delete_vault, update_vault_key, the handlers of groups)
\* and wherever the server stops between two of their statements.
THEOREM VaultsAndGroups == VaultAdminSpec => []VaultsAndGroupsHold
<1>1. AdminInv => VaultsAndGroupsHold
  BY DEF AdminInv, VaultsAndGroupsHold
<1> QED
  BY <1>1, AdminInitInv, AdminStepInv, PTL DEF VaultAdminSpec
=============================================================================
