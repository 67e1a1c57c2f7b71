------------------------------ MODULE SharedVault ------------------------------
(***************************************************************************)
(* The items of one shared, server encrypted vault and the three doors to  *)
(* them: the secrets API (domains/secrets/service.rs), the shared items    *)
(* API (domains/vaults/http/v1/shared/handlers/items.rs) and the set-field *)
(* command (cli/provision.rs).  None of them uses a transaction: a handler *)
(* reads the row, writes the history, writes the row if its row_version is *)
(* the one it read, and announces the change, and other handlers run       *)
(* between these statements.  Failing INSERTs into history and changes are *)
(* logged and the handler goes on.                                         *)
(*                                                                         *)
(* A payload is the value (numbered in the order of making) and the policy *)
(* of a secret; what the shared items API and the command write is not the *)
(* JSON of a secret.  The permission to do the operation is that of        *)
(* AccessRules; the handlers are those of callers who have it.             *)
(***************************************************************************)
EXTENDS Naturals, Sequences, FiniteSets

CONSTANTS
  SharedCaller,    \* concurrent requests and commands
  SecretName,      \* paths without their leading slash
  SecretPolicy,    \* names of password policies that are configured
  DefaultPolicy,   \* secret_default_policy
  NotASecret,      \* the policy of a payload that is not a secret's
  SharedMenus,     \* sets of operations to interleave
  HistoryKeep,     \* ITEM_HISTORY_LIMIT
  PageLimit,       \* limit of a page
  MaxSharedRows, MaxSharedCalls, MaxSharedFaults

ASSUME SharedVaultAssumption ==
  /\ DefaultPolicy \in SecretPolicy /\ NotASecret \notin SecretPolicy
  /\ HistoryKeep \in Nat \ {0, 1} /\ PageLimit \in Nat \ {0}
  /\ {MaxSharedRows, MaxSharedCalls, MaxSharedFaults} \subseteq Nat

VARIABLES
  itemRows,      \* the rows of the vault in table items, in the order of their ids
  itemHistory,   \* table item_history
  itemFeed,      \* table changes
  sharedCall,    \* per caller, the handler that runs
  told,          \* the records that were answered
  listing,       \* a client that reads list_shared_items page by page
  sharedNow,     \* the clock
  sharedMenu, valuesMade, sharedCalls, historyFaults, feedFaults

sharedVars == <<itemRows, itemHistory, itemFeed, sharedCall, told, listing, sharedNow,
                sharedMenu, valuesMade, sharedCalls, historyFaults, feedFaults>>
sharedTables == <<itemRows, itemHistory, itemFeed, sharedNow>>
sharedFaults == <<historyFaults, feedFaults>>

SharedOps == {"get", "ensure", "set", "rotate", "create", "update", "move", "delete", "field"}

\* normalize_secret_path puts a slash in front, normalize_path takes it away.
SecretPath(n) == <<"/", n>>
PlainPath(n) == <<n>>
StoredPath == {SecretPath(n) : n \in SecretName} \cup {PlainPath(n) : n \in SecretName}

SecretPayload == [value : Nat, policy : SecretPolicy \cup {NotASecret}]

ItemRow == [path : StoredPath, kind : {"secret", "item"}, payload : SecretPayload,
            version : Nat, row_version : Nat, active : BOOLEAN, updated_at : Nat]

Nothing == [value |-> 0, policy |-> NotASecret]

NoItem == [path |-> <<>>, kind |-> "item", payload |-> Nothing, version |-> 0,
           row_version |-> 0, active |-> FALSE, updated_at |-> 0]

NoShared == [op |-> "none", at |-> "idle", names |-> <<>>, policy |-> NotASecret, id |-> 0,
             row |-> NoItem, payload |-> Nothing]

NoListing == [on |-> FALSE, cursor |-> <<>>, ids |-> <<>>, untouched |-> {}]

\* Among the active rows a path is used once (idx_items_vault_path_active).
SharedVaultTypeOK ==
  /\ itemRows \in Seq(ItemRow) /\ Len(itemRows) <= MaxSharedRows
  /\ \A i, j \in DOMAIN itemRows :
       itemRows[i].active /\ itemRows[j].active /\ itemRows[i].path = itemRows[j].path => i = j
  /\ itemHistory \subseteq [item : DOMAIN itemRows, version : Nat, payload : SecretPayload]
  /\ \A h, k \in itemHistory : h.item = k.item /\ h.version = k.version => h = k
  /\ itemFeed \subseteq [item : DOMAIN itemRows, version : Nat]
  /\ sharedCall \in [SharedCaller ->
       [op : SharedOps \cup {"none"},
        at : {"idle", "lookup", "history", "prune", "write", "insert", "reread", "made",
              "announce"},
        names : Seq(SecretName), policy : SecretPolicy \cup {NotASecret}, id : Nat,
        row : ItemRow \cup {NoItem}, payload : SecretPayload]]

\* The vault is empty, or holds a secret and an item written at the same time.
SharedVaultInit ==
  /\ \E n \in SecretName, full \in BOOLEAN :
       itemRows = IF full
         THEN << [path |-> SecretPath(n), kind |-> "secret", version |-> 1, row_version |-> 1,
                  payload |-> [value |-> 1, policy |-> DefaultPolicy], active |-> TRUE,
                  updated_at |-> 1],
                 [path |-> PlainPath(n), kind |-> "item", version |-> 1, row_version |-> 1,
                  payload |-> [value |-> 1, policy |-> NotASecret], active |-> TRUE,
                  updated_at |-> 1] >>
         ELSE <<>>
  /\ itemHistory = {[item |-> i, version |-> 1, payload |-> itemRows[i].payload] :
                      i \in DOMAIN itemRows}
  /\ itemFeed = {[item |-> i, version |-> 1] : i \in DOMAIN itemRows}
  /\ sharedCall = [c \in SharedCaller |-> NoShared]
  /\ told = {}
  /\ listing = NoListing
  /\ sharedNow = 1 /\ valuesMade = 1
  /\ sharedMenu \in SharedMenus
  /\ sharedCalls = 0 /\ historyFaults = 0 /\ feedFaults = 0

-----------------------------------------------------------------------------
(* Repositories.                                                           *)

\* get_by_vault_path: any row with the path, deleted ones too.
RowsAt(p) == {i \in DOMAIN itemRows : itemRows[i].path = p}

\* Faulty: the handler's own look at the path is relied on.
PathInsertableAlways(p, i) == TRUE

\* idx_items_vault_path_active: no other active row has the path.
PathInsertable(p, i) == \A j \in RowsAt(p) \ {i} : ~itemRows[j].active

\* ItemHistoryRepo::create: idx_item_history_item_version refuses a second
\* entry for a version.
HistoryWith(i, v, payload) ==
  IF \E h \in itemHistory : h.item = i /\ h.version = v THEN itemHistory
  ELSE itemHistory \cup {[item |-> i, version |-> v, payload |-> payload]}

\* prune_by_item: all but the newest HistoryKeep versions.
HistoryPruned(i) ==
  {h \in itemHistory :
     h.item = i => Cardinality({k \in itemHistory : k.item = i /\ k.version > h.version})
                     < HistoryKeep}

\* list_by_item_limit, get_by_item_version: what list_shared_versions and
\* get_shared_version show of the row's history.
VersionsListed(i) ==
  {h.version : h \in {h \in itemHistory :
     h.item = i /\ Cardinality({k \in itemHistory : k.item = i /\ k.version > h.version})
                     < HistoryKeep}}

\* Faulty: WHERE id alone.
RowUnchangedById(c) == TRUE

\* ItemRepo::update: WHERE id AND row_version.
RowUnchanged(c) == itemRows[sharedCall[c].id].row_version = sharedCall[c].row.row_version

-----------------------------------------------------------------------------
(* Calls.                                                                  *)

InShared(c, at) == sharedCall[c].at = at
GotoShared(c, at) == sharedCall' = [sharedCall EXCEPT ![c].at = at]

\* The handler answers.  A batch goes on with its next path, whatever became
\* of this one.
Finish(c) ==
  sharedCall' = [sharedCall EXCEPT ![c] =
    IF Len(@.names) > 1
    THEN [NoShared EXCEPT !.op = sharedCall[c].op, !.at = "lookup",
            !.names = Tail(sharedCall[c].names), !.policy = sharedCall[c].policy]
    ELSE NoShared]

Tell(i, version, payload) ==
  told' = told \cup {[item |-> i, version |-> version, payload |-> payload]}

\* type_id is "secret" and the row is active; then the payload is decoded.
IsSecret(i) == itemRows[i].kind = "secret" /\ itemRows[i].active
Decodes(i) == itemRows[i].payload.policy # NotASecret

\* get_secret, ensure_secret, set_secret, rotate_secret, batch_ensure and
\* batch_get begin: authorize_vault_access, ensure_server_encryption.
BeginSecretCall(c, op, names, policy) ==
  /\ InShared(c, "idle") /\ op \in sharedMenu /\ sharedCalls < MaxSharedCalls
  /\ op \in {"get", "ensure", "set", "rotate"}
  /\ Len(names) > 1 => op \in {"get", "ensure"}
  /\ op = "get" => policy = NotASecret
  /\ sharedCalls' = sharedCalls + 1
  /\ sharedCall' = [sharedCall EXCEPT ![c] =
       [NoShared EXCEPT !.op = op, !.at = "lookup", !.names = names, !.policy = policy]]
  /\ UNCHANGED <<sharedTables, told, listing, sharedMenu, valuesMade, sharedFaults>>

\* What the shared items API encrypts is the caller's JSON; it never is the
\* JSON of a secret.
ItemPayload(value) == [value |-> value, policy |-> NotASecret]

\* A handler of the shared items API reads the row by its id, whether it is
\* deleted or not.
BeginItemCall(c, op, i, n, payload) ==
  /\ InShared(c, "idle") /\ op \in sharedMenu /\ sharedCalls < MaxSharedCalls
  /\ sharedCalls' = sharedCalls + 1
  /\ sharedCall' = [sharedCall EXCEPT ![c] =
       [NoShared EXCEPT !.op = op, !.at = "history", !.names = <<n>>, !.id = i,
          !.row = itemRows[i], !.payload = payload]]
  /\ UNCHANGED <<sharedTables, told, listing, sharedMenu, sharedFaults>>

\* update_shared_item; with a path in the request it is a "move".
BeginUpdate(c, op, i, n) ==
  /\ op \in {"update", "move"}
  /\ BeginItemCall(c, op, i, n, ItemPayload(valuesMade + 1))
  /\ valuesMade' = valuesMade + 1

\* delete_shared_item
BeginDelete(c, i, n) ==
  /\ BeginItemCall(c, "delete", i, n, itemRows[i].payload)
  /\ UNCHANGED valuesMade

\* create_shared_item
BeginCreate(c, n) ==
  /\ InShared(c, "idle") /\ "create" \in sharedMenu /\ sharedCalls < MaxSharedCalls
  /\ sharedCalls' = sharedCalls + 1
  /\ valuesMade' = valuesMade + 1
  /\ sharedCall' = [sharedCall EXCEPT ![c] =
       [NoShared EXCEPT !.op = "create", !.at = "insert", !.names = <<n>>,
          !.payload = ItemPayload(valuesMade + 1)]]
  /\ UNCHANGED <<sharedTables, told, listing, sharedMenu, sharedFaults>>

\* provision set-field: the item is found by its path.
BeginField(c, n) ==
  /\ InShared(c, "idle") /\ "field" \in sharedMenu /\ sharedCalls < MaxSharedCalls
  /\ sharedCalls' = sharedCalls + 1
  /\ sharedCall' = [sharedCall EXCEPT ![c] =
       [NoShared EXCEPT !.op = "field", !.at = "lookup", !.names = <<n>>]]
  /\ UNCHANGED <<sharedTables, told, listing, sharedMenu, valuesMade, sharedFaults>>

PathOf(c) ==
  LET n == Head(sharedCall[c].names)
  IN  IF sharedCall[c].op \in {"ensure", "get", "set", "rotate"} THEN SecretPath(n)
      ELSE PlainPath(n)

\* resolve_policy_name
PolicyOr(c, other) == IF sharedCall[c].policy = NotASecret THEN other ELSE sharedCall[c].policy

\* The handler has the row and a new payload for it, or a payload for a new row.
Replace(c, i, payload) ==
  sharedCall' = [sharedCall EXCEPT ![c].at = "history", ![c].id = i, ![c].row = itemRows[i],
                                   ![c].payload = payload]
MakeRow(c, payload) ==
  sharedCall' = [sharedCall EXCEPT ![c].at = "insert", ![c].payload = payload]

\* get_secret
LookupGet(c) ==
  /\ InShared(c, "lookup") /\ sharedCall[c].op = "get"
  /\ \/ /\ RowsAt(PathOf(c)) = {}
        /\ UNCHANGED told
     \/ \E i \in RowsAt(PathOf(c)) :
          IF IsSecret(i) /\ Decodes(i) THEN Tell(i, itemRows[i].version, itemRows[i].payload)
          ELSE UNCHANGED told
  /\ Finish(c)
  /\ UNCHANGED <<sharedTables, listing, sharedMenu, valuesMade, sharedCalls, sharedFaults>>

\* The secret that is there has the policy of the request.
SamePolicy(c, i) == itemRows[i].payload.policy = PolicyOr(c, DefaultPolicy)

\* The row that is there is the answer, unless the path is in use for something
\* else, the payload does not decode or the secret is not the one wanted.
AnswerExisting(c, i, wanted) ==
  /\ IF IsSecret(i) /\ Decodes(i) /\ wanted
     THEN Tell(i, itemRows[i].version, itemRows[i].payload)
     ELSE UNCHANGED told
  /\ Finish(c)

LookupEnsure(c) ==
  /\ InShared(c, "lookup") /\ sharedCall[c].op = "ensure"
  /\ \/ \E i \in RowsAt(PathOf(c)) : AnswerExisting(c, i, SamePolicy(c, i)) /\ UNCHANGED valuesMade
     \/ /\ RowsAt(PathOf(c)) = {}
        /\ valuesMade' = valuesMade + 1
        /\ MakeRow(c, [value |-> valuesMade + 1, policy |-> PolicyOr(c, DefaultPolicy)])
        /\ UNCHANGED told
  /\ UNCHANGED <<sharedTables, listing, sharedMenu, sharedCalls, sharedFaults>>

\* set_secret with the value of the row or with another one; no policy in the
\* request keeps that of the row.
LookupSet(c) ==
  /\ InShared(c, "lookup") /\ sharedCall[c].op = "set"
  /\ \/ \E i \in RowsAt(PathOf(c)) :
          LET row == itemRows[i]
              policy == PolicyOr(c, row.payload.policy)
          IN  IF ~IsSecret(i) \/ ~Decodes(i)
              THEN Finish(c) /\ UNCHANGED <<told, valuesMade>>
              ELSE \/ /\ policy = row.payload.policy
                      /\ Tell(i, row.version, row.payload) /\ Finish(c)
                      /\ UNCHANGED valuesMade
                   \/ /\ valuesMade' = valuesMade + 1
                      /\ Replace(c, i, [value |-> valuesMade + 1, policy |-> policy])
                      /\ UNCHANGED told
     \/ /\ RowsAt(PathOf(c)) = {}
        /\ valuesMade' = valuesMade + 1
        /\ MakeRow(c, [value |-> valuesMade + 1, policy |-> PolicyOr(c, DefaultPolicy)])
        /\ UNCHANGED told
  /\ UNCHANGED <<sharedTables, listing, sharedMenu, sharedCalls, sharedFaults>>

\* rotate_secret does not decode the payload it replaces.
LookupRotate(c) ==
  /\ InShared(c, "lookup") /\ sharedCall[c].op = "rotate"
  /\ \/ /\ RowsAt(PathOf(c)) = {}
        /\ Finish(c) /\ UNCHANGED valuesMade
     \/ \E i \in RowsAt(PathOf(c)) :
          IF IsSecret(i)
          THEN /\ valuesMade' = valuesMade + 1
               /\ Replace(c, i, [value |-> valuesMade + 1,
                                 policy |-> PolicyOr(c, DefaultPolicy)])
          ELSE Finish(c) /\ UNCHANGED valuesMade
  /\ UNCHANGED <<sharedTables, told, listing, sharedMenu, sharedCalls, sharedFaults>>

\* set-field: a field is put into the payload of the item; a payload with the
\* field is left as it is.
LookupField(c) ==
  /\ InShared(c, "lookup") /\ sharedCall[c].op = "field"
  /\ LET fresh == ItemPayload(valuesMade + 1)
     IN  \/ \E i \in RowsAt(PathOf(c)) :
              \/ Finish(c) /\ UNCHANGED valuesMade
              \/ /\ itemRows[i].active
                 /\ valuesMade' = valuesMade + 1 /\ Replace(c, i, fresh)
         \/ /\ RowsAt(PathOf(c)) = {}
            /\ valuesMade' = valuesMade + 1 /\ MakeRow(c, fresh)
  /\ UNCHANGED <<sharedTables, told, listing, sharedMenu, sharedCalls, sharedFaults>>

\* updated_at of a write; nothing but the listing looks at it.
Times == IF "list" \in sharedMenu THEN {sharedNow, sharedNow + 1} ELSE {sharedNow}

\* The first version of a row.
MadeRow(c, kind, t) ==
  [path |-> PathOf(c), payload |-> sharedCall[c].payload, version |-> 1, kind |-> kind,
   row_version |-> 1, active |-> TRUE, updated_at |-> t]

\* ItemRepo::create; a handler whose path is in use by now goes on with Lost.
InsertRow(c, kind, t, Lost) ==
  /\ InShared(c, "insert")
  /\ LET i == Len(itemRows) + 1
     IN  IF PathInsertable(PathOf(c), i)
         THEN /\ i <= MaxSharedRows
              /\ itemRows' = Append(itemRows, MadeRow(c, kind, t))
              /\ sharedNow' = t
              /\ sharedCall' = [sharedCall EXCEPT ![c].at = "made", ![c].id = i]
         ELSE Lost /\ UNCHANGED <<itemRows, sharedNow>>
  /\ UNCHANGED <<itemHistory, itemFeed, told, listing, sharedMenu, valuesMade, sharedCalls,
                 sharedFaults>>

\* ensure_secret and set_secret look again when the path is in use,
\* create_shared_item and set-field fail.
InsertSecret(c, t) ==
  sharedCall[c].op \in {"ensure", "set"} /\ InsertRow(c, "secret", t, GotoShared(c, "reread"))
InsertItem(c, t) ==
  sharedCall[c].op = "create" /\ InsertRow(c, "item", t, Finish(c))
InsertFieldItem(c, t) ==
  sharedCall[c].op = "field" /\ InsertRow(c, "item", t, Finish(c))

\* The handler whose INSERT was refused answers with the row that is there
\* now; ensure_secret compares the policies once more, set_secret does not.
Reread(c, op, wanted) ==
  /\ InShared(c, "reread") /\ sharedCall[c].op = op
  /\ \/ \E i \in RowsAt(PathOf(c)) : AnswerExisting(c, i, i \in wanted)
     \/ RowsAt(PathOf(c)) = {} /\ Finish(c) /\ UNCHANGED told
  /\ UNCHANGED <<sharedTables, listing, sharedMenu, valuesMade, sharedCalls, sharedFaults>>
RereadEnsure(c) == Reread(c, "ensure", {i \in DOMAIN itemRows : SamePolicy(c, i)})
RereadSet(c) == Reread(c, "set", DOMAIN itemRows)

\* ItemHistoryRepo::create; a failing INSERT is logged.
WriteHistory(c, at, version, payload, next, fails) ==
  /\ InShared(c, at)
  /\ fails => historyFaults + feedFaults < MaxSharedFaults
  /\ historyFaults' = IF fails THEN historyFaults + 1 ELSE historyFaults
  /\ itemHistory' = IF fails THEN itemHistory
                    ELSE HistoryWith(sharedCall[c].id, version, payload)
  /\ GotoShared(c, next)
  /\ UNCHANGED <<itemRows, itemFeed, sharedNow, told, listing, sharedMenu, valuesMade,
                 sharedCalls, feedFaults>>

\* A row that was made has its own version in the history; the others the one
\* that is about to be replaced, which update_shared_item prunes at once.
HistoryOfSecret(c, fails) ==
  /\ sharedCall[c].op \in {"ensure", "set"}
  /\ WriteHistory(c, "made", 1, sharedCall[c].payload, "announce", fails)
HistoryOfMade(c, fails) ==
  /\ sharedCall[c].op \in {"create", "field"}
  /\ WriteHistory(c, "made", 1, sharedCall[c].payload, "announce", fails)
HistoryOfReplaced(c, fails) ==
  /\ sharedCall[c].op # "delete"
  /\ WriteHistory(c, "history", sharedCall[c].row.version, sharedCall[c].row.payload,
                  IF sharedCall[c].op \in {"update", "move"} THEN "prune" ELSE "write", fails)
HistoryOfDeleted(c, fails) ==
  /\ sharedCall[c].op = "delete"
  /\ WriteHistory(c, "history", sharedCall[c].row.version, sharedCall[c].row.payload, "write",
                  fails)

\* prune_by_item: before the row is written in update_shared_item, after it in
\* set-field.
PruneHistory(c) ==
  /\ InShared(c, "prune")
  /\ itemHistory' = HistoryPruned(sharedCall[c].id)
  /\ GotoShared(c, IF sharedCall[c].op = "field" THEN "announce" ELSE "write")
  /\ UNCHANGED <<itemRows, itemFeed, sharedNow, told, listing, sharedMenu, valuesMade,
                 sharedCalls, sharedFaults>>

\* All the columns the handler read are written, its changes among them.
ReplacedRow(c, t) ==
  [sharedCall[c].row EXCEPT !.payload = sharedCall[c].payload, !.version = @ + 1,
     !.row_version = @ + 1, !.updated_at = t,
     !.path = IF sharedCall[c].op = "move" THEN PathOf(c) ELSE @]

\* The tombstone keeps path and payload.
TombstoneOf(c, t) == [ReplacedRow(c, t) EXCEPT !.active = FALSE]

\* ItemRepo::update: no row affected is a conflict, a path that is in use an
\* error; both end the handler.
UpdateRow(c, row, next) ==
  /\ InShared(c, "write")
  /\ LET i == sharedCall[c].id
     IN  IF RowUnchanged(c) /\ (row.active => PathInsertable(row.path, i))
         THEN /\ itemRows' = [itemRows EXCEPT ![i] = row]
              /\ sharedNow' = row.updated_at
              /\ listing' = [listing EXCEPT !.untouched = @ \ {i}]
              /\ GotoShared(c, next)
         ELSE /\ Finish(c)
              /\ UNCHANGED <<itemRows, sharedNow, listing>>
  /\ UNCHANGED <<itemHistory, itemFeed, told, sharedMenu, valuesMade, sharedCalls, sharedFaults>>

WriteRow(c, t) ==
  /\ sharedCall[c].op # "delete"
  /\ UpdateRow(c, ReplacedRow(c, t), IF sharedCall[c].op = "field" THEN "prune" ELSE "announce")
WriteTombstone(c, t) ==
  sharedCall[c].op = "delete" /\ UpdateRow(c, TombstoneOf(c, t), "announce")

\* The version the handler has written.
WrittenVersion(c) == sharedCall[c].row.version + 1

AnnouncedVersion(c) == WrittenVersion(c)

\* ChangeRepo::create, which may fail; then the answer.
AnnounceShared(c, ops, fails) ==
  /\ InShared(c, "announce") /\ sharedCall[c].op \in ops
  /\ fails => historyFaults + feedFaults < MaxSharedFaults
  /\ feedFaults' = IF fails THEN feedFaults + 1 ELSE feedFaults
  /\ itemFeed' = IF fails THEN itemFeed
                 ELSE itemFeed \cup {[item |-> sharedCall[c].id, version |-> AnnouncedVersion(c)]}
  /\ Finish(c)
  /\ UNCHANGED <<itemRows, itemHistory, sharedNow, listing, sharedMenu, valuesMade, sharedCalls,
                 historyFaults>>

\* The record, the new item or the new version is the answer; a deletion and
\* the command answer without the payload.
TellWritten(c) == Tell(sharedCall[c].id, WrittenVersion(c), sharedCall[c].payload)
AnnounceEnsured(c, fails) == AnnounceShared(c, {"ensure"}, fails) /\ TellWritten(c)
AnnounceSet(c, fails) == AnnounceShared(c, {"set"}, fails) /\ TellWritten(c)
AnnounceRotated(c, fails) == AnnounceShared(c, {"rotate"}, fails) /\ TellWritten(c)
AnnounceCreated(c, fails) == AnnounceShared(c, {"create"}, fails) /\ TellWritten(c)
AnnounceUpdated(c, fails) == AnnounceShared(c, {"update", "move"}, fails) /\ TellWritten(c)
AnnounceDeleted(c, fails) == AnnounceShared(c, {"delete"}, fails) /\ UNCHANGED told
AnnounceField(c, fails) == AnnounceShared(c, {"field"}, fails) /\ UNCHANGED told

\* The server stops, or the client is gone and the handler is dropped.
DropShared(c) ==
  /\ ~InShared(c, "idle") /\ historyFaults + feedFaults < MaxSharedFaults
  /\ feedFaults' = feedFaults + 1
  /\ sharedCall' = [sharedCall EXCEPT ![c] = NoShared]
  /\ UNCHANGED <<sharedTables, told, listing, sharedMenu, valuesMade, sharedCalls, historyFaults>>

\* get_shared_item shows a row, a deleted one too; get_shared_version an entry
\* of its history.
ReadShared(i, version, payload) ==
  /\ "read" \in sharedMenu /\ sharedCalls < MaxSharedCalls
  /\ sharedCalls' = sharedCalls + 1
  /\ Tell(i, version, payload)
  /\ UNCHANGED <<sharedTables, sharedCall, listing, sharedMenu, valuesMade, sharedFaults>>
GetSharedItem(i) == ReadShared(i, itemRows[i].version, itemRows[i].payload)
GetSharedVersion(h) == ReadShared(h.item, h.version, h.payload)

-----------------------------------------------------------------------------
(* list_shared_items: pages in the order of updated_at and id, both        *)
(* descending; the cursor is the last row of the page before.              *)

Before(a, b) ==
  \/ itemRows[a].updated_at > itemRows[b].updated_at
  \/ itemRows[a].updated_at = itemRows[b].updated_at /\ a > b

\* cursor_allows
CursorAllows(cursor, i) ==
  \/ cursor = <<>>
  \/ itemRows[i].updated_at < cursor[1]
  \/ itemRows[i].updated_at = cursor[1] /\ i < cursor[2]

ListBegin ==
  /\ ~listing.on /\ "list" \in sharedMenu /\ listing.ids = <<>>
  /\ listing' = [on |-> TRUE, cursor |-> <<>>, ids |-> <<>>,
                 untouched |-> {i \in DOMAIN itemRows : itemRows[i].active}]
  /\ UNCHANGED <<sharedTables, sharedCall, told, sharedMenu, valuesMade, sharedCalls, sharedFaults>>

\* One request: the page, and a cursor if there are more rows.
ListSharedPage ==
  /\ listing.on
  /\ LET rest == {i \in DOMAIN itemRows : itemRows[i].active /\ CursorAllows(listing.cursor, i)}
         n == IF Cardinality(rest) < PageLimit THEN Cardinality(rest) ELSE PageLimit
         page == CHOOSE s \in [1 .. n -> rest] :
                   \A k \in 1 .. n : Cardinality({i \in rest : Before(i, s[k])}) = k - 1
     IN  listing' = [listing EXCEPT
           !.on = Cardinality(rest) > PageLimit,
           !.cursor = IF n > 0 THEN <<itemRows[page[n]].updated_at, page[n]>> ELSE @,
           !.ids = @ \o page]
  /\ UNCHANGED <<sharedTables, sharedCall, told, sharedMenu, valuesMade, sharedCalls, sharedFaults>>

-----------------------------------------------------------------------------
SharedStep(c) ==
  \/ LookupGet(c) \/ LookupEnsure(c) \/ LookupSet(c) \/ LookupRotate(c) \/ LookupField(c)
  \/ RereadEnsure(c) \/ RereadSet(c) \/ PruneHistory(c)
  \/ \E t \in Times :
       \/ InsertSecret(c, t) \/ InsertItem(c, t) \/ InsertFieldItem(c, t)
       \/ WriteRow(c, t) \/ WriteTombstone(c, t)
  \/ \E fails \in BOOLEAN :
       \/ HistoryOfSecret(c, fails) \/ HistoryOfMade(c, fails)
       \/ HistoryOfReplaced(c, fails) \/ HistoryOfDeleted(c, fails)
       \/ AnnounceEnsured(c, fails) \/ AnnounceSet(c, fails) \/ AnnounceRotated(c, fails)
       \/ AnnounceCreated(c, fails) \/ AnnounceUpdated(c, fails)
       \/ AnnounceDeleted(c, fails) \/ AnnounceField(c, fails)

NameLists == {<<n>> : n \in SecretName} \cup (SecretName \X SecretName)

SharedBegin(c) ==
  \/ \E op \in SharedOps, names \in NameLists, p \in SecretPolicy \cup {NotASecret} :
       BeginSecretCall(c, op, names, p)
  \/ \E i \in DOMAIN itemRows, n \in SecretName :
       \/ \E op \in SharedOps : BeginUpdate(c, op, i, n)
       \/ BeginDelete(c, i, n)
  \/ \E n \in SecretName : BeginCreate(c, n) \/ BeginField(c, n)

SharedVaultNext ==
  \/ \E c \in SharedCaller : SharedBegin(c) \/ SharedStep(c) \/ DropShared(c)
  \/ \E i \in DOMAIN itemRows : GetSharedItem(i)
  \/ \E h \in itemHistory : GetSharedVersion(h)
  \/ ListBegin \/ ListSharedPage

SharedVaultSpec == SharedVaultInit /\ [][SharedVaultNext]_sharedVars

-----------------------------------------------------------------------------
(* Properties.                                                             *)

\* What a caller was told stays true: the version it was told of has the
\* payload it was told, in the row or in the history, until HistoryKeep newer
\* versions have replaced it.  Handlers that raced for the row, lost the
\* INSERT to another one or were dropped do not change that, as long as no
\* INSERT into the history fails.
ToldIsKept ==
  historyFaults = 0 =>
    \A r \in told :
      \/ itemRows[r.item].version = r.version /\ itemRows[r.item].payload = r.payload
      \/ r \in itemHistory
      \/ r.version + HistoryKeep <= itemRows[r.item].version

\* When no handler runs and none was dropped, the current version of every
\* row is in the feed that devices sync from.
QuietFeedIsComplete ==
  feedFaults = 0 /\ (\A c \in SharedCaller : InShared(c, "idle")) =>
    \A i \in DOMAIN itemRows : [item |-> i, version |-> itemRows[i].version] \in itemFeed

\* A client that reads all pages sees every row that is not written in the
\* meantime exactly once, also where rows have the same updated_at.
PagingComplete ==
  listing.ids # <<>> /\ ~listing.on =>
    \A i \in listing.untouched :
      Cardinality({k \in DOMAIN listing.ids : listing.ids[k] = i}) = 1

\* The version a row had before its last change can be looked at.
LastVersionListed ==
  historyFaults = 0 =>
    \A i \in DOMAIN itemRows :
      itemRows[i].version > 1 => itemRows[i].version - 1 \in VersionsListed(i)

\* What the doors of a shared vault serve is true: the versions callers were
\* told of, the one before the last change, a listing read page by page, and
\* the feed when nobody writes (ItemHistoryRepo::create and prune_by_item
\* between handlers of all three doors, list_shared_items).
AnswersAreTrue == ToldIsKept /\ LastVersionListed /\ PagingComplete /\ QuietFeedIsComplete
================================================================================
