------------------------------- MODULE SharedSync -------------------------------
(***************************************************************************)
(* A device that follows a shared vault: sync_shared_pull on the server    *)
(* (domains/sync/service.rs) and the loop that applies its answers, as the *)
(* desktop has it (services/sync.rs, sync_helpers.rs) and as the client    *)
(* library has it (zann-client/src/sync.rs, sync_helpers.rs).              *)
(*                                                                         *)
(* The pull is no transaction: the page of the feed with the contents of   *)
(* the items, the list of the items when the feed is empty, the end of the *)
(* feed and the history of each item are queries of their own, and others  *)
(* write between them.  They write with sync_shared_push, which is one     *)
(* transaction (SyncPush), or with the shared items API, whose row and     *)
(* feed entry are two statements (SharedVault).                            *)
(***************************************************************************)
EXTENDS Naturals, Sequences, FiniteSets

CONSTANTS
  FollowedItem,     \* the items of the vault
  FollowedPath,     \* their paths
  FollowerKinds,    \* subset of {"desktop", "library"}
  PullLimit,        \* changes per page
  VersionsKept,     \* ITEM_HISTORY_LIMIT and HISTORY_LIMIT
  MaxVaultWrites,
  MaxHandlers,      \* handlers of the shared items API at a time
  MaxMishaps        \* kills, failing requests and cursor resets

ASSUME SharedSyncAssumption ==
  /\ FollowerKinds \subseteq {"desktop", "library"}
  /\ {PullLimit, VersionsKept} \subseteq Nat \ {0}
  /\ {MaxVaultWrites, MaxHandlers, MaxMishaps} \subseteq Nat

VARIABLES
  vaultRow,      \* table items of the server
  vaultHistory,  \* its table item_history: the versions kept per item
  vaultFeed,     \* its table changes; the position is seq
  unannounced,   \* what is written but not yet announced, in the order of the writes
  follower,      \* the kind of the client
  cached,        \* items_cache of the client; seq is the column version
  cachedHistory, \* item_history of the client: per item, copies per version
  cursorKept,    \* sync_cursors of the client
  pull,          \* the sync that runs
  overtaken,     \* a pull of an empty feed was overtaken by a write, or a write by
                 \* the announcement of a later one
  historyLost,   \* the server could not read the history of a change
  pathsHad,      \* the paths an item has had on the server
  vaultWrites, mishaps

followVars == <<vaultRow, vaultHistory, vaultFeed, unannounced, follower, cached, cachedHistory,
                cursorKept, pull, overtaken, historyLost, pathsHad, vaultWrites, mishaps>>
serverSide == <<vaultRow, vaultHistory, vaultFeed, unannounced, pathsHad, vaultWrites>>
clientSide == <<cached, cachedHistory, cursorKept>>
followBounds == <<follower, overtaken, historyLost, mishaps>>

Status == {"none", "live", "gone"}
SomePath == CHOOSE p \in FollowedPath : TRUE

\* A change on its way: a row of the feed joined with its item.
PulledChange == [item : FollowedItem, delete : BOOLEAN, seq : Nat, value : Nat,
                 path : FollowedPath, history : SUBSET Nat]

NotCached == [status |-> "none", value |-> 0, path |-> SomePath, seq |-> 0]

NoPull == [at |-> "idle", cursor |-> 0, changes |-> <<>>, more |-> FALSE,
           read |-> 0]

\* Among the active items of the cache a path is used once
\* (idx_items_cache_storage_vault_path).
SharedSyncTypeOK ==
  /\ vaultRow \in [FollowedItem -> [status : Status, value : Nat, path : FollowedPath]]
  /\ vaultHistory \in [FollowedItem -> SUBSET Nat]
  /\ vaultFeed \in Seq([item : FollowedItem, delete : BOOLEAN])
  /\ unannounced \in Seq([item : FollowedItem, delete : BOOLEAN])
  /\ cached \in [FollowedItem -> [status : Status, value : Nat, path : FollowedPath, seq : Nat]]
  /\ \A i, j \in FollowedItem :
       cached[i].status = "live" /\ cached[j].status = "live" /\ cached[i].path = cached[j].path
         => i = j
  /\ cursorKept \in 0 .. Len(vaultFeed)
  /\ pull.at \in {"idle", "ask", "list", "end", "history", "item", "merge"}
  /\ pull.changes \in Seq(PulledChange)

\* The values and versions of the items; only their order counts.
FirstWrite == IF MaxVaultWrites > 2 THEN MaxVaultWrites - 2 ELSE 1

SomeItem == CHOOSE i \in FollowedItem : TRUE

RowAt(value, path) == [status |-> "live", value |-> value, path |-> path]

\* One item was created, its handler of the API may still have to announce it,
\* and the device has nothing.
NewVault ==
  /\ \E announced \in BOOLEAN :
       LET first == <<[item |-> SomeItem, delete |-> FALSE]>>
       IN  /\ vaultFeed = IF announced THEN first ELSE <<>>
           /\ unannounced = IF announced THEN <<>> ELSE first
  /\ vaultRow = [i \in FollowedItem |->
       IF i = SomeItem THEN RowAt(FirstWrite, SomePath)
       ELSE [status |-> "none", value |-> 0, path |-> SomePath]]
  /\ cached = [i \in FollowedItem |-> NotCached]
  /\ cursorKept = 0 /\ vaultWrites = FirstWrite /\ mishaps = 0

\* Every item was pushed to a path of its own and pulled by the device, which
\* meets no mishap any more.
SharedInUse ==
  /\ \E order \in [FollowedItem -> 1 .. Cardinality(FollowedItem)],
        at \in [FollowedItem -> FollowedPath] :
       /\ \A i, j \in FollowedItem : i # j => order[i] # order[j] /\ at[i] # at[j]
       /\ order[SomeItem] = 1 /\ at[SomeItem] = SomePath
       /\ vaultRow = [i \in FollowedItem |-> RowAt(order[i], at[i])]
       /\ vaultFeed = [k \in 1 .. Cardinality(FollowedItem) |->
            [item |-> CHOOSE i \in FollowedItem : order[i] = k, delete |-> FALSE]]
       /\ cached = [i \in FollowedItem |->
            [status |-> "live", value |-> order[i], path |-> at[i], seq |-> order[i]]]
  /\ unannounced = <<>>
  /\ cursorKept = Len(vaultFeed) /\ vaultWrites = Len(vaultFeed) /\ mishaps = MaxMishaps

SharedSyncInit ==
  /\ NewVault \/ SharedInUse
  /\ vaultHistory = [i \in FollowedItem |-> {vaultRow[i].value} \ {0}]
  /\ pathsHad = [i \in FollowedItem |->
       IF vaultRow[i].status = "live" THEN {vaultRow[i].path} ELSE {}]
  /\ cachedHistory = [i \in FollowedItem |-> [v \in 1 .. MaxVaultWrites |->
       IF cached[i].status = "live" /\ v = cached[i].value THEN 1 ELSE 0]]
  /\ follower \in FollowerKinds
  /\ pull = NoPull /\ overtaken = FALSE /\ historyLost = FALSE

-----------------------------------------------------------------------------
(* The writers.  A write makes the next version of the vault's items.      *)

\* An active row of the server has its path for itself.
PathOpen(i, p) ==
  \A j \in FollowedItem \ {i} : vaultRow[j].status = "live" => vaultRow[j].path # p

\* The newest versions of a set.
NewestVersions(versions) ==
  {v \in versions : Cardinality({w \in versions : w > v}) < VersionsKept}

\* build_shared_push_changes: a delete goes without a payload.
PushBody(i, p, delete) ==
  [item |-> i, path |-> p, delete |-> delete, value |-> IF delete THEN 0 ELSE vaultWrites + 1]

\* The row of an item after a create or restore, an update or a move, a delete.
WrittenRow(body) ==
  IF body.delete THEN [vaultRow[body.item] EXCEPT !.status = "gone"]
  ELSE [status |-> "live", value |-> body.value, path |-> body.path]

\* The feed was empty when it was queried, and its end is not read yet.
Snapshot == pull.at \in {"list", "end"}

WriteVault(i, p, delete) ==
  /\ vaultWrites < MaxVaultWrites
  /\ IF delete THEN vaultRow[i].status = "live" /\ p = vaultRow[i].path ELSE PathOpen(i, p)
  /\ vaultRow' = [vaultRow EXCEPT ![i] = WrittenRow(PushBody(i, p, delete))]
  /\ vaultHistory' = [vaultHistory EXCEPT ![i] = NewestVersions(@ \cup {vaultWrites + 1})]
  /\ pathsHad' = [pathsHad EXCEPT ![i] = @ \cup {p}]
  /\ vaultWrites' = vaultWrites + 1

\* sync_shared_push of another device: sync_push writes the row, its history
\* and the feed in one transaction.
SharedPush(i, p, delete) ==
  /\ WriteVault(i, p, delete)
  /\ vaultFeed' = Append(vaultFeed, [item |-> i, delete |-> delete])
  /\ overtaken' = (overtaken \/ Snapshot \/ unannounced # <<>>)
  /\ UNCHANGED <<unannounced, clientSide, pull, follower, historyLost, mishaps>>

\* A handler of the shared items API has written the row ...
ApiWrite(i, p, delete) ==
  /\ WriteVault(i, p, delete)
  /\ Len(unannounced) < MaxHandlers
  /\ unannounced' = Append(unannounced, [item |-> i, delete |-> delete])
  /\ UNCHANGED <<vaultFeed, clientSide, pull, followBounds>>

\* ... and announces it, unless it was dropped in between.
ApiAnnounce(k) ==
  /\ vaultFeed' = Append(vaultFeed, unannounced[k])
  /\ unannounced' = SubSeq(unannounced, 1, k - 1) \o SubSeq(unannounced, k + 1, Len(unannounced))
  /\ overtaken' = (overtaken \/ Snapshot \/ k > 1)
  /\ UNCHANGED <<vaultRow, vaultHistory, pathsHad, vaultWrites, clientSide, pull, follower,
                 historyLost, mishaps>>

-----------------------------------------------------------------------------
(* sync_shared_pull.                                                       *)

PullAt(at) == pull.at = at

\* remote_sync gets to the vault: the stored cursor, or none.
BeginFollow(kind) ==
  /\ PullAt("idle") /\ follower = kind
  /\ pull' = [NoPull EXCEPT !.at = "ask", !.cursor = cursorKept]
  /\ UNCHANGED <<serverSide, clientSide, followBounds>>
DesktopFollows == BeginFollow("desktop")
LibraryFollows == BeginFollow("library")

\* The change for an item as it is now; a delete carries no payload.
ChangeOf(i, delete, seq) ==
  [item |-> i, delete |-> delete, seq |-> seq,
   value |-> IF delete THEN 0 ELSE vaultRow[i].value, path |-> vaultRow[i].path, history |-> {}]

\* A row of the feed goes by its operation, whatever became of the item since.
FeedChange(seq) == ChangeOf(vaultFeed[seq].item, vaultFeed[seq].delete, seq)

\* An item of the list goes by its deletion mark.
ListedChange(i) == ChangeOf(i, vaultRow[i].status = "gone", 0)

\* LIMIT limit + 1, truncated: the seq of the last change of the page.
PageEnd(cursor) ==
  IF Len(vaultFeed) > cursor + PullLimit THEN cursor + PullLimit ELSE Len(vaultFeed)

\* The page: changes after the cursor joined with the items.
QueryFeed ==
  /\ PullAt("ask")
  /\ LET since == pull.cursor
         last == PageEnd(since)
         size == IF last > since + PullLimit THEN PullLimit ELSE last - since
     IN  pull' = IF since = 0 /\ last = 0
                 THEN [pull EXCEPT !.at = "list"]
                 ELSE [pull EXCEPT !.at = "history", !.cursor = last,
                         !.more = Len(vaultFeed) > since + PullLimit,
                         !.changes = [k \in 1 .. size |-> FeedChange(since + k)]]
  /\ UNCHANGED <<serverSide, clientSide, followBounds>>

\* No cursor and no feed: every row of the vault, deleted ones too.
Existing == {i \in FollowedItem : vaultRow[i].status # "none"}
ListItems ==
  /\ PullAt("list")
  /\ \E order \in [1 .. Cardinality(Existing) -> Existing] :
       /\ \A k, l \in DOMAIN order : order[k] = order[l] => k = l
       /\ pull' = [pull EXCEPT !.at = "end",
            !.changes = [k \in DOMAIN order |-> ListedChange(order[k])]]
  /\ UNCHANGED <<serverSide, clientSide, followBounds>>

\* last_seq_for_vault, read after the list, is the seq of all of them.
ReadLastSeq ==
  /\ PullAt("end")
  /\ pull' = [pull EXCEPT !.at = "history", !.cursor = Len(vaultFeed), !.more = FALSE,
                !.changes = [k \in DOMAIN @ |-> [@[k] EXCEPT !.seq = Len(vaultFeed)]]]
  /\ UNCHANGED <<serverSide, clientSide, followBounds>>

\* list_by_item_limit for the next change; an error leaves its history empty.
ReadItemHistory(fails) ==
  /\ PullAt("history") /\ pull.read < Len(pull.changes)
  /\ fails => mishaps < MaxMishaps
  /\ LET k == pull.read + 1
     IN  pull' = [pull EXCEPT !.read = k, !.changes[k].history =
                    IF fails THEN {} ELSE NewestVersions(vaultHistory[pull.changes[k].item])]
  /\ mishaps' = IF fails THEN mishaps + 1 ELSE mishaps
  /\ historyLost' = (historyLost \/ fails)
  /\ UNCHANGED <<serverSide, clientSide, follower, overtaken>>

\* The answer arrives.
AnswerPull ==
  /\ PullAt("history") /\ pull.read = Len(pull.changes)
  /\ pull' = [pull EXCEPT !.at = "item", !.read = 0]
  /\ UNCHANGED <<serverSide, clientSide, followBounds>>

-----------------------------------------------------------------------------
(* The client.                                                             *)

\* apply_shared_pull_change passes over older changes, on the desktop ...
DesktopOutdated(local, change) == local.status # "none" /\ local.seq > change.seq

\* ... and in the library over those it has, too.
LibraryOutdated(local, change) == local.status # "none" /\ local.seq >= change.seq

\* The desktop goes by the operation: a deleted item it does not have stays
\* unknown.
DesktopApplied(local, change) ==
  IF ~change.delete
  THEN [status |-> "live", value |-> change.value, path |-> change.path, seq |-> change.seq]
  ELSE IF local.status = "none" THEN local
  ELSE [local EXCEPT !.status = "gone", !.seq = change.seq]

\* The library expects deleted_at, which the server does not send: a deleted item
\* becomes an empty one.
LibraryApplied(local, change) ==
  [status |-> "live", value |-> change.value, path |-> change.path, seq |-> change.seq]

\* INSERT and UPDATE of items_cache fail when another active item has the path.
CacheAccepts(i, row) ==
  row.status = "live" =>
    \A j \in FollowedItem \ {i} : cached[j].status = "live" => cached[j].path # row.path

\* An outdated change is passed over, and so is one that fails
\* (unwrap_or(false), is_ok); the others go on with the history.
ApplyItem(outdated, row) ==
  /\ PullAt("item") /\ pull.changes # <<>>
  /\ LET i == Head(pull.changes).item
     IN  IF outdated \/ ~CacheAccepts(i, row)
         THEN /\ pull' = [pull EXCEPT !.changes = Tail(@)]
              /\ UNCHANGED cached
         ELSE /\ pull' = [pull EXCEPT !.at = "merge"]
              /\ cached' = [cached EXCEPT ![i] = row]
  /\ UNCHANGED <<serverSide, cachedHistory, cursorKept, followBounds>>

DesktopApplies ==
  /\ follower = "desktop"
  /\ LET change == Head(pull.changes)
         local == cached[change.item]
     IN  ApplyItem(DesktopOutdated(local, change), DesktopApplied(local, change))
LibraryApplies ==
  /\ follower = "library"
  /\ LET change == Head(pull.changes)
         local == cached[change.item]
     IN  ApplyItem(LibraryOutdated(local, change), LibraryApplied(local, change))

\* Rows of the cache's history with a newer version.
NewerRows(copies, v) ==
  LET UpTo[w \in 0 .. MaxVaultWrites] ==
        IF w = 0 THEN 0 ELSE UpTo[w - 1] + (IF w > v THEN copies[w] ELSE 0)
  IN  UpTo[MaxVaultWrites]

\* DELETE ... ORDER BY version DESC OFFSET keep
Trimmed(copies) ==
  [v \in DOMAIN copies |->
     LET newer == NewerRows(copies, v)
     IN  IF newer >= VersionsKept THEN 0
         ELSE IF copies[v] > VersionsKept - newer THEN VersionsKept - newer ELSE copies[v]]

\* merge_by_item inserts every entry again: only pending rows are looked for
\* by their version.
MergeByItem(copies, versions) ==
  Trimmed([v \in DOMAIN copies |-> copies[v] + (IF v \in versions THEN 1 ELSE 0)])

\* replace_by_item starts from nothing.
ReplaceByItem(copies, versions) == [v \in DOMAIN copies |-> IF v \in versions THEN 1 ELSE 0]

\* The desktop leaves the history alone when none was sent.
DesktopHistory(copies, versions) ==
  IF versions = {} THEN copies ELSE MergeByItem(copies, versions)
LibraryHistory(copies, versions) == ReplaceByItem(copies, versions)

\* apply_shared_history_payloads
MergeHistory(history) ==
  /\ PullAt("merge")
  /\ cachedHistory' = [cachedHistory EXCEPT ![Head(pull.changes).item] = history]
  /\ pull' = [pull EXCEPT !.at = "item", !.changes = Tail(@)]
  /\ UNCHANGED <<serverSide, cached, cursorKept, followBounds>>
DesktopMerges ==
  /\ follower = "desktop"
  /\ LET change == Head(pull.changes)
     IN  MergeHistory(DesktopHistory(cachedHistory[change.item], change.history))
LibraryMerges ==
  /\ follower = "library"
  /\ LET change == Head(pull.changes)
     IN  MergeHistory(LibraryHistory(cachedHistory[change.item], change.history))

\* All changes are applied and there are more: the next page.
NextPage ==
  /\ PullAt("item") /\ pull.changes = <<>> /\ pull.more
  /\ pull' = [pull EXCEPT !.at = "ask"]
  /\ UNCHANGED <<serverSide, clientSide, followBounds>>

\* The last page is applied: the cursor is stored.
StoreCursor(kind) ==
  /\ PullAt("item") /\ pull.changes = <<>> /\ ~pull.more /\ follower = kind
  /\ pull' = NoPull /\ cursorKept' = pull.cursor
  /\ UNCHANGED <<serverSide, cached, cachedHistory, followBounds>>
DesktopStoresCursor == StoreCursor("desktop")
LibraryStoresCursor == StoreCursor("library")

\* A request fails.  The desktop gives the sync up, the library leaves the
\* loop and stores the cursor it has come to.
PullFails(kind, cursor) ==
  /\ follower = kind
  /\ pull.at \in {"ask", "list", "end", "history"} /\ mishaps < MaxMishaps
  /\ mishaps' = mishaps + 1
  /\ pull' = NoPull
  /\ cursorKept' = cursor
  /\ UNCHANGED <<serverSide, cached, cachedHistory, follower, overtaken, historyLost>>
DesktopPullFails == PullFails("desktop", cursorKept)
LibraryPullFails == PullFails("library", IF PullAt("ask") THEN pull.cursor ELSE cursorKept)

\* The application is killed while it syncs.
KillFollower ==
  /\ ~PullAt("idle") /\ mishaps < MaxMishaps
  /\ mishaps' = mishaps + 1
  /\ pull' = NoPull
  /\ UNCHANGED <<serverSide, clientSide, follower, overtaken, historyLost>>

\* sync_reset_cursor: everything is pulled again.
ResetCursor ==
  /\ PullAt("idle") /\ mishaps < MaxMishaps /\ cursorKept > 0
  /\ mishaps' = mishaps + 1
  /\ cursorKept' = 0
  /\ UNCHANGED <<serverSide, cached, cachedHistory, pull, follower, overtaken, historyLost>>

\* remote_reset: the cursor, the items and the vault with its history.
ResetStorage ==
  /\ PullAt("idle") /\ mishaps < MaxMishaps /\ cursorKept > 0
  /\ mishaps' = mishaps + 1
  /\ cached' = [i \in FollowedItem |-> NotCached]
  /\ cachedHistory' = [i \in FollowedItem |-> [v \in 1 .. MaxVaultWrites |-> 0]]
  /\ cursorKept' = 0
  /\ UNCHANGED <<serverSide, pull, follower, overtaken, historyLost>>

SharedSyncNext ==
  \/ \E i \in FollowedItem, p \in FollowedPath, delete \in BOOLEAN :
       SharedPush(i, p, delete) \/ ApiWrite(i, p, delete)
  \/ \E k \in DOMAIN unannounced : ApiAnnounce(k)
  \/ DesktopFollows \/ LibraryFollows \/ QueryFeed \/ ListItems \/ ReadLastSeq
  \/ \E fails \in BOOLEAN : ReadItemHistory(fails)
  \/ AnswerPull \/ DesktopApplies \/ LibraryApplies \/ DesktopMerges \/ LibraryMerges
  \/ NextPage \/ DesktopStoresCursor \/ LibraryStoresCursor
  \/ DesktopPullFails \/ LibraryPullFails \/ KillFollower \/ ResetCursor \/ ResetStorage

-----------------------------------------------------------------------------
(* Properties.                                                             *)

\* The device is at rest and has the feed up to its end, which announces every write.
CaughtUp ==
  /\ PullAt("idle") /\ cursorKept = Len(vaultFeed) /\ cursorKept > 0
  /\ unannounced = <<>> /\ ~overtaken

\* The device does not have an item as the server has it.
StaleCopy(i) ==
  \/ /\ vaultRow[i].status = "live"
     /\ \/ cached[i].status # "live"
        \/ cached[i].value # vaultRow[i].value
        \/ cached[i].path # vaultRow[i].path
  \/ vaultRow[i].status = "gone" /\ cached[i].status = "live"

\* Two items have had two paths in common: each may have taken the other's.
PathsExchanged ==
  \E i, j \in FollowedItem : i # j /\ Cardinality(pathsHad[i] \cap pathsHad[j]) > 1

\* A device that has read the feed to its end shows every item as the server
\* has it: pages that others write between, kills between two changes, a
\* cursor that was reset and changes the cache refuses for a path leave nothing
\* behind, as long as no two items exchange their paths.  (For the library as
\* long as nothing is deleted: it keeps deleted items, and they keep their paths
\* from their successors.)
SharedViewCurrent ==
  /\ CaughtUp /\ ~PathsExchanged
  /\ follower = "library" => \A k \in DOMAIN vaultFeed : ~vaultFeed[k].delete
  => \A i \in FollowedItem : ~StaleCopy(i)

\* The history of an item that a caught-up desktop shows as the server has it
\* has the newest version of the server and no more rows than it may keep, even
\* if the application was killed between the item and its history.
SharedHistoryNewest ==
  CaughtUp /\ follower = "desktop" /\ ~historyLost =>
    \A i \in FollowedItem :
      /\ NewerRows(cachedHistory[i], 0) <= VersionsKept
      /\ cached[i].status = "live" /\ ~StaleCopy(i) =>
           \E v \in vaultHistory[i] :
             /\ \A w \in vaultHistory[i] : w <= v
             /\ cachedHistory[i][v] > 0

\* A device that has read the feed to its end has the items and their history
\* as the server has them.
SharedCopyCurrent == SharedViewCurrent /\ SharedHistoryNewest
=============================================================================
