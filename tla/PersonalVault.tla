---------------------------- MODULE PersonalVault ----------------------------
(***************************************************************************)
(* The personal vault of one user on several devices, from the login that  *)
(* makes the vault (auth/helpers.rs) to the first sync that gives it a key *)
(* and the pushes under that key (desktop services/sync.rs, vaults.rs and  *)
(* sync_helpers.rs; zann-client/src/sync.rs does the same).  The server    *)
(* knows no key until a device makes one: two requests and several writes  *)
(* to the local database, between which other devices run and the          *)
(* application can be killed.                                              *)
(*                                                                         *)
(* A key is a number in the order of making, 0 for none.  The devices have *)
(* the same master key.  The slug of the vault is made of the user's id    *)
(* and UNIQUE, so the vault of a user is made once in the life of a        *)
(* database.  The epoch counts the databases: it is the fingerprint of the *)
(* server, and the id of the vault and the access tokens belong to one.    *)
(***************************************************************************)
EXTENDS Naturals, FiniteSets

CONSTANTS
  Desk,          \* the user's devices
  MaxSyncs,      \* syncs of one device
  MaxEdits,
  MaxTroubles      \* kills, resets and other databases behind the address

ASSUME PersonalVaultAssumption ==
  {MaxSyncs, MaxEdits, MaxTroubles} \subseteq Nat

VARIABLES
  epoch,       \* which database the server has
  remoteVault, \* its row of the vault: there, and the key
  itemKeys,    \* keys of the payloads that were pushed to it
  desk,        \* per device: session, local rows and the sync that runs
  keysMade, edits, deskKills, personalResets,
  raced        \* a device looked for the key while another was making one

deskVars == <<epoch, remoteVault, itemKeys, desk, keysMade, edits, deskKills,
              personalResets, raced>>
remoteVars == <<epoch, remoteVault, itemKeys>>
deskBounds == <<edits, deskKills, personalResets>>

RemoteVault == [state : {"absent", "live", "deleted"}, key : Nat, of : Nat]

\* session: the database that gave the token, 0 for none; rows: local_vaults;
\* pending: the vaults with queued changes; known: the stored fingerprint;
\* of the sync that runs: the token, the fingerprint and the vault that were
\* read, the key that was made, and what was queued when it began.
Desktop ==
  [session : Nat, rows : SUBSET [of : Nat, key : Nat], pending : SUBSET Nat, known : Nat,
   pc : {"idle", "fingerprint", "wipe", "list", "ensure", "key", "put", "keep", "push"},
   token : Nat, read : Nat, seen : RemoteVault, fresh : Nat, before : SUBSET Nat, syncs : Nat]

\* The local database has one row for each vault, and a key that was made.
PersonalVaultTypeOK ==
  /\ epoch \in 1 .. MaxTroubles + 1
  /\ remoteVault \in RemoteVault
  /\ itemKeys \subseteq 1 .. keysMade
  /\ \A d \in Desk :
       /\ desk[d] \in Desktop
       /\ \A a, b \in desk[d].rows : a.of = b.of => a = b
       /\ \A a \in desk[d].rows : a.key \in 0 .. keysMade
  /\ raced \in BOOLEAN

Absent(e) == [state |-> "absent", key |-> 0, of |-> e]

PersonalVaultInit ==
  /\ epoch = 1
  /\ remoteVault = Absent(1)
  /\ itemKeys = {}
  /\ desk = [d \in Desk |->
       [session |-> 0, rows |-> {}, pending |-> {}, known |-> 0, pc |-> "idle", token |-> 0,
        read |-> 0, seen |-> Absent(1), fresh |-> 0, before |-> {}, syncs |-> 0]]
  /\ keysMade = 0 /\ edits = 0 /\ deskKills = 0 /\ personalResets = 0
  /\ raced = FALSE

-----------------------------------------------------------------------------
DeskAt(d, pc) == desk[d].pc = pc

Untroubled == deskKills + personalResets + (epoch - 1) < MaxTroubles

HasRow(d, v) == \E r \in desk[d].rows : r.of = v

\* The key of a local row, 0 while the row has none.
KeyOf(d, v) == (CHOOSE r \in desk[d].rows : r.of = v).key

VaultUsable(d, v) == HasRow(d, v) /\ KeyOf(d, v) # 0

SetKey(d, v, key) == {r \in desk[d].rows : r.of # v} \cup {[of |-> v, key |-> key]}

\* The token of the sync is one of the database the server has.
Authorized(d) == desk[d].token = epoch

\* remote_sync returns: what it had read is gone.
Ended(r) ==
  [r EXCEPT !.pc = "idle", !.token = 0, !.read = 0, !.seen = Absent(1), !.fresh = 0,
            !.before = {}]

\* The login ends with ensure_personal_vault: a vault is there, or one is made
\* under the slug of the user, which a deleted vault still holds.
DeskLogin(d) ==
  /\ desk[d].session # epoch
  /\ remoteVault.state # "deleted"
  /\ remoteVault' = [remoteVault EXCEPT !.state = "live"]
  /\ desk' = [desk EXCEPT ![d].session = epoch]
  /\ UNCHANGED <<epoch, itemKeys, keysMade, deskBounds, raced>>

\* remote_sync begins: ensure_access_token_for_context.
BeginSync(d) ==
  /\ DeskAt(d, "idle") /\ desk[d].session = epoch
  /\ desk[d].syncs < MaxSyncs
  /\ desk' = [desk EXCEPT ![d].pc = "fingerprint", ![d].token = epoch, ![d].syncs = @ + 1,
                          ![d].before = desk[d].pending]
  /\ UNCHANGED <<remoteVars, keysMade, deskBounds, raced>>

\* No storage yet, or the server is the one that was stored.
SameServer(d) == desk[d].known \in {0, epoch}

\* Faulty: the storage of another server is wiped whatever is queued.
MayWipeAlways(d) == TRUE

\* list_by_storage finds no queued change.
MayWipe(d) == desk[d].pending = {}

\* fetch_system_info: if another server answers under the address, the sync
\* ends when changes are queued, and otherwise deletes the local rows.
CheckFingerprint(d) ==
  /\ DeskAt(d, "fingerprint")
  /\ desk' = [desk EXCEPT ![d] =
       IF SameServer(d) \/ MayWipe(d)
       THEN [@ EXCEPT !.read = epoch, !.pc = IF SameServer(d) THEN "list" ELSE "wipe"]
       ELSE Ended(@)]
  /\ UNCHANGED <<remoteVars, keysMade, deskBounds, raced>>

WipeStorage(d) ==
  /\ DeskAt(d, "wipe")
  /\ desk' = [desk EXCEPT ![d].pc = "list", ![d].rows = {}, ![d].pending = {}]
  /\ UNCHANGED <<remoteVars, keysMade, deskBounds, raced>>

\* GET /v1/vaults and the details (deleted vaults are not listed), then the
\* storage is stored with the fingerprint that was read.
FetchVaults(d) ==
  /\ DeskAt(d, "list")
  /\ LET stored == [desk[d] EXCEPT !.known = desk[d].read]
     IN  desk' = [desk EXCEPT ![d] =
           IF ~Authorized(d) THEN Ended(@)
           ELSE IF remoteVault.state # "live" THEN Ended(stored)
           ELSE [stored EXCEPT !.seen = remoteVault, !.pc = "ensure"]]
  /\ raced' = (raced \/ /\ remoteVault.key = 0
                        /\ \E o \in Desk \ {d} : /\ desk[o].pc \in {"ensure", "key", "put"}
                                                 /\ desk[o].seen.key = 0)
  /\ UNCHANGED <<remoteVars, keysMade, deskBounds>>

\* ensure_local_vaults: a row that is there is left alone.
EnsuredRows(d) ==
  IF HasRow(d, desk[d].seen.of) THEN desk[d].rows
  ELSE SetKey(d, desk[d].seen.of, desk[d].seen.key)

EnsureLocalVault(d) ==
  /\ DeskAt(d, "ensure")
  /\ desk' = [desk EXCEPT ![d].rows = EnsuredRows(d), ![d].pc = "key"]
  /\ UNCHANGED <<remoteVars, keysMade, deskBounds, raced>>

\* Faulty: the key the server has is not looked at.
NeedsKeyLocally(d) == HasRow(d, desk[d].seen.of) /\ KeyOf(d, desk[d].seen.of) = 0

\* Neither the server nor the device has a key.
NeedsKey(d) ==
  /\ desk[d].seen.key = 0
  /\ HasRow(d, desk[d].seen.of) /\ KeyOf(d, desk[d].seen.of) = 0

MakeKey(d) ==
  /\ DeskAt(d, "key")
  /\ IF NeedsKey(d)
     THEN /\ keysMade' = keysMade + 1
          /\ desk' = [desk EXCEPT ![d].fresh = keysMade + 1, ![d].pc = "put"]
     ELSE /\ desk' = [desk EXCEPT ![d].pc = "push"]
          /\ UNCHANGED keysMade
  /\ UNCHANGED <<remoteVars, deskBounds, raced>>

\* PUT /v1/vaults/:id/key (VaultAdmin): the last key stands; a deleted vault
\* is not found.
PutKey(d) ==
  /\ DeskAt(d, "put")
  /\ IF Authorized(d) /\ remoteVault.state = "live"
     THEN /\ remoteVault' = [remoteVault EXCEPT !.key = desk[d].fresh]
          /\ desk' = [desk EXCEPT ![d].pc = "keep"]
     ELSE /\ desk' = [desk EXCEPT ![d] = Ended(@)]
          /\ UNCHANGED remoteVault
  /\ UNCHANGED <<epoch, itemKeys, keysMade, deskBounds, raced>>

\* Faulty: the key that was put is not stored.
KeptRowsForgotten(d) == desk[d].rows

\* update_key of the local row.
KeptRows(d) == SetKey(d, desk[d].seen.of, desk[d].fresh)

KeepKey(d) ==
  /\ DeskAt(d, "keep")
  /\ desk' = [desk EXCEPT ![d].rows = KeptRows(d), ![d].fresh = 0, ![d].pc = "push"]
  /\ UNCHANGED <<remoteVars, keysMade, deskBounds, raced>>

\* decrypt_vault_key_with_master: without a key the vault is reported as
\* locked and skipped; otherwise its queued changes are pushed (SyncPush).
PushOrSkip(d) ==
  /\ DeskAt(d, "push")
  /\ LET v == desk[d].seen.of
         sends == /\ VaultUsable(d, v) /\ v \in desk[d].pending
                  /\ Authorized(d) /\ remoteVault.state = "live"
         left  == IF sends THEN desk[d].pending \ {v} ELSE desk[d].pending
     IN  /\ itemKeys' = IF sends THEN itemKeys \cup {KeyOf(d, v)} ELSE itemKeys
         /\ desk' = [desk EXCEPT ![d] = Ended([@ EXCEPT !.pending = left])]
  /\ UNCHANGED <<epoch, remoteVault, keysMade, deskBounds, raced>>

\* put_item under the local key, at any time.
EditItem(d, v) ==
  /\ VaultUsable(d, v) /\ edits < MaxEdits
  /\ edits' = edits + 1
  /\ desk' = [desk EXCEPT ![d].pending = @ \cup {v}]
  /\ UNCHANGED <<remoteVars, keysMade, deskKills, personalResets, raced>>

\* vault_reset_personal: DELETE of the vault, then the local rows.
ResetPersonal(d) ==
  /\ desk[d].session = epoch /\ DeskAt(d, "idle") /\ Untroubled
  /\ personalResets' = personalResets + 1
  /\ remoteVault' = IF remoteVault.state = "live" THEN [remoteVault EXCEPT !.state = "deleted"]
                    ELSE remoteVault
  /\ desk' = [desk EXCEPT ![d].rows = {r \in @ : r.of # epoch}, ![d].pending = @ \ {epoch}]
  /\ UNCHANGED <<epoch, itemKeys, keysMade, edits, deskKills, raced>>

\* remote_reset: the local rows, and the fingerprint the server has now.
RemoteReset(d) ==
  /\ DeskAt(d, "idle") /\ desk[d].known # 0 /\ Untroubled
  /\ personalResets' = personalResets + 1
  /\ desk' = [desk EXCEPT ![d].rows = {}, ![d].pending = {}, ![d].known = epoch]
  /\ UNCHANGED <<remoteVars, keysMade, edits, deskKills, raced>>

\* The application is killed, or the answer of a request is lost: the sync
\* ends where it is and the key it had made is gone.
KillDesk(d) ==
  /\ ~DeskAt(d, "idle") /\ Untroubled
  /\ deskKills' = deskKills + 1
  /\ desk' = [desk EXCEPT ![d] = Ended(@)]
  /\ UNCHANGED <<remoteVars, keysMade, edits, personalResets, raced>>

\* The server starts again with an empty database: no token is valid.
NewDatabase ==
  /\ Untroubled
  /\ epoch' = epoch + 1
  /\ remoteVault' = Absent(epoch + 1) /\ itemKeys' = {}
  /\ UNCHANGED <<desk, keysMade, deskBounds, raced>>

SyncStep(d) ==
  \/ CheckFingerprint(d) \/ WipeStorage(d) \/ FetchVaults(d) \/ EnsureLocalVault(d)
  \/ MakeKey(d) \/ PutKey(d) \/ KeepKey(d) \/ PushOrSkip(d)

PersonalVaultNext ==
  \/ \E d \in Desk : \/ DeskLogin(d) \/ BeginSync(d) \/ SyncStep(d)
                     \/ \E v \in 1 .. epoch : EditItem(d, v)
                     \/ ResetPersonal(d) \/ RemoteReset(d) \/ KillDesk(d)
  \/ NewDatabase

PersonalVaultSpec == PersonalVaultInit /\ [][PersonalVaultNext]_deskVars

\* A sync that has begun goes on; the user logs in and the scheduler of the
\* desktop starts another sync.
PersonalVaultFairness ==
  WF_deskVars(\E d \in Desk : SyncStep(d) \/ DeskLogin(d) \/ BeginSync(d))

-----------------------------------------------------------------------------
(* Properties.                                                             *)

\* What is pushed can be read by every device: unless two devices look for
\* the key while there is none, every payload on the server is under the key
\* that the server hands out.  A killed first sync, a reset and another
\* database behind the same address do not change that.
PushedIsReadable ==
  ~raced /\ remoteVault.state = "live" => itemKeys \subseteq {remoteVault.key}

\* A sync takes neither a key nor an edit from a device.  The key of a local
\* row changes only with the deletion of the row, and what was queued when a
\* sync began leaves the queue by the push of that sync or by a reset the user
\* asks for, also when another server answers under the address (remote_sync,
\* ensure_local_vaults and the wipe).
KeyAndQueueKept ==
  [][\A d \in Desk :
       /\ \A r \in desk[d].rows :
            r.key # 0 => \A q \in desk'[d].rows : q.of = r.of => q = r
       /\ \/ desk[d].pending \cap desk[d].before \subseteq desk'[d].pending
          \/ DeskAt(d, "push")
          \/ personalResets' # personalResets]_deskVars

\* Without kills, resets and another database, every device that has logged in
\* has a usable vault in the end, and goes on having it.
VaultBecomesUsable ==
  \A d \in Desk : desk[d].session # 0 ~>
    [](\/ deskKills > 0 \/ personalResets > 0 \/ epoch > 1
       \/ VaultUsable(d, epoch))
===============================================================================
