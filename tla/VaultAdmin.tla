------------------------------ MODULE VaultAdmin ------------------------------
(***************************************************************************)
(* The vaults and groups of the server and who administers them            *)
(* (domains/vaults/service.rs, domains/groups/http/v1/mod.rs and their     *)
(* repositories).  Every statement commits by itself, so a handler is a    *)
(* sequence of steps between which other handlers run, and a server that   *)
(* stops leaves the statements made so far.                                *)
(*                                                                         *)
(* Vaults are deleted by a mark and keep their slug, which is UNIQUE over  *)
(* all rows; groups are deleted for good, with their members.  Vault 1 is  *)
(* the personal vault of PersonalOwner; create_vault makes only shared     *)
(* ones.                                                                   *)
(***************************************************************************)
EXTENDS Naturals, Sequences, FiniteSets

CONSTANTS
  Admin, AdminUser,   \* concurrent requests, users
  UserOf,             \* the user of a request
  VaultSlug,          \* slugs of vaults and groups
  PersonalOwner,      \* the user of vault 1
  MaxVaultRows, MaxAdminCalls, MaxAdminStops,
  Idle                \* the state of a caller without a call

ASSUME VaultAdminAssumption ==
  /\ PersonalOwner \in AdminUser
  /\ UserOf \in [Admin -> AdminUser]
  /\ {MaxVaultRows, MaxAdminCalls, MaxAdminStops} \subseteq Nat
  /\ MaxVaultRows > MaxAdminCalls
  /\ Idle \notin VaultSlug

VARIABLES
  vaultRows,     \* table vaults, in the order of the INSERTs
  vaultMembers,  \* table vault_members
  groupRows,     \* table groups, in the order of the INSERTs; NoGroup when deleted
  groupMembers,  \* table group_members
  adminCall,     \* per caller, the handler that runs
  granted,       \* <<user, vault>>: create_vault answered the user
  adminCalls, adminStops

adminVars == <<vaultRows, vaultMembers, groupRows, groupMembers, adminCall, granted,
               adminCalls, adminStops>>
vaultTables == <<vaultRows, vaultMembers>>
groupTables == <<groupRows, groupMembers>>

NoGroup == [slug |-> Idle, name |-> 0]
GroupId == DOMAIN groupRows

VaultRow == [slug : VaultSlug \cup {PersonalOwner}, kind : {"personal", "shared"},
             key : Nat, live : BOOLEAN, row_version : Nat]

VaultAdminTypeOK ==
  /\ vaultRows \in Seq(VaultRow) /\ Len(vaultRows) <= MaxVaultRows
  /\ vaultMembers \subseteq (DOMAIN vaultRows) \X AdminUser
  /\ groupRows \in Seq([slug : VaultSlug \cup {Idle}, name : Nat])
  /\ groupMembers \subseteq GroupId \X AdminUser
  /\ granted \subseteq AdminUser \X (DOMAIN vaultRows)

NoAdminCall == [op |-> Idle, at |-> "idle", slug |-> Idle, id |-> 0, rv |-> 0, row |-> NoGroup]

VaultAdminInit ==
  /\ vaultRows = << [slug |-> PersonalOwner, kind |-> "personal", key |-> 0, live |-> TRUE,
                     row_version |-> 1] >>
  /\ vaultMembers = {<<1, PersonalOwner>>}
  /\ groupRows = <<>>
  /\ groupMembers = {}
  /\ adminCall = [c \in Admin |-> NoAdminCall]
  /\ granted = {}
  /\ adminCalls = 0 /\ adminStops = 0

-----------------------------------------------------------------------------
(* Repositories.                                                           *)

\* get_by_slug, get_by_id: no deleted vault.
LiveWithSlug(s) == {i \in DOMAIN vaultRows : vaultRows[i].live /\ vaultRows[i].slug = s}

\* The UNIQUE constraint counts the deleted vaults.
SlugInsertable(s) == \A i \in DOMAIN vaultRows : vaultRows[i].slug # s

NewSharedVault(s) ==
  [slug |-> s, kind |-> "shared", key |-> 0, live |-> TRUE, row_version |-> 1]

\* VaultMemberRepo::get, which role_permits makes an administrator.
Administers(u, i) == <<i, u>> \in vaultMembers

\* delete_by_id: WHERE id AND row_version.
MarkDeleted(i) ==
  vaultRows' = [vaultRows EXCEPT ![i].live = FALSE, ![i].row_version = @ + 1]

\* update_key_by_id: WHERE id AND deleted_at IS NULL.
KeyWritable(i) == vaultRows[i].live

WriteKey(i) == vaultRows' = [vaultRows EXCEPT ![i].key = @ + 1, ![i].row_version = @ + 1]

GroupWithSlug(s) == {g \in GroupId : groupRows[g].slug = s}

\* DELETE FROM groups, and ON DELETE CASCADE the members.
DropGroup(g) ==
  /\ groupRows' = [groupRows EXCEPT ![g] = NoGroup]
  /\ groupMembers' = {m \in groupMembers : m[1] # g}

-----------------------------------------------------------------------------
(* Calls.                                                                  *)

Doing(c, op, at) == adminCall[c].op = op /\ adminCall[c].at = at
MoveOn(c, at) == adminCall' = [adminCall EXCEPT ![c].at = at]
EndAdminCall(c) == adminCall' = [adminCall EXCEPT ![c] = NoAdminCall]

AdminOps == {"create", "rekey", "delete", "new_group", "rename", "drop_group", "add", "remove"}

\* The policy rules (AccessRules) let the call pass, or it ends at once.
AskAdmin(c, op, s) ==
  /\ adminCall[c] = NoAdminCall
  /\ adminCalls < MaxAdminCalls
  /\ s = PersonalOwner => op \in {"rekey", "delete"}
  /\ adminCalls' = adminCalls + 1
  /\ adminCall' = [adminCall EXCEPT ![c] = [NoAdminCall EXCEPT !.op = op, !.at = "find", !.slug = s]]
  /\ UNCHANGED <<vaultTables, groupTables, granted, adminStops>>

\* create_vault: a slug in use is refused.
CheckVaultSlug(c) ==
  /\ Doing(c, "create", "find")
  /\ IF LiveWithSlug(adminCall[c].slug) # {} THEN EndAdminCall(c) ELSE MoveOn(c, "insert")
  /\ UNCHANGED <<vaultTables, groupTables, granted, adminCalls, adminStops>>

\* Faulty: the answer does not wait for the INSERT of the member.
InsertVaultAndAnswer(c) ==
  /\ Doing(c, "create", "insert")
  /\ IF SlugInsertable(adminCall[c].slug)
     THEN /\ vaultRows' = Append(vaultRows, NewSharedVault(adminCall[c].slug))
          /\ granted' = granted \cup {<<UserOf[c], Len(vaultRows) + 1>>}
          /\ adminCall' = [adminCall EXCEPT ![c].at = "member", ![c].id = Len(vaultRows) + 1]
     ELSE EndAdminCall(c) /\ UNCHANGED <<vaultRows, granted>>
  /\ UNCHANGED <<vaultMembers, groupTables, adminCalls, adminStops>>

\* create_vault: VaultRepo::create, which fails on a slug that is there by now.
InsertVaultRow(c) ==
  /\ Doing(c, "create", "insert")
  /\ IF SlugInsertable(adminCall[c].slug)
     THEN /\ vaultRows' = Append(vaultRows, NewSharedVault(adminCall[c].slug))
          /\ adminCall' = [adminCall EXCEPT ![c].at = "member", ![c].id = Len(vaultRows) + 1]
     ELSE EndAdminCall(c) /\ UNCHANGED vaultRows
  /\ UNCHANGED <<vaultMembers, groupTables, granted, adminCalls, adminStops>>

\* create_vault: VaultMemberRepo::create, then 201.
InsertVaultMember(c) ==
  /\ Doing(c, "create", "member")
  /\ vaultMembers' = vaultMembers \cup {<<adminCall[c].id, UserOf[c]>>}
  /\ granted' = granted \cup {<<UserOf[c], adminCall[c].id>>}
  /\ EndAdminCall(c)
  /\ UNCHANGED <<vaultRows, groupTables, adminCalls, adminStops>>

\* update_vault_key and delete_vault: find_vault, then the role, then for a
\* key the kind of vault.
FindVault(c) ==
  /\ Doing(c, "rekey", "find") \/ Doing(c, "delete", "find")
  /\ IF LiveWithSlug(adminCall[c].slug) = {} THEN EndAdminCall(c)
     ELSE \E i \in LiveWithSlug(adminCall[c].slug) :
            adminCall' = [adminCall EXCEPT ![c].at = "role", ![c].id = i,
                                           ![c].rv = vaultRows[i].row_version]
  /\ UNCHANGED <<vaultTables, groupTables, granted, adminCalls, adminStops>>

CheckVaultRole(c) ==
  /\ Doing(c, "rekey", "role") \/ Doing(c, "delete", "role")
  /\ IF /\ Administers(UserOf[c], adminCall[c].id)
        /\ adminCall[c].op = "rekey" => vaultRows[adminCall[c].id].kind = "personal"
     THEN MoveOn(c, "write") ELSE EndAdminCall(c)
  /\ UNCHANGED <<vaultTables, groupTables, granted, adminCalls, adminStops>>

UpdateVaultKey(c) ==
  /\ Doing(c, "rekey", "write")
  /\ IF KeyWritable(adminCall[c].id) THEN WriteKey(adminCall[c].id) ELSE UNCHANGED vaultRows
  /\ EndAdminCall(c)
  /\ UNCHANGED <<vaultMembers, groupTables, granted, adminCalls, adminStops>>

\* The row_version of the row that was read.
UnchangedSinceRead(c) == vaultRows[adminCall[c].id].row_version = adminCall[c].rv

DeleteVault(c) ==
  /\ Doing(c, "delete", "write")
  /\ IF UnchangedSinceRead(c) THEN MarkDeleted(adminCall[c].id) ELSE UNCHANGED vaultRows
  /\ EndAdminCall(c)
  /\ UNCHANGED <<vaultMembers, groupTables, granted, adminCalls, adminStops>>

-----------------------------------------------------------------------------
(* Groups.                                                                 *)

\* create_group: get_by_slug, then the INSERT with its UNIQUE slug.
CheckGroupSlug(c) ==
  /\ Doing(c, "new_group", "find")
  /\ IF GroupWithSlug(adminCall[c].slug) # {} THEN EndAdminCall(c) ELSE MoveOn(c, "insert")
  /\ UNCHANGED <<vaultTables, groupTables, granted, adminCalls, adminStops>>

\* The UNIQUE constraint of groups.slug for a row g that takes the slug s.
GroupSlugFree(s, g) == GroupWithSlug(s) \subseteq {g}

InsertGroup(c) ==
  /\ Doing(c, "new_group", "insert")
  /\ IF GroupSlugFree(adminCall[c].slug, 0)
     THEN groupRows' = Append(groupRows, [slug |-> adminCall[c].slug, name |-> 1])
     ELSE UNCHANGED groupRows
  /\ EndAdminCall(c)
  /\ UNCHANGED <<vaultTables, groupMembers, granted, adminCalls, adminStops>>

\* update_group, delete_group, add_member and remove_member begin with
\* get_by_slug; the row that was read stays with the call.
FindGroup(c) ==
  /\ adminCall[c].op \in {"rename", "drop_group", "add", "remove"}
  /\ adminCall[c].at = "find"
  /\ IF GroupWithSlug(adminCall[c].slug) = {} THEN EndAdminCall(c)
     ELSE \E g \in GroupWithSlug(adminCall[c].slug) :
            adminCall' = [adminCall EXCEPT ![c].at = "write", ![c].id = g,
                                           ![c].row = groupRows[g]]
  /\ UNCHANGED <<vaultTables, groupTables, granted, adminCalls, adminStops>>

\* update_group: a new slug is looked up, then slug and name of the row that
\* was read are written over the row with its id, if it is still there.
UpdateGroup(c) ==
  /\ Doing(c, "rename", "write")
  /\ \E s \in VaultSlug, n \in 1 .. 2 :
       LET row == [slug |-> s, name |-> n]
           stays == row.slug = adminCall[c].row.slug
       IN  /\ row # adminCall[c].row
           /\ IF /\ stays \/ GroupWithSlug(s) = {}
                 /\ groupRows[adminCall[c].id] # NoGroup
                 /\ GroupSlugFree(s, adminCall[c].id)
              THEN groupRows' = [groupRows EXCEPT ![adminCall[c].id] = row]
              ELSE UNCHANGED groupRows
  /\ EndAdminCall(c)
  /\ UNCHANGED <<vaultTables, groupMembers, granted, adminCalls, adminStops>>

DeleteGroup(c) ==
  /\ Doing(c, "drop_group", "write")
  /\ DropGroup(adminCall[c].id)
  /\ EndAdminCall(c)
  /\ UNCHANGED <<vaultTables, granted, adminCalls, adminStops>>

\* add_member: get, then the INSERT, which needs the group to be there still.
AddGroupMember(c) ==
  /\ Doing(c, "add", "write")
  /\ IF <<adminCall[c].id, UserOf[c]>> \notin groupMembers /\ groupRows[adminCall[c].id] # NoGroup
     THEN groupMembers' = groupMembers \cup {<<adminCall[c].id, UserOf[c]>>}
     ELSE UNCHANGED groupMembers
  /\ EndAdminCall(c)
  /\ UNCHANGED <<vaultTables, groupRows, granted, adminCalls, adminStops>>

RemoveGroupMember(c) ==
  /\ Doing(c, "remove", "write")
  /\ groupMembers' = groupMembers \ {<<adminCall[c].id, UserOf[c]>>}
  /\ EndAdminCall(c)
  /\ UNCHANGED <<vaultTables, groupRows, granted, adminCalls, adminStops>>

-----------------------------------------------------------------------------
\* The server stops: the calls are gone, the statements made so far stay.
StopServer ==
  /\ adminStops < MaxAdminStops
  /\ adminStops' = adminStops + 1
  /\ adminCall' = [c \in Admin |-> NoAdminCall]
  /\ UNCHANGED <<vaultTables, groupTables, granted, adminCalls>>

AdminStep(c) ==
  \/ CheckVaultSlug(c) \/ InsertVaultRow(c) \/ InsertVaultMember(c)
  \/ FindVault(c) \/ CheckVaultRole(c) \/ UpdateVaultKey(c) \/ DeleteVault(c)
  \/ CheckGroupSlug(c) \/ InsertGroup(c) \/ FindGroup(c) \/ UpdateGroup(c)
  \/ DeleteGroup(c) \/ AddGroupMember(c) \/ RemoveGroupMember(c)

VaultAdminNext ==
  \/ \E c \in Admin, op \in AdminOps, s \in VaultSlug \cup {PersonalOwner} : AskAdmin(c, op, s)
  \/ \E c \in Admin : AdminStep(c)
  \/ StopServer

VaultAdminSpec == VaultAdminInit /\ [][VaultAdminNext]_adminVars

-----------------------------------------------------------------------------
(* Properties.                                                             *)

\* A slug names one vault for ever, however the creations of two callers, the
\* deletions and the stops of the server interleave, and so a reference to a
\* vault by its slug (find_vault, the scopes of a token) never means another.
SlugNamesOneVault ==
  \A i, j \in DOMAIN vaultRows : vaultRows[i].slug = vaultRows[j].slug => i = j

\* Whoever was told that a vault is created administers it, wherever the
\* server stops: only a vault whose creation was never answered can be without
\* an administrator (the row and the member are two statements).
CreatorAdministers == \A p \in granted : Administers(p[1], p[2])

\* Two groups never share a slug and no member outlives its group, whichever
\* of a rename, a deletion and an addition that read the group earlier wins.
GroupsConsistent ==
  /\ \A g, h \in GroupId : g # h /\ groupRows[g] # NoGroup =>
       groupRows[g].slug # groupRows[h].slug
  /\ \A m \in groupMembers : groupRows[m[1]] # NoGroup

\* Vaults and groups hold together between handlers that read first and write
\* later: one vault per slug, an administrator for every vault that was
\* answered, one group per slug and no member without a group.
VaultsAndGroupsHold == SlugNamesOneVault /\ CreatorAdministers /\ GroupsConsistent
===============================================================================
