------------------------------ MODULE MCDevices ------------------------------
(***************************************************************************)
(* Two instances of DeviceSync on the same variables, and one of           *)
(* SharedSync.  Racing: two devices edit one item in every way, on a       *)
(* network that loses nothing.  Lossy: one device writes two items that    *)
(* want one path, the other one reads, and requests, answers and the       *)
(* application itself get lost.  Following: a device follows a shared      *)
(* vault.  scenario says which of them a behaviour is of.                  *)
(***************************************************************************)
EXTENDS SharedSync

CONSTANTS p, p_a, p_b, a, b, w, r, None, NoRow

VARIABLES scenario, db, nextSeq, local, pending, cursor, sync, wire, edits, faults, newest

deviceVars == <<db, nextSeq, local, pending, cursor, sync, wire, edits, faults, newest>>

Paths == {p, p_a, p_b}
AllOps == {"put", "update", "delete", "restore", "purge", "resolve"}

Racing == INSTANCE DeviceSync WITH
  Item <- {a}, Path <- Paths, Payload <- 1 .. 4, HistoryLimit <- 5, Device <- {w, r},
  UserOp <- [d \in {w, r} |-> AllOps], UserPath <- {p}, ConflictPath <- [i \in {a} |-> p_a],
  EditDuringSync <- FALSE, PageLimit <- 1, MaxEdits <- 4, MaxFaults <- 0, CrashInEdit <- FALSE

Lossy == INSTANCE DeviceSync WITH
  Item <- {a, b}, Path <- Paths, Payload <- 1 .. 3, HistoryLimit <- 5, Device <- {w, r},
  UserOp <- [d \in {w, r} |-> IF d = w THEN {"put", "update", "resolve"} ELSE {}],
  UserPath <- {p}, ConflictPath <- [i \in {a, b} |-> IF i = a THEN p_a ELSE p_b],
  EditDuringSync <- FALSE, PageLimit <- 1, MaxEdits <- 3, MaxFaults <- 2, CrashInEdit <- FALSE

\* The part that does not move keeps one of its initial states.
FollowerAtRest ==
  NewVault /\ follower = (CHOOSE k \in FollowerKinds : TRUE) /\ vaultFeed = <<>>

DevicesInit ==
  /\ scenario \in {"racing", "lossy", "following"}
  /\ IF scenario = "lossy" THEN Lossy!Init ELSE Racing!Init
  /\ SharedSyncInit /\ (scenario # "following" => FollowerAtRest)

DevicesNext ==
  /\ UNCHANGED scenario
  /\ \/ scenario = "racing" /\ Racing!Next /\ UNCHANGED followVars
     \/ scenario = "lossy" /\ Lossy!Next /\ UNCHANGED followVars
     \/ scenario = "following" /\ SharedSyncNext /\ UNCHANGED deviceVars

DevicesSpec == DevicesInit /\ [][DevicesNext]_<<scenario, deviceVars, followVars>>

-----------------------------------------------------------------------------
(* Properties of DeviceSync, each in the instance it is meant for.         *)

\* The tables, queues, messages and caches of the devices are well formed, and
\* no two active items of a cache have one path.
DevicesTypeOK ==
  /\ scenario = "racing" => Racing!TypeOK
  /\ scenario = "lossy" => Lossy!TypeOK
  /\ scenario = "following" => SharedSyncTypeOK

\* No device shows an item as synced whose payload the server never got
\* (apply_push_applied, apply_pull_change).
SyncedIsConfirmed ==
  /\ scenario = "racing" => Racing!SyncedIsConfirmed
  /\ scenario = "lossy" => Lossy!SyncedIsConfirmed

\* What the server does not have is queued or in conflict on both devices,
\* after conflicts and their resolution too (handle_sync_conflict).
UnstoredIsTracked ==
  /\ scenario = "racing" => Racing!UnstoredIsTracked
  /\ scenario = "lossy" => Lossy!UnstoredIsTracked

\* The last edit of the user survives lost and repeated requests and kills in
\* the middle of remote_sync.
NoEditLost == scenario = "lossy" => Lossy!NoEditLost

\* A device is up to date with its cursor, whatever page it was killed at
\* (apply_pull_change), and so is one that follows a shared vault, with the
\* newest versions of the history (apply_shared_pull_change).
CurrentAtCursor ==
  /\ scenario = "lossy" => Lossy!CurrentAtCursor
  /\ scenario = "following" => SharedCopyCurrent
=============================================================================
