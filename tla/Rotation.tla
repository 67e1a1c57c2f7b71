------------------------------ MODULE Rotation ------------------------------
(***************************************************************************)
(* Password rotation of one item of a shared vault: rotate_start stores a  *)
(* generated candidate with the row, rotate_candidate and rotate_recover   *)
(* show it again, rotate_commit makes it the password, rotate_abort and    *)
(* the cleanup task drop it.  Edits through the items API run at the same  *)
(* time; they are guarded by row_version, which a rotation that starts,    *)
(* goes stale or is aborted does not touch.                                *)
(*                                                                         *)
(* Only rotate_commit is a transaction (SELECT ... FOR UPDATE).  Requests  *)
(* that are refused change nothing and are not modelled; permissions and   *)
(* encryption are left out.                                                *)
(***************************************************************************)
EXTENDS Integers, FiniteSets, FiniteSetsExt

CONSTANTS
  Operator,        \* people, and clients, that rotate and edit
  Ops,             \* the requests they make
  Candidate,       \* passwords generate_password can return, each only once
  Typed,           \* passwords an edit can set
  None,            \* no password field, no rotation, no holder of the lock
  LockTtl,         \* rotation.lock_ttl_seconds
  StaleRetention,  \* rotation.stale_retention_seconds
  MaxVersions,     \* rotation.max_versions
  HistoryLimit,    \* ITEM_HISTORY_LIMIT of the items API
  MaxTime,         \* bound on the clock
  MaxEdits,        \* bound on the number of edits
  MaxFaults        \* bound on calls that die

ASSUME RotationAssumption ==
  /\ Candidate \cap Typed = {}
  /\ None \notin Candidate \cup Operator
  /\ Ops \subseteq {"start", "show", "abort", "commit", "edit"}
  /\ {LockTtl, StaleRetention, MaxVersions, HistoryLimit} \subseteq Nat \ {0}
  /\ {MaxTime, MaxEdits, MaxFaults} \subseteq Nat

VARIABLES
  item,       \* the row
  history,    \* its item_history entries
  feed,       \* the versions of it the change feed has announced
  now,        \* the clock
  lock,       \* the open rotate_commit that holds the row's lock, if any
  call,       \* per operator, the call in progress
  edits,      \* how many edits have begun
  faults,     \* how many calls have died
  past,       \* (history variable) what the row held before each write
  handed,     \* (history variable) the candidates rotate_start has returned,
              \* with their recover_until
  committed,  \* (history variable) the commits that were acknowledged
  aborted     \* (history variable) the candidates an abort has meant or removed

vars == <<item, history, feed, now, lock, call, edits, faults,
          past, handed, committed, aborted>>

Password == Candidate \cup Typed \cup {None}

RotationRow == [state : {"rotating", "stale"}, candidate : Candidate,
                expires_at : Nat, recover_until : Nat]

ItemRow == [password : Password, version : Nat, row_version : Nat,
            rotation : RotationRow \cup {None}]

ASSUME AbsentAssumption == None \notin RotationRow /\ None \notin ItemRow

Entry == [version : Nat, password : Password]

\* A call: the row it has read, and the password an edit brings.
Call == [pc : {"idle", "start", "abort", "normalize", "commit", "prune",
               "save", "write", "announce"},
         row : ItemRow \cup {None}, password : Password]

Idle == [pc |-> "idle", row |-> None, password |-> None]

TypeOK ==
  /\ item \in ItemRow
  /\ history \subseteq Entry /\ past \subseteq Entry /\ committed \subseteq Entry
  /\ feed \subseteq Nat
  /\ now \in 0 .. MaxTime
  /\ lock \in Operator \cup {None}
  /\ call \in [Operator -> Call]
  /\ edits \in 0 .. MaxEdits /\ faults \in 0 .. MaxFaults
  /\ handed \subseteq [candidate : Candidate, until : Nat]
  /\ aborted \subseteq Candidate

Init ==
  /\ \E p \in Typed \ {None} :
       item = [password |-> p, version |-> 1, row_version |-> 1, rotation |-> None]
  /\ history = {} /\ past = {} /\ committed = {} /\ handed = {} /\ aborted = {}
  /\ feed = {1}
  /\ now = 0
  /\ lock = None
  /\ call = [o \in Operator |-> Idle]
  /\ edits = 0 /\ faults = 0

-----------------------------------------------------------------------------
(* The row *)

EntryOf(row) == [version |-> row.version, password |-> row.password]

\* DELETE ... ORDER BY version DESC OFFSET keep.
Newest(h, keep) ==
  {e \in h : Cardinality({f \in h : f.version > e.version}) < keep}

\* Faulty: the entry goes under the version that replaces the row.
WithEntryOfNewVersion(h, row) ==
  h \cup {[version |-> row.version + 1, password |-> row.password]}

\* INSERT INTO item_history, of which (item_id, version) is the key.
WithEntry(h, row) ==
  IF \E e \in h : e.version = row.version THEN h ELSE h \cup {EntryOf(row)}

\* normalize_rotation_state: what a rotation that was read counts as.
Normalized(r) ==
  IF r # None /\ r.state = "rotating" /\ now > r.expires_at
  THEN [r EXCEPT !.state = "stale"] ELSE r

\* What rotate_candidate and rotate_recover answer, None for an error.
ShownCandidate(r) == IF r # None /\ r.state = "rotating" THEN r.candidate ELSE None
RecoveredCandidate(r) ==
  IF r # None /\ r.state = "stale" /\ ~(now > r.recover_until) THEN r.candidate ELSE None

\* Faulty: rotate_commit reads the row without FOR UPDATE.
UnlockedAlways(o) == TRUE

\* UPDATE and SELECT ... FOR UPDATE wait for the lock.
Unlocked(o) == lock \in {None, o}

\* Calls that read the row first.
Enter(o, op, pc) ==
  /\ op \in Ops
  /\ call[o].pc = "idle"
  /\ call' = [call EXCEPT ![o] = [Idle EXCEPT !.pc = pc, !.row = item]]

Leave(o) == call' = [call EXCEPT ![o] = Idle]

-----------------------------------------------------------------------------
(* rotate_start *)

\* The rotation row is free and the payload has a password field.
StartFetch(o) ==
  /\ item.rotation = None
  /\ item.password # None
  /\ Enter(o, "start", "start")
  /\ UNCHANGED <<item, history, feed, now, lock, edits, faults,
                 past, handed, committed, aborted>>

\* Faulty: the UPDATE relies on the row read before.
FreeAlways == TRUE

\* WHERE ... AND rotation_state IS NULL.
Free == item.rotation = None

\* A candidate is generated and stored; no row updated means a conflict.
StartStore(o, c) ==
  /\ call[o].pc = "start"
  /\ Unlocked(o)
  /\ \A h \in handed : h.candidate # c
  /\ now + LockTtl + StaleRetention < MaxTime
  /\ IF Free
     THEN /\ item' = [item EXCEPT !.rotation =
               [state |-> "rotating", candidate |-> c, expires_at |-> now + LockTtl,
                recover_until |-> now + LockTtl + StaleRetention]]
          /\ handed' = handed \cup
               {[candidate |-> c, until |-> now + LockTtl + StaleRetention]}
     ELSE UNCHANGED <<item, handed>>
  /\ Leave(o)
  /\ UNCHANGED <<history, feed, now, lock, edits, faults, past, committed, aborted>>

-----------------------------------------------------------------------------
(* rotate_status, rotate_candidate, rotate_recover *)

\* The rotation that was read has expired but is not marked yet.
ShowFetch(o) ==
  /\ Normalized(item.rotation) # item.rotation
  /\ Enter(o, "show", "normalize")
  /\ UNCHANGED <<item, history, feed, now, lock, edits, faults,
                 past, handed, committed, aborted>>

\* UPDATE ... SET rotation_state = 'stale' WHERE rotation_state = 'rotating'.
Normalize(o) ==
  /\ call[o].pc = "normalize"
  /\ Unlocked(o)
  /\ item' = IF item.rotation # None /\ item.rotation.state = "rotating"
             THEN [item EXCEPT !.rotation.state = "stale"] ELSE item
  /\ Leave(o)
  /\ UNCHANGED <<history, feed, now, lock, edits, faults,
                 past, handed, committed, aborted>>

-----------------------------------------------------------------------------
(* rotate_abort and the cleanup task *)

AbortFetch(o) ==
  /\ item.rotation # None
  /\ Enter(o, "abort", "abort")
  /\ UNCHANGED <<item, history, feed, now, lock, edits, faults,
                 past, handed, committed, aborted>>

CandidatesOf(row) == IF row.rotation = None THEN {} ELSE {row.rotation.candidate}

\* Faulty: an aborted rotation is only marked stale.
AfterAbortStale(r) == IF r = None THEN None ELSE [r EXCEPT !.state = "stale"]

\* Faulty: the state is cleared and the other columns are not.
AfterAbortHalf(r) == IF r = None THEN None ELSE [r EXCEPT !.state = None]

AfterAbort(r) == None

\* UPDATE ... WHERE id = $1, whatever rotation the row holds by now.
AbortStore(o) ==
  /\ call[o].pc = "abort"
  /\ Unlocked(o)
  /\ item' = [item EXCEPT !.rotation = AfterAbort(@)]
  /\ aborted' = aborted \cup {call[o].row.rotation.candidate} \cup CandidatesOf(item)
  /\ Leave(o)
  /\ UNCHANGED <<history, feed, now, lock, edits, faults, past, handed, committed>>

\* Faulty: only rotations already marked stale are cleaned up.
OverdueStale(r) == r.state = "stale" /\ r.recover_until < now

Overdue(r) == r.recover_until < now

\* prune_rotation_candidates, run by a task every cleanup_interval_seconds.
Cleanup ==
  /\ lock = None
  /\ item.rotation # None
  /\ Overdue(item.rotation)
  /\ item' = [item EXCEPT !.rotation = None]
  /\ UNCHANGED <<history, feed, now, lock, call, edits, faults,
                 past, handed, committed, aborted>>

-----------------------------------------------------------------------------
(* rotate_commit *)

\* rotating or stale, not past recover_until, and a password field to set.
Committable(row) ==
  /\ row.rotation # None
  /\ ~(now > row.rotation.recover_until)
  /\ row.password # None

\* BEGIN; SELECT ... FOR UPDATE and the checks on the row.
CommitLock(o) ==
  /\ Unlocked(o)
  /\ Committable(item)
  /\ Enter(o, "commit", "commit")
  /\ lock' = o
  /\ UNCHANGED <<item, history, feed, now, edits, faults,
                 past, handed, committed, aborted>>

\* The history entry, UPDATE ... WHERE row_version = ... and COMMIT.  The
\* number of rows updated is not looked at.
CommitStore(o) ==
  LET row == call[o].row
      new == [password |-> row.rotation.candidate, version |-> row.version + 1,
              row_version |-> row.row_version + 1, rotation |-> None]
  IN
  /\ call[o].pc = "commit"
  /\ history' = WithEntry(history, row)
  /\ IF item.row_version = row.row_version
     THEN item' = new /\ past' = past \cup {EntryOf(item)}
     ELSE UNCHANGED <<item, past>>
  /\ committed' = committed \cup {EntryOf(new)}
  /\ lock' = None
  /\ call' = [call EXCEPT ![o] = [Idle EXCEPT !.pc = "prune"]]
  /\ UNCHANGED <<feed, now, edits, faults, handed, aborted>>

\* prune_by_item, after the COMMIT.
CommitPrune(o) ==
  /\ call[o].pc = "prune"
  /\ history' = Newest(history, MaxVersions)
  /\ Leave(o)
  /\ UNCHANGED <<item, feed, now, lock, edits, faults, past, handed, committed, aborted>>

-----------------------------------------------------------------------------
(* update_item with a new payload, one statement at a time *)

EditRead(o, p) ==
  /\ edits < MaxEdits
  /\ p # item.password
  /\ "edit" \in Ops
  /\ call[o].pc = "idle"
  /\ call' = [call EXCEPT ![o] = [pc |-> "save", row |-> item, password |-> p]]
  /\ edits' = edits + 1
  /\ UNCHANGED <<item, history, feed, now, lock, faults,
                 past, handed, committed, aborted>>

EditSave(o) ==
  /\ call[o].pc = "save"
  /\ history' = Newest(WithEntry(history, call[o].row), HistoryLimit)
  /\ call' = [call EXCEPT ![o].pc = "write"]
  /\ UNCHANGED <<item, feed, now, lock, edits, faults,
                 past, handed, committed, aborted>>

\* The UPDATE leaves the rotation columns alone.
EditWrite(o) ==
  /\ call[o].pc = "write"
  /\ Unlocked(o)
  /\ IF item.row_version = call[o].row.row_version
     THEN /\ item' = [item EXCEPT !.password = call[o].password,
                                  !.version = call[o].row.version + 1,
                                  !.row_version = @ + 1]
          /\ past' = past \cup {EntryOf(item)}
          /\ call' = [call EXCEPT ![o] = [@ EXCEPT !.pc = "announce", !.row = item']]
     ELSE Leave(o) /\ UNCHANGED <<item, past>>
  /\ UNCHANGED <<history, feed, now, lock, edits, faults, handed, committed, aborted>>

EditAnnounce(o) ==
  /\ call[o].pc = "announce"
  /\ feed' = feed \cup {call[o].row.version}
  /\ Leave(o)
  /\ UNCHANGED <<item, history, now, lock, edits, faults,
                 past, handed, committed, aborted>>

-----------------------------------------------------------------------------
\* A call dies, or the database fails it; an open transaction rolls back.
Die(o) ==
  /\ faults < MaxFaults
  /\ faults' = faults + 1
  /\ call[o].pc # "idle"
  /\ Leave(o)
  /\ lock' = IF lock = o THEN None ELSE lock
  /\ UNCHANGED <<item, history, feed, now, edits, past, handed, committed, aborted>>

Tick ==
  /\ now < MaxTime
  /\ now' = now + 1
  /\ UNCHANGED <<item, history, feed, lock, call, edits, faults,
                 past, handed, committed, aborted>>

CallStep(o) ==
  \/ \E c \in Candidate : StartStore(o, c)
  \/ Normalize(o) \/ AbortStore(o) \/ CommitStore(o) \/ CommitPrune(o)
  \/ EditSave(o) \/ EditWrite(o) \/ EditAnnounce(o)

Next ==
  \/ Tick \/ Cleanup
  \/ \E o \in Operator :
       \/ StartFetch(o) \/ ShowFetch(o) \/ AbortFetch(o) \/ CommitLock(o)
       \/ \E p \in Typed : EditRead(o, p)
       \/ CallStep(o) \/ Die(o)

Spec == Init /\ [][Next]_vars

\* Time passes, the cleanup task comes round, and a commit that holds the
\* row's lock finishes or dies.
FairSpec ==
  /\ Spec
  /\ WF_vars(Tick) /\ WF_vars(Cleanup)
  /\ \A o \in Operator : WF_vars(CommitStore(o))

-----------------------------------------------------------------------------
(* Properties *)

Ended == {e.password : e \in committed} \cup aborted

\* Within recover_until a candidate an operator was given can be had again,
\* unless it was committed or an abort removed it: rotate_start gives out no
\* second one, and neither an edit, a late status call nor the cleanup task
\* drops it.
CandidateRecoverable ==
  LET r == Normalized(item.rotation) IN
  \A h \in handed :
    \/ h.candidate \in Ended \cup {ShownCandidate(r), RecoveredCandidate(r)}
    \/ now > h.until

\* A commit that was answered "committed" did store the candidate as the
\* version it names, although the number of rows updated is never checked.
CommitStored == committed \subseteq past \cup {EntryOf(item)}

\* The last versions of the password stay in item_history under their own
\* numbers, whether an edit or a commit replaced them and however the two
\* overlap.
RecentPasswordsKept ==
  \A e \in past :
    item.version - e.version < Min({MaxVersions, HistoryLimit}) => e \in history

\* Once an abort has been acknowledged, neither the candidate the caller meant
\* nor the one that was removed ever becomes the password.
AbortedNeverInstalled ==
  [][item'.password # item.password => item'.password \notin aborted]_vars

\* An abandoned rotation does not block the item for ever: every candidate
\* leaves the row, if nothing else by the cleanup task.
RotationEnds ==
  \A c \in Candidate :
    (item.rotation # None /\ item.rotation.candidate = c)
      ~> (item.rotation = None \/ item.rotation.candidate # c)
=============================================================================
