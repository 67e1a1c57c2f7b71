--------------------------- MODULE RotationProofs ---------------------------
(***************************************************************************)
(* What holds of rotations for every number of operators, every lifetime   *)
(* of a candidate and every length of the history.                         *)
(***************************************************************************)
EXTENDS Rotation, FiniteSetTheorems, TLAPS

HandedCandidates == {h.candidate : h \in handed}

\* What a call in progress has read is a row; a commit holds the lock, and
\* the row is still the one it read; an edit brings a password to type.
CallInv ==
  \A o \in Operator :
    /\ call[o].pc \in {"abort", "commit", "save", "write", "announce"} => call[o].row \in ItemRow
    /\ call[o].pc = "abort" => /\ call[o].row.rotation # None
                               /\ call[o].row.rotation.candidate \in HandedCandidates
    /\ call[o].pc = "commit" => call[o].row = item /\ item.rotation # None
    /\ call[o].pc = "commit" <=> lock = o
    /\ call[o].pc \in {"save", "write"} => call[o].password \in Typed

\* The candidate in the row was handed out and nobody has aborted it.
CandidateInv ==
  /\ aborted \subseteq HandedCandidates
  /\ item.rotation # None => item.rotation.candidate \in HandedCandidates \ aborted

\* The inductive invariant.
RotationInv ==
  /\ TypeOK
  /\ CallInv
  /\ CandidateInv
  /\ CommitStored

\* A candidate that was handed out is in the row, with the recover_until its
\* holder was told, until it is committed, aborted or overdue.
InRow(h) ==
  /\ item.rotation # None
  /\ item.rotation.candidate = h.candidate
  /\ item.rotation.recover_until = h.until

RecoverInv == \A h \in handed : h.candidate \in Ended \/ now > h.until \/ InRow(h)

USE DEF ItemRow, RotationRow, Entry, EntryOf, Password

-----------------------------------------------------------------------------
\* The constants are numbers, and absence is no value.
LEMMA ConstantFacts ==
  /\ LockTtl \in Nat /\ StaleRetention \in Nat /\ MaxTime \in Nat
  /\ MaxEdits \in Nat /\ MaxFaults \in Nat
  /\ None \notin Operator /\ None \notin Candidate
  /\ Candidate \cap Typed = {}
BY RotationAssumption

\* A call that begins by reading the row is a call.
LEMMA EnterTyped ==
  ASSUME TypeOK, NEW o \in Operator, NEW op, NEW pc,
         pc \in {"start", "abort", "normalize", "commit"}, Enter(o, op, pc)
  PROVE  /\ call' \in [Operator -> Call]
         /\ call[o].pc = "idle"
         /\ call'[o].pc = pc /\ call'[o].row = item
         /\ \A u \in Operator \ {o} : call'[u] = call[u]
BY DEF TypeOK, Enter, Idle, Call

\* A call that ends leaves the others as they are.
LEMMA LeaveTyped ==
  ASSUME TypeOK, NEW o \in Operator, Leave(o)
  PROVE  /\ call' \in [Operator -> Call]
         /\ call'[o].pc = "idle"
         /\ \A u \in Operator \ {o} : call'[u] = call[u]
BY DEF TypeOK, Leave, Idle, Call

\* Marking a rotation stale keeps everything else of it.
LEMMA MarkedStale ==
  ASSUME TypeOK, item.rotation # None,
         NEW row, row = [item EXCEPT !.rotation.state = "stale"]
  PROVE  /\ row \in ItemRow /\ row.rotation # None
         /\ row.rotation.candidate = item.rotation.candidate
         /\ row.rotation.recover_until = item.rotation.recover_until
         /\ EntryOf(row) = EntryOf(item)
BY AbsentAssumption DEF TypeOK

-----------------------------------------------------------------------------
LEMMA InitInv == Init => RotationInv
<1> SUFFICES ASSUME Init PROVE RotationInv
  OBVIOUS
<1>1. TypeOK
  BY ConstantFacts DEF Init, TypeOK, Idle, Call
<1>2. CallInv
  BY ConstantFacts DEF Init, CallInv, Idle
<1>3. CandidateInv /\ CommitStored
  BY DEF Init, CandidateInv, CommitStored
<1> QED
  BY <1>1, <1>2, <1>3 DEF RotationInv

LEMMA StepInv == RotationInv /\ [Next]_vars => RotationInv'
<1> SUFFICES ASSUME RotationInv, [Next]_vars PROVE RotationInv'
  OBVIOUS
<1> USE DEF RotationInv
<1>0. CASE UNCHANGED vars
  <2>1. TypeOK'
    BY <1>0 DEF vars, TypeOK
  <2> QED
    BY <1>0, <2>1 DEF vars, CallInv, CandidateInv, CommitStored, HandedCandidates
<1>1. CASE Tick
  <2>1. TypeOK'
    BY <1>1, ConstantFacts DEF Tick, TypeOK
  <2> QED
    BY <1>1, <2>1 DEF Tick, CallInv, CandidateInv, CommitStored, HandedCandidates
<1>2. CASE Cleanup
  <2>1. TypeOK'
    BY <1>2 DEF Cleanup, TypeOK
  <2>2. CallInv'
    BY <1>2, ConstantFacts DEF Cleanup, CallInv, HandedCandidates
  <2>3. CandidateInv' /\ CommitStored'
    BY <1>2 DEF Cleanup, CandidateInv, CommitStored, HandedCandidates, TypeOK
  <2> QED
    BY <2>1, <2>2, <2>3
<1>3. ASSUME NEW o \in Operator, StartFetch(o) PROVE RotationInv'
  <2>0. Enter(o, "start", "start")
    BY <1>3 DEF StartFetch
  <2>1. TypeOK'
    BY <1>3, <2>0, EnterTyped DEF StartFetch, TypeOK
  <2>2. CallInv'
    BY <1>3, <2>0, EnterTyped DEF StartFetch, CallInv, HandedCandidates
  <2>3. CandidateInv' /\ CommitStored'
    BY <1>3 DEF StartFetch, CandidateInv, CommitStored, HandedCandidates
  <2> QED
    BY <2>1, <2>2, <2>3
<1>4. ASSUME NEW o \in Operator, NEW c \in Candidate, StartStore(o, c) PROVE RotationInv'
  <2>0. Leave(o) /\ call[o].pc = "start" /\ Unlocked(o)
    BY <1>4 DEF StartStore
  <2>1. lock = None
    BY <2>0 DEF Unlocked, CallInv
  <2>2. CASE Free
    <3>1. /\ item'.rotation # None /\ item'.rotation.candidate = c
          /\ item' \in ItemRow /\ EntryOf(item') = EntryOf(item)
      BY <1>4, <2>2, ConstantFacts, AbsentAssumption DEF StartStore, TypeOK
    <3>2. /\ handed' \subseteq [candidate : Candidate, until : Nat]
          /\ HandedCandidates' = HandedCandidates \cup {c}
      <4> DEFINE until == now + LockTtl + StaleRetention
      <4>1. until \in Nat
        BY ConstantFacts DEF TypeOK
      <4>2. handed' = handed \cup {[candidate |-> c, until |-> until]}
        BY <1>4, <2>2 DEF StartStore
      <4>3. handed' \subseteq [candidate : Candidate, until : Nat]
        BY <4>1, <4>2 DEF TypeOK
      <4>4. HandedCandidates' = HandedCandidates \cup {c}
        <5> DEFINE new == [candidate |-> c, until |-> until]
        <5>1. new.candidate = c
          OBVIOUS
        <5>2. handed' = handed \cup {new}
          BY <4>2
        <5> HIDE DEF new
        <5> QED
          BY <5>1, <5>2 DEF HandedCandidates
      <4> QED
        BY <4>3, <4>4
    <3>3. c \notin HandedCandidates
      BY <1>4 DEF StartStore, HandedCandidates
    <3>4. TypeOK'
      BY <1>4, <2>0, <3>1, <3>2, LeaveTyped DEF StartStore, TypeOK
    <3>5. CallInv'
      BY <1>4, <2>0, <2>1, <3>2, LeaveTyped, ConstantFacts DEF StartStore, CallInv
    <3>6. CandidateInv'
      BY <1>4, <3>1, <3>2, <3>3 DEF StartStore, CandidateInv
    <3>7. CommitStored'
      BY <1>4, <3>1 DEF StartStore, CommitStored
    <3> QED
      BY <3>4, <3>5, <3>6, <3>7
  <2>3. CASE ~Free
    <3>1. UNCHANGED <<item, handed>>
      BY <1>4, <2>3 DEF StartStore
    <3>2. TypeOK'
      BY <1>4, <2>0, <3>1, LeaveTyped DEF StartStore, TypeOK
    <3>3. CallInv'
      BY <1>4, <2>0, <2>1, <3>1, LeaveTyped, ConstantFacts DEF StartStore, CallInv, HandedCandidates
    <3>4. CandidateInv' /\ CommitStored'
      BY <1>4, <3>1 DEF StartStore, CandidateInv, CommitStored, HandedCandidates
    <3> QED
      BY <3>2, <3>3, <3>4
  <2> QED
    BY <2>2, <2>3
<1>5. ASSUME NEW o \in Operator, ShowFetch(o) PROVE RotationInv'
  <2>0. Enter(o, "show", "normalize")
    BY <1>5 DEF ShowFetch
  <2>1. TypeOK'
    BY <1>5, <2>0, EnterTyped DEF ShowFetch, TypeOK
  <2>2. CallInv'
    BY <1>5, <2>0, EnterTyped DEF ShowFetch, CallInv, HandedCandidates
  <2>3. CandidateInv' /\ CommitStored'
    BY <1>5 DEF ShowFetch, CandidateInv, CommitStored, HandedCandidates
  <2> QED
    BY <2>1, <2>2, <2>3
<1>6. ASSUME NEW o \in Operator, Normalize(o) PROVE RotationInv'
  <2>0. Leave(o) /\ call[o].pc = "normalize" /\ Unlocked(o)
    BY <1>6 DEF Normalize
  <2>1. lock = None
    BY <2>0 DEF Unlocked, CallInv
  <2>2. /\ item' \in ItemRow
        /\ EntryOf(item') = EntryOf(item)
        /\ item'.rotation # None => /\ item.rotation # None
                                    /\ item'.rotation.candidate = item.rotation.candidate
    BY <1>6, MarkedStale DEF Normalize, TypeOK
  <2>3. TypeOK'
    BY <1>6, <2>0, <2>2, LeaveTyped DEF Normalize, TypeOK
  <2>4. CallInv'
    BY <1>6, <2>0, <2>1, LeaveTyped, ConstantFacts DEF Normalize, CallInv, HandedCandidates
  <2>5. CandidateInv' /\ CommitStored'
    BY <1>6, <2>2 DEF Normalize, CandidateInv, CommitStored, HandedCandidates
  <2> QED
    BY <2>3, <2>4, <2>5
<1>7. ASSUME NEW o \in Operator, AbortFetch(o) PROVE RotationInv'
  <2>0. Enter(o, "abort", "abort") /\ item.rotation # None
    BY <1>7 DEF AbortFetch
  <2>1. TypeOK'
    BY <1>7, <2>0, EnterTyped DEF AbortFetch, TypeOK
  <2>2. CallInv'
    BY <1>7, <2>0, EnterTyped DEF AbortFetch, CallInv, CandidateInv, HandedCandidates, TypeOK
  <2>3. CandidateInv' /\ CommitStored'
    BY <1>7 DEF AbortFetch, CandidateInv, CommitStored, HandedCandidates
  <2> QED
    BY <2>1, <2>2, <2>3
<1>8. ASSUME NEW o \in Operator, AbortStore(o) PROVE RotationInv'
  <2>0. Leave(o) /\ call[o].pc = "abort" /\ Unlocked(o)
    BY <1>8 DEF AbortStore
  <2>1. lock = None
    BY <2>0 DEF Unlocked, CallInv
  <2>2. {call[o].row.rotation.candidate} \cup CandidatesOf(item) \subseteq HandedCandidates
    BY <2>0 DEF CallInv, CandidateInv, CandidatesOf
  <2>3. HandedCandidates \subseteq Candidate
    BY DEF HandedCandidates, TypeOK
  <2>4. item' \in ItemRow /\ item'.rotation = None /\ EntryOf(item') = EntryOf(item)
    BY <1>8 DEF AbortStore, AfterAbort, TypeOK
  <2>5. TypeOK'
    BY <1>8, <2>0, <2>2, <2>3, <2>4, LeaveTyped DEF AbortStore, TypeOK
  <2>6. CallInv'
    BY <1>8, <2>0, <2>1, LeaveTyped, ConstantFacts DEF AbortStore, CallInv, HandedCandidates
  <2>7. CandidateInv' /\ CommitStored'
    BY <1>8, <2>2, <2>4 DEF AbortStore, CandidateInv, CommitStored, HandedCandidates
  <2> QED
    BY <2>5, <2>6, <2>7
<1>9. ASSUME NEW o \in Operator, CommitLock(o) PROVE RotationInv'
  <2>0. Enter(o, "commit", "commit") /\ Unlocked(o) /\ item.rotation # None
    BY <1>9 DEF CommitLock, Committable
  <2>1. lock = None
    BY <2>0, EnterTyped DEF Unlocked, CallInv
  <2>2. TypeOK'
    BY <1>9, <2>0, EnterTyped DEF CommitLock, TypeOK
  <2>3. CallInv'
    BY <1>9, <2>0, <2>1, EnterTyped, ConstantFacts DEF CommitLock, CallInv, HandedCandidates, TypeOK
  <2>4. CandidateInv' /\ CommitStored'
    BY <1>9 DEF CommitLock, CandidateInv, CommitStored, HandedCandidates
  <2> QED
    BY <2>2, <2>3, <2>4
<1>10. ASSUME NEW o \in Operator, CommitStore(o) PROVE RotationInv'
  <2>0. /\ call[o].pc = "commit" /\ call[o].row = item
        /\ item.rotation # None /\ lock = o
    BY <1>10 DEF CommitStore, CallInv
  <2>1. /\ item' \in ItemRow /\ item'.rotation = None
        /\ past' = past \cup {EntryOf(item)}
        /\ committed' = committed \cup {EntryOf(item')}
    BY <1>10, <2>0 DEF CommitStore, TypeOK
  <2>2. history' \subseteq Entry
    BY <1>10, <2>0 DEF CommitStore, WithEntry, TypeOK
  <2>3. /\ call' \in [Operator -> Call] /\ call'[o].pc = "prune"
        /\ \A u \in Operator \ {o} : call'[u] = call[u]
    BY <1>10 DEF CommitStore, TypeOK, Call, Idle
  <2>4. TypeOK'
    BY <1>10, <2>1, <2>2, <2>3 DEF CommitStore, TypeOK
  <2>5. CallInv'
    BY <1>10, <2>0, <2>3, ConstantFacts DEF CommitStore, CallInv, HandedCandidates
  <2>6. CandidateInv' /\ CommitStored'
    BY <1>10, <2>1 DEF CommitStore, CandidateInv, CommitStored, HandedCandidates
  <2> QED
    BY <2>4, <2>5, <2>6
<1>11. ASSUME NEW o \in Operator, CommitPrune(o) PROVE RotationInv'
  <2>0. Leave(o) /\ call[o].pc = "prune"
    BY <1>11 DEF CommitPrune
  <2>1. TypeOK'
    BY <1>11, <2>0, LeaveTyped DEF CommitPrune, Newest, TypeOK
  <2>2. CallInv'
    BY <1>11, <2>0, LeaveTyped DEF CommitPrune, CallInv, HandedCandidates
  <2>3. CandidateInv' /\ CommitStored'
    BY <1>11 DEF CommitPrune, CandidateInv, CommitStored, HandedCandidates
  <2> QED
    BY <2>1, <2>2, <2>3
<1>12. ASSUME NEW o \in Operator, NEW p \in Typed, EditRead(o, p) PROVE RotationInv'
  <2>0. /\ call' \in [Operator -> Call] /\ call[o].pc = "idle"
        /\ call'[o].pc = "save" /\ call'[o].row = item /\ call'[o].password = p
        /\ \A u \in Operator \ {o} : call'[u] = call[u]
    BY <1>12 DEF EditRead, TypeOK, Call
  <2>1. TypeOK'
    BY <1>12, <2>0, ConstantFacts DEF EditRead, TypeOK
  <2>2. CallInv'
    BY <1>12, <2>0 DEF EditRead, CallInv, HandedCandidates, TypeOK
  <2>3. CandidateInv' /\ CommitStored'
    BY <1>12 DEF EditRead, CandidateInv, CommitStored, HandedCandidates
  <2> QED
    BY <2>1, <2>2, <2>3
<1>13. ASSUME NEW o \in Operator, EditSave(o) PROVE RotationInv'
  <2>0. /\ call' \in [Operator -> Call] /\ call[o].pc = "save" /\ call'[o].pc = "write"
        /\ call'[o].row = call[o].row /\ call'[o].password = call[o].password
        /\ \A u \in Operator \ {o} : call'[u] = call[u]
    BY <1>13 DEF EditSave, TypeOK, Call
  <2>1. call[o].row \in ItemRow
    BY <2>0 DEF CallInv
  <2>2. history' \subseteq Entry
    BY <1>13, <2>1 DEF EditSave, WithEntry, Newest, TypeOK
  <2>3. TypeOK'
    BY <1>13, <2>0, <2>2 DEF EditSave, TypeOK
  <2>4. CallInv'
    BY <1>13, <2>0 DEF EditSave, CallInv, HandedCandidates
  <2>5. CandidateInv' /\ CommitStored'
    BY <1>13 DEF EditSave, CandidateInv, CommitStored, HandedCandidates
  <2> QED
    BY <2>3, <2>4, <2>5
<1>14. ASSUME NEW o \in Operator, EditWrite(o) PROVE RotationInv'
  <2>0. /\ call[o].pc = "write" /\ Unlocked(o)
        /\ call[o].row \in ItemRow /\ call[o].password \in Typed
    BY <1>14 DEF EditWrite, CallInv
  <2>1. lock = None
    BY <2>0 DEF Unlocked, CallInv
  <2>2. CASE item.row_version = call[o].row.row_version
    <3>1. /\ item' \in ItemRow /\ item'.rotation = item.rotation
          /\ past' = past \cup {EntryOf(item)}
      <4>1. item' = [item EXCEPT !.password = call[o].password,
                                 !.version = call[o].row.version + 1,
                                 !.row_version = @ + 1]
        BY <1>14, <2>2 DEF EditWrite
      <4>2. /\ call[o].row.version + 1 \in Nat /\ call[o].password \in Password
            /\ item \in ItemRow /\ item.row_version + 1 \in Nat
        BY <2>0 DEF TypeOK
      <4>3. item' = [password |-> call[o].password, version |-> call[o].row.version + 1,
                     row_version |-> item.row_version + 1, rotation |-> item.rotation]
        BY <4>1, <4>2
      <4>5. item' \in ItemRow /\ item'.rotation = item.rotation
        BY <4>2, <4>3
      <4>4. past' = past \cup {EntryOf(item)}
        BY <1>14, <2>2 DEF EditWrite
      <4> QED
        BY <4>4, <4>5
    <3>2. /\ call' \in [Operator -> Call] /\ call'[o].pc = "announce" /\ call'[o].row = item'
          /\ \A u \in Operator \ {o} : call'[u] = call[u]
      <4>1. call' = [call EXCEPT ![o] = [@ EXCEPT !.pc = "announce", !.row = item']]
        BY <1>14, <2>2 DEF EditWrite
      <4>2. call[o] \in Call /\ item' \in ItemRow \cup {None}
        BY <3>1 DEF TypeOK
      <4> QED
        BY <4>1, <4>2 DEF TypeOK, Call
    <3>3. TypeOK'
      BY <1>14, <3>1, <3>2 DEF EditWrite, TypeOK
    <3>4. CallInv'
      BY <1>14, <2>0, <2>1, <3>1, <3>2, ConstantFacts DEF EditWrite, CallInv, HandedCandidates
    <3>5. CandidateInv' /\ CommitStored'
      BY <1>14, <3>1 DEF EditWrite, CandidateInv, CommitStored, HandedCandidates
    <3> QED
      BY <3>3, <3>4, <3>5
  <2>3. CASE item.row_version # call[o].row.row_version
    <3>1. Leave(o) /\ UNCHANGED <<item, past>>
      BY <1>14, <2>3 DEF EditWrite
    <3>2. TypeOK'
      BY <1>14, <3>1, LeaveTyped DEF EditWrite, TypeOK
    <3>3. CallInv'
      BY <1>14, <2>1, <3>1, LeaveTyped, ConstantFacts DEF EditWrite, CallInv, HandedCandidates
    <3>4. CandidateInv' /\ CommitStored'
      BY <1>14, <3>1 DEF EditWrite, CandidateInv, CommitStored, HandedCandidates
    <3> QED
      BY <3>2, <3>3, <3>4
  <2> QED
    BY <2>2, <2>3
<1>15. ASSUME NEW o \in Operator, EditAnnounce(o) PROVE RotationInv'
  <2>0. Leave(o) /\ call[o].pc = "announce" /\ call[o].row \in ItemRow
    BY <1>15 DEF EditAnnounce, CallInv
  <2>1. TypeOK'
    BY <1>15, <2>0, LeaveTyped DEF EditAnnounce, TypeOK
  <2>2. CallInv'
    BY <1>15, <2>0, LeaveTyped DEF EditAnnounce, CallInv, HandedCandidates
  <2>3. CandidateInv' /\ CommitStored'
    BY <1>15 DEF EditAnnounce, CandidateInv, CommitStored, HandedCandidates
  <2> QED
    BY <2>1, <2>2, <2>3
<1>16. ASSUME NEW o \in Operator, Die(o) PROVE RotationInv'
  <2>0. Leave(o)
    BY <1>16 DEF Die
  <2>1. TypeOK'
    BY <1>16, <2>0, LeaveTyped, ConstantFacts DEF Die, TypeOK
  <2>2. CallInv'
    BY <1>16, <2>0, LeaveTyped, ConstantFacts DEF Die, CallInv, HandedCandidates
  <2>3. CandidateInv' /\ CommitStored'
    BY <1>16 DEF Die, CandidateInv, CommitStored, HandedCandidates
  <2> QED
    BY <2>1, <2>2, <2>3
<1> QED
  BY <1>0, <1>1, <1>2, <1>3, <1>4, <1>5, <1>6, <1>7, <1>8, <1>9, <1>10, <1>11,
     <1>12, <1>13, <1>14, <1>15, <1>16 DEF Next, CallStep

-----------------------------------------------------------------------------
\* The inductive invariant holds in every reachable state.
THEOREM Invariance == Spec => []RotationInv
<1>1. RotationInv /\ [Next]_vars => RotationInv'
  BY StepInv
<1> QED
  BY InitInv, <1>1, PTL DEF Spec

\* Rows, calls and history entries are well formed, and the clock and the
\* counters stay within their bounds.
THEOREM TypeCorrect == Spec => []TypeOK
<1>1. RotationInv => TypeOK
  BY DEF RotationInv
<1> QED
  BY Invariance, <1>1, PTL

\* rotate_commit never looks at how many rows its UPDATE changed, yet what it
\* acknowledged is stored: the row cannot change between its SELECT FOR UPDATE
\* and its UPDATE, so the row_version it compares is always the current one.
THEOREM CommitsAreStored == Spec => []CommitStored
<1>1. RotationInv => CommitStored
  BY DEF RotationInv
<1> QED
  BY Invariance, <1>1, PTL

\* A candidate that an abort meant or removed never becomes the password: a
\* commit installs the candidate of the row, which nobody has aborted, and an
\* edit installs a password that was typed.
THEOREM AbortIsFinal == Spec => AbortedNeverInstalled
<1>1. RotationInv /\ [Next]_vars =>
        [item'.password # item.password => item'.password \notin aborted]_vars
  <2> SUFFICES ASSUME RotationInv, Next, item'.password # item.password
               PROVE  item'.password \notin aborted
    OBVIOUS
  <2> USE DEF RotationInv
  <2>1. ASSUME NEW o \in Operator, CommitStore(o) PROVE item'.password \notin aborted
    <3>1. call[o].row = item /\ item.rotation # None
      BY <2>1 DEF CommitStore, CallInv
    <3>2. item'.password = item.rotation.candidate
      BY <2>1, <3>1 DEF CommitStore
    <3> QED
      BY <3>1, <3>2 DEF CandidateInv
  <2>2. ASSUME NEW o \in Operator, EditWrite(o) PROVE item'.password \notin aborted
    <3>1. call[o].password \in Typed
      BY <2>2 DEF EditWrite, CallInv
    <3>2. item'.password = call[o].password
      BY <2>2 DEF EditWrite, TypeOK
    <3> QED
      BY <3>1, <3>2, ConstantFacts DEF TypeOK
  <2>3. CASE Tick \/ Cleanup
    BY <2>3 DEF Tick, Cleanup, TypeOK
  <2>4. ASSUME NEW o \in Operator, NEW c \in Candidate, StartStore(o, c) PROVE FALSE
    BY <2>4 DEF StartStore, TypeOK
  <2>5. ASSUME NEW o \in Operator, Normalize(o) PROVE FALSE
    BY <2>5, MarkedStale DEF Normalize
  <2>6. ASSUME NEW o \in Operator, AbortStore(o) PROVE FALSE
    BY <2>6 DEF AbortStore, TypeOK
  <2>7. ASSUME NEW o \in Operator, NEW p \in Typed,
               EditRead(o, p)
        PROVE  FALSE
    BY <2>7 DEF EditRead
  <2>8. ASSUME NEW o \in Operator,
               \/ StartFetch(o) \/ ShowFetch(o) \/ AbortFetch(o) \/ CommitLock(o)
               \/ CommitPrune(o) \/ EditSave(o) \/ EditAnnounce(o) \/ Die(o)
        PROVE  FALSE
    BY <2>8 DEF StartFetch, ShowFetch, AbortFetch, CommitLock, CommitPrune,
                EditSave, EditAnnounce, Die
  <2> QED
    BY <2>1, <2>2, <2>3, <2>4, <2>5, <2>6, <2>7, <2>8 DEF Next, CallStep
<1> QED
  BY Invariance, <1>1, PTL DEF Spec, AbortedNeverInstalled

-----------------------------------------------------------------------------
\* A step that leaves the row, the clock and the ledgers alone leaves the
\* recoverability of every candidate alone.
LEMMA RecoverFrame ==
  ASSUME RecoverInv, UNCHANGED <<item, now, handed, committed, aborted>>
  PROVE  RecoverInv'
BY DEF RecoverInv, InRow, Ended

LEMMA RecoverStep == RotationInv /\ RecoverInv /\ [Next]_vars => RecoverInv'
<1> SUFFICES ASSUME RotationInv, RecoverInv, [Next]_vars PROVE RecoverInv'
  OBVIOUS
<1> USE DEF RotationInv
<1>0. CASE UNCHANGED vars
  BY <1>0, RecoverFrame DEF vars
<1>1. CASE Tick
  BY <1>1 DEF Tick, RecoverInv, InRow, Ended, TypeOK
<1>2. CASE Cleanup
  BY <1>2 DEF Cleanup, Overdue, RecoverInv, InRow, Ended, TypeOK
<1>3. ASSUME NEW o \in Operator, NEW c \in Candidate, StartStore(o, c) PROVE RecoverInv'
  <2>1. CASE Free
    <3> DEFINE until == now + LockTtl + StaleRetention
               new == [candidate |-> c, until |-> until]
    <3>1. /\ handed' = handed \cup {new}
          /\ UNCHANGED <<now, committed, aborted>>
      BY <1>3, <2>1 DEF StartStore
    <3>2. item.rotation = None
      BY <2>1 DEF Free
    <3>3. /\ item'.rotation # None /\ item'.rotation.candidate = c
          /\ item'.rotation.recover_until = until
      BY <1>3, <2>1, ConstantFacts, AbsentAssumption DEF StartStore, TypeOK
    <3>4. new.candidate = c /\ new.until = until
      OBVIOUS
    <3> HIDE DEF new, until
    <3> QED
      BY <3>1, <3>2, <3>3, <3>4 DEF RecoverInv, InRow, Ended
  <2>2. CASE ~Free
    BY <1>3, <2>2, RecoverFrame DEF StartStore
  <2> QED
    BY <2>1, <2>2
<1>4. ASSUME NEW o \in Operator, Normalize(o) PROVE RecoverInv'
  <2>1. CASE item' = item
    BY <1>4, <2>1, RecoverFrame DEF Normalize
  <2>2. CASE item' # item
    <3>1. item.rotation # None /\ item' = [item EXCEPT !.rotation.state = "stale"]
      BY <1>4, <2>2 DEF Normalize
    <3>2. /\ item'.rotation # None
          /\ item'.rotation.candidate = item.rotation.candidate
          /\ item'.rotation.recover_until = item.rotation.recover_until
      BY <3>1, MarkedStale
    <3> QED
      BY <1>4, <3>2 DEF Normalize, RecoverInv, InRow, Ended
  <2> QED
    BY <2>1, <2>2
<1>5. ASSUME NEW o \in Operator, AbortStore(o) PROVE RecoverInv'
  BY <1>5 DEF AbortStore, CandidatesOf, RecoverInv, InRow, Ended
<1>6. ASSUME NEW o \in Operator, CommitStore(o) PROVE RecoverInv'
  <2>1. call[o].row = item /\ item.rotation # None
    BY <1>6 DEF CommitStore, CallInv
  <2>2. /\ committed' = committed \cup {EntryOf(item')}
        /\ item'.password = item.rotation.candidate
    BY <1>6, <2>1 DEF CommitStore
  <2>3. Ended \cup {item.rotation.candidate} \subseteq Ended'
    <3>1. EntryOf(item').password = item'.password
      OBVIOUS
    <3>2. UNCHANGED aborted
      BY <1>6 DEF CommitStore
    <3> HIDE DEF EntryOf
    <3> QED
      BY <2>2, <3>1, <3>2 DEF Ended
  <2>4. UNCHANGED <<handed, now>>
    BY <1>6 DEF CommitStore
  <2> QED
    BY <2>3, <2>4 DEF RecoverInv, InRow
<1>7. ASSUME NEW o \in Operator, EditWrite(o) PROVE RecoverInv'
  <2>1. item'.rotation = item.rotation
    BY <1>7 DEF EditWrite, TypeOK
  <2> QED
    BY <1>7, <2>1 DEF EditWrite, RecoverInv, InRow, Ended
<1>8. ASSUME NEW o \in Operator, NEW p \in Typed, EditRead(o, p) PROVE RecoverInv'
  BY <1>8, RecoverFrame DEF EditRead
<1>9. ASSUME NEW o \in Operator,
             \/ StartFetch(o) \/ ShowFetch(o) \/ AbortFetch(o) \/ CommitLock(o)
             \/ CommitPrune(o) \/ EditSave(o) \/ EditAnnounce(o) \/ Die(o)
      PROVE  RecoverInv'
  BY <1>9, RecoverFrame DEF StartFetch, ShowFetch, AbortFetch, CommitLock, CommitPrune,
                            EditSave, EditAnnounce, Die
<1> QED
  BY <1>0, <1>1, <1>2, <1>3, <1>4, <1>5, <1>6, <1>7, <1>8, <1>9 DEF Next, CallStep

\* A candidate in the row, and within its recover_until, is what
\* rotate_candidate or rotate_recover answers, marked stale yet or not.
LEMMA InRowIsShown ==
  ASSUME RotationInv, NEW h \in handed, InRow(h), ~(now > h.until)
  PROVE  h.candidate \in {ShownCandidate(Normalized(item.rotation)),
                          RecoveredCandidate(Normalized(item.rotation))}
<1>1. item.rotation \in RotationRow /\ item.rotation # None
  BY DEF RotationInv, TypeOK, InRow
<1>2. CASE item.rotation.state = "rotating" /\ now > item.rotation.expires_at
  <2>1. /\ Normalized(item.rotation).state = "stale"
        /\ Normalized(item.rotation) # None
        /\ Normalized(item.rotation).candidate = item.rotation.candidate
        /\ Normalized(item.rotation).recover_until = item.rotation.recover_until
    BY <1>1, <1>2, AbsentAssumption DEF Normalized
  <2> QED
    BY <2>1 DEF RecoveredCandidate, InRow
<1>3. CASE ~(item.rotation.state = "rotating" /\ now > item.rotation.expires_at)
  BY <1>1, <1>3 DEF Normalized, ShownCandidate, RecoveredCandidate, InRow
<1> QED
  BY <1>2, <1>3

\* Within its recover_until a candidate that was handed out can be had again,
\* unless it was committed or aborted: a second rotate_start cannot replace
\* it, whatever it read before, and nothing but a commit, an abort or the
\* overdue cleanup clears it.
THEOREM CandidatesAreRecoverable == Spec => []CandidateRecoverable
<1>1. Init => RecoverInv
  BY DEF Init, RecoverInv
<1>2. RotationInv /\ RecoverInv /\ [Next]_vars => RecoverInv'
  BY RecoverStep
<1>3. RotationInv /\ RecoverInv => CandidateRecoverable
  BY InRowIsShown DEF RecoverInv, CandidateRecoverable
<1> QED
  BY Invariance, <1>1, <1>2, <1>3, PTL DEF Spec

-----------------------------------------------------------------------------
(* The history of the password.  An entry is pruned for its age only: as   *)
(* every entry is what the row once held, there is one of a version, and   *)
(* none is newer than the row.  What an edit saves before its UPDATE is    *)
(* what the UPDATE replaces, or the UPDATE finds another row_version.      *)

Versions == past \cup {EntryOf(item)}

HistoryInv ==
  /\ \A e \in past : e.version < item.version
  /\ \A e, f \in past : e.version = f.version => e = f
  /\ history \subseteq Versions
  /\ \A o \in Operator : call[o].pc \in {"save", "write"} =>
       /\ EntryOf(call[o].row) \in Versions
       /\ call[o].row.row_version <= item.row_version
       /\ call[o].row.row_version = item.row_version =>
            EntryOf(call[o].row) = EntryOf(item)
  /\ \A o \in Operator : call[o].pc = "write" /\ call[o].row.row_version = item.row_version =>
       EntryOf(item) \in history
  /\ RecentPasswordsKept

\* The entries of a version are one, and no entry is newer than the row.
LEMMA VersionsAreOnce ==
  ASSUME RotationInv, HistoryInv
  PROVE  /\ Versions \subseteq Entry
         /\ \A e \in Versions : e.version <= item.version
         /\ \A e, f \in Versions : e.version = f.version => e = f
<1>1. item.version \in Nat /\ past \subseteq Entry /\ EntryOf(item) \in Entry
  BY DEF RotationInv, TypeOK
<1>2. EntryOf(item).version = item.version
  OBVIOUS
<1> HIDE DEF EntryOf
<1> QED  BY <1>1, <1>2 DEF HistoryInv, Versions

\* DELETE ... ORDER BY version DESC OFFSET keep spares what is less than keep
\* versions old.
LEMMA NewestKeepsRecent ==
  ASSUME NEW h \in SUBSET Entry, NEW v \in Nat, NEW keep \in Nat,
         \A a \in h : a.version <= v,
         \A a, b \in h : a.version = b.version => a = b,
         NEW e \in h, v - e.version < keep
  PROVE  e \in Newest(h, keep)
<1> DEFINE N == {a \in h : a.version > e.version}
           T == (e.version + 1) .. v
           f == [a \in N |-> a.version]
<1>1. e.version \in Nat /\ e.version <= v
  OBVIOUS
<1>2. f \in [N -> T]
  BY <1>1
<1>3. \A a, b \in N : f[a] = f[b] => a = b
  OBVIOUS
<1>4. f \in Injection(N, T)
  <2> HIDE DEF f, N, T
  <2> QED  BY <1>2, <1>3 DEF Injection, IsInjective
<1>5. IsFiniteSet(T) /\ Cardinality(T) = v - e.version
  <2>1. e.version + 1 \in Int /\ v \in Int
    BY <1>1
  <2>2. /\ IsFiniteSet(T)
        /\ Cardinality(T) = IF e.version + 1 > v THEN 0 ELSE v - (e.version + 1) + 1
    BY <2>1, FS_Interval
  <2> QED  BY <1>1, <2>2
<1>6. IsFiniteSet(N) /\ Cardinality(N) <= Cardinality(T)
  <2> HIDE DEF f, N, T
  <2> QED  BY <1>4, <1>5, FS_Injection
<1>7. Cardinality(N) \in Nat
  BY <1>6, FS_CardinalityType
<1>8. Cardinality(N) < keep
  BY <1>1, <1>5, <1>6, <1>7
<1> QED  BY <1>8 DEF Newest

\* The limit below which a version must be there is neither of the two less.
LEMMA LimitIsLeast ==
  /\ Min({MaxVersions, HistoryLimit}) <= MaxVersions
  /\ Min({MaxVersions, HistoryLimit}) <= HistoryLimit
  /\ Min({MaxVersions, HistoryLimit}) \in Nat
  /\ MaxVersions \in Nat /\ HistoryLimit \in Nat
<1>1. MaxVersions \in Nat /\ HistoryLimit \in Nat
  BY RotationAssumption
<1>2. \E x \in {MaxVersions, HistoryLimit} : \A y \in {MaxVersions, HistoryLimit} : x =< y
  BY <1>1
<1>3. /\ Min({MaxVersions, HistoryLimit}) \in {MaxVersions, HistoryLimit}
      /\ \A y \in {MaxVersions, HistoryLimit} : Min({MaxVersions, HistoryLimit}) =< y
  BY <1>2 DEF Min
<1> QED  BY <1>1, <1>3

\* Saving the entry of a row that was read, and pruning, keep what is recent.
LEMMA SavedIsThere ==
  ASSUME RotationInv, HistoryInv, NEW row, EntryOf(row) \in Versions
  PROVE  /\ WithEntry(history, row) \subseteq Versions
         /\ history \subseteq WithEntry(history, row)
         /\ EntryOf(row) \in WithEntry(history, row)
<1>1. EntryOf(row).version = row.version
  OBVIOUS
<1>2. history \subseteq Versions
  BY DEF HistoryInv
<1> HIDE DEF EntryOf
<1> QED  BY <1>1, <1>2, VersionsAreOnce DEF WithEntry

LEMMA PrunedIsRecent ==
  ASSUME RotationInv, HistoryInv, NEW h \in SUBSET Versions, history \subseteq h,
         NEW keep \in {MaxVersions, HistoryLimit}
  PROVE  /\ Newest(h, keep) \subseteq Versions
         /\ EntryOf(item) \in h => EntryOf(item) \in Newest(h, keep)
         /\ \A e \in past : item.version - e.version < Min({MaxVersions, HistoryLimit}) =>
              e \in Newest(h, keep)
<1>1. /\ item.version \in Nat /\ keep \in Nat /\ keep > 0
      /\ Min({MaxVersions, HistoryLimit}) <= keep
      /\ Min({MaxVersions, HistoryLimit}) \in Nat
  BY LimitIsLeast, RotationAssumption DEF RotationInv, TypeOK
<1>2. /\ h \in SUBSET Entry
      /\ \A a \in h : a.version <= item.version
      /\ \A a, b \in h : a.version = b.version => a = b
  BY VersionsAreOnce
<1>3. EntryOf(item).version = item.version
  OBVIOUS
<1> HIDE DEF EntryOf
<1>4. ASSUME EntryOf(item) \in h
      PROVE  EntryOf(item) \in Newest(h, keep)
  <2>1. item.version - EntryOf(item).version < keep
    BY <1>1, <1>3
  <2> QED  BY <1>1, <1>2, <1>4, <2>1, NewestKeepsRecent
<1>5. ASSUME NEW e \in past, item.version - e.version < Min({MaxVersions, HistoryLimit})
      PROVE  e \in Newest(h, keep)
  <2>1. e \in h
    BY <1>5 DEF HistoryInv, RecentPasswordsKept
  <2>2. e.version \in Nat
    BY <1>2, <2>1 DEF Entry
  <2>3. item.version - e.version < keep
    BY <1>1, <1>5, <2>2
  <2> QED  BY <1>1, <1>2, <2>1, <2>3, NewestKeepsRecent
<1>6. Newest(h, keep) \subseteq Versions
  BY DEF Newest
<1> QED  BY <1>4, <1>5, <1>6

\* A step that leaves the password and its history alone, and no call with a
\* row it did not have, leaves the history as it should be.
LEMMA HistoryFrame ==
  ASSUME RotationInv, HistoryInv, UNCHANGED <<history, past>>,
         item'.version = item.version, item'.row_version = item.row_version,
         item'.password = item.password,
         \A o \in Operator : call'[o].pc \in {"save", "write"} =>
           call'[o].pc = call[o].pc /\ call'[o].row = call[o].row
  PROVE  HistoryInv'
<1>1. Versions' = Versions /\ EntryOf(item)' = EntryOf(item)
  BY DEF Versions
<1> HIDE DEF EntryOf
<1>2. RecentPasswordsKept'
  BY DEF HistoryInv, RecentPasswordsKept
<1>3. /\ \A e \in past : e.version < item.version
      /\ \A e, f \in past : e.version = f.version => e = f
      /\ history \subseteq Versions
  BY DEF HistoryInv
<1>4. ASSUME NEW o \in Operator, call'[o].pc \in {"save", "write"}
      PROVE  /\ call[o].pc = call'[o].pc
             /\ EntryOf(call'[o].row) \in Versions
             /\ call'[o].row.row_version <= item.row_version
             /\ call'[o].row.row_version = item.row_version =>
                  EntryOf(call'[o].row) = EntryOf(item)
             /\ call'[o].pc = "write" /\ call'[o].row.row_version = item.row_version =>
                  EntryOf(item) \in history
  BY <1>4 DEF HistoryInv
<1>5. /\ \A e \in past' : e.version < item'.version
      /\ \A e, f \in past' : e.version = f.version => e = f
      /\ history' \subseteq Versions'
  BY <1>1, <1>3
<1>6. \A o \in Operator : call'[o].pc \in {"save", "write"} =>
        /\ EntryOf(call'[o].row) \in Versions'
        /\ call'[o].row.row_version <= item'.row_version
        /\ call'[o].row.row_version = item'.row_version =>
             EntryOf(call'[o].row) = EntryOf(item)'
        /\ call'[o].pc = "write" /\ call'[o].row.row_version = item'.row_version =>
             EntryOf(item)' \in history'
  BY <1>1, <1>4
<1> QED  BY <1>2, <1>5, <1>6 DEF HistoryInv, EntryOf

\* The row is replaced, and what it held is in the history.
LEMMA RowReplaced ==
  ASSUME RotationInv, HistoryInv, past' = past \cup {EntryOf(item)},
         item'.version = item.version + 1, item'.row_version = item.row_version + 1,
         history \subseteq history', history' \subseteq Versions, EntryOf(item) \in history',
         \A o \in Operator : call'[o].pc \in {"save", "write"} =>
           call'[o].pc = call[o].pc /\ call'[o].row = call[o].row
  PROVE  HistoryInv'
<1>1. /\ past' = Versions
      /\ Versions' = Versions \cup {EntryOf(item)'}
      /\ history' \subseteq Versions'
  BY DEF Versions
<1>2. /\ item.version \in Nat /\ item.row_version \in Nat
      /\ Versions \subseteq Entry
      /\ \A e \in Versions : e.version <= item.version
      /\ \A e, f \in Versions : e.version = f.version => e = f
  BY VersionsAreOnce DEF RotationInv, TypeOK
<1>3. EntryOf(item).version = item.version
  OBVIOUS
<1> HIDE DEF EntryOf
<1>4. \A e \in past' : e.version < item'.version
  BY <1>1, <1>2 DEF Entry
<1>5. ASSUME NEW o \in Operator, call'[o].pc \in {"save", "write"}
      PROVE  /\ EntryOf(call'[o].row) \in Versions
             /\ call'[o].row.row_version < item'.row_version
  <2>1. /\ EntryOf(call[o].row) \in Versions
        /\ call[o].row.row_version <= item.row_version
        /\ call[o].row \in ItemRow
    BY <1>5 DEF HistoryInv, RotationInv, CallInv
  <2>2. call[o].row.row_version \in Nat
    BY <2>1
  <2> QED  BY <1>2, <1>5, <2>1, <2>2
<1>6. \A o \in Operator : call'[o].pc \in {"save", "write"} => call'[o].row.row_version \in Nat
  BY DEF RotationInv, CallInv
<1>7. /\ \A o \in Operator : call'[o].pc \in {"save", "write"} =>
           /\ EntryOf(call'[o].row) \in Versions'
           /\ call'[o].row.row_version <= item'.row_version
           /\ call'[o].row.row_version # item'.row_version
  <2>1. item'.row_version \in Nat
    BY <1>2
  <2> QED  BY <1>1, <1>5, <1>6, <2>1
<1>8. RecentPasswordsKept'
  <2> SUFFICES ASSUME NEW e \in past',
                      item'.version - e.version < Min({MaxVersions, HistoryLimit})
               PROVE  e \in history'
    BY DEF RecentPasswordsKept
  <2>1. CASE e = EntryOf(item)
    BY <2>1
  <2>2. CASE e # EntryOf(item)
    <3>1. e \in past /\ e.version \in Nat
      BY <1>1, <1>2, <2>2 DEF Versions, Entry
    <3>2. item.version - e.version < Min({MaxVersions, HistoryLimit})
      BY <1>2, <3>1, LimitIsLeast
    <3> QED  BY <3>1, <3>2 DEF HistoryInv, RecentPasswordsKept
  <2> QED  BY <2>1, <2>2
<1>9. \A e, f \in past' : e.version = f.version => e = f
  BY <1>1, <1>2
<1> QED  BY <1>1, <1>4, <1>7, <1>8, <1>9 DEF HistoryInv, EntryOf

LEMMA HistoryStep == RotationInv /\ HistoryInv /\ [Next]_vars => HistoryInv'
<1> SUFFICES ASSUME RotationInv, HistoryInv, [Next]_vars PROVE HistoryInv'
  OBVIOUS
<1>0. TypeOK /\ CallInv
  BY DEF RotationInv
<1>1. CASE UNCHANGED vars
  BY <1>1, HistoryFrame DEF vars
<1>2. CASE Tick
  BY <1>2, HistoryFrame DEF Tick
<1>3. CASE Cleanup
  BY <1>0, <1>3, HistoryFrame DEF Cleanup, TypeOK
<1>4. ASSUME NEW o \in Operator, StartFetch(o) \/ ShowFetch(o) \/ AbortFetch(o) \/ CommitLock(o)
      PROVE  HistoryInv'
  <2>1. PICK op \in {"start", "show", "abort", "commit"},
             pc \in {"start", "abort", "normalize", "commit"} : Enter(o, op, pc)
    BY <1>4 DEF StartFetch, ShowFetch, AbortFetch, CommitLock
  <2>2. UNCHANGED <<item, history, past>>
    BY <1>4 DEF StartFetch, ShowFetch, AbortFetch, CommitLock
  <2> QED  BY <1>0, <2>1, <2>2, EnterTyped, HistoryFrame
<1>5. ASSUME NEW o \in Operator, NEW c \in Candidate, StartStore(o, c) PROVE HistoryInv'
  <2>1. /\ item'.version = item.version /\ item'.row_version = item.row_version
        /\ item'.password = item.password
    BY <1>0, <1>5 DEF StartStore, TypeOK
  <2> QED  BY <1>0, <1>5, <2>1, LeaveTyped, HistoryFrame DEF StartStore
<1>6. ASSUME NEW o \in Operator, Normalize(o) PROVE HistoryInv'
  <2>1. /\ item'.version = item.version /\ item'.row_version = item.row_version
        /\ item'.password = item.password
    BY <1>0, <1>6 DEF Normalize, TypeOK
  <2> QED  BY <1>0, <1>6, <2>1, LeaveTyped, HistoryFrame DEF Normalize
<1>7. ASSUME NEW o \in Operator, AbortStore(o) PROVE HistoryInv'
  <2>1. /\ item'.version = item.version /\ item'.row_version = item.row_version
        /\ item'.password = item.password
    BY <1>0, <1>7 DEF AbortStore, TypeOK
  <2> QED  BY <1>0, <1>7, <2>1, LeaveTyped, HistoryFrame DEF AbortStore
<1>8. ASSUME NEW o \in Operator, EditAnnounce(o) \/ Die(o) PROVE HistoryInv'
  BY <1>0, <1>8, LeaveTyped, HistoryFrame DEF EditAnnounce, Die
<1>9. ASSUME NEW o \in Operator, CommitStore(o) PROVE HistoryInv'
  <2>1. call[o].row = item /\ call[o].pc = "commit"
    BY <1>0, <1>9 DEF CommitStore, CallInv
  <2>2. /\ past' = past \cup {EntryOf(item)}
        /\ item'.version = item.version + 1 /\ item'.row_version = item.row_version + 1
        /\ history' = WithEntry(history, item)
    BY <1>9, <2>1 DEF CommitStore
  <2>3. EntryOf(item) \in Versions
    BY DEF Versions
  <2>4. /\ history' \subseteq Versions /\ history \subseteq history' /\ EntryOf(item) \in history'
    BY <2>2, <2>3, SavedIsThere
  <2>5. \A u \in Operator : call'[u].pc \in {"save", "write"} =>
          call'[u].pc = call[u].pc /\ call'[u].row = call[u].row
    BY <1>0, <1>9 DEF CommitStore, TypeOK, Idle
  <2> QED  BY <2>2, <2>4, <2>5, RowReplaced
<1>10. ASSUME NEW o \in Operator, CommitPrune(o) PROVE HistoryInv'
  <2>1. history' = Newest(history, MaxVersions) /\ UNCHANGED <<item, past>>
    BY <1>10 DEF CommitPrune
  <2>2. history \in SUBSET Versions
    BY DEF HistoryInv
  <2>3. /\ history' \subseteq Versions
        /\ EntryOf(item) \in history => EntryOf(item) \in history'
        /\ \A e \in past : item.version - e.version < Min({MaxVersions, HistoryLimit}) =>
             e \in history'
    BY <2>1, <2>2, PrunedIsRecent
  <2>4. \A u \in Operator : call'[u].pc \in {"save", "write"} => call'[u] = call[u]
    BY <1>0, <1>10, LeaveTyped DEF CommitPrune
  <2> QED  BY <2>1, <2>3, <2>4 DEF HistoryInv, Versions, RecentPasswordsKept
<1>11. ASSUME NEW o \in Operator, NEW p \in Typed, EditRead(o, p) PROVE HistoryInv'
  <2>1. /\ call'[o].pc = "save" /\ call'[o].row = item
        /\ \A u \in Operator \ {o} : call'[u] = call[u]
        /\ UNCHANGED <<item, history, past>>
    BY <1>0, <1>11 DEF EditRead, TypeOK, Call
  <2>2. item.row_version \in Nat
    BY <1>0 DEF TypeOK
  <2>3. EntryOf(item) \in Versions /\ Versions' = Versions /\ RecentPasswordsKept'
    BY <2>1 DEF HistoryInv, Versions, RecentPasswordsKept
  <2> HIDE DEF EntryOf
  <2>4. \A u \in Operator : call'[u].pc \in {"save", "write"} =>
          u = o \/ call'[u] = call[u]
    BY <2>1
  <2>5. \A u \in Operator : call'[u].pc \in {"save", "write"} =>
          /\ EntryOf(call'[u].row) \in Versions
          /\ call'[u].row.row_version <= item.row_version
          /\ call'[u].row.row_version = item.row_version => EntryOf(call'[u].row) = EntryOf(item)
          /\ call'[u].pc = "write" /\ call'[u].row.row_version = item.row_version =>
               EntryOf(item) \in history
    BY <2>1, <2>2, <2>3, <2>4 DEF HistoryInv
  <2>6. EntryOf(item)' = EntryOf(item)
    BY <2>1 DEF EntryOf
  <2> QED  BY <2>1, <2>3, <2>5, <2>6 DEF HistoryInv, EntryOf
<1>12. ASSUME NEW o \in Operator, EditSave(o) PROVE HistoryInv'
  <2>1. /\ call[o].pc = "save" /\ call'[o].pc = "write" /\ call'[o].row = call[o].row
        /\ \A u \in Operator \ {o} : call'[u] = call[u]
        /\ UNCHANGED <<item, past>>
    BY <1>0, <1>12 DEF EditSave, TypeOK, Call
  <2>2. PICK h : h = WithEntry(history, call[o].row)
    OBVIOUS
  <2>3. EntryOf(call[o].row) \in Versions
    BY <2>1 DEF HistoryInv
  <2>4. /\ h \in SUBSET Versions /\ history \subseteq h /\ EntryOf(call[o].row) \in h
    BY <2>2, <2>3, SavedIsThere
  <2>5. history' = Newest(h, HistoryLimit)
    BY <1>12, <2>2 DEF EditSave
  <2>6. /\ history' \subseteq Versions
        /\ EntryOf(item) \in h => EntryOf(item) \in history'
        /\ \A e \in past : item.version - e.version < Min({MaxVersions, HistoryLimit}) =>
             e \in history'
    BY <2>4, <2>5, PrunedIsRecent
  <2>7. call[o].row.row_version = item.row_version => EntryOf(item) \in h
    BY <2>1, <2>4 DEF HistoryInv
  <2> HIDE DEF EntryOf
  <2> QED  BY <2>1, <2>4, <2>6, <2>7 DEF HistoryInv, Versions, RecentPasswordsKept
<1>13. ASSUME NEW o \in Operator, EditWrite(o) PROVE HistoryInv'
  <2>1. call[o].pc = "write" /\ call[o].row \in ItemRow
    BY <1>0, <1>13 DEF EditWrite, CallInv
  <2>2. CASE item.row_version = call[o].row.row_version
    <3>1. EntryOf(call[o].row) = EntryOf(item) /\ EntryOf(item) \in history
      BY <2>1, <2>2 DEF HistoryInv
    <3>2. call[o].row.version = item.version
      BY <3>1
    <3>3. /\ item'.version = item.version + 1 /\ item'.row_version = item.row_version + 1
          /\ past' = past \cup {EntryOf(item)} /\ history' = history
      BY <1>0, <1>13, <2>2, <3>2 DEF EditWrite, TypeOK
    <3>4. \A u \in Operator : call'[u].pc \in {"save", "write"} =>
            call'[u].pc = call[u].pc /\ call'[u].row = call[u].row
      <4>1. call' = [call EXCEPT ![o] = [call[o] EXCEPT !.pc = "announce", !.row = item']]
        BY <1>13, <2>2 DEF EditWrite
      <4>2. call \in [Operator -> Call]
        BY <1>0 DEF TypeOK
      <4>3. call'[o].pc = "announce" /\ \A u \in Operator \ {o} : call'[u] = call[u]
        BY <4>1, <4>2 DEF Call
      <4> QED  BY <4>3
    <3>5. history' \subseteq Versions
      BY <3>3 DEF HistoryInv
    <3> QED  BY <3>1, <3>3, <3>4, <3>5, RowReplaced
  <2>3. CASE item.row_version # call[o].row.row_version
    BY <1>0, <1>13, <2>3, LeaveTyped, HistoryFrame DEF EditWrite
  <2> QED  BY <2>2, <2>3
<1> QED  BY <1>1, <1>2, <1>3, <1>4, <1>5, <1>6, <1>7, <1>8, <1>9, <1>10, <1>11, <1>12, <1>13
         DEF Next, CallStep

\* The last versions of the password stay in the history under their own
\* numbers: an edit saves the row it has read before its UPDATE, a commit in
\* the transaction of its UPDATE, and prune_by_item counts versions that the
\* row did have.
THEOREM RecentVersionsStay == Spec => []RecentPasswordsKept
<1>1. Init => HistoryInv
  BY DEF Init, HistoryInv, RecentPasswordsKept, Idle
<1>2. RotationInv /\ HistoryInv /\ [Next]_vars => HistoryInv'
  BY HistoryStep
<1>3. HistoryInv => RecentPasswordsKept
  BY DEF HistoryInv
<1> QED  BY Invariance, <1>1, <1>2, <1>3, PTL DEF Spec
=============================================================================
