-------------------------- MODULE SharedVaultProofs --------------------------
(***************************************************************************)
(* What holds of a shared vault for any number of callers, names, policies *)
(* and rows, any page limit and any sequence of operations, with handlers  *)
(* dropped anywhere.                                                       *)
(*                                                                         *)
(* No handler holds a lock.  What a handler read may be replaced before it *)
(* writes, and the comparison of row_version is what every part of the     *)
(* invariant below hangs on: a handler whose row_version is still that of  *)
(* the row has the row, and has its payload in the history.                *)
(***************************************************************************)
EXTENDS SharedVault, FiniteSetTheorems, TLAPS

CallState ==
  [op : SharedOps \cup {"none"},
   at : {"idle", "lookup", "history", "prune", "write", "insert", "reread", "made", "announce"},
   names : Seq(SecretName), policy : SecretPolicy \cup {NotASecret}, id : Nat,
   row : ItemRow \cup {NoItem}, payload : SecretPayload]

\* A version of a row, as the history has it and as a caller is told.
VersionOf == [item : DOMAIN itemRows, version : Nat, payload : SecretPayload]
Version(i, v, payload) == [item |-> i, version |-> v, payload |-> payload]

Cursor == {<<>>} \cup (Nat \X Nat)

SharedTyped ==
  /\ itemRows \in Seq(ItemRow)
  /\ itemHistory \subseteq VersionOf /\ told \subseteq VersionOf
  /\ sharedCall \in [SharedCaller -> CallState]
  /\ listing \in [on : BOOLEAN, cursor : Cursor, ids : Seq(Nat), untouched : SUBSET Nat]
  /\ sharedNow \in Nat /\ valuesMade \in Nat
  /\ historyFaults \in Nat /\ feedFaults \in Nat

\* The history holds at most one payload of a version, and of the current
\* version the one the row has.
HistorySound ==
  /\ \A h \in itemHistory :
       /\ h.version <= itemRows[h.item].version
       /\ h.version = itemRows[h.item].version => h.payload = itemRows[h.item].payload
  /\ \A h, k \in itemHistory : h.item = k.item /\ h.version = k.version => h = k

\* A version is the current one, or in the history, or HistoryKeep newer ones
\* have replaced it.
Kept(r) ==
  \/ itemRows[r.item].version = r.version /\ itemRows[r.item].payload = r.payload
  \/ r \in itemHistory
  \/ r.version + HistoryKeep <= itemRows[r.item].version

\* A handler before and after its write to the row; set-field prunes after it.
BeforeWrite(k) == k.at \in {"history", "write"} \/ (k.at = "prune" /\ k.op # "field")
AfterWrite(k) == k.at \in {"made", "announce"} \/ (k.at = "prune" /\ k.op = "field")

\* The handler has the row as it is.
HasRow(k) == k.row.row_version = itemRows[k.id].row_version

\* What the handler k has read and written, against the tables.
CallSound(k) ==
  /\ k.at # "idle" => k.names # <<>>
  /\ k.at \in {"lookup", "insert", "reread", "made"} => k.row = NoItem
  /\ BeforeWrite(k) =>
       /\ k.id \in DOMAIN itemRows /\ k.row \in ItemRow
       /\ \/ k.row = itemRows[k.id]
          \/ /\ k.row.row_version < itemRows[k.id].row_version
             /\ k.row.version < itemRows[k.id].version
  /\ BeforeWrite(k) /\ k.at # "history" /\ HasRow(k) /\ historyFaults = 0 =>
       Version(k.id, k.row.version, k.row.payload) \in itemHistory
  /\ AfterWrite(k) =>
       /\ k.id \in DOMAIN itemRows /\ k.row.version + 1 <= itemRows[k.id].version
       /\ historyFaults = 0 => Kept(Version(k.id, k.row.version + 1, k.payload))
  /\ k.at = "made" /\ itemRows[k.id].version = 1 => itemRows[k.id].payload = k.payload

\* The version before the last change is in the history.
PriorKept ==
  historyFaults = 0 =>
    \A i \in DOMAIN itemRows : itemRows[i].version > 1 =>
      \E h \in itemHistory : h.item = i /\ h.version + 1 = itemRows[i].version

\* The handler k is about to announce the current version of the row i.
Announces(k, i) ==
  AfterWrite(k) /\ k.id = i /\ k.row.version + 1 = itemRows[i].version

FeedFollows ==
  feedFaults = 0 =>
    \A i \in DOMAIN itemRows :
      \/ [item |-> i, version |-> itemRows[i].version] \in itemFeed
      \/ \E c \in SharedCaller : Announces(sharedCall[c], i)

\* A row is in the listing once, or not at all.
ListedOnce(i) == \E k \in DOMAIN listing.ids :
                   listing.ids[k] = i /\ \A m \in DOMAIN listing.ids : listing.ids[m] = i => m = k
NotListed(i) == \A k \in DOMAIN listing.ids : listing.ids[k] # i

\* What the cursor lets through is yet to be listed, and nothing else.
ListingSound ==
  \A i \in listing.untouched :
    /\ i \in DOMAIN itemRows /\ itemRows[i].active
    /\ listing.on => IF CursorAllows(listing.cursor, i) THEN NotListed(i) ELSE ListedOnce(i)
    /\ ~listing.on /\ listing.ids # <<>> => ListedOnce(i)

TablesSound ==
  /\ \A i \in DOMAIN itemRows : itemRows[i].version >= 1
  /\ HistorySound /\ PriorKept /\ ToldIsKept

SharedInv ==
  /\ SharedTyped
  /\ TablesSound
  /\ \A c \in SharedCaller : CallSound(sharedCall[c])
  /\ FeedFollows
  /\ ListingSound

-----------------------------------------------------------------------------
(* Values.                                                                 *)

LEMMA NothingTyped ==
  /\ Nothing \in SecretPayload
  /\ NoShared \in CallState /\ NoShared.at = "idle" /\ NoShared.row = NoItem
  /\ NoShared.names = <<>> /\ NoShared.id = 0 /\ NoShared.op = "none"
  /\ NoItem.version = 0
<1>1. Nothing \in SecretPayload
  BY DEF Nothing, SecretPayload
<1>2. NoItem.version = 0
  BY DEF NoItem
<1>3. NoShared \in CallState
  BY <1>1 DEF NoShared, CallState
<1> QED BY <1>1, <1>2, <1>3 DEF NoShared

LEMMA RowFields ==
  ASSUME NEW r \in ItemRow
  PROVE  /\ r.version \in Nat /\ r.row_version \in Nat /\ r.updated_at \in Nat
         /\ r.payload \in SecretPayload /\ r.active \in BOOLEAN
  BY DEF ItemRow

LEMMA RowTyped ==
  ASSUME SharedTyped, NEW i \in DOMAIN itemRows
  PROVE  /\ itemRows[i] \in ItemRow /\ i \in Nat /\ i # 0
         /\ itemRows[i].version \in Nat /\ itemRows[i].row_version \in Nat
         /\ itemRows[i].updated_at \in Nat /\ itemRows[i].payload \in SecretPayload
<1>1. itemRows[i] \in ItemRow /\ i \in Nat /\ i # 0
  BY DEF SharedTyped
<1> QED BY <1>1, RowFields

LEMMA CallTyped ==
  ASSUME SharedTyped, NEW c \in SharedCaller
  PROVE  sharedCall[c] \in CallState
  BY DEF SharedTyped

LEMMA CallFields ==
  ASSUME NEW k \in CallState
  PROVE  /\ k.id \in Nat /\ k.payload \in SecretPayload /\ k.names \in Seq(SecretName)
         /\ k.row.version \in Nat
<1>1. k.id \in Nat /\ k.payload \in SecretPayload /\ k.names \in Seq(SecretName)
  BY DEF CallState
<1>2. k.row \in ItemRow \cup {NoItem}
  BY DEF CallState
<1> QED BY <1>1, <1>2, RowFields, NothingTyped

\* The parts of a version.
LEMMA VersionFields ==
  ASSUME NEW i, NEW v, NEW p
  PROVE  LET r == Version(i, v, p) IN r.item = i /\ r.version = v /\ r.payload = p
  BY DEF Version

LEMMA VersionTyped ==
  ASSUME NEW r \in VersionOf
  PROVE  /\ r.item \in DOMAIN itemRows /\ r.version \in Nat /\ r.payload \in SecretPayload
         /\ r = Version(r.item, r.version, r.payload)
<1>1. r.item \in DOMAIN itemRows /\ r.version \in Nat /\ r.payload \in SecretPayload
  BY DEF VersionOf
<1>2. r = Version(r.item, r.version, r.payload)
  BY DEF VersionOf, Version
<1> QED BY <1>1, <1>2

\* The path of the request is one.
LEMMA PathTyped ==
  ASSUME SharedTyped, NEW c \in SharedCaller, sharedCall[c].names # <<>>
  PROVE  PathOf(c) \in StoredPath
<1>1. sharedCall[c].names \in Seq(SecretName)
  BY CallTyped, CallFields
<1>2. PICK n \in SecretName : n = Head(sharedCall[c].names)
  BY <1>1
<1>3. SecretPath(n) \in StoredPath /\ PlainPath(n) \in StoredPath
  BY DEF StoredPath
<1> QED BY <1>2, <1>3 DEF PathOf

-----------------------------------------------------------------------------
(* The states of a call.                                                   *)

\* A handler that has nothing in its hands.
Rested(k) == k.row = NoItem /\ (k.at = "idle" \/ (k.at = "lookup" /\ k.names # <<>>))

LEMMA RestedSound ==
  ASSUME NEW k, Rested(k)
  PROVE  CallSound(k) /\ CallSound(k)' /\ ~AfterWrite(k)
  BY DEF Rested, CallSound, BeforeWrite, AfterWrite

LEMMA FinishRests ==
  ASSUME SharedTyped, NEW c \in SharedCaller, Finish(c)
  PROVE  \E k \in CallState : sharedCall' = [sharedCall EXCEPT ![c] = k] /\ Rested(k)
<1>1. PICK j \in CallState : j = sharedCall[c]
  BY CallTyped
<1>2. CASE Len(j.names) > 1
  <2>1. PICK k : k = [NoShared EXCEPT !.op = j.op, !.at = "lookup", !.names = Tail(j.names),
                                      !.policy = j.policy]
    OBVIOUS
  <2>2. Tail(j.names) \in Seq(SecretName) /\ Tail(j.names) # <<>>
    <3>1. j.names \in Seq(SecretName)
      BY CallFields
    <3>2. PICK s \in Seq(SecretName) : s = j.names
      BY <3>1
    <3>3. Len(s) > 1
      BY <1>2, <3>2
    <3>4. s # <<>> /\ Tail(s) \in Seq(SecretName) /\ Len(Tail(s)) = Len(s) - 1
      BY <3>3
    <3>5. Len(Tail(s)) # 0
      BY <3>3, <3>4
    <3> QED BY <3>2, <3>4, <3>5
  <2>3. PICK t \in Seq(SecretName) : t = Tail(j.names) /\ t # <<>>
    BY <2>2
  <2>4. k = [NoShared EXCEPT !.op = j.op, !.at = "lookup", !.names = t, !.policy = j.policy]
    BY <2>1, <2>3
  <2>5. j.op \in SharedOps \cup {"none"} /\ j.policy \in SecretPolicy \cup {NotASecret}
    BY DEF CallState
  <2>6. k \in CallState
    BY <2>4, <2>5, NothingTyped DEF CallState
  <2>7. k.row = NoItem /\ k.at = "lookup" /\ k.names = t
    BY <2>4, NothingTyped DEF CallState
  <2>8. sharedCall' = [sharedCall EXCEPT ![c] = k]
    BY <1>1, <1>2, <2>1 DEF Finish
  <2> QED BY <2>3, <2>6, <2>7, <2>8 DEF Rested
<1>3. CASE ~(Len(j.names) > 1)
  <2>1. sharedCall' = [sharedCall EXCEPT ![c] = NoShared]
    BY <1>1, <1>3 DEF Finish
  <2> QED BY <2>1, NothingTyped DEF Rested
<1> QED BY <1>2, <1>3

\* The handler goes to another step.
Moved(k, at) == [k EXCEPT !.at = at]

LEMMA GotoMoves ==
  ASSUME SharedTyped, NEW c \in SharedCaller, NEW at, GotoShared(c, at)
  PROVE  sharedCall' = [sharedCall EXCEPT ![c] = Moved(sharedCall[c], at)]
  BY DEF GotoShared, SharedTyped, Moved

LEMMA MovedFields ==
  ASSUME NEW k \in CallState,
         NEW at \in {"prune", "write", "reread", "announce"}
  PROVE  LET m == Moved(k, at)
         IN  /\ m \in CallState /\ m.at = at /\ m.op = k.op /\ m.names = k.names
             /\ m.id = k.id /\ m.row = k.row /\ m.payload = k.payload
  BY DEF CallState, Moved

-----------------------------------------------------------------------------
(* The tables.                                                             *)

\* What every step does to the tables: rows get newer or stay, and a version
\* that is kept is kept.
TablesAdvance ==
  /\ DOMAIN itemRows \subseteq DOMAIN itemRows' /\ itemRows' \in Seq(ItemRow)
  /\ historyFaults' = 0 => historyFaults = 0
  /\ \A r \in VersionOf : Kept(r) /\ historyFaults' = 0 => Kept(r)'
  /\ \A i \in DOMAIN itemRows :
       \/ itemRows'[i] = itemRows[i]
       \/ /\ itemRows[i].version < itemRows'[i].version
          /\ itemRows[i].row_version < itemRows'[i].row_version
  /\ \A i \in DOMAIN itemRows :
       itemRows'[i] = itemRows[i] =>
         LET r == Version(i, itemRows[i].version, itemRows[i].payload)
         IN  r \in itemHistory => r \in itemHistory'

\* What a handler holds is as good after the step of another one.
LEMMA CallsStay ==
  ASSUME SharedTyped, TablesAdvance, NEW k \in CallState, CallSound(k)
  PROVE  CallSound(k)'
<1>1. CASE BeforeWrite(k)
  <2>1. PICK i \in DOMAIN itemRows : i = k.id
    BY <1>1 DEF CallSound
  <2>2. PICK r \in ItemRow : r = k.row
    BY <1>1 DEF CallSound
  <2>3. i \in DOMAIN itemRows'
    BY DEF TablesAdvance
  <2>4. /\ itemRows[i] \in ItemRow /\ itemRows'[i] \in ItemRow
        /\ itemRows[i].version \in Nat /\ itemRows[i].row_version \in Nat
        /\ itemRows'[i].version \in Nat /\ itemRows'[i].row_version \in Nat
        /\ r.version \in Nat /\ r.row_version \in Nat
    <3>1. itemRows'[i] \in ItemRow
      BY <2>3 DEF TablesAdvance
    <3> QED BY <3>1, RowTyped, RowFields
  <2>5. \/ r = itemRows[i]
        \/ r.row_version < itemRows[i].row_version /\ r.version < itemRows[i].version
    BY <1>1, <2>1, <2>2 DEF CallSound
  <2>6. \/ r = itemRows'[i]
        \/ r.row_version < itemRows'[i].row_version /\ r.version < itemRows'[i].version
    <3>1. \/ itemRows'[i] = itemRows[i]
          \/ /\ itemRows[i].version < itemRows'[i].version
             /\ itemRows[i].row_version < itemRows'[i].row_version
      BY DEF TablesAdvance
    <3> QED BY <2>4, <2>5, <3>1
  <2>7. ASSUME k.at # "history", HasRow(k)', historyFaults' = 0
        PROVE  Version(i, r.version, r.payload) \in itemHistory'
    <3>1. r.row_version = itemRows'[i].row_version
      BY <2>1, <2>2, <2>7 DEF HasRow
    <3>2. r = itemRows'[i]
      BY <2>4, <2>6, <3>1
    <3>3. itemRows'[i] = itemRows[i]
      <4>1. \/ itemRows'[i] = itemRows[i]
            \/ itemRows[i].row_version < itemRows'[i].row_version
        BY DEF TablesAdvance
      <4> QED BY <2>4, <2>5, <3>1, <4>1
    <3>4. HasRow(k) /\ historyFaults = 0
      BY <2>1, <2>2, <2>7, <3>2, <3>3 DEF HasRow, TablesAdvance
    <3>5. Version(i, r.version, r.payload) \in itemHistory
      BY <1>1, <2>1, <2>2, <2>7, <3>4 DEF CallSound
    <3> QED BY <3>2, <3>3, <3>5, Zenon DEF TablesAdvance
  <2>8. k.at \notin {"idle", "lookup", "insert", "reread", "made"} /\ ~AfterWrite(k)
    BY <1>1 DEF BeforeWrite, AfterWrite
  <2>9. k.at # "idle" => k.names # <<>>
    BY DEF CallSound
  <2> QED BY <1>1, <2>1, <2>2, <2>3, <2>6, <2>7, <2>8, <2>9 DEF CallSound
<1>2. CASE AfterWrite(k)
  <2>1. PICK i \in DOMAIN itemRows : i = k.id
    BY <1>2 DEF CallSound
  <2>2. k.payload \in SecretPayload /\ k.row.version \in Nat
    BY CallFields
  <2>3. PICK v \in Nat : v = k.row.version + 1
    BY <2>2
  <2>4. PICK r \in VersionOf : r = Version(i, v, k.payload)
    BY <2>2 DEF VersionOf, Version
  <2>5. i \in DOMAIN itemRows'
    BY DEF TablesAdvance
  <2>6. itemRows[i].version \in Nat /\ itemRows'[i].version \in Nat
    <3>1. itemRows'[i] \in ItemRow
      BY <2>5 DEF TablesAdvance
    <3> QED BY <3>1, RowTyped, RowFields
  <2>7. v <= itemRows'[i].version
    <3>1. v <= itemRows[i].version
      BY <1>2, <2>1, <2>3 DEF CallSound
    <3>2. itemRows'[i] = itemRows[i] \/ itemRows[i].version < itemRows'[i].version
      BY DEF TablesAdvance
    <3> QED BY <2>6, <3>1, <3>2
  <2>8. historyFaults' = 0 => Kept(r)'
    <3>1. historyFaults = 0 => Kept(r)
      BY <1>2, <2>1, <2>3, <2>4 DEF CallSound
    <3> QED BY <3>1 DEF TablesAdvance
  <2>9. k.at = "made" /\ itemRows'[i].version = 1 => itemRows'[i].payload = k.payload
    <3> SUFFICES ASSUME k.at = "made", itemRows'[i].version = 1
                 PROVE  itemRows'[i].payload = k.payload
      OBVIOUS
    <3>1. v = 1
      <4>1. k.row = NoItem
        BY DEF CallSound
      <4> QED BY <2>3, <4>1, NothingTyped
    <3>2. v <= itemRows[i].version
      BY <1>2, <2>1, <2>3 DEF CallSound
    <3>3. itemRows'[i] = itemRows[i]
      <4>1. itemRows'[i] = itemRows[i] \/ itemRows[i].version < itemRows'[i].version
        BY DEF TablesAdvance
      <4> QED BY <2>6, <3>1, <3>2, <4>1
    <3> QED BY <2>1, <3>3 DEF CallSound
  <2>10. k.at \notin {"idle", "lookup", "insert", "reread"} /\ ~BeforeWrite(k)
    BY <1>2 DEF BeforeWrite, AfterWrite
  <2>11. /\ k.at # "idle" => k.names # <<>>
         /\ k.at = "made" => k.row = NoItem
    BY DEF CallSound
  <2> QED BY <1>2, <2>1, <2>3, <2>4, <2>5, <2>7, <2>8, <2>9, <2>10, <2>11 DEF CallSound
<1>3. CASE ~BeforeWrite(k) /\ ~AfterWrite(k)
  <2>1. k.at # "made"
    BY <1>3 DEF AfterWrite
  <2> QED BY <1>3, <2>1 DEF CallSound
<1> QED BY <1>1, <1>2, <1>3

LEMMA SameTablesAdvance ==
  ASSUME SharedTyped, UNCHANGED <<itemRows, itemHistory, historyFaults>>
  PROVE  TablesAdvance
<1>1. itemRows \in Seq(ItemRow)
  BY DEF SharedTyped
<1>2. \A r \in VersionOf : Kept(r) => Kept(r)'
  BY DEF Kept
<1> QED BY <1>1, <1>2 DEF TablesAdvance

\* The newer versions in the history are at most as many as there are between.
LEMMA NewerBounded ==
  ASSUME SharedTyped, HistorySound, NEW i \in DOMAIN itemRows, NEW v \in Nat
  PROVE  LET newer == {k \in itemHistory : k.item = i /\ k.version > v}
         IN  /\ IsFiniteSet(newer) /\ Cardinality(newer) \in Nat
             /\ v <= itemRows[i].version => v + Cardinality(newer) <= itemRows[i].version
<1> DEFINE newer == {k \in itemHistory : k.item = i /\ k.version > v}
           top == itemRows[i].version
           between == (v + 1) .. top
           number == [k \in newer |-> k.version]
<1>1. top \in Nat
  BY RowTyped
<1>2. \A k \in newer : k.version \in Nat /\ k.version > v /\ k.version <= top
  <2> SUFFICES ASSUME NEW k \in newer
               PROVE  k.version \in Nat /\ k.version > v /\ k.version <= top
    OBVIOUS
  <2>1. k \in VersionOf
    BY DEF SharedTyped
  <2> QED BY <2>1, VersionTyped DEF HistorySound
<1>3. \A k, m \in newer : number[k] = number[m] => k = m
  BY DEF HistorySound
<1>4. number \in [newer -> between]
  BY <1>1, <1>2
<1>5. number \in Injection(newer, between)
  BY <1>3, <1>4, Zenon DEF Injection, IsInjective
<1>6. IsFiniteSet(between) /\ Cardinality(between) = IF v + 1 > top THEN 0 ELSE top - v
  <2>1. PICK a \in Int, b \in Int : a = v + 1 /\ b = top
    BY <1>1
  <2>2. IsFiniteSet(a .. b) /\ Cardinality(a .. b) = IF a > b THEN 0 ELSE b - a + 1
    BY FS_Interval
  <2>3. b - a + 1 = top - v
    BY <1>1, <2>1
  <2> QED BY <2>1, <2>2, <2>3, Zenon
<1>7. IsFiniteSet(newer) /\ Cardinality(newer) <= Cardinality(between)
  <2> HIDE DEF newer, between, number
  <2> QED BY <1>5, <1>6, FS_Injection
<1>8. Cardinality(newer) \in Nat
  BY <1>7, FS_CardinalityType
<1>9. v <= top => v + Cardinality(newer) <= top
  <2> HIDE DEF newer, between
  <2> QED BY <1>1, <1>6, <1>7, <1>8
<1> QED BY <1>7, <1>8, <1>9

\* A told version, an old one and the one before the last are kept as long as
\* the step keeps them.
LEMMA TablesStaySound ==
  ASSUME SharedTyped, TablesSound, TablesAdvance, HistorySound', told \subseteq told',
         told' \subseteq VersionOf',
         \A i \in DOMAIN itemRows' : itemRows'[i].version >= 1,
         \A r \in told' \ told : historyFaults' = 0 => Kept(r)',
         historyFaults' = 0 =>
           \A i \in DOMAIN itemRows' : itemRows'[i].version > 1 =>
             \E h \in itemHistory' : h.item = i /\ h.version + 1 = itemRows'[i].version
  PROVE  TablesSound'
<1>1. ASSUME historyFaults' = 0, NEW r \in told'
      PROVE  Kept(r)'
  <2>1. CASE r \in told
    <3>1. r \in VersionOf /\ historyFaults = 0
      BY <1>1, <2>1 DEF SharedTyped, TablesAdvance
    <3>2. Kept(r)
      BY <2>1, <3>1 DEF TablesSound, ToldIsKept, Kept
    <3> QED BY <1>1, <3>1, <3>2 DEF TablesAdvance
  <2>2. CASE r \notin told
    BY <1>1, <2>2
  <2> QED BY <2>1, <2>2
<1>2. ToldIsKept'
  BY <1>1 DEF ToldIsKept, Kept
<1>3. PriorKept'
  BY DEF PriorKept
<1> QED BY <1>2, <1>3 DEF TablesSound

\* The tables are as they were, and a caller may have been told of a version
\* that is kept.
LEMMA SameTablesSound ==
  ASSUME SharedTyped, TablesSound, UNCHANGED <<itemRows, itemHistory, historyFaults>>,
         told \subseteq told', told' \subseteq VersionOf,
         \A r \in told' \ told : historyFaults = 0 => Kept(r)
  PROVE  TablesSound'
<1>1. \A r : Kept(r)' <=> Kept(r)
  BY DEF Kept
<1>2. HistorySound' /\ PriorKept
  BY DEF TablesSound, HistorySound
<1>3. VersionOf' = VersionOf
  BY DEF VersionOf
<1>4. TablesAdvance
  BY SameTablesAdvance
<1>5. \A i \in DOMAIN itemRows' : itemRows'[i].version >= 1
  BY DEF TablesSound
<1> QED BY <1>1, <1>2, <1>3, <1>4, <1>5, TablesStaySound DEF PriorKept

\* An INSERT into the history that fails ends what is promised of it.
LEMMA HistoryFails ==
  ASSUME SharedTyped, TablesSound, UNCHANGED <<itemRows, itemHistory, told>>,
         historyFaults' = historyFaults + 1
  PROVE  TablesAdvance /\ TablesSound' /\ historyFaults' # 0
<1>1. historyFaults' # 0
  BY DEF SharedTyped
<1>2. itemRows \in Seq(ItemRow)
  BY DEF SharedTyped
<1>3. TablesAdvance
  BY <1>1, <1>2 DEF TablesAdvance
<1>4. HistorySound' /\ told' \subseteq VersionOf'
  BY DEF TablesSound, HistorySound, SharedTyped, VersionOf
<1>5. \A i \in DOMAIN itemRows' : itemRows'[i].version >= 1
  BY DEF TablesSound
<1> QED BY <1>1, <1>3, <1>4, <1>5, TablesStaySound

\* ItemHistoryRepo::create of a version the row had or has.
LEMMA HistoryGrows ==
  ASSUME SharedTyped, TablesSound, UNCHANGED <<itemRows, told, historyFaults>>,
         NEW i \in DOMAIN itemRows, NEW v \in Nat, NEW p \in SecretPayload,
         v <= itemRows[i].version,
         v = itemRows[i].version => p = itemRows[i].payload,
         itemHistory' = HistoryWith(i, v, p)
  PROVE  /\ TablesAdvance /\ TablesSound'
         /\ itemHistory' \subseteq VersionOf
         /\ v = itemRows[i].version => Version(i, v, p) \in itemHistory'
<1>1. PICK r \in VersionOf : r = Version(i, v, p)
  BY DEF VersionOf, Version
<1>2. r.item = i /\ r.version = v /\ r.payload = p
  BY <1>1, VersionFields
<1>3. \/ itemHistory' = itemHistory /\ \E h \in itemHistory : h.item = i /\ h.version = v
      \/ /\ itemHistory' = itemHistory \cup {r}
         /\ \A h \in itemHistory : ~(h.item = i /\ h.version = v)
  BY <1>1 DEF HistoryWith, Version
<1>4. itemHistory \subseteq itemHistory' /\ itemHistory' \subseteq VersionOf
  BY <1>3 DEF SharedTyped
<1>5. HistorySound'
  <2>1. HistorySound
    BY DEF TablesSound
  <2>2. \A h \in itemHistory' :
          /\ h.version <= itemRows[h.item].version
          /\ h.version = itemRows[h.item].version => h.payload = itemRows[h.item].payload
    BY <1>2, <1>3, <2>1 DEF HistorySound
  <2>3. \A h, k \in itemHistory' : h.item = k.item /\ h.version = k.version => h = k
    BY <1>2, <1>3, <2>1 DEF HistorySound
  <2> QED BY <2>2, <2>3 DEF HistorySound
<1>6. v = itemRows[i].version => r \in itemHistory'
  <2> SUFFICES ASSUME v = itemRows[i].version PROVE r \in itemHistory'
    OBVIOUS
  <2>1. ASSUME NEW h \in itemHistory, h.item = i, h.version = v PROVE h = r
    <3>1. h.payload = p
      BY <2>1 DEF TablesSound, HistorySound
    <3>2. h \in VersionOf
      BY DEF SharedTyped
    <3>3. h = Version(h.item, h.version, h.payload)
      BY <3>2, VersionTyped
    <3> QED BY <1>1, <2>1, <3>1, <3>3
  <2> QED BY <1>3, <2>1
<1>7. \A w \in VersionOf : Kept(w) => Kept(w)'
  BY <1>4 DEF Kept
<1>8. itemRows \in Seq(ItemRow)
  BY DEF SharedTyped
<1>9. TablesAdvance
  BY <1>4, <1>7, <1>8 DEF TablesAdvance
<1>10. VersionOf' = VersionOf /\ told \subseteq VersionOf
  BY DEF VersionOf, SharedTyped
<1>11. historyFaults = 0 =>
         \A j \in DOMAIN itemRows : itemRows[j].version > 1 =>
           \E h \in itemHistory' : h.item = j /\ h.version + 1 = itemRows[j].version
  BY <1>4 DEF TablesSound, PriorKept
<1>12. \A j \in DOMAIN itemRows' : itemRows'[j].version >= 1
  BY DEF TablesSound
<1>13. TablesSound'
  BY <1>5, <1>9, <1>10, <1>11, <1>12, TablesStaySound
<1> QED BY <1>1, <1>4, <1>6, <1>9, <1>13

\* prune_by_item removes no version that HistoryKeep others have not replaced.
LEMMA HistoryShrinks ==
  ASSUME SharedTyped, TablesSound, UNCHANGED <<itemRows, told, historyFaults>>,
         NEW i \in DOMAIN itemRows, itemHistory' = HistoryPruned(i)
  PROVE  TablesAdvance /\ TablesSound' /\ itemHistory' \subseteq VersionOf
<1>1. HistorySound
  BY DEF TablesSound
<1>2. itemHistory' \subseteq itemHistory
  BY DEF HistoryPruned
<1>3. ASSUME NEW h \in itemHistory, h \notin itemHistory'
      PROVE  h.item = i /\ h.version + HistoryKeep <= itemRows[h.item].version
  <2> DEFINE newer == {k \in itemHistory : k.item = i /\ k.version > h.version}
  <2>1. h.item = i /\ ~(Cardinality(newer) < HistoryKeep)
    BY <1>3 DEF HistoryPruned
  <2>2. h.version \in Nat /\ h.version <= itemRows[i].version
    <3>1. h \in VersionOf
      BY DEF SharedTyped
    <3> QED BY <1>1, <2>1, <3>1, VersionTyped DEF HistorySound
  <2>3. Cardinality(newer) \in Nat /\ h.version + Cardinality(newer) <= itemRows[i].version
    BY <1>1, <2>2, NewerBounded
  <2>4. itemRows[i].version \in Nat /\ HistoryKeep \in Nat
    BY RowTyped, SharedVaultAssumption
  <2> HIDE DEF newer
  <2> QED BY <2>1, <2>2, <2>3, <2>4
<1>4. \A w \in VersionOf : Kept(w) => Kept(w)'
  BY <1>3 DEF Kept
<1>5. ASSUME NEW h \in itemHistory, h.version + 1 >= itemRows[h.item].version
      PROVE  h \in itemHistory'
  <2>1. h \in VersionOf
    BY DEF SharedTyped
  <2>2. h.item \in DOMAIN itemRows /\ h.version \in Nat
    BY <2>1, VersionTyped
  <2>3. itemRows[h.item].version \in Nat /\ HistoryKeep \in Nat /\ HistoryKeep > 1
    BY <2>2, RowTyped, SharedVaultAssumption
  <2> QED BY <1>3, <1>5, <2>2, <2>3
<1>6. \A j \in DOMAIN itemRows :
        LET r == Version(j, itemRows[j].version, itemRows[j].payload)
        IN  r \in itemHistory => r \in itemHistory'
  <2> SUFFICES ASSUME NEW j \in DOMAIN itemRows,
                      NEW r \in itemHistory, r = Version(j, itemRows[j].version, itemRows[j].payload)
               PROVE  r \in itemHistory'
    OBVIOUS
  <2>1. r.item = j /\ r.version = itemRows[j].version
    BY VersionFields
  <2>2. itemRows[j].version \in Nat
    BY RowTyped
  <2> QED BY <1>5, <2>1, <2>2
<1>7. itemRows \in Seq(ItemRow) /\ itemHistory \subseteq VersionOf /\ told \subseteq VersionOf
  BY DEF SharedTyped
<1>8. TablesAdvance
  BY <1>4, <1>6, <1>7 DEF TablesAdvance
<1>9. HistorySound'
  BY <1>1, <1>2 DEF HistorySound
<1>10. historyFaults = 0 =>
         \A j \in DOMAIN itemRows : itemRows[j].version > 1 =>
           \E h \in itemHistory' : h.item = j /\ h.version + 1 = itemRows[j].version
  <2> SUFFICES ASSUME historyFaults = 0, NEW j \in DOMAIN itemRows, itemRows[j].version > 1
               PROVE  \E h \in itemHistory' : h.item = j /\ h.version + 1 = itemRows[j].version
    OBVIOUS
  <2>1. PICK h \in itemHistory : h.item = j /\ h.version + 1 = itemRows[j].version
    BY DEF TablesSound, PriorKept
  <2>2. itemRows[j].version \in Nat
    BY RowTyped
  <2>3. h \in itemHistory'
    BY <1>5, <2>1, <2>2
  <2> QED BY <2>1, <2>3
<1>11. VersionOf' = VersionOf /\ \A j \in DOMAIN itemRows' : itemRows'[j].version >= 1
  BY DEF VersionOf, TablesSound
<1>12. TablesSound'
  BY <1>7, <1>8, <1>9, <1>10, <1>11, TablesStaySound
<1> QED BY <1>2, <1>7, <1>8, <1>12

\* ItemRepo::create
LEMMA RowsGrow ==
  ASSUME SharedTyped, TablesSound, UNCHANGED <<itemHistory, told, historyFaults>>,
         NEW row \in ItemRow, row.version = 1, itemRows' = Append(itemRows, row)
  PROVE  /\ TablesAdvance /\ TablesSound' /\ VersionOf \subseteq VersionOf'
         /\ Len(itemRows) + 1 \in DOMAIN itemRows' /\ itemRows'[Len(itemRows) + 1] = row
         /\ \A i \in DOMAIN itemRows : i \in DOMAIN itemRows' /\ itemRows'[i] = itemRows[i]
         /\ \A i \in DOMAIN itemRows' : i \in DOMAIN itemRows \/ i = Len(itemRows) + 1
<1>1. itemRows \in Seq(ItemRow)
  BY DEF SharedTyped
<1>2. itemRows' \in Seq(ItemRow) /\ Len(itemRows') = Len(itemRows) + 1
  BY <1>1
<1>3. \A i \in DOMAIN itemRows : i \in DOMAIN itemRows' /\ itemRows'[i] = itemRows[i]
  BY <1>1
<1>4. Len(itemRows) + 1 \in DOMAIN itemRows' /\ itemRows'[Len(itemRows) + 1] = row
  BY <1>1
<1>5. \A i \in DOMAIN itemRows' : i \in DOMAIN itemRows \/ i = Len(itemRows) + 1
  BY <1>1, <1>2
<1>6. \A r \in VersionOf : r.item \in DOMAIN itemRows
  BY VersionTyped
<1>7. \A r \in VersionOf : Kept(r) => Kept(r)'
  BY <1>3, <1>6 DEF Kept
<1>8. TablesAdvance
  BY <1>2, <1>3, <1>7 DEF TablesAdvance
<1>9. HistorySound'
  <2>1. HistorySound /\ \A h \in itemHistory : itemRows'[h.item] = itemRows[h.item]
    BY <1>3, <1>6 DEF TablesSound, SharedTyped
  <2> QED BY <2>1 DEF HistorySound
<1>10. historyFaults = 0 =>
         \A j \in DOMAIN itemRows' : itemRows'[j].version > 1 =>
           \E h \in itemHistory : h.item = j /\ h.version + 1 = itemRows'[j].version
  <2> SUFFICES ASSUME historyFaults = 0, NEW j \in DOMAIN itemRows', itemRows'[j].version > 1
               PROVE  \E h \in itemHistory : h.item = j /\ h.version + 1 = itemRows'[j].version
    OBVIOUS
  <2>1. j \in DOMAIN itemRows /\ itemRows'[j] = itemRows[j]
    BY <1>3, <1>4, <1>5
  <2> QED BY <2>1 DEF TablesSound, PriorKept
<1>11. \A j \in DOMAIN itemRows' : itemRows'[j].version >= 1
  BY <1>3, <1>4, <1>5 DEF TablesSound
<1>12. VersionOf \subseteq VersionOf'
  BY <1>3 DEF VersionOf
<1>13. told' \subseteq VersionOf'
  BY <1>12 DEF SharedTyped
<1>14. TablesSound'
  BY <1>8, <1>9, <1>10, <1>11, <1>13, TablesStaySound
<1> QED BY <1>3, <1>4, <1>5, <1>8, <1>12, <1>14

\* ItemRepo::update by a handler whose row is the one that is there: its
\* payload is in the history before it is gone from the row.
LEMMA RowReplaced ==
  ASSUME SharedTyped, TablesSound, UNCHANGED <<itemHistory, told, historyFaults>>,
         NEW i \in DOMAIN itemRows, NEW row \in ItemRow, itemRows' = [itemRows EXCEPT ![i] = row],
         row.version = itemRows[i].version + 1, row.row_version = itemRows[i].row_version + 1,
         historyFaults = 0 =>
           Version(i, itemRows[i].version, itemRows[i].payload) \in itemHistory
  PROVE  /\ TablesAdvance /\ TablesSound' /\ VersionOf' = VersionOf
         /\ DOMAIN itemRows' = DOMAIN itemRows /\ itemRows'[i] = row
         /\ \A j \in DOMAIN itemRows \ {i} : itemRows'[j] = itemRows[j]
<1>1. itemRows \in Seq(ItemRow)
  BY DEF SharedTyped
<1>2. /\ itemRows' \in Seq(ItemRow) /\ DOMAIN itemRows' = DOMAIN itemRows /\ itemRows'[i] = row
      /\ \A j \in DOMAIN itemRows \ {i} : itemRows'[j] = itemRows[j]
  BY <1>1
<1>3. /\ itemRows[i].version \in Nat /\ itemRows[i].row_version \in Nat
      /\ itemRows[i].version >= 1 /\ HistoryKeep \in Nat
  BY RowTyped, SharedVaultAssumption DEF TablesSound
<1>4. VersionOf' = VersionOf
  BY <1>2 DEF VersionOf
<1>5. ASSUME NEW r \in VersionOf, Kept(r), historyFaults = 0
      PROVE  Kept(r)'
  <2>1. r.item \in DOMAIN itemRows /\ r.version \in Nat
        /\ r = Version(r.item, r.version, r.payload)
    BY VersionTyped
  <2>2. CASE r.item # i
    <3>1. itemRows'[r.item] = itemRows[r.item]
      BY <1>2, <2>1, <2>2
    <3> QED BY <1>5, <3>1 DEF Kept
  <2>3. CASE r.item = i
    <3>1. CASE itemRows[i].version = r.version /\ itemRows[i].payload = r.payload
      BY <1>5, <2>1, <2>3, <3>1 DEF Kept
    <3>2. CASE r \in itemHistory
      BY <3>2 DEF Kept
    <3>3. CASE r.version + HistoryKeep <= itemRows[i].version
      <4>1. r.version + HistoryKeep <= itemRows'[i].version
        BY <1>2, <1>3, <2>1, <3>3
      <4> QED BY <2>3, <4>1 DEF Kept
    <3> QED BY <1>5, <2>3, <3>1, <3>2, <3>3 DEF Kept
  <2> QED BY <2>2, <2>3
<1>6. \A j \in DOMAIN itemRows :
        \/ itemRows'[j] = itemRows[j]
        \/ /\ itemRows[j].version < itemRows'[j].version
           /\ itemRows[j].row_version < itemRows'[j].row_version
  BY <1>2, <1>3
<1>7. TablesAdvance
  BY <1>2, <1>5, <1>6 DEF TablesAdvance
<1>8. HistorySound'
  <2>1. HistorySound
    BY DEF TablesSound
  <2>2. \A h \in itemHistory : h.item \in DOMAIN itemRows /\ h.version \in Nat
    BY VersionTyped DEF SharedTyped
  <2>3. ASSUME NEW h \in itemHistory
        PROVE  /\ h.version <= itemRows'[h.item].version
               /\ h.version = itemRows'[h.item].version => h.payload = itemRows'[h.item].payload
    <3>1. h.version <= itemRows[h.item].version /\ h.version \in Nat
      BY <2>1, <2>2 DEF HistorySound
    <3>2. CASE h.item = i
      BY <1>2, <1>3, <3>1, <3>2
    <3>3. CASE h.item # i
      <4>1. itemRows'[h.item] = itemRows[h.item]
        BY <1>2, <2>2, <3>3
      <4> QED BY <2>1, <4>1 DEF HistorySound
    <3> QED BY <3>2, <3>3
  <2> QED BY <2>1, <2>3 DEF HistorySound
<1>9. historyFaults = 0 =>
        \A j \in DOMAIN itemRows' : itemRows'[j].version > 1 =>
          \E h \in itemHistory : h.item = j /\ h.version + 1 = itemRows'[j].version
  <2> SUFFICES ASSUME historyFaults = 0, NEW j \in DOMAIN itemRows, itemRows'[j].version > 1
               PROVE  \E h \in itemHistory : h.item = j /\ h.version + 1 = itemRows'[j].version
    BY <1>2
  <2>1. CASE j = i
    <3>1. PICK h \in itemHistory : h = Version(i, itemRows[i].version, itemRows[i].payload)
      OBVIOUS
    <3>2. h.item = i /\ h.version = itemRows[i].version
      BY <3>1, VersionFields
    <3> QED BY <1>2, <2>1, <3>2
  <2>2. CASE j # i
    BY <1>2, <2>2 DEF TablesSound, PriorKept
  <2> QED BY <2>1, <2>2
<1>10. \A j \in DOMAIN itemRows' : itemRows'[j].version >= 1
  BY <1>2, <1>3 DEF TablesSound
<1>11. TablesSound'
  BY <1>4, <1>7, <1>8, <1>9, <1>10, TablesStaySound DEF SharedTyped
<1> QED BY <1>2, <1>4, <1>7, <1>11

-----------------------------------------------------------------------------
(* Steps of one handler.                                                   *)

\* One handler moves on, the others stay where they are.
LEMMA OneMoves ==
  ASSUME SharedTyped, NEW c \in SharedCaller, NEW k, sharedCall' = [sharedCall EXCEPT ![c] = k]
  PROVE  sharedCall'[c] = k /\ \A d \in SharedCaller \ {c} : sharedCall'[d] = sharedCall[d]
  BY DEF SharedTyped

LEMMA CallStepKeeps ==
  ASSUME SharedInv, NEW c \in SharedCaller, NEW k \in CallState,
         sharedCall' = [sharedCall EXCEPT ![c] = k],
         TablesAdvance, TablesSound', CallSound(k)', FeedFollows', ListingSound',
         itemHistory' \subseteq VersionOf', told' \subseteq VersionOf',
         sharedNow' \in Nat, valuesMade' \in Nat, historyFaults' \in Nat, feedFaults' \in Nat,
         listing' \in [on : BOOLEAN, cursor : Cursor, ids : Seq(Nat), untouched : SUBSET Nat]
  PROVE  SharedInv'
<1>1. SharedTyped
  BY DEF SharedInv
<1>2. sharedCall' \in [SharedCaller -> CallState]
  BY <1>1 DEF SharedTyped
<1>3. SharedTyped'
  BY <1>2 DEF SharedTyped, TablesAdvance
<1>4. ASSUME NEW d \in SharedCaller PROVE CallSound(sharedCall[d])'
  <2>1. CASE d = c
    <3>1. sharedCall'[d] = k
      BY <1>1, <2>1, OneMoves
    <3> QED BY <3>1 DEF CallSound, BeforeWrite, AfterWrite, HasRow
  <2>2. CASE d # c
    <3>1. PICK j \in CallState : j = sharedCall[d]
      BY <1>1, CallTyped
    <3>2. CallSound(j)
      BY <3>1 DEF SharedInv
    <3>3. CallSound(j)'
      BY <1>1, <3>2, CallsStay
    <3>4. sharedCall'[d] = j
      BY <1>1, <2>2, <3>1, OneMoves
    <3> QED BY <3>3, <3>4 DEF CallSound, BeforeWrite, AfterWrite, HasRow
  <2> QED BY <2>1, <2>2
<1> QED BY <1>3, <1>4 DEF SharedInv

\* A row is announced by now, or somebody is still about to do it.
LEMMA FeedStays ==
  ASSUME SharedInv, NEW c \in SharedCaller, NEW k \in CallState,
         sharedCall' = [sharedCall EXCEPT ![c] = k],
         UNCHANGED itemRows, itemFeed \subseteq itemFeed', feedFaults' = 0 => feedFaults = 0,
         feedFaults' = 0 =>
           \A i \in DOMAIN itemRows : Announces(sharedCall[c], i) =>
             Announces(k, i) \/ [item |-> i, version |-> itemRows[i].version] \in itemFeed'
  PROVE  FeedFollows'
<1> SUFFICES ASSUME feedFaults' = 0, NEW i \in DOMAIN itemRows
             PROVE  \/ [item |-> i, version |-> itemRows'[i].version] \in itemFeed'
                    \/ \E d \in SharedCaller : Announces(sharedCall[d], i)'
  BY DEF FeedFollows
<1>1. SharedTyped
  BY DEF SharedInv
<1>2. \/ [item |-> i, version |-> itemRows[i].version] \in itemFeed
      \/ \E d \in SharedCaller : Announces(sharedCall[d], i)
  BY DEF SharedInv, FeedFollows
<1>3. CASE [item |-> i, version |-> itemRows[i].version] \in itemFeed
  BY <1>3
<1>4. ASSUME NEW d \in SharedCaller, Announces(sharedCall[d], i), d # c
      PROVE  Announces(sharedCall[d], i)'
  <2>1. sharedCall'[d] = sharedCall[d]
    BY <1>1, <1>4, OneMoves
  <2> QED BY <1>4, <2>1 DEF Announces, AfterWrite
<1>5. CASE Announces(sharedCall[c], i)
  <2>1. Announces(k, i) \/ [item |-> i, version |-> itemRows[i].version] \in itemFeed'
    BY <1>5
  <2>2. Announces(k, i) => Announces(sharedCall[c], i)'
    <3>1. sharedCall'[c] = k
      BY <1>1, OneMoves
    <3> QED BY <3>1 DEF Announces, AfterWrite
  <2> QED BY <2>1, <2>2
<1> QED BY <1>2, <1>3, <1>4, <1>5

LEMMA ListingStays ==
  ASSUME SharedInv, UNCHANGED <<itemRows, listing>>
  PROVE  /\ ListingSound'
         /\ listing' \in [on : BOOLEAN, cursor : Cursor, ids : Seq(Nat), untouched : SUBSET Nat]
<1>1. \A i : (CursorAllows(listing.cursor, i) <=> CursorAllows(listing.cursor, i)')
  BY DEF CursorAllows
<1>2. \A i : (NotListed(i) <=> NotListed(i)') /\ (ListedOnce(i) <=> ListedOnce(i)')
  BY DEF NotListed, ListedOnce
<1> QED BY <1>1, <1>2 DEF SharedInv, SharedTyped, ListingSound

\* What a caller is told when the tables are left alone.
ToldMore == told' = told \/ \E r \in VersionOf : told' = told \cup {r} /\ Kept(r)

\* A handler reads, and may answer.
LEMMA QuietStepKeeps ==
  ASSUME SharedInv, NEW c \in SharedCaller, NEW k \in CallState,
         sharedCall' = [sharedCall EXCEPT ![c] = k], CallSound(k), ~AfterWrite(sharedCall[c]),
         UNCHANGED <<sharedTables, listing, sharedFaults>>, valuesMade' \in Nat, ToldMore
  PROVE  SharedInv'
<1>1. SharedTyped /\ TablesSound
  BY DEF SharedInv
<1>2. UNCHANGED <<itemRows, itemHistory, itemFeed, sharedNow, historyFaults, feedFaults, listing>>
  BY DEF sharedTables, sharedFaults
<1>3. told \subseteq told' /\ told' \subseteq VersionOf /\ \A r \in told' \ told : Kept(r)
  BY <1>1 DEF ToldMore, SharedTyped
<1>4. TablesAdvance /\ TablesSound'
  BY <1>1, <1>2, <1>3, SameTablesAdvance, SameTablesSound
<1>5. CallSound(k)'
  BY <1>1, <1>4, CallsStay
<1>6. ListingSound' /\ listing' \in [on : BOOLEAN, cursor : Cursor, ids : Seq(Nat),
                                     untouched : SUBSET Nat]
  BY <1>2, ListingStays
<1>7. FeedFollows'
  <2>1. \A i \in DOMAIN itemRows : ~Announces(sharedCall[c], i)
    BY DEF Announces
  <2> QED BY <1>2, <2>1, FeedStays
<1>8. VersionOf' = VersionOf /\ itemHistory' \subseteq VersionOf
  BY <1>1, <1>2 DEF VersionOf, SharedTyped
<1>9. sharedNow' \in Nat /\ historyFaults' \in Nat /\ feedFaults' \in Nat
  BY <1>1, <1>2 DEF SharedTyped
<1> QED BY <1>3, <1>4, <1>5, <1>6, <1>7, <1>8, <1>9, CallStepKeeps

\* The answer is a row as it is.
LEMMA TellsCurrent ==
  ASSUME SharedTyped, NEW i \in DOMAIN itemRows, Tell(i, itemRows[i].version, itemRows[i].payload)
  PROVE  ToldMore
<1>1. itemRows[i].version \in Nat /\ itemRows[i].payload \in SecretPayload
  BY RowTyped
<1>2. PICK r \in VersionOf :
        r = [item |-> i, version |-> itemRows[i].version, payload |-> itemRows[i].payload]
  BY <1>1 DEF VersionOf
<1>3. Kept(r)
  BY <1>2 DEF Kept
<1> QED BY <1>2, <1>3 DEF Tell, ToldMore

\* A handler that answers and rests.
LEMMA FinishKeeps ==
  ASSUME SharedInv, NEW c \in SharedCaller, Finish(c), ~AfterWrite(sharedCall[c]),
         UNCHANGED <<sharedTables, listing, sharedFaults>>, valuesMade' \in Nat, ToldMore
  PROVE  SharedInv'
<1>1. PICK k \in CallState : sharedCall' = [sharedCall EXCEPT ![c] = k] /\ Rested(k)
  BY FinishRests DEF SharedInv
<1>2. CallSound(k)
  BY <1>1, RestedSound
<1> QED BY <1>1, <1>2, QuietStepKeeps

-----------------------------------------------------------------------------
(* The beginnings of the handlers.                                         *)

\* The paths of a request.
LEMMA OneName ==
  ASSUME NEW n \in SecretName
  PROVE  <<n>> \in Seq(SecretName) /\ <<n>> # <<>>
<1>1. <<n>> \in Seq(SecretName) /\ Len(<<n>>) = 1 /\ Len(<<>>) = 0
  OBVIOUS
<1> QED BY <1>1

LEMMA NamesTyped ==
  ASSUME NEW names \in NameLists
  PROVE  names \in Seq(SecretName) /\ names # <<>>
<1>1. CASE names \in {<<n>> : n \in SecretName}
  BY <1>1, OneName
<1>2. CASE names \in SecretName \X SecretName
  <2>1. PICK m \in SecretName, n \in SecretName : names = <<m, n>>
    BY <1>2
  <2>2. <<m, n>> \in Seq(SecretName) /\ Len(<<m, n>>) = 2 /\ Len(<<>>) = 0
    OBVIOUS
  <2> QED BY <2>1, <2>2
<1> QED BY <1>1, <1>2 DEF NameLists

LEMMA BeginSecretCallKeeps ==
  ASSUME SharedInv, NEW c \in SharedCaller, NEW op \in SharedOps, NEW names \in NameLists,
         NEW p \in SecretPolicy \cup {NotASecret}, BeginSecretCall(c, op, names, p)
  PROVE  SharedInv'
<1>1. PICK s \in Seq(SecretName) : s = names /\ s # <<>>
  BY NamesTyped
<1>2. PICK k : k = [NoShared EXCEPT !.op = op, !.at = "lookup", !.names = s, !.policy = p]
  OBVIOUS
<1>3. k \in CallState
  BY <1>2, NothingTyped DEF CallState
<1>4. k.row = NoItem /\ k.at = "lookup" /\ k.names = s
  BY <1>2, NothingTyped DEF CallState
<1>5. CallSound(k)
  BY <1>1, <1>4, RestedSound DEF Rested
<1>6. sharedCall' = [sharedCall EXCEPT ![c] = k] /\ ~AfterWrite(sharedCall[c])
  BY <1>1, <1>2 DEF BeginSecretCall, AfterWrite, InShared
<1>7. valuesMade' \in Nat /\ ToldMore /\ UNCHANGED <<sharedTables, listing, sharedFaults>>
  BY DEF BeginSecretCall, SharedInv, SharedTyped, ToldMore
<1> QED BY <1>3, <1>5, <1>6, <1>7, QuietStepKeeps

LEMMA BeginItemCallKeeps ==
  ASSUME SharedInv, NEW c \in SharedCaller, NEW op \in SharedOps, NEW i \in DOMAIN itemRows,
         NEW n \in SecretName, NEW payload \in SecretPayload, BeginItemCall(c, op, i, n, payload),
         valuesMade' \in Nat
  PROVE  SharedInv'
<1>1. PICK row \in ItemRow : row = itemRows[i]
  BY RowTyped DEF SharedInv
<1>2. PICK s \in Seq(SecretName) : s = <<n>> /\ s # <<>>
  BY OneName
<1>3. i \in Nat
  BY RowTyped DEF SharedInv
<1>4. PICK k : k = [NoShared EXCEPT !.op = op, !.at = "history", !.names = s, !.id = i,
                                    !.row = row, !.payload = payload]
  OBVIOUS
<1>5. k \in CallState
  BY <1>3, <1>4, NothingTyped DEF CallState
<1>6. /\ k.at = "history" /\ k.names = s /\ k.id = i /\ k.row = row
  BY <1>4, NothingTyped DEF CallState
<1>7. CallSound(k)
  BY <1>1, <1>2, <1>6 DEF CallSound, BeforeWrite, AfterWrite
<1>8. sharedCall' = [sharedCall EXCEPT ![c] = k] /\ ~AfterWrite(sharedCall[c])
  BY <1>1, <1>2, <1>4 DEF BeginItemCall, AfterWrite, InShared
<1>9. ToldMore /\ UNCHANGED <<sharedTables, listing, sharedFaults>>
  BY DEF BeginItemCall, ToldMore
<1> QED BY <1>5, <1>7, <1>8, <1>9, QuietStepKeeps

\* A payload with a new value.
LEMMA MadePayload ==
  ASSUME SharedTyped, NEW policy \in SecretPolicy \cup {NotASecret}
  PROVE  /\ [value |-> valuesMade + 1, policy |-> policy] \in SecretPayload
         /\ ItemPayload(valuesMade + 1) \in SecretPayload
         /\ valuesMade + 1 \in Nat
<1>1. valuesMade + 1 \in Nat
  BY DEF SharedTyped
<1> QED BY <1>1 DEF ItemPayload, SecretPayload

LEMMA BeginUpdateKeeps ==
  ASSUME SharedInv, NEW c \in SharedCaller, NEW op \in SharedOps, NEW i \in DOMAIN itemRows,
         NEW n \in SecretName, BeginUpdate(c, op, i, n)
  PROVE  SharedInv'
<1>1. ItemPayload(valuesMade + 1) \in SecretPayload /\ valuesMade + 1 \in Nat
  BY MadePayload DEF SharedInv
<1> QED BY <1>1, BeginItemCallKeeps DEF BeginUpdate

LEMMA BeginDeleteKeeps ==
  ASSUME SharedInv, NEW c \in SharedCaller, NEW i \in DOMAIN itemRows, NEW n \in SecretName,
         BeginDelete(c, i, n)
  PROVE  SharedInv'
<1>1. itemRows[i].payload \in SecretPayload /\ "delete" \in SharedOps /\ valuesMade \in Nat
  BY RowTyped DEF SharedInv, SharedOps, SharedTyped
<1> QED BY <1>1, BeginItemCallKeeps DEF BeginDelete

LEMMA BeginCreateKeeps ==
  ASSUME SharedInv, NEW c \in SharedCaller, NEW n \in SecretName, BeginCreate(c, n)
  PROVE  SharedInv'
<1>1. PICK payload \in SecretPayload : payload = ItemPayload(valuesMade + 1)
  BY MadePayload DEF SharedInv
<1>2. PICK s \in Seq(SecretName) : s = <<n>> /\ s # <<>>
  BY OneName
<1>3. PICK k : k = [NoShared EXCEPT !.op = "create", !.at = "insert", !.names = s,
                                    !.payload = payload]
  OBVIOUS
<1>4. k \in CallState /\ k.at = "insert" /\ k.names = s /\ k.row = NoItem
  BY <1>3, NothingTyped DEF CallState, SharedOps
<1>5. CallSound(k)
  BY <1>2, <1>4 DEF CallSound, BeforeWrite, AfterWrite
<1>6. sharedCall' = [sharedCall EXCEPT ![c] = k] /\ ~AfterWrite(sharedCall[c])
  BY <1>1, <1>2, <1>3 DEF BeginCreate, AfterWrite, InShared
<1>7. ToldMore /\ UNCHANGED <<sharedTables, listing, sharedFaults>> /\ valuesMade' \in Nat
  BY DEF BeginCreate, ToldMore, SharedInv, SharedTyped
<1> QED BY <1>4, <1>5, <1>6, <1>7, QuietStepKeeps

LEMMA BeginFieldKeeps ==
  ASSUME SharedInv, NEW c \in SharedCaller, NEW n \in SecretName, BeginField(c, n)
  PROVE  SharedInv'
<1>1. PICK s \in Seq(SecretName) : s = <<n>> /\ s # <<>>
  BY OneName
<1>2. PICK k : k = [NoShared EXCEPT !.op = "field", !.at = "lookup", !.names = s]
  OBVIOUS
<1>3. k \in CallState /\ k.at = "lookup" /\ k.names = s /\ k.row = NoItem
  BY <1>2, NothingTyped DEF CallState, SharedOps
<1>4. CallSound(k)
  BY <1>1, <1>3, RestedSound DEF Rested
<1>5. sharedCall' = [sharedCall EXCEPT ![c] = k] /\ ~AfterWrite(sharedCall[c])
  BY <1>1, <1>2 DEF BeginField, AfterWrite, InShared
<1>6. ToldMore /\ UNCHANGED <<sharedTables, listing, sharedFaults>> /\ valuesMade' \in Nat
  BY DEF BeginField, ToldMore, SharedInv, SharedTyped
<1> QED BY <1>3, <1>4, <1>5, <1>6, QuietStepKeeps

-----------------------------------------------------------------------------
(* The look at the path.                                                   *)

LEMMA ReplaceKeeps ==
  ASSUME SharedInv, NEW c \in SharedCaller, NEW i \in DOMAIN itemRows,
         NEW payload \in SecretPayload, Replace(c, i, payload), InShared(c, "lookup"),
         UNCHANGED <<sharedTables, listing, sharedFaults>>, valuesMade' \in Nat, UNCHANGED told
  PROVE  SharedInv'
<1>1. PICK row \in ItemRow : row = itemRows[i] /\ i \in Nat
  BY RowTyped DEF SharedInv
<1>2. PICK j \in CallState : j = sharedCall[c]
  BY CallTyped DEF SharedInv
<1>3. PICK k : k = [j EXCEPT !.at = "history", !.id = i, !.row = row, !.payload = payload]
  OBVIOUS
<1>4. k \in CallState
  BY <1>1, <1>3 DEF CallState
<1>5. k.at = "history" /\ k.names = j.names /\ k.id = i /\ k.row = row
  BY <1>3 DEF CallState
<1>6. j.names # <<>> /\ j.at = "lookup"
  BY <1>2 DEF SharedInv, CallSound, InShared
<1>7. CallSound(k) /\ ~AfterWrite(sharedCall[c])
  BY <1>1, <1>2, <1>5, <1>6 DEF CallSound, BeforeWrite, AfterWrite
<1>8. sharedCall' = [sharedCall EXCEPT ![c] = k]
  BY <1>1, <1>2, <1>3 DEF Replace, SharedInv, SharedTyped
<1>9. ToldMore
  BY DEF ToldMore
<1> QED BY <1>4, <1>7, <1>8, <1>9, QuietStepKeeps

LEMMA MakeRowKeeps ==
  ASSUME SharedInv, NEW c \in SharedCaller, NEW payload \in SecretPayload, MakeRow(c, payload),
         InShared(c, "lookup"), UNCHANGED <<sharedTables, listing, sharedFaults>>,
         valuesMade' \in Nat, UNCHANGED told
  PROVE  SharedInv'
<1>1. PICK j \in CallState : j = sharedCall[c]
  BY CallTyped DEF SharedInv
<1>2. PICK k : k = [j EXCEPT !.at = "insert", !.payload = payload]
  OBVIOUS
<1>3. k \in CallState /\ k.at = "insert" /\ k.names = j.names /\ k.row = j.row
  BY <1>2 DEF CallState
<1>4. j.names # <<>> /\ j.at = "lookup" /\ j.row = NoItem
  BY <1>1 DEF SharedInv, CallSound, InShared
<1>5. CallSound(k) /\ ~AfterWrite(sharedCall[c])
  BY <1>1, <1>3, <1>4 DEF CallSound, BeforeWrite, AfterWrite
<1>6. sharedCall' = [sharedCall EXCEPT ![c] = k]
  BY <1>1, <1>2 DEF MakeRow, SharedInv, SharedTyped
<1>7. ToldMore
  BY DEF ToldMore
<1> QED BY <1>3, <1>5, <1>6, <1>7, QuietStepKeeps

LEMMA AnswerExistingKeeps ==
  ASSUME SharedInv, NEW c \in SharedCaller, NEW i \in DOMAIN itemRows, NEW wanted,
         AnswerExisting(c, i, wanted), ~AfterWrite(sharedCall[c]),
         UNCHANGED <<sharedTables, listing, sharedFaults, valuesMade>>
  PROVE  SharedInv'
<1>1. ToldMore
  <2>1. CASE Tell(i, itemRows[i].version, itemRows[i].payload)
    BY <2>1, TellsCurrent DEF SharedInv
  <2>2. CASE UNCHANGED told
    BY <2>2 DEF ToldMore
  <2> QED BY <2>1, <2>2 DEF AnswerExisting
<1>2. valuesMade' \in Nat /\ Finish(c)
  BY DEF SharedInv, SharedTyped, AnswerExisting
<1> QED BY <1>1, <1>2, FinishKeeps

LEMMA PolicyTyped ==
  ASSUME SharedTyped, NEW c \in SharedCaller, NEW other \in SecretPolicy \cup {NotASecret}
  PROVE  PolicyOr(c, other) \in SecretPolicy \cup {NotASecret}
<1>1. sharedCall[c] \in CallState
  BY CallTyped
<1> QED BY <1>1 DEF PolicyOr, CallState

\* Before the look there is no write to announce.
LEMMA LookupIsBefore ==
  ASSUME NEW c, InShared(c, "lookup") \/ InShared(c, "reread")
  PROVE  ~AfterWrite(sharedCall[c])
  BY DEF InShared, AfterWrite

LEMMA LookupGetKeeps ==
  ASSUME SharedInv, NEW c \in SharedCaller, LookupGet(c)
  PROVE  SharedInv'
<1>1. ToldMore
  <2>1. CASE UNCHANGED told
    BY <2>1 DEF ToldMore
  <2>2. ASSUME NEW i \in RowsAt(PathOf(c)), Tell(i, itemRows[i].version, itemRows[i].payload)
        PROVE  ToldMore
    BY <2>2, TellsCurrent DEF SharedInv, RowsAt
  <2> QED BY <2>1, <2>2 DEF LookupGet
<1>2. /\ valuesMade' \in Nat /\ Finish(c) /\ InShared(c, "lookup")
      /\ UNCHANGED <<sharedTables, listing, sharedFaults>>
  BY DEF LookupGet, SharedInv, SharedTyped
<1> QED BY <1>1, <1>2, LookupIsBefore, FinishKeeps

LEMMA LookupEnsureKeeps ==
  ASSUME SharedInv, NEW c \in SharedCaller, LookupEnsure(c)
  PROVE  SharedInv'
<1>1. InShared(c, "lookup") /\ UNCHANGED <<sharedTables, listing, sharedFaults>>
  BY DEF LookupEnsure
<1>2. ASSUME NEW i \in RowsAt(PathOf(c)), AnswerExisting(c, i, SamePolicy(c, i)),
             UNCHANGED valuesMade
      PROVE  SharedInv'
  BY <1>1, <1>2, LookupIsBefore, AnswerExistingKeeps DEF RowsAt
<1>3. ASSUME valuesMade' = valuesMade + 1, UNCHANGED told,
             MakeRow(c, [value |-> valuesMade + 1, policy |-> PolicyOr(c, DefaultPolicy)])
      PROVE  SharedInv'
  <2>1. PolicyOr(c, DefaultPolicy) \in SecretPolicy \cup {NotASecret}
    BY PolicyTyped, SharedVaultAssumption DEF SharedInv
  <2>2. /\ [value |-> valuesMade + 1, policy |-> PolicyOr(c, DefaultPolicy)] \in SecretPayload
        /\ valuesMade' \in Nat
    BY <1>3, <2>1, MadePayload DEF SharedInv
  <2> QED BY <1>1, <1>3, <2>2, MakeRowKeeps
<1> QED BY <1>2, <1>3 DEF LookupEnsure

LEMMA LookupSetKeeps ==
  ASSUME SharedInv, NEW c \in SharedCaller, LookupSet(c)
  PROVE  SharedInv'
<1>1. InShared(c, "lookup") /\ UNCHANGED <<sharedTables, listing, sharedFaults>>
  BY DEF LookupSet
<1>2. ~AfterWrite(sharedCall[c]) /\ valuesMade \in Nat
  BY <1>1, LookupIsBefore DEF SharedInv, SharedTyped
<1>3. ASSUME Finish(c), UNCHANGED <<told, valuesMade>> PROVE SharedInv'
  BY <1>1, <1>2, <1>3, FinishKeeps DEF ToldMore
<1>4. ASSUME NEW i \in RowsAt(PathOf(c)), Finish(c), UNCHANGED valuesMade,
             Tell(i, itemRows[i].version, itemRows[i].payload)
      PROVE  SharedInv'
  <2>1. ToldMore
    BY <1>4, TellsCurrent DEF SharedInv, RowsAt
  <2> QED BY <1>1, <1>2, <1>4, <2>1, FinishKeeps
<1>5. ASSUME NEW i \in RowsAt(PathOf(c)), valuesMade' = valuesMade + 1, UNCHANGED told,
             Replace(c, i, [value |-> valuesMade + 1,
                            policy |-> PolicyOr(c, itemRows[i].payload.policy)])
      PROVE  SharedInv'
  <2>1. i \in DOMAIN itemRows
    BY DEF RowsAt
  <2>2. itemRows[i].payload.policy \in SecretPolicy \cup {NotASecret}
    <3>1. itemRows[i].payload \in SecretPayload
      BY <2>1, RowTyped DEF SharedInv
    <3> QED BY <3>1 DEF SecretPayload
  <2>3. PICK p \in SecretPolicy \cup {NotASecret} : p = PolicyOr(c, itemRows[i].payload.policy)
    BY <2>2, PolicyTyped DEF SharedInv
  <2>4. PICK payload \in SecretPayload : payload = [value |-> valuesMade + 1, policy |-> p]
    BY MadePayload DEF SharedInv
  <2>5. Replace(c, i, payload) /\ valuesMade' \in Nat
    BY <1>2, <1>5, <2>3, <2>4
  <2> QED BY <1>1, <1>5, <2>1, <2>5, ReplaceKeeps
<1>6. ASSUME valuesMade' = valuesMade + 1, UNCHANGED told,
             MakeRow(c, [value |-> valuesMade + 1, policy |-> PolicyOr(c, DefaultPolicy)])
      PROVE  SharedInv'
  <2>1. PolicyOr(c, DefaultPolicy) \in SecretPolicy \cup {NotASecret}
    BY PolicyTyped, SharedVaultAssumption DEF SharedInv
  <2>2. /\ [value |-> valuesMade + 1, policy |-> PolicyOr(c, DefaultPolicy)] \in SecretPayload
        /\ valuesMade' \in Nat
    BY <1>6, <2>1, MadePayload DEF SharedInv
  <2> QED BY <1>1, <1>6, <2>2, MakeRowKeeps
<1> QED BY <1>3, <1>4, <1>5, <1>6 DEF LookupSet

LEMMA LookupRotateKeeps ==
  ASSUME SharedInv, NEW c \in SharedCaller, LookupRotate(c)
  PROVE  SharedInv'
<1>1. InShared(c, "lookup") /\ UNCHANGED <<sharedTables, listing, sharedFaults, told>>
  BY DEF LookupRotate
<1>2. ~AfterWrite(sharedCall[c]) /\ valuesMade \in Nat /\ ToldMore
  BY <1>1, LookupIsBefore DEF SharedInv, SharedTyped, ToldMore
<1>3. ASSUME Finish(c), UNCHANGED valuesMade PROVE SharedInv'
  BY <1>1, <1>2, <1>3, FinishKeeps
<1>4. ASSUME NEW i \in RowsAt(PathOf(c)), valuesMade' = valuesMade + 1,
             Replace(c, i, [value |-> valuesMade + 1, policy |-> PolicyOr(c, DefaultPolicy)])
      PROVE  SharedInv'
  <2>1. i \in DOMAIN itemRows
    BY DEF RowsAt
  <2>2. PolicyOr(c, DefaultPolicy) \in SecretPolicy \cup {NotASecret}
    BY PolicyTyped, SharedVaultAssumption DEF SharedInv
  <2>3. /\ [value |-> valuesMade + 1, policy |-> PolicyOr(c, DefaultPolicy)] \in SecretPayload
        /\ valuesMade' \in Nat
    BY <1>4, <2>2, MadePayload DEF SharedInv
  <2> QED BY <1>1, <1>4, <2>1, <2>3, ReplaceKeeps
<1> QED BY <1>3, <1>4 DEF LookupRotate

LEMMA LookupFieldKeeps ==
  ASSUME SharedInv, NEW c \in SharedCaller, LookupField(c)
  PROVE  SharedInv'
<1>1. InShared(c, "lookup") /\ UNCHANGED <<sharedTables, listing, sharedFaults, told>>
  BY DEF LookupField
<1>2. ~AfterWrite(sharedCall[c]) /\ valuesMade \in Nat /\ ToldMore
  BY <1>1, LookupIsBefore DEF SharedInv, SharedTyped, ToldMore
<1>3. ItemPayload(valuesMade + 1) \in SecretPayload /\ valuesMade + 1 \in Nat
  BY MadePayload DEF SharedInv
<1>4. ASSUME Finish(c), UNCHANGED valuesMade PROVE SharedInv'
  BY <1>1, <1>2, <1>4, FinishKeeps
<1>5. ASSUME NEW i \in RowsAt(PathOf(c)), valuesMade' = valuesMade + 1,
             Replace(c, i, ItemPayload(valuesMade + 1))
      PROVE  SharedInv'
  BY <1>1, <1>3, <1>5, ReplaceKeeps DEF RowsAt
<1>6. ASSUME valuesMade' = valuesMade + 1, MakeRow(c, ItemPayload(valuesMade + 1))
      PROVE  SharedInv'
  BY <1>1, <1>3, <1>6, MakeRowKeeps
<1> QED BY <1>4, <1>5, <1>6 DEF LookupField

LEMMA RereadKeeps ==
  ASSUME SharedInv, NEW c \in SharedCaller, NEW op, NEW wanted, Reread(c, op, wanted)
  PROVE  SharedInv'
<1>1. /\ InShared(c, "reread") /\ UNCHANGED <<sharedTables, listing, sharedFaults, valuesMade>>
      /\ valuesMade \in Nat
  BY DEF Reread, SharedInv, SharedTyped
<1>2. ~AfterWrite(sharedCall[c])
  BY <1>1, LookupIsBefore
<1>3. ASSUME NEW i \in RowsAt(PathOf(c)), AnswerExisting(c, i, i \in wanted) PROVE SharedInv'
  BY <1>1, <1>2, <1>3, AnswerExistingKeeps DEF RowsAt
<1>4. ASSUME Finish(c), UNCHANGED told PROVE SharedInv'
  BY <1>1, <1>2, <1>4, FinishKeeps DEF ToldMore
<1> QED BY <1>3, <1>4 DEF Reread

-----------------------------------------------------------------------------
(* The history.                                                            *)

\* A step of a handler on the history, after which it goes on to at.
LEMMA HistoryStepKeeps ==
  ASSUME SharedInv, NEW c \in SharedCaller, NEW j \in CallState, j = sharedCall[c],
         NEW at \in {"prune", "write", "announce"}, GotoShared(c, at),
         TablesAdvance, TablesSound', itemHistory' \subseteq VersionOf, historyFaults' \in Nat,
         UNCHANGED <<itemRows, itemFeed, sharedNow, told, listing, valuesMade, feedFaults>>,
         CallSound(Moved(j, at))', AfterWrite(j) => AfterWrite(Moved(j, at))
  PROVE  SharedInv'
<1>1. PICK k \in CallState : k = Moved(j, at)
  BY MovedFields
<1>2. k.id = j.id /\ k.row = j.row
  BY <1>1, MovedFields
<1>3. sharedCall' = [sharedCall EXCEPT ![c] = k]
  BY <1>1, GotoMoves DEF SharedInv
<1>4. ASSUME NEW i \in DOMAIN itemRows, Announces(sharedCall[c], i) PROVE Announces(k, i)
  BY <1>1, <1>2, <1>4 DEF Announces
<1>5. FeedFollows'
  BY <1>3, <1>4, FeedStays
<1>6. VersionOf' = VersionOf
  BY DEF VersionOf
<1>7. /\ ListingSound'
      /\ listing' \in [on : BOOLEAN, cursor : Cursor, ids : Seq(Nat), untouched : SUBSET Nat]
  BY ListingStays
<1>8. /\ told' \subseteq VersionOf /\ sharedNow' \in Nat /\ valuesMade' \in Nat
      /\ feedFaults' \in Nat
  BY DEF SharedInv, SharedTyped
<1> QED BY <1>1, <1>3, <1>5, <1>6, <1>7, <1>8, CallStepKeeps

LEMMA PruneHistoryKeeps ==
  ASSUME SharedInv, NEW c \in SharedCaller, PruneHistory(c)
  PROVE  SharedInv'
<1>1. PICK j \in CallState : j = sharedCall[c]
  BY CallTyped DEF SharedInv
<1>2. j.at = "prune" /\ CallSound(j)
  BY <1>1 DEF PruneHistory, InShared, SharedInv
<1>3. PICK i \in DOMAIN itemRows : i = j.id
  BY <1>2 DEF CallSound, BeforeWrite, AfterWrite
<1>4. itemHistory' = HistoryPruned(i) /\ UNCHANGED <<itemRows, told, historyFaults>>
  BY <1>1, <1>3 DEF PruneHistory, sharedFaults
<1>5. TablesAdvance /\ TablesSound' /\ itemHistory' \subseteq VersionOf
  BY <1>4, HistoryShrinks DEF SharedInv
<1>6. CallSound(j)'
  BY <1>2, <1>5, CallsStay DEF SharedInv
<1>7. PICK at \in {"prune", "write", "announce"} :
        at = IF j.op = "field" THEN "announce" ELSE "write"
  OBVIOUS
<1>8. GotoShared(c, at)
  BY <1>1, <1>7 DEF PruneHistory
<1>9. PICK k \in CallState : /\ k = Moved(j, at) /\ k.at = at /\ k.op = j.op /\ k.id = j.id
                             /\ k.names = j.names /\ k.row = j.row /\ k.payload = j.payload
  BY MovedFields
<1>10. CallSound(k)' /\ (AfterWrite(j) => AfterWrite(k))
  <2>1. CASE j.op = "field"
    <3>1. AfterWrite(j) /\ AfterWrite(k) /\ ~BeforeWrite(k) /\ k.at = "announce"
      BY <1>2, <1>7, <1>9, <2>1 DEF AfterWrite, BeforeWrite
    <3> QED BY <1>2, <1>6, <1>9, <3>1 DEF CallSound
  <2>2. CASE j.op # "field"
    <3>1. BeforeWrite(j) /\ BeforeWrite(k) /\ ~AfterWrite(k) /\ k.at = "write" /\ ~AfterWrite(j)
      BY <1>2, <1>7, <1>9, <2>2 DEF AfterWrite, BeforeWrite
    <3> QED BY <1>2, <1>6, <1>9, <3>1 DEF CallSound, HasRow
  <2> QED BY <2>1, <2>2
<1>11. historyFaults' \in Nat
  BY <1>4 DEF SharedInv, SharedTyped
<1>12. UNCHANGED <<itemRows, itemFeed, sharedNow, told, listing, valuesMade, feedFaults>>
  BY DEF PruneHistory, sharedFaults
<1>13. CallSound(Moved(j, at))' /\ (AfterWrite(j) => AfterWrite(Moved(j, at)))
  BY <1>9, <1>10
<1> QED BY <1>1, <1>5, <1>8, <1>11, <1>12, <1>13, HistoryStepKeeps

\* What a handler writes to the history is a version of its row.
LEMMA WriteHistoryKeeps ==
  ASSUME SharedInv, NEW c \in SharedCaller, NEW j \in CallState, j = sharedCall[c],
         NEW here, NEW version, NEW payload, NEW at, NEW fails,
         WriteHistory(c, here, version, payload, at, fails),
         \/ /\ here = "made" /\ at = "announce" /\ version = 1 /\ payload = j.payload
         \/ /\ here = "history" /\ version = j.row.version /\ payload = j.row.payload
            /\ at = "write" \/ (at = "prune" /\ j.op # "field")
  PROVE  SharedInv'
<1>1. CallSound(j) /\ j.at = here /\ (AfterWrite(j) <=> here = "made")
  BY DEF SharedInv, WriteHistory, InShared, AfterWrite
<1>2. PICK i \in DOMAIN itemRows : i = j.id
  BY <1>1 DEF CallSound, BeforeWrite, AfterWrite
<1>3. itemRows[i].version \in Nat /\ itemRows[i].version >= 1
  BY RowTyped DEF SharedInv, TablesSound
<1>4. /\ version \in Nat /\ payload \in SecretPayload /\ version <= itemRows[i].version
      /\ version = itemRows[i].version => payload = itemRows[i].payload
  <2>1. CASE here = "made"
    BY <1>1, <1>2, <1>3, <2>1, CallFields DEF CallSound
  <2>2. CASE here = "history"
    <3>1. PICK r \in ItemRow : r = j.row
      BY <1>1, <2>2 DEF CallSound, BeforeWrite
    <3>2. r = itemRows[i] \/ r.version < itemRows[i].version
      BY <1>1, <1>2, <2>2, <3>1 DEF CallSound, BeforeWrite
    <3>3. r.version \in Nat /\ r.payload \in SecretPayload
      BY RowFields
    <3> QED BY <1>3, <2>2, <3>1, <3>2, <3>3
  <2> QED BY <2>1, <2>2
<1>5. UNCHANGED <<itemRows, itemFeed, sharedNow, told, listing, valuesMade, feedFaults>>
  BY DEF WriteHistory
<1>6. /\ TablesAdvance /\ TablesSound' /\ itemHistory' \subseteq VersionOf
      /\ historyFaults' \in Nat
      /\ historyFaults' = 0 /\ version = itemRows[i].version =>
           Version(i, version, payload) \in itemHistory'
  <2>1. CASE fails
    <3>1. historyFaults' = historyFaults + 1 /\ itemHistory' = itemHistory
      BY <2>1 DEF WriteHistory
    <3>2. itemHistory' \subseteq VersionOf /\ historyFaults' \in Nat
      BY <3>1 DEF SharedInv, SharedTyped
    <3> QED BY <1>5, <3>1, <3>2, HistoryFails DEF SharedInv
  <2>2. CASE ~fails
    <3>1. UNCHANGED historyFaults /\ itemHistory' = HistoryWith(i, version, payload)
      BY <1>2, <2>2 DEF WriteHistory
    <3>2. historyFaults' \in Nat
      BY <3>1 DEF SharedInv, SharedTyped
    <3> QED BY <1>4, <1>5, <3>1, <3>2, HistoryGrows DEF SharedInv
  <2> QED BY <2>1, <2>2
<1>7. CallSound(j)'
  BY <1>1, <1>6, CallsStay DEF SharedInv
<1>8. PICK k \in CallState : /\ k = Moved(j, at) /\ k.at = at /\ k.op = j.op /\ k.id = j.id
                             /\ k.names = j.names /\ k.row = j.row /\ k.payload = j.payload
  BY MovedFields
<1>9. CallSound(k)' /\ (AfterWrite(j) => AfterWrite(k))
  <2>1. CASE here = "made"
    <3>1. AfterWrite(j) /\ AfterWrite(k) /\ ~BeforeWrite(k) /\ k.at = "announce"
      BY <1>1, <1>8, <2>1 DEF AfterWrite, BeforeWrite
    <3> QED BY <1>1, <1>7, <1>8, <2>1, <3>1 DEF CallSound
  <2>2. CASE here = "history"
    <3>1. BeforeWrite(j) /\ BeforeWrite(k) /\ ~AfterWrite(k) /\ ~AfterWrite(j)
      BY <1>1, <1>8, <2>2 DEF AfterWrite, BeforeWrite
    <3>2. k.at \in {"write", "prune"} /\ k.names # <<>>
      BY <1>1, <1>8, <2>2 DEF CallSound
    <3>3. /\ j.id \in DOMAIN itemRows' /\ j.row \in ItemRow
          /\ \/ j.row = itemRows'[j.id]
             \/ /\ j.row.row_version < itemRows'[j.id].row_version
                /\ j.row.version < itemRows'[j.id].version
      BY <1>7, <3>1 DEF CallSound
    <3>4. HasRow(k)' /\ historyFaults' = 0 =>
            Version(j.id, j.row.version, j.row.payload) \in itemHistory'
      <4> SUFFICES ASSUME HasRow(k)', historyFaults' = 0
                   PROVE  Version(j.id, j.row.version, j.row.payload) \in itemHistory'
        OBVIOUS
      <4>1. j.row.row_version = itemRows'[j.id].row_version
        BY <1>8 DEF HasRow
      <4>2. itemRows'[i] = itemRows[i] /\ itemRows[i].row_version \in Nat
        BY <1>5, RowTyped DEF SharedInv
      <4>3. j.row = itemRows[i]
        BY <1>2, <3>3, <4>1, <4>2
      <4> QED BY <1>2, <1>6, <2>2, <4>3
    <3> QED BY <1>8, <3>1, <3>2, <3>3, <3>4 DEF CallSound
  <2> QED BY <2>1, <2>2
<1>10. CallSound(Moved(j, at))' /\ (AfterWrite(j) => AfterWrite(Moved(j, at)))
  BY <1>8, <1>9
<1>11. GotoShared(c, at) /\ at \in {"prune", "write", "announce"}
  BY DEF WriteHistory
<1> QED BY <1>5, <1>6, <1>10, <1>11, HistoryStepKeeps

LEMMA HistoryOfKeeps ==
  ASSUME SharedInv, NEW c \in SharedCaller, NEW fails \in BOOLEAN,
         \/ HistoryOfSecret(c, fails) \/ HistoryOfMade(c, fails)
         \/ HistoryOfReplaced(c, fails) \/ HistoryOfDeleted(c, fails)
  PROVE  SharedInv'
<1>1. PICK j \in CallState : j = sharedCall[c]
  BY CallTyped DEF SharedInv
<1>2. CASE WriteHistory(c, "made", 1, j.payload, "announce", fails)
  BY <1>1, <1>2, WriteHistoryKeeps
<1>3. CASE WriteHistory(c, "history", j.row.version, j.row.payload, "write", fails)
  BY <1>1, <1>3, WriteHistoryKeeps
<1>4. CASE /\ j.op \in {"update", "move"}
           /\ WriteHistory(c, "history", j.row.version, j.row.payload, "prune", fails)
  BY <1>1, <1>4, WriteHistoryKeeps
<1> QED BY <1>1, <1>2, <1>3, <1>4
        DEF HistoryOfSecret, HistoryOfMade, HistoryOfReplaced, HistoryOfDeleted

-----------------------------------------------------------------------------
(* Writes to the rows.                                                     *)

\* The handler that wrote the row n is about to announce it.
LEMMA FeedOfWritten ==
  ASSUME SharedInv, NEW c \in SharedCaller, NEW k \in CallState,
         sharedCall' = [sharedCall EXCEPT ![c] = k], ~AfterWrite(sharedCall[c]),
         UNCHANGED <<itemFeed, feedFaults>>, NEW n, Announces(k, n)',
         \A i \in DOMAIN itemRows' : i # n => i \in DOMAIN itemRows /\ itemRows'[i] = itemRows[i]
  PROVE  FeedFollows'
<1> SUFFICES ASSUME feedFaults = 0, NEW i \in DOMAIN itemRows'
             PROVE  \/ [item |-> i, version |-> itemRows'[i].version] \in itemFeed
                    \/ \E d \in SharedCaller : Announces(sharedCall[d], i)'
  BY DEF FeedFollows
<1>1. sharedCall'[c] = k /\ \A d \in SharedCaller \ {c} : sharedCall'[d] = sharedCall[d]
  BY OneMoves DEF SharedInv
<1>2. CASE i = n
  <2>1. Announces(sharedCall[c], i)'
    BY <1>1, <1>2 DEF Announces, AfterWrite
  <2> QED BY <2>1
<1>3. CASE i # n
  <2>1. i \in DOMAIN itemRows /\ itemRows'[i] = itemRows[i]
    BY <1>3
  <2>2. CASE [item |-> i, version |-> itemRows[i].version] \in itemFeed
    BY <2>1, <2>2
  <2>3. ASSUME NEW d \in SharedCaller, Announces(sharedCall[d], i)
        PROVE  Announces(sharedCall[d], i)'
    <3>1. d # c
      BY <2>3 DEF Announces
    <3> QED BY <1>1, <2>1, <2>3, <3>1 DEF Announces, AfterWrite
  <2> QED BY <2>1, <2>2, <2>3 DEF SharedInv, FeedFollows
<1> QED BY <1>2, <1>3

\* The listing goes on over the rows that are left alone.
LEMMA ListingOfWritten ==
  ASSUME SharedInv, UNCHANGED <<listing.on, listing.cursor, listing.ids>>,
         listing'.untouched \subseteq listing.untouched,
         \A i \in listing'.untouched : i \in DOMAIN itemRows' /\ itemRows'[i] = itemRows[i]
  PROVE  ListingSound'
<1> SUFFICES ASSUME NEW i \in listing'.untouched
             PROVE  /\ i \in DOMAIN itemRows' /\ itemRows'[i].active
                    /\ listing'.on => IF CursorAllows(listing.cursor, i)'
                                      THEN NotListed(i)' ELSE ListedOnce(i)'
                    /\ ~listing'.on /\ listing'.ids # <<>> => ListedOnce(i)'
  BY DEF ListingSound
<1>1. /\ i \in DOMAIN itemRows /\ itemRows[i].active
      /\ listing.on => IF CursorAllows(listing.cursor, i) THEN NotListed(i) ELSE ListedOnce(i)
      /\ ~listing.on /\ listing.ids # <<>> => ListedOnce(i)
  BY DEF SharedInv, ListingSound
<1>2. i \in DOMAIN itemRows' /\ itemRows'[i] = itemRows[i]
  OBVIOUS
<1>3. CursorAllows(listing.cursor, i)' <=> CursorAllows(listing.cursor, i)
  BY <1>2 DEF CursorAllows
<1>4. (NotListed(i)' <=> NotListed(i)) /\ (ListedOnce(i)' <=> ListedOnce(i))
  BY DEF NotListed, ListedOnce
<1>5. listing'.on = listing.on /\ listing'.ids = listing.ids
  OBVIOUS
<1> QED BY <1>1, <1>2, <1>3, <1>4, <1>5, Zenon

LEMMA InsertedKeeps ==
  ASSUME SharedInv, NEW c \in SharedCaller, NEW kind \in {"secret", "item"}, NEW t \in Nat,
         InShared(c, "insert"), itemRows' = Append(itemRows, MadeRow(c, kind, t)), sharedNow' = t,
         sharedCall' = [sharedCall EXCEPT ![c].at = "made", ![c].id = Len(itemRows) + 1],
         UNCHANGED <<itemHistory, itemFeed, told, listing, valuesMade, sharedFaults>>
  PROVE  SharedInv'
<1>1. PICK j \in CallState : j = sharedCall[c]
  BY CallTyped DEF SharedInv
<1>2. j.at = "insert" /\ j.names # <<>> /\ j.row = NoItem /\ j.payload \in SecretPayload
  BY <1>1, CallFields DEF SharedInv, CallSound, InShared
<1>3. PICK path \in StoredPath : path = PathOf(c)
  BY <1>1, <1>2, PathTyped DEF SharedInv
<1>4. PICK p \in SecretPayload : p = j.payload
  BY <1>2
<1>5. PICK row : row = [path |-> path, payload |-> p, version |-> 1, kind |-> kind,
                        row_version |-> 1, active |-> TRUE, updated_at |-> t]
  OBVIOUS
<1>6. row \in ItemRow /\ row.version = 1 /\ row.payload = p
  BY <1>5 DEF ItemRow
<1>7. itemRows' = Append(itemRows, row)
  BY <1>1, <1>3, <1>4, <1>5 DEF MadeRow
<1>8. PICK n \in Nat : n = Len(itemRows) + 1
  BY DEF SharedInv, SharedTyped
<1>9. /\ TablesAdvance /\ TablesSound' /\ VersionOf \subseteq VersionOf'
      /\ n \in DOMAIN itemRows' /\ itemRows'[n] = row
      /\ \A i \in DOMAIN itemRows : i \in DOMAIN itemRows' /\ itemRows'[i] = itemRows[i]
      /\ \A i \in DOMAIN itemRows' : i \in DOMAIN itemRows \/ i = n
  BY <1>6, <1>7, <1>8, RowsGrow DEF SharedInv, sharedFaults
<1>10. PICK k : k = [j EXCEPT !.at = "made", !.id = n]
  OBVIOUS
<1>11. /\ k \in CallState /\ k.at = "made" /\ k.id = n /\ k.names = j.names /\ k.row = NoItem
       /\ k.payload = p
  BY <1>2, <1>4, <1>10 DEF CallState
<1>12. sharedCall' = [sharedCall EXCEPT ![c] = k]
  BY <1>1, <1>8, <1>10 DEF SharedInv, SharedTyped
<1>13. k.row.version + 1 = 1 /\ AfterWrite(k) /\ ~BeforeWrite(k)
  BY <1>11, NothingTyped DEF AfterWrite, BeforeWrite
<1>14. CallSound(k)'
  <2>1. Kept(Version(n, 1, p))'
    <3>1. PICK r : r = Version(n, 1, p)
      OBVIOUS
    <3>2. r.item = n /\ r.version = 1 /\ r.payload = p
      BY <3>1, VersionFields
    <3>3. Kept(r)'
      BY <1>6, <1>9, <3>2 DEF Kept
    <3> QED BY <3>1, <3>3
  <2> QED BY <1>2, <1>6, <1>9, <1>11, <1>13, <2>1 DEF CallSound
<1>15. FeedFollows'
  <2>1. Announces(k, n)'
    BY <1>6, <1>9, <1>11, <1>13 DEF Announces
  <2>2. ~AfterWrite(sharedCall[c])
    BY <1>1, <1>2 DEF AfterWrite
  <2> QED BY <1>9, <1>11, <1>12, <2>1, <2>2, FeedOfWritten DEF sharedFaults
<1>16. ListingSound'
  <2>1. \A i \in listing'.untouched : i \in DOMAIN itemRows' /\ itemRows'[i] = itemRows[i]
    BY <1>9 DEF SharedInv, ListingSound
  <2> QED BY <2>1, ListingOfWritten
<1>17. /\ itemHistory' \subseteq VersionOf /\ told' \subseteq VersionOf /\ valuesMade' \in Nat
       /\ historyFaults' \in Nat /\ feedFaults' \in Nat
       /\ listing' \in [on : BOOLEAN, cursor : Cursor, ids : Seq(Nat), untouched : SUBSET Nat]
  BY DEF SharedInv, SharedTyped, sharedFaults
<1>18. itemHistory' \subseteq VersionOf' /\ told' \subseteq VersionOf'
  BY <1>9, <1>17
<1> QED BY <1>9, <1>11, <1>12, <1>14, <1>15, <1>16, <1>17, <1>18, CallStepKeeps

LEMMA TimesTyped ==
  ASSUME SharedTyped, NEW t \in Times
  PROVE  t \in Nat
  BY DEF SharedTyped, Times

LEMMA InsertKeeps ==
  ASSUME SharedInv, NEW c \in SharedCaller, NEW t \in Times,
         InsertSecret(c, t) \/ InsertItem(c, t) \/ InsertFieldItem(c, t)
  PROVE  SharedInv'
<1>1. t \in Nat
  BY TimesTyped DEF SharedInv
<1>2. /\ InShared(c, "insert") /\ valuesMade \in Nat
      /\ UNCHANGED <<itemHistory, itemFeed, told, listing, valuesMade, sharedFaults>>
  BY DEF InsertSecret, InsertItem, InsertFieldItem, InsertRow, SharedInv, SharedTyped
<1>3. ASSUME NEW kind \in {"secret", "item"}, sharedNow' = t,
             itemRows' = Append(itemRows, MadeRow(c, kind, t)),
             sharedCall' = [sharedCall EXCEPT ![c].at = "made", ![c].id = Len(itemRows) + 1]
      PROVE  SharedInv'
  BY <1>1, <1>2, <1>3, InsertedKeeps
<1>4. ~AfterWrite(sharedCall[c]) /\ ToldMore
  BY <1>2 DEF AfterWrite, InShared, ToldMore
<1>5. ASSUME Finish(c), UNCHANGED <<itemRows, sharedNow>> PROVE SharedInv'
  BY <1>2, <1>4, <1>5, FinishKeeps DEF sharedTables
<1>6. ASSUME GotoShared(c, "reread"), UNCHANGED <<itemRows, sharedNow>> PROVE SharedInv'
  <2>1. PICK j \in CallState : j = sharedCall[c]
    BY CallTyped DEF SharedInv
  <2>2. j.at = "insert" /\ j.names # <<>> /\ j.row = NoItem
    BY <1>2, <2>1 DEF SharedInv, CallSound, InShared
  <2>3. PICK k \in CallState : /\ k = Moved(j, "reread") /\ k.at = "reread"
                               /\ k.names = j.names /\ k.row = j.row
    BY MovedFields
  <2>4. CallSound(k)
    BY <2>2, <2>3 DEF CallSound, BeforeWrite, AfterWrite
  <2>5. sharedCall' = [sharedCall EXCEPT ![c] = k]
    BY <1>6, <2>1, <2>3, GotoMoves DEF SharedInv
  <2> QED BY <1>2, <1>4, <1>6, <2>4, <2>5, QuietStepKeeps DEF sharedTables
<1> QED BY <1>3, <1>5, <1>6 DEF InsertSecret, InsertItem, InsertFieldItem, InsertRow

\* What a handler writes over the row it read.
LEMMA WrittenRow ==
  ASSUME SharedInv, NEW c \in SharedCaller, InShared(c, "write"), NEW t \in Nat,
         NEW row, row = ReplacedRow(c, t) \/ row = TombstoneOf(c, t)
  PROVE  /\ row \in ItemRow /\ row.updated_at = t /\ row.payload = sharedCall[c].payload
         /\ row.version = sharedCall[c].row.version + 1
         /\ row.row_version = sharedCall[c].row.row_version + 1
<1>1. PICK j \in CallState : j = sharedCall[c]
  BY CallTyped DEF SharedInv
<1>2. j.at = "write" /\ CallSound(j)
  BY <1>1 DEF InShared, SharedInv
<1>3. PICK r \in ItemRow : r = j.row
  BY <1>2 DEF CallSound, BeforeWrite
<1>4. PICK v \in Nat : v = r.version + 1
  BY RowFields
<1>5. PICK w \in Nat : w = r.row_version + 1
  BY RowFields
<1>6. PICK p \in SecretPayload : p = j.payload
  BY CallFields
<1>7. PathOf(c) \in StoredPath
  BY <1>1, <1>2, PathTyped DEF CallSound, SharedInv
<1>8. PICK path \in StoredPath : path = IF j.op = "move" THEN PathOf(c) ELSE r.path
  BY <1>7 DEF ItemRow
<1>9. PICK new : new = [r EXCEPT !.payload = p, !.version = v, !.row_version = w,
                                 !.updated_at = t, !.path = path]
  OBVIOUS
<1>10. /\ new \in ItemRow /\ new.updated_at = t /\ new.payload = p /\ new.version = v
       /\ new.row_version = w
  BY <1>9 DEF ItemRow
<1>11. ReplacedRow(c, t) = new
  BY <1>1, <1>3, <1>4, <1>5, <1>6, <1>8, <1>9 DEF ReplacedRow, ItemRow
<1>12. PICK gone : gone = [new EXCEPT !.active = FALSE]
  OBVIOUS
<1>13. /\ gone \in ItemRow /\ gone.updated_at = t /\ gone.payload = p /\ gone.version = v
       /\ gone.row_version = w
  BY <1>10, <1>12 DEF ItemRow
<1>14. TombstoneOf(c, t) = gone
  BY <1>11, <1>12 DEF TombstoneOf
<1> QED BY <1>1, <1>3, <1>4, <1>5, <1>6, <1>10, <1>11, <1>13, <1>14

\* The row is the one the handler read, and its payload is in the history.
LEMMA UpdateRowKeeps ==
  ASSUME SharedInv, NEW c \in SharedCaller, NEW row \in ItemRow, NEW at,
         row.payload = sharedCall[c].payload, row.version = sharedCall[c].row.version + 1,
         row.row_version = sharedCall[c].row.row_version + 1,
         at = "announce" \/ (at = "prune" /\ sharedCall[c].op = "field"), UpdateRow(c, row, at)
  PROVE  SharedInv'
<1>1. PICK j \in CallState : j = sharedCall[c]
  BY CallTyped DEF SharedInv
<1>2. j.at = "write" /\ CallSound(j) /\ BeforeWrite(j) /\ ~AfterWrite(j) /\ j.names # <<>>
  BY <1>1 DEF UpdateRow, InShared, SharedInv, BeforeWrite, AfterWrite, CallSound
<1>3. PICK i \in DOMAIN itemRows : i = j.id
  BY <1>2 DEF CallSound
<1>4. /\ UNCHANGED <<itemHistory, itemFeed, told, valuesMade, sharedFaults>> /\ valuesMade \in Nat
      /\ ToldMore
  BY DEF UpdateRow, ToldMore, SharedInv, SharedTyped
<1>5. CASE Finish(c) /\ UNCHANGED <<itemRows, sharedNow, listing>>
  BY <1>1, <1>2, <1>4, <1>5, FinishKeeps DEF sharedTables
<1>6. CASE /\ RowUnchanged(c) /\ itemRows' = [itemRows EXCEPT ![i] = row]
           /\ sharedNow' = row.updated_at
           /\ listing' = [listing EXCEPT !.untouched = @ \ {i}] /\ GotoShared(c, at)
  <2>1. /\ itemRows[i].version \in Nat /\ itemRows[i].row_version \in Nat
        /\ row.version \in Nat /\ row.updated_at \in Nat
    BY RowTyped, RowFields DEF SharedInv
  <2>2. HasRow(j)
    BY <1>1, <1>3, <1>6 DEF RowUnchanged, HasRow
  <2>3. j.row = itemRows[i]
    <3>1. j.row.row_version = itemRows[i].row_version
      BY <1>3, <2>2 DEF HasRow
    <3>2. j.row = itemRows[i] \/ j.row.row_version < itemRows[i].row_version
      BY <1>2, <1>3 DEF CallSound
    <3> QED BY <2>1, <3>1, <3>2
  <2>4. /\ row.version = itemRows[i].version + 1 /\ row.row_version = itemRows[i].row_version + 1
        /\ row.payload = j.payload
    BY <1>1, <2>3
  <2>5. historyFaults = 0 => Version(i, itemRows[i].version, itemRows[i].payload) \in itemHistory
    BY <1>2, <1>3, <2>2, <2>3 DEF CallSound
  <2>6. /\ TablesAdvance /\ TablesSound' /\ VersionOf' = VersionOf
        /\ DOMAIN itemRows' = DOMAIN itemRows /\ itemRows'[i] = row
        /\ \A m \in DOMAIN itemRows \ {i} : itemRows'[m] = itemRows[m]
    BY <1>4, <1>6, <2>4, <2>5, RowReplaced DEF SharedInv, sharedFaults
  <2>7. at \in {"prune", "write", "reread", "announce"}
    OBVIOUS
  <2>8. PICK k \in CallState : /\ k = Moved(j, at) /\ k.at = at /\ k.op = j.op /\ k.id = j.id
                               /\ k.names = j.names /\ k.row = j.row /\ k.payload = j.payload
    BY <2>7, MovedFields
  <2>9. sharedCall' = [sharedCall EXCEPT ![c] = k]
    BY <1>1, <1>6, <2>8, GotoMoves DEF SharedInv
  <2>10. AfterWrite(k) /\ ~BeforeWrite(k) /\ k.at \in {"announce", "prune"}
    BY <1>1, <2>8 DEF AfterWrite, BeforeWrite
  <2>11. k.row.version + 1 = row.version /\ k.id = i /\ k.payload = row.payload
    BY <1>3, <2>3, <2>4, <2>8
  <2>12. CallSound(k)'
    <3>1. PICK r : r = Version(i, row.version, row.payload)
      OBVIOUS
    <3>2. r.item = i /\ r.version = row.version /\ r.payload = row.payload
      BY <3>1, VersionFields
    <3>3. Kept(r)'
      BY <2>6, <3>2 DEF Kept
    <3> QED BY <1>2, <2>1, <2>6, <2>8, <2>10, <2>11, <3>1, <3>3 DEF CallSound
  <2>13. FeedFollows'
    <3>1. Announces(k, i)'
      BY <2>6, <2>10, <2>11 DEF Announces
    <3> QED BY <1>1, <1>2, <1>4, <2>6, <2>9, <3>1, FeedOfWritten DEF sharedFaults
  <2>14. /\ listing' \in [on : BOOLEAN, cursor : Cursor, ids : Seq(Nat), untouched : SUBSET Nat]
         /\ UNCHANGED <<listing.on, listing.cursor, listing.ids>>
         /\ listing'.untouched = listing.untouched \ {i}
    BY <1>6 DEF SharedInv, SharedTyped
  <2>15. ListingSound'
    <3>1. \A m \in listing'.untouched : m \in DOMAIN itemRows' /\ itemRows'[m] = itemRows[m]
      BY <2>6, <2>14 DEF SharedInv, ListingSound
    <3> QED BY <2>14, <3>1, ListingOfWritten
  <2>16. /\ itemHistory' \subseteq VersionOf /\ told' \subseteq VersionOf
         /\ historyFaults' \in Nat /\ feedFaults' \in Nat
    BY <1>4 DEF SharedInv, SharedTyped, sharedFaults
  <2> QED BY <1>4, <1>6, <2>1, <2>6, <2>9, <2>12, <2>13, <2>14, <2>15, <2>16, CallStepKeeps
<1> QED BY <1>1, <1>3, <1>5, <1>6 DEF UpdateRow

LEMMA WriteKeeps ==
  ASSUME SharedInv, NEW c \in SharedCaller, NEW t \in Times,
         WriteRow(c, t) \/ WriteTombstone(c, t)
  PROVE  SharedInv'
<1>1. t \in Nat /\ InShared(c, "write")
  BY TimesTyped DEF SharedInv, WriteRow, WriteTombstone, UpdateRow
<1>2. PICK row, at :
        /\ row = ReplacedRow(c, t) \/ row = TombstoneOf(c, t)
        /\ at = "announce" \/ (at = "prune" /\ sharedCall[c].op = "field")
        /\ UpdateRow(c, row, at)
  <2>1. CASE UpdateRow(c, ReplacedRow(c, t), "announce")
    BY <2>1
  <2>2. CASE UpdateRow(c, ReplacedRow(c, t), "prune") /\ sharedCall[c].op = "field"
    BY <2>2
  <2>3. CASE UpdateRow(c, TombstoneOf(c, t), "announce")
    BY <2>3
  <2> QED BY <2>1, <2>2, <2>3 DEF WriteRow, WriteTombstone
<1>3. /\ row \in ItemRow /\ row.payload = sharedCall[c].payload
      /\ row.version = sharedCall[c].row.version + 1
      /\ row.row_version = sharedCall[c].row.row_version + 1
  BY <1>1, <1>2, WrittenRow
<1> QED BY <1>2, <1>3, UpdateRowKeeps

-----------------------------------------------------------------------------
(* The end of a handler.                                                   *)

\* A handler lets go of its row: it has announced it, or a fault is counted.
LEMMA HandlerEnds ==
  ASSUME SharedInv, NEW c \in SharedCaller, NEW k \in CallState, Rested(k),
         sharedCall' = [sharedCall EXCEPT ![c] = k],
         UNCHANGED <<itemRows, itemHistory, sharedNow, listing, valuesMade, historyFaults>>,
         itemFeed \subseteq itemFeed', feedFaults' \in Nat, feedFaults' = 0 => feedFaults = 0,
         feedFaults' = 0 =>
           \A i \in DOMAIN itemRows : Announces(sharedCall[c], i) =>
             [item |-> i, version |-> itemRows[i].version] \in itemFeed',
         told \subseteq told', told' \subseteq VersionOf,
         \A r \in told' \ told : historyFaults = 0 => Kept(r)
  PROVE  SharedInv'
<1>1. CallSound(k)'
  BY RestedSound
<1>2. FeedFollows'
  BY FeedStays
<1>3. TablesAdvance /\ TablesSound'
  BY SameTablesAdvance, SameTablesSound DEF SharedInv
<1>4. /\ ListingSound'
      /\ listing' \in [on : BOOLEAN, cursor : Cursor, ids : Seq(Nat), untouched : SUBSET Nat]
  BY ListingStays
<1>5. VersionOf' = VersionOf
  BY DEF VersionOf
<1>6. /\ itemHistory' \subseteq VersionOf /\ sharedNow' \in Nat /\ valuesMade' \in Nat
      /\ historyFaults' \in Nat
  BY DEF SharedInv, SharedTyped
<1> QED BY <1>1, <1>2, <1>3, <1>4, <1>5, <1>6, CallStepKeeps

LEMMA AnnounceKeeps ==
  ASSUME SharedInv, NEW c \in SharedCaller, NEW ops, NEW fails, AnnounceShared(c, ops, fails),
         TellWritten(c) \/ UNCHANGED told
  PROVE  SharedInv'
<1>1. PICK j \in CallState : j = sharedCall[c]
  BY CallTyped DEF SharedInv
<1>2. j.at = "announce" /\ CallSound(j) /\ AfterWrite(j)
  BY <1>1 DEF AnnounceShared, InShared, SharedInv, AfterWrite
<1>3. PICK v \in Nat : v = j.row.version + 1
  BY CallFields
<1>4. j.id \in DOMAIN itemRows /\ j.payload \in SecretPayload
  BY <1>2, CallFields DEF CallSound
<1>5. PICK r \in VersionOf : r = Version(j.id, v, j.payload)
  BY <1>4 DEF VersionOf, Version
<1>6. historyFaults = 0 => Kept(r)
  BY <1>2, <1>3, <1>5 DEF CallSound
<1>7. told' = told \/ told' = told \cup {r}
  BY <1>1, <1>3, <1>5 DEF TellWritten, Tell, WrittenVersion, Version
<1>8. /\ told \subseteq told' /\ told' \subseteq VersionOf
      /\ \A s \in told' \ told : historyFaults = 0 => Kept(s)
  BY <1>6, <1>7 DEF SharedInv, SharedTyped
<1>9. PICK k \in CallState : sharedCall' = [sharedCall EXCEPT ![c] = k] /\ Rested(k)
  BY FinishRests DEF SharedInv, AnnounceShared
<1>10. UNCHANGED <<itemRows, itemHistory, sharedNow, listing, valuesMade, historyFaults>>
  BY DEF AnnounceShared
<1>11. /\ itemFeed \subseteq itemFeed' /\ feedFaults' \in Nat
       /\ feedFaults' = 0 => feedFaults = 0 /\ ~fails
  BY DEF AnnounceShared, SharedInv, SharedTyped
<1>12. ASSUME feedFaults' = 0, NEW i \in DOMAIN itemRows, Announces(sharedCall[c], i)
       PROVE  [item |-> i, version |-> itemRows[i].version] \in itemFeed'
  <2>1. i = j.id /\ v = itemRows[i].version
    BY <1>1, <1>3, <1>12 DEF Announces
  <2>2. [item |-> j.id, version |-> v] \in itemFeed'
    BY <1>1, <1>3, <1>11, <1>12 DEF AnnounceShared, AnnouncedVersion, WrittenVersion
  <2> QED BY <2>1, <2>2
<1> QED BY <1>8, <1>9, <1>10, <1>11, <1>12, HandlerEnds

LEMMA AnnouncesKeep ==
  ASSUME SharedInv, NEW c \in SharedCaller, NEW fails \in BOOLEAN,
         \/ AnnounceEnsured(c, fails) \/ AnnounceSet(c, fails) \/ AnnounceRotated(c, fails)
         \/ AnnounceCreated(c, fails) \/ AnnounceUpdated(c, fails)
         \/ AnnounceDeleted(c, fails) \/ AnnounceField(c, fails)
  PROVE  SharedInv'
<1>1. TellWritten(c) \/ UNCHANGED told
  BY DEF AnnounceEnsured, AnnounceSet, AnnounceRotated, AnnounceCreated, AnnounceUpdated,
         AnnounceDeleted, AnnounceField
<1>2. ASSUME NEW ops, AnnounceShared(c, ops, fails) PROVE SharedInv'
  BY <1>1, <1>2, AnnounceKeeps
<1> QED BY <1>2 DEF AnnounceEnsured, AnnounceSet, AnnounceRotated, AnnounceCreated,
                    AnnounceUpdated, AnnounceDeleted, AnnounceField

LEMMA DropSharedKeeps ==
  ASSUME SharedInv, NEW c \in SharedCaller, DropShared(c)
  PROVE  SharedInv'
<1>1. /\ feedFaults' \in Nat /\ feedFaults' # 0 /\ told' = told /\ told \subseteq VersionOf
      /\ UNCHANGED <<itemRows, itemHistory, sharedNow, listing, valuesMade, historyFaults>>
      /\ itemFeed' = itemFeed /\ sharedCall' = [sharedCall EXCEPT ![c] = NoShared]
  BY DEF DropShared, SharedInv, SharedTyped, sharedTables
<1>2. NoShared \in CallState /\ Rested(NoShared)
  BY NothingTyped DEF Rested
<1> QED BY <1>1, <1>2, HandlerEnds

-----------------------------------------------------------------------------
(* Pages.                                                                  *)

\* The rows that a page may come from, and the ones listed before a row.
Rows(rest) == rest \in SUBSET (DOMAIN itemRows)
Earlier(rest, i) == {j \in rest : Before(j, i)}

\* The order of the listing is a strict order of all rows.
LEMMA BeforeOrder ==
  ASSUME SharedTyped, NEW a \in DOMAIN itemRows, NEW b \in DOMAIN itemRows,
         NEW d \in DOMAIN itemRows
  PROVE  /\ a # b => Before(a, b) \/ Before(b, a)
         /\ ~(Before(a, b) /\ Before(b, a)) /\ ~Before(a, a)
         /\ Before(a, b) /\ Before(b, d) => Before(a, d)
<1>1. /\ itemRows[a].updated_at \in Nat /\ itemRows[b].updated_at \in Nat
      /\ itemRows[d].updated_at \in Nat /\ a \in Nat /\ b \in Nat /\ d \in Nat
  BY RowTyped
<1> QED BY <1>1 DEF Before

LEMMA RowsFinite ==
  ASSUME SharedTyped, NEW rest, Rows(rest)
  PROVE  IsFiniteSet(rest) /\ Cardinality(rest) \in Nat
<1>1. PICK m \in Nat : DOMAIN itemRows = 1 .. m
  BY DEF SharedTyped
<1>2. IsFiniteSet(1 .. m)
  BY FS_Interval
<1>3. IsFiniteSet(rest)
  BY <1>1, <1>2, FS_Subset DEF Rows
<1> QED BY <1>3, FS_CardinalityType

LEMMA RankBounded ==
  ASSUME SharedTyped, NEW rest, Rows(rest), NEW i \in rest
  PROVE  /\ IsFiniteSet(Earlier(rest, i)) /\ Cardinality(Earlier(rest, i)) \in Nat
         /\ Cardinality(Earlier(rest, i)) < Cardinality(rest)
<1>1. IsFiniteSet(rest) /\ Cardinality(rest) \in Nat
  BY RowsFinite
<1>2. Earlier(rest, i) \in SUBSET rest
  BY DEF Earlier
<1>3. i \notin Earlier(rest, i)
  BY BeforeOrder DEF Earlier, Rows
<1>4. /\ IsFiniteSet(Earlier(rest, i)) /\ Cardinality(Earlier(rest, i)) <= Cardinality(rest)
      /\ Cardinality(rest) # Cardinality(Earlier(rest, i))
  BY <1>1, <1>2, <1>3, FS_Subset
<1>5. Cardinality(Earlier(rest, i)) \in Nat
  BY <1>4, FS_CardinalityType
<1> QED BY <1>1, <1>4, <1>5

\* A row that is before another one has a smaller rank.
LEMMA RankGrows ==
  ASSUME SharedTyped, NEW rest, Rows(rest), NEW a \in rest, NEW b \in rest, Before(a, b)
  PROVE  Cardinality(Earlier(rest, a)) < Cardinality(Earlier(rest, b))
<1>1. /\ IsFiniteSet(Earlier(rest, b)) /\ Cardinality(Earlier(rest, b)) \in Nat
      /\ Cardinality(Earlier(rest, a)) \in Nat
  BY RankBounded
<1>2. Earlier(rest, a) \in SUBSET Earlier(rest, b)
  <2> SUFFICES ASSUME NEW j \in rest, Before(j, a) PROVE Before(j, b)
    BY DEF Earlier
  <2> QED BY BeforeOrder DEF Rows
<1>3. a \in Earlier(rest, b) /\ a \notin Earlier(rest, a)
  BY BeforeOrder DEF Earlier, Rows
<1>4. /\ Cardinality(Earlier(rest, a)) <= Cardinality(Earlier(rest, b))
      /\ Cardinality(Earlier(rest, b)) # Cardinality(Earlier(rest, a))
  BY <1>1, <1>2, <1>3, FS_Subset
<1> QED BY <1>1, <1>4

\* And the other way around, so that no two rows have the same rank.
LEMMA RankOrders ==
  ASSUME SharedTyped, NEW rest, Rows(rest), NEW a \in rest, NEW b \in rest
  PROVE  /\ Cardinality(Earlier(rest, a)) < Cardinality(Earlier(rest, b)) => Before(a, b)
         /\ Cardinality(Earlier(rest, a)) = Cardinality(Earlier(rest, b)) => a = b
<1>1. /\ Cardinality(Earlier(rest, a)) \in Nat /\ Cardinality(Earlier(rest, b)) \in Nat
  BY RankBounded
<1>2. a # b => Before(a, b) \/ Before(b, a)
  BY BeforeOrder DEF Rows
<1>3. Before(a, b) => Cardinality(Earlier(rest, a)) < Cardinality(Earlier(rest, b))
  BY RankGrows
<1>4. Before(b, a) => Cardinality(Earlier(rest, b)) < Cardinality(Earlier(rest, a))
  BY RankGrows
<1> QED BY <1>1, <1>2, <1>3, <1>4

\* Every rank is taken.
LEMMA RankTaken ==
  ASSUME SharedTyped, NEW rest, Rows(rest), NEW r \in Nat, r < Cardinality(rest)
  PROVE  \E i \in rest : Cardinality(Earlier(rest, i)) = r
<1>1. PICK m \in Nat : m = Cardinality(rest)
  BY RowsFinite
<1>2. PICK ranks : ranks = 0 .. (m - 1)
  OBVIOUS
<1>3. IsFiniteSet(ranks) /\ Cardinality(ranks) = m
  <2>1. PICK a \in Int, b \in Int : a = 0 /\ b = m - 1
    OBVIOUS
  <2>2. IsFiniteSet(a .. b) /\ Cardinality(a .. b) = IF a > b THEN 0 ELSE b - a + 1
    BY FS_Interval
  <2>3. (IF a > b THEN 0 ELSE b - a + 1) = m
    BY <2>1
  <2> QED BY <1>2, <2>1, <2>2, <2>3, Zenon
<1>4. PICK f : f = [i \in rest |-> Cardinality(Earlier(rest, i))]
  OBVIOUS
<1>5. f \in [rest -> ranks]
  <2>1. ASSUME NEW i \in rest PROVE Cardinality(Earlier(rest, i)) \in ranks
    BY <1>1, <1>2, RankBounded
  <2> QED BY <1>4, <2>1, Zenon
<1>6. \A a, b \in rest : f[a] = f[b] => a = b
  BY <1>4, RankOrders
<1>7. f \in Injection(rest, ranks)
  BY <1>5, <1>6, Zenon DEF Injection, IsInjective
<1>8. f \in Surjection(rest, ranks)
  BY <1>1, <1>3, <1>7, FS_Injection
<1>9. r \in ranks
  BY <1>1, <1>2
<1>10. PICK i \in rest : f[i] = r
  BY <1>8, <1>9, Zenon DEF Surjection
<1> QED BY <1>4, <1>10

\* The page of the first n rows.
IsPage(rest, n, s) ==
  /\ s \in [1 .. n -> rest]
  /\ \A k \in 1 .. n : Cardinality({i \in rest : Before(i, s[k])}) = k - 1

LEMMA PageExists ==
  ASSUME SharedTyped, NEW rest, Rows(rest), NEW n \in Nat, n <= Cardinality(rest)
  PROVE  \E s : IsPage(rest, n, s)
<1>1. PICK s : s = [k \in 1 .. n |-> CHOOSE i \in rest : Cardinality(Earlier(rest, i)) = k - 1]
  OBVIOUS
<1>2. ASSUME NEW k \in 1 .. n
      PROVE  s[k] \in rest /\ Cardinality(Earlier(rest, s[k])) = k - 1
  <2>1. Cardinality(rest) \in Nat
    BY RowsFinite
  <2>2. PICK r \in Nat : r = k - 1 /\ r < Cardinality(rest)
    BY <2>1
  <2>3. \E i \in rest : Cardinality(Earlier(rest, i)) = r
    BY <2>2, RankTaken
  <2>4. s[k] = CHOOSE i \in rest : Cardinality(Earlier(rest, i)) = r
    BY <1>1, <2>2
  <2> QED BY <2>2, <2>3, <2>4, Zenon
<1>3. s \in [1 .. n -> rest]
  BY <1>1, <1>2
<1>4. \A k \in 1 .. n : Cardinality({i \in rest : Before(i, s[k])}) = k - 1
  BY <1>2 DEF Earlier
<1> QED BY <1>3, <1>4 DEF IsPage

\* On the page is what has a rank below n, at its rank.
LEMMA PagePlaces ==
  ASSUME SharedTyped, NEW rest, Rows(rest), NEW n \in Nat, NEW s, IsPage(rest, n, s),
         NEW i \in rest, NEW k \in 1 .. n
  PROVE  /\ s[k] \in rest /\ Cardinality(Earlier(rest, s[k])) = k - 1
         /\ s[k] = i <=> Cardinality(Earlier(rest, i)) = k - 1
<1>1. s[k] \in rest /\ Cardinality(Earlier(rest, s[k])) = k - 1
  BY DEF IsPage, Earlier
<1> QED BY <1>1, RankOrders

\* cursor_allows is the order of the listing.
LEMMA CursorIsOrder ==
  ASSUME SharedTyped, NEW p \in DOMAIN itemRows, NEW i \in DOMAIN itemRows
  PROVE  CursorAllows(<<itemRows[p].updated_at, p>>, i) <=> Before(p, i)
<1>1. PICK u \in Nat : u = itemRows[p].updated_at
  BY RowTyped
<1>2. PICK cur : cur = <<u, p>>
  OBVIOUS
<1>3. cur[1] = u /\ cur[2] = p /\ Len(cur) = 2
  BY <1>2
<1>4. cur # <<>>
  <2>1. Len(<<>>) = 0
    OBVIOUS
  <2> QED BY <1>3, <2>1
<1>5. p \in Nat /\ i \in Nat /\ itemRows[i].updated_at \in Nat
  BY RowTyped
<1>6. CursorAllows(cur, i) <=> Before(p, i)
  BY <1>1, <1>3, <1>4, <1>5 DEF CursorAllows, Before
<1> QED BY <1>1, <1>2, <1>6

LEMMA CursorGoesOn ==
  ASSUME SharedTyped, NEW cur \in Cursor, NEW p \in DOMAIN itemRows, NEW i \in DOMAIN itemRows,
         CursorAllows(cur, p), Before(p, i)
  PROVE  CursorAllows(cur, i)
<1>1. CASE cur = <<>>
  BY <1>1 DEF CursorAllows
<1>2. CASE cur # <<>>
  <2>1. cur[1] \in Nat /\ cur[2] \in Nat
    BY <1>2 DEF Cursor
  <2>2. /\ p \in Nat /\ i \in Nat /\ itemRows[i].updated_at \in Nat
        /\ itemRows[p].updated_at \in Nat
    BY RowTyped
  <2> QED BY <1>2, <2>1, <2>2 DEF CursorAllows, Before
<1> QED BY <1>1, <1>2

\* A listing and a page after it.
OnceIn(s, i) == \E k \in DOMAIN s : s[k] = i /\ \A m \in DOMAIN s : s[m] = i => m = k
NotIn(s, i) == \A k \in DOMAIN s : s[k] # i

LEMMA ListingGrows ==
  ASSUME NEW s \in Seq(Nat), NEW t \in Seq(Nat), NEW i
  PROVE  /\ s \o t \in Seq(Nat)
         /\ NotIn(s, i) /\ NotIn(t, i) => NotIn(s \o t, i)
         /\ OnceIn(s, i) /\ NotIn(t, i) => OnceIn(s \o t, i)
         /\ NotIn(s, i) /\ OnceIn(t, i) => OnceIn(s \o t, i)
<1>1. PICK a \in Nat, b \in Nat : a = Len(s) /\ b = Len(t)
  OBVIOUS
<1>2. DOMAIN s = 1 .. a /\ DOMAIN t = 1 .. b
  BY <1>1
<1>3. PICK u : u = s \o t
  OBVIOUS
<1>4. /\ DOMAIN u = 1 .. (a + b)
      /\ \A k \in 1 .. a : u[k] = s[k]
      /\ \A k \in (a + 1) .. (a + b) : u[k] = t[k - a]
  BY <1>1, <1>3
<1>5. ASSUME NotIn(s, i), NotIn(t, i) PROVE NotIn(u, i)
  <2> SUFFICES ASSUME NEW m \in DOMAIN u PROVE u[m] # i
    BY DEF NotIn
  <2>1. CASE m \in 1 .. a
    BY <1>2, <1>4, <1>5, <2>1 DEF NotIn
  <2>2. CASE m \notin 1 .. a
    <3>1. m \in (a + 1) .. (a + b)
      BY <1>4, <2>2
    <3>2. PICK x \in 1 .. b : x = m - a
      BY <3>1
    <3>3. u[m] = t[x]
      BY <1>4, <3>1, <3>2
    <3> QED BY <1>2, <1>5, <3>3 DEF NotIn
  <2> QED BY <2>1, <2>2
<1>6. ASSUME OnceIn(s, i), NotIn(t, i) PROVE OnceIn(u, i)
  <2>1. PICK k \in 1 .. a : s[k] = i /\ \A m \in 1 .. a : s[m] = i => m = k
    BY <1>2, <1>6 DEF OnceIn
  <2>2. k \in DOMAIN u /\ u[k] = i
    BY <1>4, <2>1
  <2>3. ASSUME NEW m \in DOMAIN u, u[m] = i PROVE m = k
    <3>1. CASE m \in 1 .. a
      BY <1>4, <2>1, <2>3, <3>1
    <3>2. CASE m \notin 1 .. a
      <4>1. m \in (a + 1) .. (a + b)
        BY <1>4, <3>2
      <4>2. PICK x \in 1 .. b : x = m - a
        BY <4>1
      <4>3. t[x] = i
        BY <1>4, <2>3, <4>1, <4>2
      <4> QED BY <1>2, <1>6, <4>3 DEF NotIn
    <3> QED BY <3>1, <3>2
  <2> QED BY <2>2, <2>3 DEF OnceIn
<1>7. ASSUME NotIn(s, i), OnceIn(t, i) PROVE OnceIn(u, i)
  <2>1. PICK k \in 1 .. b : t[k] = i /\ \A m \in 1 .. b : t[m] = i => m = k
    BY <1>2, <1>7 DEF OnceIn
  <2>2. PICK e \in (a + 1) .. (a + b) : e = a + k
    OBVIOUS
  <2>3. e \in DOMAIN u /\ u[e] = i
    <3>1. e - a = k
      BY <2>2
    <3> QED BY <1>4, <2>1, <3>1
  <2>4. ASSUME NEW m \in DOMAIN u, u[m] = i PROVE m = e
    <3>1. CASE m \in 1 .. a
      BY <1>2, <1>4, <1>7, <2>4, <3>1 DEF NotIn
    <3>2. CASE m \notin 1 .. a
      <4>1. m \in (a + 1) .. (a + b)
        BY <1>4, <3>2
      <4>2. PICK x \in 1 .. b : x = m - a /\ m = a + x
        BY <4>1
      <4>3. t[x] = i
        BY <1>4, <2>4, <4>1, <4>2
      <4>4. x = k
        BY <2>1, <4>3
      <4> QED BY <2>2, <4>2, <4>4
    <3> QED BY <3>1, <3>2
  <2> QED BY <2>3, <2>4 DEF OnceIn
<1>8. s \o t \in Seq(Nat)
  OBVIOUS
<1> QED BY <1>3, <1>5, <1>6, <1>7, <1>8

\* s is the page after the cursor cur, and new the cursor after it.
PageAfter(cur, rest, n, s, new) ==
  /\ \A j : j \in rest <=> j \in DOMAIN itemRows /\ itemRows[j].active /\ CursorAllows(cur, j)
  /\ n = IF Cardinality(rest) < PageLimit THEN Cardinality(rest) ELSE PageLimit
  /\ IsPage(rest, n, s)
  /\ new = IF n > 0 THEN <<itemRows[s[n]].updated_at, s[n]>> ELSE cur

\* The page takes the rows that come first; the new cursor lets the others
\* through, and none that were listed.
LEMMA PageSplits ==
  ASSUME SharedTyped, NEW cur \in Cursor, NEW rest, NEW n \in Nat, NEW s, NEW new,
         PageAfter(cur, rest, n, s, new), NEW i \in DOMAIN itemRows, itemRows[i].active
  PROVE  IF CursorAllows(cur, i)
         THEN \/ OnceIn(s, i) /\ ~CursorAllows(new, i)
              \/ NotIn(s, i) /\ CursorAllows(new, i) /\ Cardinality(rest) > PageLimit
         ELSE NotIn(s, i) /\ ~CursorAllows(new, i)
<1>1. /\ \A j : j \in rest <=> j \in DOMAIN itemRows /\ itemRows[j].active /\ CursorAllows(cur, j)
      /\ n = IF Cardinality(rest) < PageLimit THEN Cardinality(rest) ELSE PageLimit
      /\ IsPage(rest, n, s)
      /\ new = IF n > 0 THEN <<itemRows[s[n]].updated_at, s[n]>> ELSE cur
  BY DEF PageAfter
<1> USE <1>1
<1>0. Rows(rest)
  BY DEF Rows
<1>2. s \in [1 .. n -> rest] /\ DOMAIN s = 1 .. n
  BY DEF IsPage
<1>3. Cardinality(rest) \in Nat /\ PageLimit \in Nat /\ PageLimit > 0
  BY <1>0, RowsFinite, SharedVaultAssumption
<1>4. ASSUME n > 0
      PROVE  /\ n \in 1 .. n /\ s[n] \in rest /\ s[n] \in DOMAIN itemRows
             /\ CursorAllows(cur, s[n]) /\ (CursorAllows(new, i) <=> Before(s[n], i))
  <2>1. n \in 1 .. n
    BY <1>4
  <2>2. s[n] \in rest
    BY <1>2, <2>1
  <2>3. s[n] \in DOMAIN itemRows /\ CursorAllows(cur, s[n])
    BY <2>2
  <2>4. new = <<itemRows[s[n]].updated_at, s[n]>>
    BY <1>4
  <2> QED BY <2>1, <2>2, <2>3, <2>4, CursorIsOrder
<1>5. CASE CursorAllows(cur, i)
  <2>1. i \in rest
    BY <1>5
  <2>2. PICK r \in Nat : r = Cardinality(Earlier(rest, i)) /\ r < Cardinality(rest)
    BY <1>0, <2>1, RankBounded
  <2>3. \A k \in 1 .. n : /\ s[k] = i <=> r = k - 1
                          /\ Cardinality(Earlier(rest, s[k])) = k - 1
    BY <1>0, <2>1, <2>2, PagePlaces
  <2>4. CASE r < n
    <3>1. PICK k \in 1 .. n : k = r + 1
      <4>1. PICK m \in Nat : m = n
        OBVIOUS
      <4>2. r + 1 \in 1 .. m
        BY <2>4, <4>1
      <4> QED BY <4>1, <4>2, Zenon
    <3>2. s[k] = i /\ \A m \in 1 .. n : s[m] = i => m = k
      <4>1. r = k - 1
        BY <3>1
      <4>2. ASSUME NEW m \in 1 .. n, s[m] = i PROVE m = k
        <5>1. r = m - 1
          BY <2>3, <4>2
        <5> QED BY <4>1, <5>1
      <4> QED BY <2>3, <4>1, <4>2
    <3>3. OnceIn(s, i)
      BY <1>2, <3>2 DEF OnceIn
    <3>4. ~Before(s[n], i)
      <4> SUFFICES ASSUME Before(s[n], i) PROVE FALSE
        OBVIOUS
      <4>1. n > 0 /\ s[n] \in rest /\ Cardinality(Earlier(rest, s[n])) = n - 1
        BY <1>4, <2>3, <2>4
      <4>2. n - 1 < r
        BY <1>0, <2>1, <2>2, <4>1, RankGrows
      <4> QED BY <2>4, <4>2
    <3> QED BY <1>4, <1>5, <2>4, <3>3, <3>4
  <2>5. CASE ~(r < n)
    <3>1. n = PageLimit /\ n > 0 /\ Cardinality(rest) > PageLimit
      BY <1>3, <2>2, <2>5
    <3>2. NotIn(s, i)
      BY <1>2, <2>3, <2>5 DEF NotIn
    <3>3. s[n] \in rest /\ Cardinality(Earlier(rest, s[n])) = n - 1
      BY <1>4, <2>3, <3>1
    <3>4. n - 1 < r
      BY <2>5
    <3>5. Before(s[n], i)
      BY <1>0, <2>1, <2>2, <3>3, <3>4, RankOrders
    <3> QED BY <1>4, <1>5, <3>1, <3>2, <3>5
  <2> QED BY <2>4, <2>5
<1>6. CASE ~CursorAllows(cur, i)
  <2>1. NotIn(s, i)
    BY <1>2, <1>6 DEF NotIn
  <2>2. CASE n > 0
    <3>1. ~Before(s[n], i)
      BY <1>4, <1>6, <2>2, CursorGoesOn
    <3> QED BY <1>4, <1>6, <2>1, <2>2, <3>1
  <2>3. CASE ~(n > 0)
    BY <1>6, <2>1, <2>3
  <2> QED BY <2>2, <2>3
<1> QED BY <1>5, <1>6

\* No handler moves: a caller may be told of a version that is kept, and the
\* listing may go on.
LEMMA ReadStepKeeps ==
  ASSUME SharedInv, UNCHANGED <<sharedTables, sharedCall, valuesMade, sharedFaults>>, ToldMore,
         ListingSound',
         listing' \in [on : BOOLEAN, cursor : Cursor, ids : Seq(Nat), untouched : SUBSET Nat]
  PROVE  SharedInv'
<1>1. SharedTyped /\ TablesSound
  BY DEF SharedInv
<1>2. UNCHANGED <<itemRows, itemHistory, itemFeed, sharedNow, historyFaults, feedFaults>>
  BY DEF sharedTables, sharedFaults
<1>3. told \subseteq told' /\ told' \subseteq VersionOf /\ \A r \in told' \ told : Kept(r)
  BY <1>1 DEF ToldMore, SharedTyped
<1>4. TablesAdvance /\ TablesSound'
  BY <1>1, <1>2, <1>3, SameTablesAdvance, SameTablesSound
<1>5. VersionOf' = VersionOf
  BY <1>2 DEF VersionOf
<1>6. SharedTyped'
  BY <1>1, <1>2, <1>3, <1>5 DEF SharedTyped
<1>7. ASSUME NEW c \in SharedCaller PROVE CallSound(sharedCall[c])'
  <2>1. PICK k \in CallState : k = sharedCall[c]
    BY <1>1, CallTyped
  <2>2. CallSound(k)
    BY <2>1 DEF SharedInv
  <2>3. CallSound(k)'
    BY <1>1, <1>4, <2>2, CallsStay
  <2>4. sharedCall'[c] = k
    BY <2>1
  <2> QED BY <2>3, <2>4 DEF CallSound, BeforeWrite, AfterWrite, HasRow
<1>8. FeedFollows'
  <2>1. \A c, i : Announces(sharedCall[c], i)' <=> Announces(sharedCall[c], i)
    BY <1>2 DEF Announces, AfterWrite
  <2> QED BY <1>2, <2>1 DEF SharedInv, FeedFollows
<1> QED BY <1>4, <1>6, <1>7, <1>8 DEF SharedInv

LEMMA GetSharedKeeps ==
  ASSUME SharedInv,
         \/ \E i \in DOMAIN itemRows : GetSharedItem(i)
         \/ \E h \in itemHistory : GetSharedVersion(h)
  PROVE  SharedInv'
<1>1. UNCHANGED <<sharedTables, sharedCall, valuesMade, sharedFaults, listing>>
  BY DEF GetSharedItem, GetSharedVersion, ReadShared
<1>2. ToldMore
  <2>1. ASSUME NEW i \in DOMAIN itemRows, GetSharedItem(i) PROVE ToldMore
    BY <2>1, TellsCurrent DEF SharedInv, GetSharedItem, ReadShared
  <2>2. ASSUME NEW h \in itemHistory, GetSharedVersion(h) PROVE ToldMore
    <3>1. h \in VersionOf /\ h = Version(h.item, h.version, h.payload)
      BY VersionTyped DEF SharedInv, SharedTyped
    <3>2. told' = told \cup {h}
      BY <2>2, <3>1 DEF GetSharedVersion, ReadShared, Tell, Version
    <3>3. Kept(h)
      BY DEF Kept
    <3> QED BY <3>1, <3>2, <3>3 DEF ToldMore
  <2> QED BY <2>1, <2>2
<1>3. /\ ListingSound'
      /\ listing' \in [on : BOOLEAN, cursor : Cursor, ids : Seq(Nat), untouched : SUBSET Nat]
  BY <1>1, ListingStays DEF sharedTables
<1> QED BY <1>1, <1>2, <1>3, ReadStepKeeps

LEMMA ListBeginKeeps ==
  ASSUME SharedInv, ListBegin
  PROVE  SharedInv'
<1>1. PICK active \in SUBSET Nat : active = {i \in DOMAIN itemRows : itemRows[i].active}
  BY RowTyped DEF SharedInv
<1>2. /\ UNCHANGED <<sharedTables, sharedCall, valuesMade, sharedFaults, told>> /\ ToldMore
      /\ itemRows' = itemRows
      /\ listing' = [on |-> TRUE, cursor |-> <<>>, ids |-> <<>>, untouched |-> active]
  BY <1>1 DEF ListBegin, sharedTables, ToldMore
<1>3. listing' \in [on : BOOLEAN, cursor : Cursor, ids : Seq(Nat), untouched : SUBSET Nat]
  BY <1>2 DEF Cursor
<1>4. /\ listing'.on /\ listing'.cursor = <<>> /\ listing'.ids = <<>>
      /\ listing'.untouched = active
  BY <1>2
<1>5. ListingSound'
  <2> SUFFICES ASSUME NEW i \in active
               PROVE  /\ i \in DOMAIN itemRows' /\ itemRows'[i].active
                      /\ CursorAllows(listing.cursor, i)' /\ NotListed(i)'
    BY <1>4 DEF ListingSound
  <2>1. i \in DOMAIN itemRows' /\ itemRows'[i].active
    BY <1>1, <1>2
  <2>2. CursorAllows(listing.cursor, i)'
    BY <1>4 DEF CursorAllows
  <2>3. NotListed(i)'
    BY <1>4 DEF NotListed
  <2> QED BY <2>1, <2>2, <2>3
<1> QED BY <1>2, <1>3, <1>5, ReadStepKeeps

LEMMA ListSharedPageKeeps ==
  ASSUME SharedInv, ListSharedPage
  PROVE  SharedInv'
<1> DEFINE rest == {i \in DOMAIN itemRows : itemRows[i].active /\ CursorAllows(listing.cursor, i)}
           n == IF Cardinality(rest) < PageLimit THEN Cardinality(rest) ELSE PageLimit
           page == CHOOSE s \in [1 .. n -> rest] :
                     \A k \in 1 .. n : Cardinality({i \in rest : Before(i, s[k])}) = k - 1
           new == IF n > 0 THEN <<itemRows[page[n]].updated_at, page[n]>> ELSE listing.cursor
           more == Cardinality(rest) > PageLimit
<1>1. SharedTyped /\ listing.on
  BY DEF SharedInv, ListSharedPage
<1>2. listing' = [listing EXCEPT !.on = more, !.cursor = new, !.ids = @ \o page]
  BY DEF ListSharedPage
<1>3. /\ Rows(rest) /\ Cardinality(rest) \in Nat /\ PageLimit \in Nat /\ n \in Nat
      /\ n <= Cardinality(rest)
  <2>1. Rows(rest)
    BY DEF Rows
  <2> HIDE DEF rest
  <2>2. Cardinality(rest) \in Nat /\ PageLimit \in Nat
    BY <1>1, <2>1, RowsFinite, SharedVaultAssumption
  <2> QED BY <2>1, <2>2
<1>4. IsPage(rest, n, page)
  <2> HIDE DEF rest, n
  <2>1. PICK s : IsPage(rest, n, s)
    BY <1>1, <1>3, PageExists
  <2> QED BY <2>1, Zenon DEF IsPage
<1>5. /\ n = IF Cardinality(rest) < PageLimit THEN Cardinality(rest) ELSE PageLimit
      /\ new = IF n > 0 THEN <<itemRows[page[n]].updated_at, page[n]>> ELSE listing.cursor
      /\ more <=> Cardinality(rest) > PageLimit
  OBVIOUS
<1>6. \A j : j \in rest <=> /\ j \in DOMAIN itemRows /\ itemRows[j].active
                            /\ CursorAllows(listing.cursor, j)
  OBVIOUS
<1>7. more \in BOOLEAN
  OBVIOUS
<1> HIDE DEF rest, n, page, new, more
<1>8. PICK cur \in Cursor, ids \in Seq(Nat), untouched \in SUBSET Nat :
        cur = listing.cursor /\ ids = listing.ids /\ untouched = listing.untouched
  BY <1>1 DEF SharedTyped
<1>9. page \in Seq(Nat)
  <2>1. \A i \in rest : i \in Nat
    BY <1>1, <1>6, RowTyped
  <2>2. page \in [1 .. n -> Nat]
    BY <1>4, <2>1 DEF IsPage
  <2> QED BY <1>3, <2>2
<1>10. new \in Cursor
  <2>1. CASE n > 0
    <3>1. n \in 1 .. n
      BY <1>3, <2>1
    <3>2. page[n] \in DOMAIN itemRows
      BY <1>4, <1>6, <3>1 DEF IsPage
    <3>3. itemRows[page[n]].updated_at \in Nat /\ page[n] \in Nat
      BY <1>1, <3>2, RowTyped
    <3> QED BY <1>5, <2>1, <3>3 DEF Cursor
  <2>2. CASE ~(n > 0)
    BY <1>5, <1>8, <2>2
  <2> QED BY <2>1, <2>2
<1>11. PICK all \in Seq(Nat) : all = ids \o page
  BY <1>9, ListingGrows
<1>12. /\ listing' \in [on : BOOLEAN, cursor : Cursor, ids : Seq(Nat), untouched : SUBSET Nat]
       /\ (listing'.on <=> more) /\ listing'.cursor = new /\ listing'.ids = all
       /\ listing'.untouched = untouched
  <2>1. PICK m \in BOOLEAN, w \in Cursor : m = more /\ (m <=> more) /\ w = new
    BY <1>7, <1>10, Zenon
  <2>2. listing' = [listing EXCEPT !.on = m, !.cursor = w, !.ids = all]
    BY <1>2, <1>8, <1>11, <2>1
  <2>3. /\ listing' \in [on : BOOLEAN, cursor : Cursor, ids : Seq(Nat), untouched : SUBSET Nat]
        /\ listing'.on = m /\ listing'.cursor = w /\ listing'.ids = all
        /\ listing'.untouched = untouched
    BY <1>1, <1>8, <2>2 DEF SharedTyped
  <2>4. listing'.on <=> more
    BY <2>1, <2>3
  <2> QED BY <2>1, <2>3, <2>4
<1>13. /\ UNCHANGED <<sharedTables, sharedCall, valuesMade, sharedFaults>> /\ ToldMore
       /\ itemRows' = itemRows
  BY DEF ListSharedPage, ToldMore, sharedTables
<1>14. ListingSound'
  <2> SUFFICES ASSUME NEW i \in untouched
               PROVE  /\ i \in DOMAIN itemRows' /\ itemRows'[i].active
                      /\ more => IF CursorAllows(listing.cursor, i)' THEN NotListed(i)'
                                 ELSE ListedOnce(i)'
                      /\ ~more => ListedOnce(i)'
    BY <1>12 DEF ListingSound
  <2>1. /\ i \in DOMAIN itemRows /\ itemRows[i].active
        /\ IF CursorAllows(cur, i) THEN NotListed(i) ELSE ListedOnce(i)
    BY <1>1, <1>8 DEF SharedInv, ListingSound
  <2>2. IF CursorAllows(cur, i) THEN NotIn(ids, i) ELSE OnceIn(ids, i)
    BY <1>8, <2>1 DEF NotListed, ListedOnce, NotIn, OnceIn
  <2>3. IF CursorAllows(cur, i)
        THEN \/ OnceIn(page, i) /\ ~CursorAllows(new, i)
             \/ NotIn(page, i) /\ CursorAllows(new, i) /\ Cardinality(rest) > PageLimit
        ELSE NotIn(page, i) /\ ~CursorAllows(new, i)
    <3>1. PageAfter(cur, rest, n, page, new)
      BY <1>4, <1>5, <1>6, <1>8 DEF PageAfter
    <3> QED BY <1>1, <1>3, <2>1, <3>1, PageSplits
  <2>4. \/ OnceIn(all, i) /\ ~CursorAllows(new, i)
        \/ NotIn(all, i) /\ CursorAllows(new, i) /\ more
    BY <1>5, <1>9, <1>11, <2>2, <2>3, ListingGrows
  <2>5. CursorAllows(listing.cursor, i)' <=> CursorAllows(new, i)
    BY <1>12, <1>13 DEF CursorAllows
  <2>6. (NotListed(i)' <=> NotIn(all, i)) /\ (ListedOnce(i)' <=> OnceIn(all, i))
    BY <1>12 DEF NotListed, ListedOnce, NotIn, OnceIn
  <2> QED BY <1>13, <2>1, <2>4, <2>5, <2>6
<1> QED BY <1>12, <1>13, <1>14, ReadStepKeeps

-----------------------------------------------------------------------------
(* The theorem.                                                            *)

LEMMA SharedInitially ==
  ASSUME SharedVaultInit
  PROVE  SharedInv
<1>1. PICK n \in SecretName, full \in BOOLEAN :
       itemRows = IF full
         THEN << [path |-> SecretPath(n), kind |-> "secret", version |-> 1, row_version |-> 1,
                  payload |-> [value |-> 1, policy |-> DefaultPolicy], active |-> TRUE,
                  updated_at |-> 1],
                 [path |-> PlainPath(n), kind |-> "item", version |-> 1, row_version |-> 1,
                  payload |-> [value |-> 1, policy |-> NotASecret], active |-> TRUE,
                  updated_at |-> 1] >>
         ELSE <<>>
  BY DEF SharedVaultInit
<1>2. itemRows \in Seq(ItemRow) /\ \A i \in DOMAIN itemRows : itemRows[i].version = 1
  <2>1. PICK p \in StoredPath, q \in StoredPath : p = SecretPath(n) /\ q = PlainPath(n)
    BY DEF StoredPath
  <2>2. PICK a, b \in SecretPayload : /\ a = [value |-> 1, policy |-> DefaultPolicy]
                                      /\ b = [value |-> 1, policy |-> NotASecret]
    BY SharedVaultAssumption DEF SecretPayload
  <2>3. PICK x : x = [path |-> p, kind |-> "secret", version |-> 1, row_version |-> 1,
                      payload |-> a, active |-> TRUE, updated_at |-> 1]
    OBVIOUS
  <2>4. PICK y : y = [path |-> q, kind |-> "item", version |-> 1, row_version |-> 1,
                      payload |-> b, active |-> TRUE, updated_at |-> 1]
    OBVIOUS
  <2>5. x \in ItemRow /\ x.version = 1
    BY <2>3 DEF ItemRow
  <2>6. y \in ItemRow /\ y.version = 1
    BY <2>4 DEF ItemRow
  <2>7. CASE full
    <3>1. itemRows = <<x, y>>
      BY <1>1, <2>1, <2>2, <2>3, <2>4, <2>7
    <3> QED BY <2>5, <2>6, <3>1
  <2>8. CASE ~full
    BY <1>1, <2>8
  <2> QED BY <2>7, <2>8
<1>3. \A i \in DOMAIN itemRows : itemRows[i].payload \in SecretPayload
  BY <1>2, RowFields
<1>4. itemHistory = {[item |-> i, version |-> 1, payload |-> itemRows[i].payload] :
                       i \in DOMAIN itemRows}
  BY DEF SharedVaultInit
<1>5. itemHistory \subseteq VersionOf
  BY <1>3, <1>4 DEF VersionOf
<1>6. SharedTyped
  <2>1. listing \in [on : BOOLEAN, cursor : Cursor, ids : Seq(Nat), untouched : SUBSET Nat]
    BY DEF SharedVaultInit, NoListing, Cursor
  <2>2. sharedCall \in [SharedCaller -> CallState]
    BY NothingTyped DEF SharedVaultInit
  <2> QED BY <1>2, <1>5, <2>1, <2>2 DEF SharedVaultInit, SharedTyped
<1>7. HistorySound
  BY <1>2, <1>4 DEF HistorySound
<1>8. TablesSound
  BY <1>2, <1>7 DEF TablesSound, PriorKept, ToldIsKept, SharedVaultInit
<1>9. FeedFollows
  BY <1>2 DEF FeedFollows, SharedVaultInit
<1>10. \A c \in SharedCaller : CallSound(sharedCall[c])
  BY RestedSound, NothingTyped DEF SharedVaultInit, Rested
<1>11. ListingSound
  BY DEF ListingSound, SharedVaultInit, NoListing
<1> QED BY <1>6, <1>8, <1>9, <1>10, <1>11 DEF SharedInv

LEMMA SharedStutters ==
  ASSUME SharedInv, UNCHANGED sharedVars
  PROVE  SharedInv'
<1>1. /\ UNCHANGED <<sharedTables, sharedCall, valuesMade, sharedFaults>> /\ ToldMore
      /\ UNCHANGED <<itemRows, listing>>
  BY DEF sharedVars, sharedTables, sharedFaults, ToldMore
<1> QED BY <1>1, ListingStays, ReadStepKeeps

LEMMA SharedInductive ==
  ASSUME SharedInv, [SharedVaultNext]_sharedVars
  PROVE  SharedInv'
<1>1. ASSUME NEW c \in SharedCaller, SharedBegin(c) PROVE SharedInv'
  BY <1>1, BeginSecretCallKeeps, BeginUpdateKeeps, BeginDeleteKeeps, BeginCreateKeeps,
     BeginFieldKeeps DEF SharedBegin
<1>2. ASSUME NEW c \in SharedCaller, SharedStep(c) PROVE SharedInv'
  <2>1. CASE LookupGet(c) \/ LookupEnsure(c) \/ LookupSet(c) \/ LookupRotate(c) \/ LookupField(c)
    BY <2>1, LookupGetKeeps, LookupEnsureKeeps, LookupSetKeeps, LookupRotateKeeps,
       LookupFieldKeeps
  <2>2. CASE RereadEnsure(c) \/ RereadSet(c)
    BY <2>2, RereadKeeps DEF RereadEnsure, RereadSet
  <2>3. CASE PruneHistory(c)
    BY <2>3, PruneHistoryKeeps
  <2>4. ASSUME NEW t \in Times, InsertSecret(c, t) \/ InsertItem(c, t) \/ InsertFieldItem(c, t)
        PROVE  SharedInv'
    BY <2>4, InsertKeeps
  <2>5. ASSUME NEW t \in Times, WriteRow(c, t) \/ WriteTombstone(c, t) PROVE SharedInv'
    BY <2>5, WriteKeeps
  <2>6. ASSUME NEW fails \in BOOLEAN,
               \/ HistoryOfSecret(c, fails) \/ HistoryOfMade(c, fails)
               \/ HistoryOfReplaced(c, fails) \/ HistoryOfDeleted(c, fails)
        PROVE  SharedInv'
    BY <2>6, HistoryOfKeeps
  <2>7. ASSUME NEW fails \in BOOLEAN,
               \/ AnnounceEnsured(c, fails) \/ AnnounceSet(c, fails) \/ AnnounceRotated(c, fails)
               \/ AnnounceCreated(c, fails) \/ AnnounceUpdated(c, fails)
               \/ AnnounceDeleted(c, fails) \/ AnnounceField(c, fails)
        PROVE  SharedInv'
    BY <2>7, AnnouncesKeep
  <2> QED BY <1>2, <2>1, <2>2, <2>3, <2>4, <2>5, <2>6, <2>7 DEF SharedStep
<1>3. ASSUME NEW c \in SharedCaller, DropShared(c) PROVE SharedInv'
  BY <1>3, DropSharedKeeps
<1>4. CASE \/ \E i \in DOMAIN itemRows : GetSharedItem(i)
           \/ \E h \in itemHistory : GetSharedVersion(h)
  BY <1>4, GetSharedKeeps
<1>5. CASE ListBegin
  BY <1>5, ListBeginKeeps
<1>6. CASE ListSharedPage
  BY <1>6, ListSharedPageKeeps
<1>7. CASE UNCHANGED sharedVars
  BY <1>7, SharedStutters
<1> QED BY <1>1, <1>2, <1>3, <1>4, <1>5, <1>6, <1>7 DEF SharedVaultNext

\* What the invariant says to a caller.
LEMMA InvariantAnswers ==
  ASSUME SharedInv
  PROVE  AnswersAreTrue
<1>1. SharedTyped /\ HistorySound /\ PriorKept /\ ToldIsKept
  BY DEF SharedInv, TablesSound
<1>2. LastVersionListed
  <2> SUFFICES ASSUME historyFaults = 0, NEW i \in DOMAIN itemRows, itemRows[i].version > 1
               PROVE  itemRows[i].version - 1 \in VersionsListed(i)
    BY DEF LastVersionListed
  <2>1. PICK h \in itemHistory : h.item = i /\ h.version + 1 = itemRows[i].version
    BY <1>1 DEF PriorKept
  <2>2. PICK v \in Nat : v = h.version
    BY <1>1, VersionTyped DEF SharedTyped
  <2>3. itemRows[i].version = v + 1 /\ itemRows[i].version - 1 = h.version
    BY <2>1, <2>2
  <2>4. PICK newer : newer = {k \in itemHistory : k.item = i /\ k.version > v}
    OBVIOUS
  <2>5. Cardinality(newer) \in Nat /\ v + Cardinality(newer) <= v + 1
    BY <1>1, <2>3, <2>4, NewerBounded
  <2>6. Cardinality(newer) < HistoryKeep
    BY <2>5, SharedVaultAssumption
  <2> QED BY <2>1, <2>2, <2>3, <2>4, <2>6 DEF VersionsListed
<1>3. PagingComplete
  <2> SUFFICES ASSUME listing.ids # <<>>, ~listing.on, NEW i \in listing.untouched
               PROVE  Cardinality({k \in DOMAIN listing.ids : listing.ids[k] = i}) = 1
    BY DEF PagingComplete
  <2>1. ListedOnce(i)
    BY DEF SharedInv, ListingSound
  <2>2. PICK k \in DOMAIN listing.ids :
          listing.ids[k] = i /\ \A m \in DOMAIN listing.ids : listing.ids[m] = i => m = k
    BY <2>1 DEF ListedOnce
  <2>3. {m \in DOMAIN listing.ids : listing.ids[m] = i} = {k}
    BY <2>2
  <2> QED BY <2>3, FS_Singleton
<1>4. QuietFeedIsComplete
  <2>1. ASSUME NEW c \in SharedCaller, InShared(c, "idle"), NEW i
        PROVE  ~Announces(sharedCall[c], i)
    BY <2>1 DEF InShared, Announces, AfterWrite
  <2> QED BY <2>1 DEF SharedInv, FeedFollows, QuietFeedIsComplete
<1> QED BY <1>1, <1>2, <1>3, <1>4 DEF AnswersAreTrue

\* What the secrets API, the shared items API and the set-field command serve
\* stays true in every interleaving of their handlers, none of which holds a
\* lock: the version a caller was told of is kept until HistoryKeep newer ones
\* have replaced it, the version before the last change is listed, a listing
\* read page by page has every row that was left alone once, and the feed is
\* complete when nobody writes.
THEOREM AnswersStayTrue == SharedVaultSpec => []AnswersAreTrue
<1>1. SharedVaultInit => SharedInv
  BY SharedInitially
<1>2. SharedInv /\ [SharedVaultNext]_sharedVars => SharedInv'
  BY SharedInductive
<1>3. SharedInv => AnswersAreTrue
  BY InvariantAnswers
<1> QED BY <1>1, <1>2, <1>3, PTL DEF SharedVaultSpec

=============================================================================
