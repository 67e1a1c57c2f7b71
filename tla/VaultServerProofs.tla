-------------------------- MODULE VaultServerProofs --------------------------
(***************************************************************************)
(* What a call of the items API was acknowledged for survives the pushes   *)
(* and calls that run at the same time, for any number of sessions,        *)
(* clients, items, requests and batches.  Under REPEATABLE READ, with      *)
(* versions that are counted and checksums that belong to their payloads.  *)
(*                                                                         *)
(* Every write that replaces a payload has put it into item_history        *)
(* before: a push inside its transaction, with the row still the one of    *)
(* its snapshot; an API call in a statement of its own, after which the    *)
(* row_version decides whether it writes at all.  What is hard is the      *)
(* pruning: a push cuts by what its snapshot and its own writes hold, a    *)
(* call by what is committed, and neither sees the entries of the other.   *)
(* An entry is only ever cut below HistoryLimit newer ones.  Cutting takes *)
(* the oldest, so of the newer ones enough remain, whichever side cuts     *)
(* next.                                                                   *)
(***************************************************************************)
EXTENDS VaultServer, SyncPushProofs

\* Callers leave the version to the server, and devices send the checksum of
\* the payload they send.
CountedVersions == \A r \in Requests : r.version = 0
OwnChecksums == \A b \in Batches : \A n \in DOMAIN b : b[n].checksum = b[n].payload

\* The history holds as many versions above v as it may: older ones are cut.
Above(H, v) == {h \in H : h.version > v}
Lost(H, v) == Cardinality(Above(H, v)) >= HistoryLimit

\* Version v with payload p, or a later one with the same payload, can still
\* be read from the history, or from the row.
InHistory(H, v, p) == Lost(H, v) \/ \E h \in H : h.version >= v /\ h.payload = p
Kept(row, H, v, p) ==
  InHistory(H, v, p) \/ (IsRow(row) /\ row.version >= v /\ row.payload = p)

\* From the history H to G: only what is below enough newer versions is cut.
Grows(H, G) ==
  /\ \A h \in H : h \in G \/ Lost(G, h.version)
  /\ \A v \in Nat : Lost(H, v) => Lost(G, v)

\* Both counters of a row go together, and its checksum is its payload's.
Good(row) == IsRow(row) => row.version = row.row_version /\ row.checksum = row.payload

\* The history of a row holds its older versions, or its own.
Keyed(row, H) ==
  IF IsRow(row) THEN \A h \in H : /\ h.version <= row.version
                                  /\ h.version = row.version => h.payload = row.payload
  ELSE H = {}

\* The row stays, or is written with a new version.
RowMoves(row, new) == new = row \/ (IsRow(new) /\ (IsRow(row) => row.version < new.version))

TablesSound ==
  \A i \in Item : /\ IsFiniteSet(db.history[i])
                  /\ Good(db.items[i])
                  /\ Keyed(db.items[i], db.history[i])

Open(s) == tx[s].pc \notin {"idle", "cursor"}

\* What the open transaction of s has written to the history of i.
Seen(s, i) == HistoryIn(snap[s], pend[s], i)

\* What a push has read and written of an item: the lock keeps the committed
\* row as it was in the snapshot, the row replaced is kept, and what was cut
\* has newer versions above it.
PushedItem(s, i) ==
  /\ IsFiniteSet(snap[s].history[i]) /\ IsFiniteSet(pend[s].added[i])
  /\ Good(snap[s].items[i]) /\ Good(pend[s].rows[i])
  /\ Keyed(RowIn(snap[s], pend[s], i), Seen(s, i))
  /\ Grows(snap[s].history[i], db.history[i])
  /\ ~IsRow(pend[s].rows[i]) => pend[s].added[i] = {} /\ pend[s].pruned[i] = {}
  /\ IsRow(pend[s].rows[i]) => db.items[i] = snap[s].items[i]
  /\ IsRow(pend[s].rows[i]) /\ IsRow(snap[s].items[i]) =>
       /\ snap[s].items[i].version < pend[s].rows[i].version
       /\ Kept(pend[s].rows[i], Seen(s, i), snap[s].items[i].version, snap[s].items[i].payload)
  /\ \A e \in pend[s].pruned[i] : Lost(Seen(s, i), e.version)

PushSound(s) ==
  Open(s) => /\ snap[s] \in Tables
             /\ \A i \in Item : PushedItem(s, i)
             /\ tx[s].pc \in {"path", "write"} =>
                  tx[s].row = RowIn(snap[s], pend[s], Cur(s).item)

PushesSound == LockInv /\ \A s \in Session : PushSound(s)

\* The call has read a row, or stored one.
Holding(c) ==
  \/ call[c].pc \in {"find", "save", "announce"}
  \/ call[c].pc = "write" /\ Api!Req(c).op # "create"
Stored(c) ==
  \/ call[c].pc = "announce"
  \/ call[c].pc = "save" /\ Api!Req(c).op = "create"

CallTyped(c) ==
  /\ call[c].pc # "idle" => Api!Req(c) \in Requests
  /\ call[c].pc \in {"read", "find"} => Api!Req(c).op # "create"
  /\ call[c].pc = "find" => Api!Req(c).op = "restore"
  /\ call[c].pc \in {"save", "write"} /\ Api!Req(c).op = "restore" => call[c].old \in Payload
  /\ Holding(c) => call[c].row \in Row

\* The row a call holds is the current one or an older one.
CallFollows(c) ==
  LET i == Api!Req(c).item
  IN  Holding(c) => /\ Good(call[c].row) /\ IsRow(db.items[i])
                    /\ call[c].row.version <= db.items[i].version
                    /\ call[c].row.version = db.items[i].version => call[c].row = db.items[i]

\* Before the guarded UPDATE the payload it replaces is in the history, unless
\* it replaces none, or will find that the row is another one; after it what
\* it stored is kept.
CallKept(c) ==
  LET i == Api!Req(c).item
      row == call[c].row
  IN  failed = 0 =>
        /\ call[c].pc = "write" /\ Api!Req(c).op # "create" =>
             \/ InHistory(db.history[i], row.version, row.payload)
             \/ Api!RowOf(c).payload = row.payload
             \/ row.version < db.items[i].version
        /\ Stored(c) => Kept(db.items[i], db.history[i], row.version, row.payload)

CallsSound == \A c \in Client : CallTyped(c) /\ CallFollows(c) /\ CallKept(c)

CallsTyped ==
  /\ call \in [Client -> Api!Call]
  /\ \A w \in done : w.item \in Item /\ w.version \in Nat
  /\ calls \in Nat /\ failed \in Nat

DoneKept ==
  failed = 0 => \A w \in done :
    Kept(db.items[w.item], db.history[w.item], w.version, w.payload)

ServerInv ==
  /\ BasicInv /\ StayInv
  /\ CallsTyped
  /\ TablesSound
  /\ PushesSound
  /\ CallsSound
  /\ DoneKept

-----------------------------------------------------------------------------
(* Cutting the history *)

LEMMA AboveFinite ==
  ASSUME NEW H, IsFiniteSet(H), NEW v
  PROVE  IsFiniteSet(Above(H, v)) /\ Cardinality(Above(H, v)) \in Nat
<1>1. Above(H, v) \subseteq H
  BY DEF Above
<1> QED BY <1>1, FS_Subset, FS_CardinalityType

\* More above a higher version is more above a lower one.
LEMMA LostBelow ==
  ASSUME NEW H \in SUBSET HistoryEntry, NEW G \in SUBSET HistoryEntry, IsFiniteSet(G),
         NEW v \in Nat, NEW u \in Nat, v <= u, Lost(H, u), Above(H, u) \subseteq G
  PROVE  Lost(G, v)
<1>1. Above(H, u) \subseteq Above(G, v)
  BY DEF Above, HistoryEntry
<1>2. IsFiniteSet(Above(G, v)) /\ Cardinality(Above(G, v)) \in Nat
  BY AboveFinite
<1>3. /\ Cardinality(Above(H, u)) <= Cardinality(Above(G, v))
      /\ Cardinality(Above(H, u)) \in Nat
  BY <1>1, <1>2, FS_Subset, FS_CardinalityType
<1> QED BY <1>2, <1>3, HistoryLimitAssumption DEF Lost

\* A finite, non-empty set of entries has one with the newest version.
LEMMA NewestEntry ==
  ASSUME NEW E \in SUBSET HistoryEntry, IsFiniteSet(E), E # {}
  PROVE  \E m \in E : \A e \in E : e.version <= m.version
<1> DEFINE R == OpToRel(<, Nat)
           N(e) == Cardinality(Above(E, e.version))
           T == {N(e) : e \in E}
<1>1. \A e \in E : IsFiniteSet(Above(E, e.version)) /\ N(e) \in Nat
  BY AboveFinite
<1>2. T \subseteq Nat /\ T # {}
  BY <1>1
<1>3. PICK n \in T : \A k \in T : ~(<<k, n>> \in R)
  BY <1>2, NatLessThanWellFounded, WFMin
<1>4. PICK m \in E : n = N(m)
  OBVIOUS
<1> SUFFICES ASSUME NEW e \in E, ~(e.version <= m.version) PROVE FALSE
  OBVIOUS
<1>5. e.version \in Nat /\ m.version \in Nat /\ e.version > m.version
  BY DEF HistoryEntry
<1>6. Above(E, e.version) \subseteq Above(E, m.version)
  BY <1>5 DEF Above, HistoryEntry
<1>7. e \in Above(E, m.version) /\ e \notin Above(E, e.version)
  BY <1>5 DEF Above
<1>8. N(e) < N(m)
  <2>1. N(e) <= N(m) /\ (N(e) = N(m) => Above(E, e.version) = Above(E, m.version))
    BY <1>1, <1>6, FS_Subset
  <2> QED BY <1>1, <1>7, <2>1
<1> HIDE DEF N
<1>9. <<N(e), N(m)>> \in R
  BY <1>1, <1>8 DEF OpToRel
<1> QED BY <1>3, <1>4, <1>9

\* When the excess is cut, what is above enough newer versions stays so.
LEMMA CutKeeps ==
  ASSUME NEW H \in SUBSET HistoryEntry, IsFiniteSet(H), NEW v \in Nat, Lost(H, v)
  PROVE  Lost(H \ Excess(H), v)
<1> DEFINE E == Above(H, v) \cap Excess(H)
           G == H \ Excess(H)
<1>1. IsFiniteSet(G) /\ G \in SUBSET HistoryEntry /\ E \in SUBSET HistoryEntry
      /\ IsFiniteSet(E)
  <2>1. G \subseteq H /\ E \subseteq H
    BY DEF Above
  <2> QED BY <2>1, FS_Subset
<1> SUFFICES Lost(G, v)
  OBVIOUS
<1>2. CASE E = {}
  <2>1. Above(H, v) \subseteq G
    BY <1>2 DEF Above
  <2> HIDE DEF G
  <2> QED BY <1>1, <2>1, LostBelow
<1>3. CASE E # {}
  <2>1. PICK m \in E : \A e \in E : e.version <= m.version
    BY <1>1, <1>3, NewestEntry
  <2>2. m \in H /\ m.version \in Nat /\ v <= m.version /\ m \in Excess(H)
    BY <2>1 DEF Above, HistoryEntry
  <2>3. Lost(H, m.version)
    BY <2>2 DEF Excess, Lost, Above
  <2>4. Above(H, m.version) \subseteq G
    <3> SUFFICES ASSUME NEW f \in H, f.version > m.version, f \in Excess(H) PROVE FALSE
      BY DEF Above
    <3>1. f \in E
      BY <2>2 DEF Above, HistoryEntry
    <3> QED BY <2>1, <2>2, <3>1 DEF HistoryEntry
  <2> HIDE DEF G
  <2> QED BY <1>1, <2>2, <2>3, <2>4, LostBelow
<1> QED BY <1>2, <1>3

\* An entry saved and the excess cut: the history has grown.
LEMMA SavedGrows ==
  ASSUME NEW H \in SUBSET HistoryEntry, IsFiniteSet(H), NEW new \in SUBSET HistoryEntry,
         IsFiniteSet(new)
  PROVE  /\ Grows(H, (H \cup new) \ Excess(H \cup new))
         /\ \A h \in H \cup new : \/ h \in (H \cup new) \ Excess(H \cup new)
                                  \/ Lost((H \cup new) \ Excess(H \cup new), h.version)
         /\ IsFiniteSet((H \cup new) \ Excess(H \cup new))
<1> DEFINE U == H \cup new
           G == U \ Excess(U)
<1>1. U \in SUBSET HistoryEntry /\ IsFiniteSet(U)
  BY FS_Union
<1>2. IsFiniteSet(G)
  <2>1. G \subseteq U
    OBVIOUS
  <2> QED BY <1>1, <2>1, FS_Subset
<1>3. \A v \in Nat : Lost(H, v) => Lost(U, v)
  <2>1. \A v \in Nat : Above(H, v) \subseteq U
    BY DEF Above
  <2> HIDE DEF U
  <2> QED BY <1>1, <2>1, LostBelow
<1>4. \A v \in Nat : Lost(U, v) => Lost(G, v)
  <2> HIDE DEF U
  <2> QED BY <1>1, CutKeeps
<1>5. ASSUME NEW h \in U, h \notin G PROVE Lost(G, h.version)
  <2>1. h.version \in Nat /\ h \in Excess(U)
    BY <1>1, <1>5 DEF HistoryEntry
  <2>2. Lost(U, h.version)
    BY <2>1 DEF Lost, Excess, Above
  <2> QED BY <1>4, <2>1, <2>2
<1> QED BY <1>2, <1>3, <1>4, <1>5 DEF Grows

\* A push commits on top of what others have saved and cut meanwhile.  From
\* the snapshot S the history went to D, the push has cut P and added A: what
\* had enough newer versions on either side has them in the merged history.
LEMMA MergeKeeps ==
  ASSUME NEW D \in SUBSET HistoryEntry, NEW S \in SUBSET HistoryEntry,
         NEW P \in SUBSET HistoryEntry, NEW A \in SUBSET HistoryEntry,
         IsFiniteSet(D), IsFiniteSet(S), IsFiniteSet(A),
         \A e \in S : e \in D \/ Lost(D, e.version),
         \A e \in P : Lost((S \ P) \cup A, e.version),
         NEW v \in Nat, Lost((S \ P) \cup A, v) \/ Lost(D, v)
  PROVE  Lost((D \ P) \cup A, v)
<1> DEFINE V == (S \ P) \cup A
           N == (D \ P) \cup A
           E == {e \in V \cup D : e.version > v /\ (Lost(V, e.version) \/ Lost(D, e.version))}
<1>1. /\ V \in SUBSET HistoryEntry /\ N \in SUBSET HistoryEntry /\ E \in SUBSET HistoryEntry
      /\ IsFiniteSet(V) /\ IsFiniteSet(N) /\ IsFiniteSet(E)
  <2>1. V \subseteq S \cup A /\ N \subseteq D \cup A /\ E \subseteq V \cup D
    OBVIOUS
  <2>2. IsFiniteSet(S \cup A) /\ IsFiniteSet(D \cup A)
    BY FS_Union
  <2>3. IsFiniteSet(V) /\ IsFiniteSet(N)
    BY <2>1, <2>2, FS_Subset
  <2>4. IsFiniteSet(V \cup D)
    BY <2>3, FS_Union
  <2>5. IsFiniteSet(E)
    BY <2>1, <2>4, FS_Subset
  <2>6. V \in SUBSET HistoryEntry /\ N \in SUBSET HistoryEntry
    OBVIOUS
  <2> QED BY <2>1, <2>3, <2>5, <2>6
\* Where an entry above u is missing there is a higher version that is lost.
<1>2. ASSUME NEW u \in Nat, v <= u, Lost(V, u) \/ Lost(D, u), ~Lost(N, v)
      PROVE  \E e \in E : e.version > u
  <2>1. CASE Lost(V, u)
    <3>1. ~(Above(V, u) \subseteq N)
      <4> HIDE DEF V, N
      <4> QED BY <1>1, <1>2, <2>1, LostBelow
    <3>2. PICK h \in V : h.version > u /\ h \notin N
      BY <3>1 DEF Above
    <3>3. h \in S /\ h \notin D
      BY <3>2
    <3>4. h.version \in Nat /\ Lost(D, h.version)
      BY <3>3 DEF HistoryEntry
    <3>5. h \in E
      BY <1>2, <3>2, <3>4
    <3> QED BY <3>2, <3>5
  <2>2. CASE Lost(D, u)
    <3>1. ~(Above(D, u) \subseteq N)
      <4> HIDE DEF V, N
      <4> QED BY <1>1, <1>2, <2>2, LostBelow
    <3>2. PICK h \in D : h.version > u /\ h \notin N
      BY <3>1 DEF Above
    <3>3. h \in P
      BY <3>2
    <3>4. h.version \in Nat /\ Lost(V, h.version)
      BY <3>3 DEF HistoryEntry
    <3>5. h \in E
      BY <1>2, <3>2, <3>4
    <3> QED BY <3>2, <3>5
  <2> QED BY <1>2, <2>1, <2>2
<1>3. (Lost(V, v) \/ Lost(D, v)) /\ \A m \in E : m.version > v
  OBVIOUS
<1>4. SUFFICES ASSUME ~Lost(N, v) PROVE FALSE
  OBVIOUS
<1>5. \A m \in E : Lost(V, m.version) \/ Lost(D, m.version)
  OBVIOUS
<1> HIDE DEF V, N, E
<1>6. E # {}
  BY <1>2, <1>3, <1>4
<1>7. PICK m \in E : \A e \in E : e.version <= m.version
  BY <1>1, <1>6, NewestEntry
<1>8. m.version \in Nat /\ v <= m.version
  BY <1>1, <1>3, <1>7 DEF HistoryEntry
<1>9. PICK e \in E : e.version > m.version
  BY <1>2, <1>4, <1>5, <1>7, <1>8
<1> QED BY <1>1, <1>7, <1>8, <1>9 DEF HistoryEntry

\* Kept is carried along when the history grows.
LEMMA InHistoryStays ==
  ASSUME NEW H \in SUBSET HistoryEntry, NEW G \in SUBSET HistoryEntry,
         IsFiniteSet(G), Grows(H, G), NEW v \in Nat, NEW p, InHistory(H, v, p)
  PROVE  InHistory(G, v, p)
<1>1. CASE Lost(H, v)
  BY <1>1 DEF Grows, InHistory
<1>2. ASSUME NEW h \in H, h.version >= v, h.payload = p PROVE InHistory(G, v, p)
  <2>1. CASE h \in G
    BY <1>2, <2>1 DEF InHistory
  <2>2. CASE Lost(G, h.version)
    <3>1. h.version \in Nat /\ v <= h.version /\ Above(G, h.version) \subseteq G
      BY <1>2 DEF HistoryEntry, Above
    <3>2. Lost(G, v)
      BY <2>2, <3>1, LostBelow
    <3> QED BY <3>2 DEF InHistory
  <2> QED BY <2>1, <2>2 DEF Grows
<1> QED BY <1>1, <1>2 DEF InHistory

\* What is kept of a version is kept of the older ones with that payload.
LEMMA InHistoryBelow ==
  ASSUME NEW G \in SUBSET HistoryEntry, IsFiniteSet(G), NEW v \in Nat, NEW u \in Nat,
         v <= u, NEW p, InHistory(G, u, p)
  PROVE  InHistory(G, v, p)
<1>1. CASE Lost(G, u)
  <2>1. Above(G, u) \subseteq G
    BY DEF Above
  <2> QED BY <1>1, <2>1, LostBelow DEF InHistory
<1>2. ASSUME NEW h \in G, h.version >= u, h.payload = p PROVE InHistory(G, v, p)
  <2>1. h.version \in Nat
    BY DEF HistoryEntry
  <2> QED BY <1>2, <2>1 DEF InHistory
<1> QED BY <1>1, <1>2 DEF InHistory

LEMMA KeptStays ==
  ASSUME NEW H \in SUBSET HistoryEntry, NEW G \in SUBSET HistoryEntry,
         IsFiniteSet(G), Grows(H, G),
         NEW row \in Row \cup {NoRow}, NEW new \in Row \cup {NoRow},
         IsRow(row) => Kept(new, G, row.version, row.payload),
         NEW v \in Nat, NEW p, Kept(row, H, v, p)
  PROVE  Kept(new, G, v, p)
<1>1. CASE InHistory(H, v, p)
  BY <1>1, InHistoryStays DEF Kept
<1>2. CASE IsRow(row) /\ row.version >= v /\ row.payload = p
  <2>1. row.version \in Nat /\ v <= row.version /\ Kept(new, G, row.version, p)
    BY <1>2 DEF IsRow, Row
  <2>2. CASE InHistory(G, row.version, p)
    BY <2>1, <2>2, InHistoryBelow DEF Kept
  <2>3. CASE IsRow(new) /\ new.version >= row.version /\ new.payload = p
    <3>1. new.version \in Nat
      BY <2>3 DEF IsRow, Row
    <3> QED BY <2>1, <2>3, <3>1 DEF Kept
  <2> QED BY <2>1, <2>2, <2>3 DEF Kept
<1> QED BY <1>1, <1>2 DEF Kept

LEMMA GrowsSame ==
  ASSUME NEW H PROVE Grows(H, H)
BY DEF Grows

LEMMA GrowsOn ==
  ASSUME NEW H \in SUBSET HistoryEntry, NEW G, NEW K, Grows(H, G), Grows(G, K)
  PROVE  Grows(H, K)
BY DEF Grows, HistoryEntry

-----------------------------------------------------------------------------
(* Saving a row to the history *)

NewEntry(H, row) ==
  IF \E h \in H : h.version = row.version THEN {}
  ELSE {[version |-> row.version, payload |-> row.payload]}

SavedIn(H, row) == (H \cup NewEntry(H, row)) \ Excess(H \cup NewEntry(H, row))

\* What the history of a row becomes when the row, or an older one of the same
\* item, is saved to it.
LEMMA SavedSound ==
  ASSUME NEW H \in SUBSET HistoryEntry, IsFiniteSet(H), NEW row \in Row, NEW cur \in Row,
         Keyed(cur, H), row.version <= cur.version, row.version = cur.version => row = cur
  PROVE  /\ SavedIn(H, row) \in SUBSET HistoryEntry /\ IsFiniteSet(SavedIn(H, row))
         /\ Grows(H, SavedIn(H, row))
         /\ Keyed(cur, SavedIn(H, row))
         /\ row = cur => InHistory(SavedIn(H, row), row.version, row.payload)
<1>1. PICK new : new = NewEntry(H, row)
  OBVIOUS
<1>2. /\ new \in SUBSET HistoryEntry /\ IsFiniteSet(new)
      /\ \A h \in new : h.version = row.version /\ h.payload = row.payload
  <2>1. [version |-> row.version, payload |-> row.payload] \in HistoryEntry
    BY DEF Row, HistoryEntry
  <2>2. IsFiniteSet({}) /\ IsFiniteSet({[version |-> row.version, payload |-> row.payload]})
    BY FS_EmptySet, FS_Singleton
  <2> QED BY <1>1, <2>1, <2>2 DEF NewEntry
<1>3. PICK G : G = (H \cup new) \ Excess(H \cup new)
  OBVIOUS
<1>4. SavedIn(H, row) = G
  BY <1>1, <1>3 DEF SavedIn
<1>5. /\ Grows(H, G) /\ IsFiniteSet(G)
      /\ \A h \in H \cup new : h \in G \/ Lost(G, h.version)
  BY <1>2, <1>3, SavedGrows
<1>6. G \subseteq H \cup new /\ G \in SUBSET HistoryEntry
  BY <1>2, <1>3
<1>7. Keyed(cur, G)
  <2>1. IsRow(cur) /\ row.version \in Nat /\ cur.version \in Nat
    BY NoRowAssumption DEF IsRow, Row
  <2>2. \A h \in G : h.version <= cur.version /\ (h.version = cur.version => h.payload = cur.payload)
    BY <1>2, <1>6, <2>1 DEF Keyed
  <2> QED BY <2>1, <2>2 DEF Keyed
<1>8. ASSUME row = cur PROVE InHistory(G, row.version, row.payload)
  <2>1. PICK h \in H \cup new : h.version = row.version
    <3>1. [version |-> row.version, payload |-> row.payload].version = row.version
      OBVIOUS
    <3> QED BY <1>1, <3>1, Zenon DEF NewEntry
  <2>2. h.payload = row.payload /\ h.version \in Nat /\ h.version >= row.version
    <3>1. IsRow(cur) /\ row.version \in Nat
      BY NoRowAssumption DEF IsRow, Row
    <3> QED BY <1>2, <1>8, <2>1, <3>1 DEF Keyed
  <2>3. h \in G \/ Lost(G, row.version)
    BY <1>5, <2>1
  <2> QED BY <2>2, <2>3 DEF InHistory
<1> QED BY <1>4, <1>5, <1>6, <1>7, <1>8

\* What SaveHistory adds to the writes of a transaction.
LEMMA SaveEffect ==
  ASSUME NEW t \in Tables, NEW p \in Pending, NEW i \in Item, NEW row \in Row,
         NEW H, H = HistoryIn(t, p, i), NEW cut, cut = Excess(H \cup NewEntry(H, row))
  PROVE  /\ SaveHistory(t, p, i, row).added[i] = (p.added[i] \cup NewEntry(H, row)) \ cut
         /\ SaveHistory(t, p, i, row).pruned[i] = p.pruned[i] \cup cut
         /\ \A j \in Item \ {i} : /\ SaveHistory(t, p, i, row).added[j] = p.added[j]
                                  /\ SaveHistory(t, p, i, row).pruned[j] = p.pruned[j]
<1>1. PICK new, q : new = NewEntry(H, row) /\ q = SaveHistory(t, p, i, row)
  OBVIOUS
<1>2. q = [p EXCEPT !.added = [@ EXCEPT ![i] = (p.added[i] \cup new) \ cut],
                    !.pruned = [@ EXCEPT ![i] = p.pruned[i] \cup cut]]
  BY <1>1 DEF SaveHistory, NewEntry
<1>3. /\ p.added \in [Item -> SUBSET HistoryEntry] /\ p.pruned \in [Item -> SUBSET HistoryEntry]
      /\ q.added = [p.added EXCEPT ![i] = (p.added[i] \cup new) \ cut]
      /\ q.pruned = [p.pruned EXCEPT ![i] = p.pruned[i] \cup cut]
  BY <1>2 DEF Pending
<1>4. /\ q.added[i] = (p.added[i] \cup new) \ cut
      /\ q.pruned[i] = p.pruned[i] \cup cut
      /\ \A j \in Item \ {i} : q.added[j] = p.added[j] /\ q.pruned[j] = p.pruned[j]
  BY <1>3
<1> QED BY <1>1, <1>4

LEMMA SaveSeen ==
  ASSUME NEW t \in Tables, NEW p \in Pending, NEW i \in Item, NEW row \in Row
  PROVE  /\ HistoryIn(t, SaveHistory(t, p, i, row), i) = SavedIn(HistoryIn(t, p, i), row)
         /\ \A j \in Item \ {i} :
              HistoryIn(t, SaveHistory(t, p, i, row), j) = HistoryIn(t, p, j)
<1>1. PICK H : H = HistoryIn(t, p, i)
  OBVIOUS
<1>2. PICK new : new = NewEntry(H, row)
  OBVIOUS
<1>3. PICK cut : cut = Excess(H \cup new)
  OBVIOUS
<1>4. PICK q : q = SaveHistory(t, p, i, row)
  OBVIOUS
<1>5. /\ q.added[i] = (p.added[i] \cup new) \ cut
      /\ q.pruned[i] = p.pruned[i] \cup cut
      /\ \A j \in Item \ {i} : q.added[j] = p.added[j] /\ q.pruned[j] = p.pruned[j]
  BY <1>1, <1>2, <1>3, <1>4, SaveEffect
<1>6. HistoryIn(t, q, i) = SavedIn(H, row)
  <2>1. H = (t.history[i] \ p.pruned[i]) \cup p.added[i]
    BY <1>1 DEF HistoryIn
  <2>2. HistoryIn(t, q, i) = (H \cup new) \ cut
    BY <1>5, <2>1 DEF HistoryIn
  <2> QED BY <1>2, <1>3, <2>2 DEF SavedIn
<1>7. \A j \in Item \ {i} : HistoryIn(t, q, j) = HistoryIn(t, p, j)
  BY <1>5 DEF HistoryIn
<1> QED BY <1>1, <1>4, <1>6, <1>7

-----------------------------------------------------------------------------
(* The items API has the tables of the pushes *)

LEMMA SameCardinality == \A S : Api!Cardinality(S) = Cardinality(S)
BY Zenon DEF Api!Cardinality, Cardinality

LEMMA SameExcess == \A h : Api!Excess(h) = Excess(h)
BY SameCardinality DEF Api!Excess, Excess

LEMMA SameTables ==
  /\ Api!Row = Row /\ Api!Tables = Tables
  /\ Api!NothingPending = NothingPending
  /\ \A row : Api!IsRow(row) <=> IsRow(row)
<1>1. Api!Row = Row /\ Api!HistoryEntry = HistoryEntry
  BY DEF Api!Row, Row, Api!HistoryEntry, HistoryEntry
<1>2. Api!ChangeEntry = ChangeEntry
  BY DEF Api!ChangeEntry, Api!FeedOp, ChangeEntry, FeedOp
<1>3. Api!Tables = Tables
  BY <1>1, <1>2, Zenon DEF Api!Tables, Tables
<1>4. Api!NothingPending = NothingPending
  BY Zenon DEF Api!NothingPending, NothingPending
<1> QED BY <1>1, <1>3, <1>4 DEF Api!IsRow, IsRow

LEMMA SameHistory ==
  ASSUME NEW t, NEW p, NEW i, NEW row
  PROVE  /\ Api!SaveHistory(t, p, i, row) = SaveHistory(t, p, i, row)
         /\ Api!Merged(t, p) = Merged(t, p)
<1>1. \A j : Api!HistoryIn(t, p, j) = HistoryIn(t, p, j)
  BY DEF Api!HistoryIn, HistoryIn
<1>2. \A j : Api!RowIn(t, p, j) = RowIn(t, p, j)
  BY DEF Api!RowIn, RowIn, Api!IsRow, IsRow
<1>3. Api!ChangesIn(t, p) = ChangesIn(t, p)
  BY DEF Api!ChangesIn, ChangesIn
<1>4. Api!Merged(t, p) = Merged(t, p)
  BY <1>1, <1>2, <1>3 DEF Api!Merged, Merged
<1>5. Api!SaveHistory(t, p, i, row) = SaveHistory(t, p, i, row)
  <2>1. PICK H : H = HistoryIn(t, p, i)
    OBVIOUS
  <2>2. PICK new : new = IF \E h \in H : h.version = row.version THEN {}
                         ELSE {[version |-> row.version, payload |-> row.payload]}
    OBVIOUS
  <2>3. PICK cut : cut = Excess(H \cup new)
    OBVIOUS
  <2>4. Api!HistoryIn(t, p, i) = H /\ Api!Excess(H \cup new) = cut
    BY <1>1, <2>1, <2>3, SameExcess
  <2>5. SaveHistory(t, p, i, row) =
          [p EXCEPT !.added = [@ EXCEPT ![i] = (p.added[i] \cup new) \ cut],
                    !.pruned = [@ EXCEPT ![i] = p.pruned[i] \cup cut]]
    BY <2>1, <2>2, <2>3 DEF SaveHistory
  <2>6. Api!SaveHistory(t, p, i, row) =
          [p EXCEPT !.added = [@ EXCEPT ![i] = (p.added[i] \cup new) \ cut],
                    !.pruned = [@ EXCEPT ![i] = p.pruned[i] \cup cut]]
    BY <2>2, <2>4 DEF Api!SaveHistory
  <2> QED BY <2>5, <2>6
<1> QED BY <1>4, <1>5

-----------------------------------------------------------------------------
(* What a step does to the tables, and who has nothing to do with it *)

\* No payload is lost by the step while no statement has failed.
Moves ==
  \A i \in Item :
    /\ RowMoves(db.items[i], db'.items[i])
    /\ Grows(db.history[i], db'.history[i])
    /\ failed' = 0 /\ IsRow(db.items[i]) =>
         Kept(db'.items[i], db'.history[i], db.items[i].version, db.items[i].payload)

CallSound(c) == CallTyped(c) /\ CallFollows(c) /\ CallKept(c)

LEMMA TablesFacts ==
  ASSUME ServerInv
  PROVE  /\ db \in Tables
         /\ \A i \in Item : /\ db.items[i] \in Row \cup {NoRow}
                            /\ db.history[i] \in SUBSET HistoryEntry
                            /\ IsFiniteSet(db.history[i])
                            /\ Good(db.items[i]) /\ Keyed(db.items[i], db.history[i])
BY DEF ServerInv, BasicInv, TypeOK, TablesTypeOK, Tables, TablesSound

LEMMA ReqType ==
  ASSUME NEW c \in Client, Api!Req(c) \in Requests
  PROVE  /\ Api!Req(c) \in Api!Request
         /\ Api!Req(c).item \in Item /\ Api!Req(c).op \in Op
         /\ Api!Req(c).path \in Path \cup {None}
         /\ Api!Req(c).payload \in Payload \cup {None}
         /\ Api!Req(c).version \in Nat
         /\ Api!Req(c).op = "create" => Api!Req(c).path # None /\ Api!Req(c).payload # None
<1>1. Api!Req(c) \in Api!Request
  BY ServerAssumption
<1> QED BY <1>1, ServerAssumption DEF Api!Request, Api!Op, Op

LEMMA QuietMoves ==
  ASSUME ServerInv, db'.items = db.items, db'.history = db.history
  PROVE  Moves
<1>1. ASSUME NEW i \in Item, IsRow(db.items[i])
      PROVE  Kept(db.items[i], db.history[i], db.items[i].version, db.items[i].payload)
  <2>1. db.items[i].version \in Nat
    BY <1>1, TablesFacts DEF IsRow, Row
  <2> QED BY <1>1, <2>1 DEF Kept
<1> QED BY <1>1, GrowsSame DEF Moves, RowMoves

LEMMA CallStays ==
  ASSUME ServerInv, db' \in Tables, TablesSound', Moves, failed' = 0 => failed = 0,
         NEW c \in Client, call'[c] = call[c]
  PROVE  CallSound(c)'
<1>1. PICK k : k = call[c]
  OBVIOUS
<1>2. /\ CallSound(c)
      /\ Api!Req(c)' = Api!Req(c) /\ Api!Req(c) = k.req /\ Api!RowOf(c)' = Api!RowOf(c)
      /\ Holding(c)' = Holding(c) /\ Stored(c)' = Stored(c)
  BY <1>1 DEF ServerInv, CallsSound, CallSound, Api!Req, Api!RowOf, Holding, Stored
<1>3. CallTyped(c)'
  BY <1>1, <1>2 DEF CallSound, CallTyped
<1>4. PICK i : i = k.req.item
  OBVIOUS
<1>5. ASSUME Holding(c)
      PROVE  /\ i \in Item /\ k.row \in Row /\ k.row.version \in Nat
             /\ Good(k.row) /\ IsRow(db.items[i]) /\ k.row.version <= db.items[i].version
             /\ k.row.version = db.items[i].version => k.row = db.items[i]
  <2>1. k.pc # "idle" /\ Api!Req(c) \in Requests
    BY <1>1, <1>2, <1>5 DEF Holding, CallSound, CallTyped
  <2>2. i \in Item
    BY <1>2, <1>4, <2>1, ReqType
  <2>3. k.row \in Row
    BY <1>1, <1>2, <1>5 DEF CallSound, CallTyped
  <2> QED BY <1>1, <1>2, <1>4, <1>5, <2>2, <2>3 DEF CallSound, CallFollows, Row
<1>6. ASSUME Holding(c)
      PROVE  /\ IsRow(db'.items[i]) /\ k.row.version <= db'.items[i].version
             /\ k.row.version = db'.items[i].version => k.row = db'.items[i]
             /\ k.row.version < db.items[i].version => k.row.version < db'.items[i].version
             /\ db.items[i].version \in Nat /\ db'.items[i].version \in Nat
  <2>1. db.items[i] \in Row /\ RowMoves(db.items[i], db'.items[i])
        /\ db'.items[i] \in Row \cup {NoRow}
    BY <1>5, <1>6, TablesFacts DEF Moves, IsRow, Tables
  <2>2. IsRow(db'.items[i]) /\ db'.items[i] \in Row
    BY <1>5, <1>6, <2>1 DEF RowMoves, IsRow
  <2>3. db.items[i].version \in Nat /\ db'.items[i].version \in Nat
    BY <2>1, <2>2 DEF Row
  <2> QED BY <1>5, <1>6, <2>1, <2>2, <2>3 DEF RowMoves
<1>7. CallFollows(c)'
  <2>1. Good(k.row)' <=> Good(k.row)
    OBVIOUS
  <2> QED BY <1>1, <1>2, <1>4, <1>5, <1>6, <2>1 DEF CallFollows, Good
<1>8. ASSUME failed' = 0, call[c].pc = "write", Api!Req(c).op # "create"
      PROVE  \/ InHistory(db'.history[i], k.row.version, k.row.payload)
             \/ Api!RowOf(c).payload = k.row.payload
             \/ k.row.version < db'.items[i].version
  <2>1. Holding(c)
    BY <1>8 DEF Holding
  <2>2. \/ InHistory(db.history[i], k.row.version, k.row.payload)
        \/ Api!RowOf(c).payload = k.row.payload
        \/ k.row.version < db.items[i].version
    BY <1>1, <1>2, <1>4, <1>8 DEF CallSound, CallKept
  <2>3. /\ db.history[i] \in SUBSET HistoryEntry /\ db'.history[i] \in SUBSET HistoryEntry
        /\ IsFiniteSet(db'.history[i]) /\ Grows(db.history[i], db'.history[i])
    BY <1>5, <2>1, TablesFacts DEF Tables, TablesSound, Moves
  <2>4. CASE InHistory(db.history[i], k.row.version, k.row.payload)
    <3>1. PICK v, p : v = k.row.version /\ p = k.row.payload
      OBVIOUS
    <3>2. v \in Nat /\ InHistory(db.history[i], v, p)
      BY <1>5, <2>1, <2>4, <3>1
    <3>3. InHistory(db'.history[i], v, p)
      BY <2>3, <3>2, InHistoryStays
    <3> QED BY <3>1, <3>3
  <2> QED BY <1>6, <2>1, <2>2, <2>4
<1>9. ASSUME failed' = 0, Stored(c)
      PROVE  Kept(db'.items[i], db'.history[i], k.row.version, k.row.payload)
  <2>1. Holding(c)
    BY <1>9 DEF Holding, Stored
  <2>2. Kept(db.items[i], db.history[i], k.row.version, k.row.payload)
    BY <1>1, <1>2, <1>4, <1>9 DEF CallSound, CallKept
  <2>3. PICK H, G, row, new, v, p :
          /\ H = db.history[i] /\ G = db'.history[i] /\ row = db.items[i] /\ new = db'.items[i]
          /\ v = k.row.version /\ p = k.row.payload
    OBVIOUS
  <2>4. /\ H \in SUBSET HistoryEntry /\ G \in SUBSET HistoryEntry /\ IsFiniteSet(G)
        /\ Grows(H, G) /\ row \in Row \cup {NoRow} /\ new \in Row \cup {NoRow} /\ v \in Nat
        /\ Kept(row, H, v, p)
        /\ IsRow(row) => Kept(new, G, row.version, row.payload)
    BY <1>5, <1>9, <2>1, <2>2, <2>3, TablesFacts DEF Tables, TablesSound, Moves
  <2>5. Kept(new, G, v, p)
    BY <2>4, KeptStays
  <2> QED BY <2>3, <2>5
<1>10. CallKept(c)'
  BY <1>1, <1>2, <1>4, <1>8, <1>9 DEF CallKept
<1> QED BY <1>3, <1>7, <1>10 DEF CallSound

LEMMA DoneStays ==
  ASSUME ServerInv, db' \in Tables, TablesSound', Moves, failed' = 0 => failed = 0,
         \A w \in done' : w.item \in Item /\ w.version \in Nat,
         failed' = 0 => \A w \in done' \ done :
           Kept(db'.items[w.item], db'.history[w.item], w.version, w.payload)
  PROVE  DoneKept'
<1> SUFFICES ASSUME failed' = 0, NEW w \in done, w \in done'
             PROVE  Kept(db'.items[w.item], db'.history[w.item], w.version, w.payload)
  BY DEF DoneKept
<1>1. w.item \in Item /\ w.version \in Nat
  OBVIOUS
<1>2. Kept(db.items[w.item], db.history[w.item], w.version, w.payload)
  BY DEF ServerInv, DoneKept
<1>3. PICK H, G, row, new, v, p :
        /\ H = db.history[w.item] /\ G = db'.history[w.item]
        /\ row = db.items[w.item] /\ new = db'.items[w.item]
        /\ v = w.version /\ p = w.payload
  OBVIOUS
<1>4. /\ H \in SUBSET HistoryEntry /\ G \in SUBSET HistoryEntry /\ IsFiniteSet(G)
      /\ Grows(H, G) /\ row \in Row \cup {NoRow} /\ new \in Row \cup {NoRow} /\ v \in Nat
      /\ Kept(row, H, v, p)
      /\ IsRow(row) => Kept(new, G, row.version, row.payload)
  BY <1>1, <1>2, <1>3, TablesFacts DEF Tables, TablesSound, Moves
<1>5. Kept(new, G, v, p)
  BY <1>4, KeptStays
<1> QED BY <1>3, <1>5

LEMMA PushStays ==
  ASSUME ServerInv, db' \in Tables, TablesSound', Moves, NEW t \in Session,
         tx'[t] = tx[t], pend'[t] = pend[t], snap'[t] = snap[t],
         \A i \in Item : IsRow(pend[t].rows[i]) => db'.items[i] = db.items[i]
  PROVE  PushSound(t)'
<1> SUFFICES ASSUME Open(t) PROVE PushSound(t)'
  BY DEF PushSound, Open
<1>1. PushSound(t)
  BY DEF ServerInv, PushesSound
<1>2. ASSUME NEW i \in Item PROVE PushedItem(t, i)'
  <2>1. PushedItem(t, i) /\ snap[t].history[i] \in SUBSET HistoryEntry
    BY <1>1 DEF PushSound, Tables
  <2>2. Grows(snap[t].history[i], db'.history[i])
    BY <2>1, GrowsOn DEF PushedItem, Moves
  <2>3. IsRow(pend[t].rows[i]) => db'.items[i] = snap[t].items[i]
    BY <2>1 DEF PushedItem
  <2>4. Seen(t, i)' = Seen(t, i)
    BY DEF Seen, HistoryIn
  <2> QED BY <2>1, <2>2, <2>3, <2>4 DEF PushedItem
<1>3. Cur(t)' = Cur(t)
  BY DEF Cur
<1> QED BY <1>1, <1>2, <1>3 DEF PushSound, Open

\* A step of the API leaves the pushes alone: it is enough to look at the
\* tables and at its own call.
LEMMA ApiKeeps ==
  ASSUME ServerInv, UNCHANGED <<pushVars, cursor, seen, pend>>,
         db' \in Tables, nextSeq' \in Nat \ {0}, nextSeq <= nextSeq',
         \A d \in db'.changes : d.seq < nextSeq',
         TablesSound', Moves,
         \A t \in Session : \A i \in Item :
           IsRow(pend[t].rows[i]) => db'.items[i] = db.items[i],
         failed' = 0 => failed = 0, CallsTyped',
         NEW c \in Client, \A d \in Client \ {c} : call'[d] = call[d], CallSound(c)',
         failed' = 0 => \A w \in done' \ done :
           Kept(db'.items[w.item], db'.history[w.item], w.version, w.payload)
  PROVE  ServerInv' /\ Moves
<1>1. BasicInv /\ StayInv /\ nextSeq \in Nat /\ pend \in [Session -> Pending]
  BY DEF ServerInv, BasicInv, TypeOK, TablesTypeOK
<1>2. BasicInv'
  <2>1. TypeOK'
    BY <1>1 DEF BasicInv, TypeOK, TablesTypeOK, pushVars
  <2>2. ProgressInv'
    BY <1>1 DEF BasicInv, ProgressInv, Progress, Working, Cur, Incomplete, pushVars
  <2>3. \A s \in Session : \A d \in pend[s].changes : d.seq < nextSeq'
    <3>1. \A s \in Session : \A d \in pend[s].changes : d.seq \in Nat /\ d.seq < nextSeq
      BY <1>1 DEF BasicInv, SeqInv, Pending, ChangeEntry
    <3> QED BY <1>1, <3>1
  <2> QED BY <2>1, <2>2, <2>3 DEF BasicInv, SeqInv
<1>3. StayInv'
  <2> SUFFICES ASSUME NEW t \in Session PROVE Stay(t)'
    BY DEF StayInv
  <2>1. Stay(t) /\ (Working(t) => Cur(t).item \in Item)
    BY <1>1, CurType DEF StayInv, BasicInv, ProgressInv, Change
  <2>2. Cur(t)' = Cur(t) /\ Working(t)' = Working(t) /\ tx'[t] = tx[t] /\ snap'[t] = snap[t]
        /\ pend'[t] = pend[t]
    BY DEF Cur, Working, pushVars
  <2>3. \A i \in Item : IsRow(db.items[i]) => IsRow(db'.items[i])
    BY DEF Moves, RowMoves
  <2> QED BY <2>1, <2>2, <2>3 DEF Stay, RowIn, Working
<1>4. PushesSound'
  <2>1. LockInv'
    BY DEF ServerInv, PushesSound, LockInv
  <2>2. ASSUME NEW t \in Session PROVE PushSound(t)'
    <3>1. tx'[t] = tx[t] /\ snap'[t] = snap[t] /\ pend'[t] = pend[t]
      BY DEF pushVars
    <3> QED BY <3>1, PushStays
  <2> QED BY <2>1, <2>2 DEF PushesSound
<1>5. CallsSound'
  <2>1. \A d \in Client : CallSound(d)'
    BY CallStays
  <2> QED BY <2>1 DEF CallsSound, CallSound
<1>6. DoneKept'
  BY DoneStays DEF CallsTyped
<1> QED BY <1>2, <1>3, <1>4, <1>5, <1>6 DEF ServerInv

\* A call that leaves the tables alone.
LEMMA ApiQuiet ==
  ASSUME ServerInv, UNCHANGED <<tableVars, pushVars, cursor, seen, done>>,
         NEW c \in Client, NEW k \in Api!Call, call' = [call EXCEPT ![c] = k],
         CallSound(c)', failed' \in Nat, failed' = 0 => failed = 0, calls' \in Nat
  PROVE  ServerInv' /\ Moves
<1>1. UNCHANGED <<db, nextSeq, pend>>
  BY DEF tableVars
<1>2. /\ db \in Tables /\ nextSeq \in Nat \ {0}
      /\ \A d \in db.changes : d.seq < nextSeq
      /\ TablesSound
  BY DEF ServerInv, BasicInv, TypeOK, TablesTypeOK, SeqInv
<1>3. Moves
  BY <1>1, QuietMoves
<1>4. CallsTyped' /\ \A d \in Client \ {c} : call'[d] = call[d]
  BY DEF ServerInv, CallsTyped
<1>5. TablesSound'
  BY <1>1, <1>2 DEF TablesSound
<1> QED BY <1>1, <1>2, <1>3, <1>4, <1>5, ApiKeeps

\* The call ends without an answer.
LEMMA ApiEnd ==
  ASSUME ServerInv, UNCHANGED <<tableVars, pushVars, cursor, seen, done>>,
         NEW c \in Client, Api!End(c),
         failed' \in Nat, failed' = 0 => failed = 0, calls' \in Nat
  PROVE  ServerInv' /\ Moves
<1>1. Api!NoCall \in Api!Call
  BY DEF Api!NoCall, Api!Call
<1>2. call' = [call EXCEPT ![c] = Api!NoCall] /\ call'[c].pc = "idle"
  BY DEF Api!End, Api!NoCall, ServerInv, CallsTyped
<1>3. CallSound(c)'
  BY <1>2 DEF CallSound, CallTyped, CallFollows, CallKept, Holding, Stored
<1> QED BY <1>1, <1>2, <1>3, ApiQuiet

-----------------------------------------------------------------------------
(* The statements of an API call *)

LEMMA CallFacts ==
  ASSUME ServerInv, NEW c \in Client
  PROVE  /\ call \in [Client -> Api!Call] /\ call[c] \in Api!Call
         /\ call[c].row \in Row \cup {NoRow} /\ Api!Req(c) = call[c].req
         /\ CallTyped(c) /\ CallFollows(c) /\ CallKept(c)
         /\ failed \in Nat /\ calls \in Nat
BY SameTables DEF ServerInv, CallsTyped, CallsSound, Api!Call, Api!Req

\* What an INSERT or UPDATE of the API stores: both counters one higher.
LEMMA RowOfFacts ==
  ASSUME CountedVersions, ServerInv, NEW c \in Client, call[c].pc = "write"
  PROVE  /\ Api!RowOf(c) \in Row /\ Good(Api!RowOf(c))
         /\ Api!Req(c).op = "create" => Api!RowOf(c).version = 1
         /\ Api!Req(c).op # "create" => Api!RowOf(c).version = call[c].row.version + 1
<1>1. PICK r, row, old : r = Api!Req(c) /\ row = call[c].row /\ old = call[c].old
  OBVIOUS
<1>2. r \in Requests /\ r.version = 0
  BY <1>1, CallFacts DEF CallTyped, CountedVersions
<1>3. /\ r.op \in Op /\ r.path \in Path \cup {None} /\ r.payload \in Payload \cup {None}
      /\ r.op = "create" => r.path # None /\ r.payload # None
  BY <1>1, <1>2, ReqType
<1>4. Api!Chosen(r.version, 1) = 1 /\ \A n : Api!Chosen(r.version, n) = n
  BY <1>2 DEF Api!Chosen
<1>5. CASE r.op = "create"
  <2>1. Api!RowOf(c) = [path |-> r.path, payload |-> r.payload, checksum |-> r.payload,
                        version |-> 1, row_version |-> 1, status |-> "active"]
    BY <1>1, <1>4, <1>5 DEF Api!RowOf, Api!InsertedRow
  <2> QED BY <1>1, <1>3, <1>5, <2>1 DEF Row, Good
<1>6. ASSUME r.op # "create"
      PROVE  /\ row \in Row /\ row.version = row.row_version /\ row.checksum = row.payload
             /\ row.version \in Nat /\ row.payload \in Payload /\ row.path \in Path
  <2>1. Holding(c)
    BY <1>1, <1>6 DEF Holding
  <2>2. row \in Row /\ Good(row)
    BY <1>1, <2>1, CallFacts DEF CallTyped, CallFollows
  <2> QED BY <2>2, NoRowAssumption DEF Good, IsRow, Row
<1>n. PICK n, new : n = row.version + 1 /\ new = Api!RowOf(c)
  OBVIOUS
<1>7. CASE r.op = "update"
  <2>1. Api!RowOf(c) = Api!EditedRow(r, row)
    BY <1>1, <1>7 DEF Api!RowOf
  <2>2. PICK path, payload : /\ path = Api!Given(r.path, row.path)
                             /\ payload = Api!Given(r.payload, row.payload)
    OBVIOUS
  <2>3. path \in Path /\ payload \in Payload
    BY <1>3, <1>6, <1>7, <2>2 DEF Api!Given
  <2>4. new = [row EXCEPT !.path = path, !.payload = payload, !.checksum = payload,
                         !.row_version = n, !.version = n]
    <3>1. /\ row.row_version + 1 = n /\ Api!Chosen(r.version, row.version + 1) = n
          /\ Api!Given(r.payload, row.checksum) = payload
      BY <1>4, <1>6, <1>7, <1>n, <2>2
    <3> QED BY <1>6, <1>7, <1>n, <2>1, <2>2, <3>1 DEF Api!EditedRow, Row
  <2>5. /\ new \in Row /\ new.version = row.version + 1
        /\ new.row_version = row.version + 1 /\ new.checksum = new.payload
    <3>1. row \in Row /\ n \in Nat /\ row.checksum = row.payload
      BY <1>6, <1>7, <1>n
    <3>2. new \in Row /\ new.version = n /\ new.row_version = n /\ new.checksum = new.payload
      BY <3>1, <2>3, <2>4 DEF Row
    <3> QED BY <1>n, <3>2
  <2> QED BY <1>1, <1>7, <1>n, <2>5 DEF Good
<1>8. CASE r.op = "delete"
  <2>1. new = [row EXCEPT !.version = n, !.row_version = n, !.status = "tombstone"]
    <3>1. Api!RowOf(c) = Api!TombstoneRow(row) /\ row.row_version + 1 = n
      BY <1>1, <1>6, <1>8, <1>n DEF Api!RowOf
    <3> QED BY <1>6, <1>8, <1>n, <3>1 DEF Api!TombstoneRow, Row
  <2>2. /\ new \in Row /\ new.version = row.version + 1
        /\ new.row_version = row.version + 1 /\ new.checksum = new.payload
    <3>1. row \in Row /\ n \in Nat /\ row.checksum = row.payload
      BY <1>6, <1>8, <1>n
    <3>2. new \in Row /\ new.version = n /\ new.row_version = n /\ new.checksum = new.payload
      BY <3>1, <2>1 DEF Row
    <3> QED BY <1>n, <3>2
  <2> QED BY <1>1, <1>8, <1>n, <2>2 DEF Good
<1>9. CASE r.op = "restore"
  <2>1. old \in Payload
    BY <1>1, <1>9, CallFacts DEF CallTyped
  <2>2. new = [row EXCEPT !.payload = old, !.checksum = old, !.version = n,
                         !.row_version = n, !.status = "active"]
    <3>1. Api!RowOf(c) = Api!RestoredRow(row, old) /\ row.row_version + 1 = n
      BY <1>1, <1>6, <1>9, <1>n DEF Api!RowOf
    <3> QED BY <1>6, <1>9, <1>n, <3>1 DEF Api!RestoredRow, Row
  <2>3. /\ new \in Row /\ new.version = row.version + 1
        /\ new.row_version = row.version + 1 /\ new.checksum = new.payload
    <3>1. row \in Row /\ n \in Nat /\ row.checksum = row.payload
      BY <1>6, <1>9, <1>n
    <3>2. new \in Row /\ new.version = n /\ new.row_version = n /\ new.checksum = new.payload
      BY <3>1, <2>1, <2>2 DEF Row
    <3> QED BY <1>n, <3>2
  <2> QED BY <1>1, <1>9, <1>n, <2>3 DEF Good
<1> QED BY <1>3, <1>5, <1>7, <1>8, <1>9 DEF Op

LEMMA BeginKeeps ==
  ASSUME ServerInv, NEW c \in Client, NEW r \in Requests, Api!Begin(c, r),
         UNCHANGED <<pushVars, cursor, seen>>
  PROVE  ServerInv' /\ Moves
<1>1. PICK pc : pc = IF r.op = "create" THEN "write" ELSE "read"
  OBVIOUS
<1>2. PICK k : k = [Api!NoCall EXCEPT !.req = r, !.pc = pc]
  OBVIOUS
<1>3. k \in Api!Call /\ k.pc = pc /\ k.req = r
  BY <1>1, <1>2 DEF Api!NoCall, Api!Call
<1>4. call' = [call EXCEPT ![c] = k] /\ call'[c] = k
  BY <1>1, <1>2, CallFacts DEF Api!Begin
<1>5. CallSound(c)'
  BY <1>1, <1>3, <1>4
     DEF CallSound, CallTyped, CallFollows, CallKept, Holding, Stored, Api!Req
<1>6. UNCHANGED <<tableVars, done, failed>> /\ calls' \in Nat
  BY CallFacts DEF Api!Begin, Api!tableVars, tableVars
<1> QED BY <1>3, <1>4, <1>5, <1>6, CallFacts, ApiQuiet

LEMMA ReadKeeps ==
  ASSUME ServerInv, NEW c \in Client, Api!Read(c), UNCHANGED <<pushVars, cursor, seen>>
  PROVE  ServerInv' /\ Moves
<1>1. PICK r, row : r = Api!Req(c) /\ row = db.items[r.item]
  OBVIOUS
<1>2. UNCHANGED <<tableVars, done, calls, failed>> /\ call[c].pc = "read"
  BY DEF Api!Read, Api!tableVars, tableVars
<1>3. CASE Api!End(c)
  BY <1>2, <1>3, CallFacts, ApiEnd
<1>4. CASE ~Api!End(c)
  <2>1. PICK pc : pc = CASE r.op = "restore" -> "find"
                         [] r.op = "delete" -> "save"
                         [] OTHER -> IF Api!NewPayload(r, row) THEN "save" ELSE "write"
    OBVIOUS
  <2>2. call' = [call EXCEPT ![c].row = row, ![c].pc = pc] /\ IsRow(row)
    BY <1>1, <1>4, <2>1, SameTables DEF Api!Read
  <2>3. /\ r \in Requests /\ r.op \in {"update", "delete", "restore"} /\ r.item \in Item
        /\ r.payload \in Payload \cup {None}
    <3>1. r \in Requests /\ r.op # "create"
      BY <1>1, <1>2, CallFacts DEF CallTyped
    <3> QED BY <1>1, <3>1, ReqType DEF Op
  <2>4. row \in Row /\ Good(row)
    BY <1>1, <2>2, <2>3, TablesFacts DEF IsRow
  <2>5. PICK k : k = [call[c] EXCEPT !.row = row, !.pc = pc]
    OBVIOUS
  <2>6. /\ pc \in {"find", "save", "write"} /\ (pc = "find" => r.op = "restore")
        /\ r.op = "restore" => pc = "find"
        /\ pc = "write" => r.op = "update" /\ ~Api!NewPayload(r, row)
    BY <2>1, <2>3
  <2>7. k \in Api!Call /\ k.pc = pc /\ k.req = r /\ k.row = row
    BY <1>1, <2>4, <2>5, <2>6, CallFacts, SameTables DEF Api!Call
  <2>8. call' = [call EXCEPT ![c] = k] /\ call'[c] = k
    BY <2>2, <2>5, CallFacts
  <2>9. Api!Req(c)' = r /\ Holding(c)' /\ ~Stored(c)'
    BY <2>3, <2>6, <2>7, <2>8 DEF Api!Req, Holding, Stored
  <2>10. CallTyped(c)'
    BY <2>3, <2>4, <2>6, <2>7, <2>8, <2>9 DEF CallTyped
  <2>11. CallFollows(c)'
    <3>1. row.version \in Nat /\ db' = db
      BY <1>2, <2>4 DEF Row, tableVars
    <3> QED BY <1>1, <2>2, <2>4, <2>7, <2>8, <2>9, <3>1 DEF CallFollows, Good
  <2>12. ASSUME pc = "write" PROVE Api!RowOf(c)'.payload = row.payload
    <3>1. Api!RowOf(c)' = Api!EditedRow(r, row)
      BY <2>6, <2>7, <2>8, <2>9, <2>12 DEF Api!RowOf
    <3>2. r.payload \in {None, row.payload}
      BY <2>2, <2>4, <2>6, <2>12 DEF Api!NewPayload, Good
    <3>3. Api!EditedRow(r, row).payload = Api!Given(r.payload, row.payload)
      BY <2>4 DEF Api!EditedRow, Row
    <3> QED BY <3>1, <3>2, <3>3 DEF Api!Given
  <2>13. CallKept(c)'
    BY <2>7, <2>8, <2>9, <2>12 DEF CallKept
  <2>14. CallSound(c)'
    BY <2>10, <2>11, <2>13 DEF CallSound
  <2> QED BY <1>2, <2>7, <2>8, <2>14, CallFacts, ApiQuiet
<1> QED BY <1>3, <1>4

LEMMA FindKeeps ==
  ASSUME ServerInv, NEW c \in Client, Api!Find(c), UNCHANGED <<pushVars, cursor, seen>>
  PROVE  ServerInv' /\ Moves
<1>1. PICK r : r = Api!Req(c)
  OBVIOUS
<1>2. UNCHANGED <<tableVars, done, calls, failed>> /\ call[c].pc = "find"
  BY DEF Api!Find, Api!tableVars, tableVars
<1>3. CASE Api!End(c)
  BY <1>2, <1>3, CallFacts, ApiEnd
<1>4. ASSUME NEW h \in db.history[r.item],
             call' = [call EXCEPT ![c].old = h.payload, ![c].pc = "save"]
      PROVE  ServerInv' /\ Moves
  <2>1. r \in Requests /\ r.op = "restore" /\ r.item \in Item
    BY <1>1, <1>2, CallFacts, ReqType DEF CallTyped
  <2>2. h.payload \in Payload
    BY <2>1, TablesFacts DEF HistoryEntry
  <2>3. PICK k : k = [call[c] EXCEPT !.old = h.payload, !.pc = "save"]
    OBVIOUS
  <2>4. k \in Api!Call /\ k.pc = "save" /\ k.req = r /\ k.row = call[c].row /\ k.old = h.payload
    BY <1>1, <2>2, <2>3, CallFacts DEF Api!Call
  <2>5. call' = [call EXCEPT ![c] = k] /\ call'[c] = k
    BY <1>4, <2>3, CallFacts
  <2>6. Api!Req(c)' = r /\ Holding(c)' /\ ~Stored(c)' /\ Holding(c) /\ db' = db
    BY <1>2, <2>1, <2>4, <2>5 DEF Api!Req, Holding, Stored, tableVars
  <2>7. CallSound(c)'
    BY <1>1, <2>1, <2>2, <2>4, <2>5, <2>6, CallFacts
       DEF CallSound, CallTyped, CallFollows, CallKept, Good
  <2> QED BY <1>2, <2>4, <2>5, <2>7, CallFacts, ApiQuiet
<1> QED BY <1>1, <1>3, <1>4 DEF Api!Find

\* The history INSERT and prune of a call: one item's history has grown.
LEMMA SaveTables ==
  ASSUME ServerInv, NEW i \in Item, NEW row \in Row, IsRow(db.items[i]),
         row.version <= db.items[i].version,
         row.version = db.items[i].version => row = db.items[i],
         db' = Merged(db, SaveHistory(db, NothingPending, i, row))
  PROVE  /\ db' \in Tables /\ db'.items = db.items /\ db'.changes = db.changes
         /\ TablesSound' /\ Moves
         /\ row = db.items[i] => InHistory(db'.history[i], row.version, row.payload)
<1>1. db \in Tables /\ NothingPending \in Pending
  BY TablesFacts, NothingPendingType
<1>2. PICK q : q = SaveHistory(db, NothingPending, i, row)
  OBVIOUS
<1>3. q \in Pending /\ q.rows = NothingPending.rows /\ q.changes = NothingPending.changes
  BY <1>1, <1>2, SaveHistoryType
<1>4. db' \in Tables
  BY <1>2, <1>3, <1>1, MergedType
<1>5. db'.items = db.items /\ db'.changes = db.changes
  <2>1. \A j \in Item : RowIn(db, q, j) = db.items[j]
    BY <1>3 DEF RowIn, IsRow, NothingPending
  <2>2. db.items \in [Item -> Row \cup {NoRow}] /\ [j \in Item |-> RowIn(db, q, j)] = db.items
    BY <1>1, <2>1 DEF Tables
  <2> QED BY <1>2, <1>3, <2>2 DEF Merged, ChangesIn, NothingPending
<1>6. \A j \in Item : HistoryIn(db, NothingPending, j) = db.history[j]
  BY DEF HistoryIn, NothingPending
<1>7. \A j \in Item : db'.history[j] = HistoryIn(db, q, j)
  BY <1>2 DEF Merged
<1>8. /\ db'.history[i] = SavedIn(db.history[i], row)
      /\ \A j \in Item \ {i} : db'.history[j] = db.history[j]
  <2>1. PICK t, p : t = db /\ p = NothingPending
    OBVIOUS
  <2>2. t \in Tables /\ p \in Pending /\ q = SaveHistory(t, p, i, row)
    BY <1>1, <1>2, <2>1
  <2>3. /\ HistoryIn(t, q, i) = SavedIn(HistoryIn(t, p, i), row)
        /\ \A j \in Item \ {i} : HistoryIn(t, q, j) = HistoryIn(t, p, j)
    BY <2>2, SaveSeen
  <2>4. HistoryIn(t, p, i) = db.history[i] /\ db'.history[i] = HistoryIn(t, q, i)
    BY <1>6, <1>7, <2>1
  <2>5. \A j \in Item \ {i} : db'.history[j] = db.history[j]
    BY <1>6, <1>7, <2>1, <2>3
  <2> QED BY <2>3, <2>4, <2>5
<1>9. PICK H, G, cur : H = db.history[i] /\ G = db'.history[i] /\ cur = db.items[i]
  OBVIOUS
<1>10. /\ H \in SUBSET HistoryEntry /\ IsFiniteSet(H) /\ cur \in Row /\ Keyed(cur, H)
       /\ row.version <= cur.version /\ (row.version = cur.version => row = cur)
       /\ G = SavedIn(H, row)
  BY <1>8, <1>9, TablesFacts DEF IsRow
<1>11. /\ IsFiniteSet(G) /\ Grows(H, G) /\ Keyed(cur, G)
       /\ row = cur => InHistory(G, row.version, row.payload)
  BY <1>10, SavedSound
<1>12. ASSUME NEW j \in Item
       PROVE  /\ IsFiniteSet(db'.history[j]) /\ Good(db'.items[j])
              /\ Keyed(db'.items[j], db'.history[j])
              /\ Grows(db.history[j], db'.history[j])
  <2>1. CASE j = i
    BY <1>5, <1>9, <1>11, <2>1, TablesFacts
  <2>2. CASE j # i
    BY <1>5, <1>8, <2>2, TablesFacts, GrowsSame
  <2> QED BY <2>1, <2>2
<1>13. TablesSound'
  BY <1>12 DEF TablesSound
<1>14. ASSUME NEW j \in Item, IsRow(db.items[j])
       PROVE  Kept(db'.items[j], db'.history[j], db.items[j].version, db.items[j].payload)
  <2>1. db.items[j].version \in Nat
    BY <1>14, TablesFacts DEF IsRow, Row
  <2> QED BY <1>5, <1>14, <2>1 DEF Kept
<1>15. Moves
  BY <1>5, <1>12, <1>14 DEF Moves, RowMoves
<1> QED BY <1>4, <1>5, <1>9, <1>11, <1>13, <1>15

LEMMA SaveKeeps ==
  ASSUME ServerInv, NEW c \in Client, Api!Save(c), UNCHANGED <<pushVars, cursor, seen>>
  PROVE  ServerInv' /\ Moves
<1>1. PICK r, i, row, pc : r = Api!Req(c) /\ i = r.item /\ row = call[c].row /\ pc = Api!Saved(c)
  OBVIOUS
<1>2. /\ call[c].pc = "save" /\ UNCHANGED <<nextSeq, pend, done, calls, failed>>
      /\ call' = [call EXCEPT ![c].pc = pc]
      /\ db' = Merged(db, SaveHistory(db, NothingPending, i, row))
  <2>1. db' = Api!Merged(db, Api!SaveHistory(db, Api!NothingPending, i, row))
    BY <1>1 DEF Api!Save
  <2>2. Api!SaveHistory(db, NothingPending, i, row) = SaveHistory(db, NothingPending, i, row)
    BY SameHistory
  <2>3. PICK q : q = SaveHistory(db, NothingPending, i, row)
    OBVIOUS
  <2>4. Api!Merged(db, q) = Merged(db, q)
    BY SameHistory
  <2> QED BY <1>1, <2>1, <2>2, <2>3, <2>4, SameTables DEF Api!Save, Api!Goto
<1>3. Holding(c) /\ r \in Requests /\ i \in Item /\ row \in Row /\ IsRow(db.items[i])
      /\ row.version <= db.items[i].version
      /\ (row.version = db.items[i].version => row = db.items[i])
  <2>1. Holding(c) /\ r \in Requests
    BY <1>1, <1>2, CallFacts DEF Holding, CallTyped
  <2> QED BY <1>1, <2>1, CallFacts, ReqType DEF CallTyped, CallFollows
<1>4. /\ db' \in Tables /\ db'.items = db.items /\ db'.changes = db.changes
      /\ TablesSound' /\ Moves
      /\ row = db.items[i] => InHistory(db'.history[i], row.version, row.payload)
  BY <1>2, <1>3, SaveTables
<1>5. PICK k : k = [call[c] EXCEPT !.pc = pc]
  OBVIOUS
<1>6. pc = IF r.op = "create" THEN "announce" ELSE "write"
  BY <1>1 DEF Api!Saved
<1>7. k \in Api!Call /\ k.pc = pc /\ k.req = r /\ k.row = row /\ k.old = call[c].old
  BY <1>1, <1>5, <1>6, CallFacts DEF Api!Call
<1>8. call' = [call EXCEPT ![c] = k] /\ call'[c] = k /\ \A d \in Client \ {c} : call'[d] = call[d]
  BY <1>2, <1>5, CallFacts
<1>9. Api!Req(c)' = r /\ Holding(c)' /\ (Stored(c)' <=> r.op = "create")
  BY <1>6, <1>7, <1>8 DEF Api!Req, Holding, Stored
<1>10. CallTyped(c)'
  BY <1>1, <1>2, <1>3, <1>6, <1>7, <1>8, <1>9, CallFacts DEF CallTyped
<1>11. CallFollows(c)'
  BY <1>1, <1>3, <1>4, <1>7, <1>8, <1>9, CallFacts DEF CallFollows, Good
<1>12. CallKept(c)'
  <2>1. ASSUME r.op # "create"
        PROVE  InHistory(db'.history[i], row.version, row.payload) \/ row.version < db'.items[i].version
    <3>1. row.version \in Nat /\ db.items[i].version \in Nat
      BY <1>3, TablesFacts DEF IsRow, Row
    <3> QED BY <1>3, <1>4, <3>1
  <2>2. ASSUME r.op = "create", failed' = 0
        PROVE  Kept(db'.items[i], db'.history[i], row.version, row.payload)
    <3>1. Kept(db.items[i], db.history[i], row.version, row.payload)
      BY <1>1, <1>2, <2>2, CallFacts DEF CallKept, Stored
    <3>2. PICK H, G, cur, v, p :
            /\ H = db.history[i] /\ G = db'.history[i] /\ cur = db.items[i]
            /\ v = row.version /\ p = row.payload
      OBVIOUS
    <3>3. /\ H \in SUBSET HistoryEntry /\ G \in SUBSET HistoryEntry /\ IsFiniteSet(G)
          /\ Grows(H, G) /\ cur \in Row \cup {NoRow} /\ v \in Nat /\ Kept(cur, H, v, p)
          /\ IsRow(cur) => Kept(cur, G, cur.version, cur.payload)
      BY <1>2, <1>3, <1>4, <2>2, <3>1, <3>2, TablesFacts DEF Tables, TablesSound, Moves, Row
    <3>4. Kept(cur, G, v, p)
      BY <3>3, KeptStays
    <3> QED BY <1>4, <3>2, <3>4
  <2> QED BY <1>1, <1>6, <1>7, <1>8, <1>9, <2>1, <2>2 DEF CallKept
<1>13. CallSound(c)'
  BY <1>10, <1>11, <1>12 DEF CallSound
<1>14. CallsTyped'
  BY <1>2, <1>7, <1>8 DEF ServerInv, CallsTyped
<1>15. nextSeq \in Nat \ {0} /\ \A d \in db.changes : d.seq < nextSeq
  BY DEF ServerInv, BasicInv, TypeOK, TablesTypeOK, SeqInv
<1> QED BY <1>2, <1>4, <1>8, <1>13, <1>14, <1>15, ApiKeeps

\* The INSERT, or the UPDATE whose row_version was found: the row of one item
\* is replaced, and what it held is in the history.
LEMMA StoreTables ==
  ASSUME CountedVersions, ServerInv, NEW c \in Client, call[c].pc = "write",
         Api!CurrentRow(c), UNCHANGED failed,
         db' = [db EXCEPT !.items[Api!Req(c).item] = Api!RowOf(c)]
  PROVE  /\ db' \in Tables /\ db'.changes = db.changes
         /\ db'.items[Api!Req(c).item] = Api!RowOf(c)
         /\ \A j \in Item \ {Api!Req(c).item} : db'.items[j] = db.items[j]
         /\ TablesSound' /\ Moves
<1>1. PICK r, i, row, new : r = Api!Req(c) /\ i = r.item /\ row = call[c].row /\ new = Api!RowOf(c)
  OBVIOUS
<1>2. r \in Requests /\ i \in Item
  BY <1>1, CallFacts, ReqType DEF CallTyped
<1>3. new \in Row /\ Good(new) /\ IsRow(new) /\ new.version \in Nat
      /\ (r.op = "create" => new.version = 1)
      /\ (r.op # "create" => new.version = row.version + 1)
  BY <1>1, RowOfFacts, NoRowAssumption DEF IsRow, Row
<1>4. /\ db \in Tables /\ db.items \in [Item -> Row \cup {NoRow}]
      /\ db.history \in [Item -> SUBSET HistoryEntry]
  BY TablesFacts DEF Tables
<1>5. /\ db' \in Tables /\ db'.changes = db.changes /\ db'.history = db.history
      /\ db'.items = [db.items EXCEPT ![i] = new]
  <2>1. [db.items EXCEPT ![i] = new] \in [Item -> Row \cup {NoRow}]
    BY <1>3, <1>4
  <2>2. PICK items : items = [db.items EXCEPT ![i] = new]
    OBVIOUS
  <2>3. db' = [db EXCEPT !.items = items]
    BY <1>1, <2>2
  <2> QED BY <1>4, <2>1, <2>2, <2>3 DEF Tables
<1>6. db'.items[i] = new /\ \A j \in Item \ {i} : db'.items[j] = db.items[j]
  BY <1>2, <1>4, <1>5
<1>7. PICK cur, H : cur = db.items[i] /\ H = db.history[i]
  OBVIOUS
<1>8. H \in SUBSET HistoryEntry /\ cur \in Row \cup {NoRow} /\ Good(cur) /\ Keyed(cur, H)
  BY <1>2, <1>7, TablesFacts
<1>9. /\ Keyed(new, H) /\ RowMoves(cur, new)
      /\ failed = 0 /\ IsRow(cur) => Kept(new, H, cur.version, cur.payload)
  <2>1. CASE r.op = "create"
    <3>1. ~IsRow(cur)
      BY <1>1, <1>7, <2>1, SameTables DEF Api!CurrentRow
    <3>2. H = {}
      BY <1>8, <3>1 DEF Keyed
    <3> QED BY <1>3, <3>1, <3>2 DEF Keyed, RowMoves
  <2>2. CASE r.op # "create"
    <3>1. Holding(c) /\ cur.row_version = row.row_version
      BY <1>1, <1>7, <2>2 DEF Holding, Api!CurrentRow
    <3>2. /\ row \in Row /\ Good(row) /\ IsRow(cur)
          /\ row.version = cur.version => row = cur
      BY <1>1, <1>7, <3>1, CallFacts DEF CallTyped, CallFollows
    <3>3. IsRow(row) /\ cur \in Row
      BY <1>8, <3>2, NoRowAssumption DEF IsRow
    <3>4. row.version = row.row_version /\ cur.version = cur.row_version
      BY <1>8, <3>2, <3>3 DEF Good
    <3>5. row = cur /\ cur.version \in Nat /\ new.version = cur.version + 1
      BY <1>3, <2>2, <3>1, <3>2, <3>3, <3>4 DEF Row
    <3>6. \A h \in H : h.version \in Nat /\ h.version <= cur.version
      BY <1>8, <3>2 DEF Keyed, HistoryEntry
    <3>7. Keyed(new, H)
      BY <1>3, <3>5, <3>6 DEF Keyed
    <3>8. ASSUME failed = 0 PROVE Kept(new, H, cur.version, cur.payload)
      <4>1. \/ InHistory(H, row.version, row.payload)
            \/ new.payload = row.payload
            \/ row.version < cur.version
        BY <1>1, <1>7, <2>2, <3>8, CallFacts DEF CallKept
      <4>2. CASE InHistory(H, row.version, row.payload)
        BY <3>5, <4>2 DEF Kept
      <4>3. CASE new.payload = row.payload
        BY <1>3, <3>5, <4>3 DEF Kept
      <4> QED BY <3>5, <4>1, <4>2, <4>3
    <3> QED BY <1>3, <3>5, <3>7, <3>8 DEF RowMoves
  <2> QED BY <2>1, <2>2
<1>10. TablesSound'
  <2> SUFFICES ASSUME NEW j \in Item
               PROVE  /\ IsFiniteSet(db'.history[j]) /\ Good(db'.items[j])
                      /\ Keyed(db'.items[j], db'.history[j])
    BY DEF TablesSound
  <2>1. CASE j = i
    BY <1>3, <1>5, <1>6, <1>7, <1>9, <2>1, TablesFacts
  <2>2. CASE j # i
    BY <1>5, <1>6, <2>2, TablesFacts
  <2> QED BY <2>1, <2>2
<1>11. Moves
  <2> SUFFICES ASSUME NEW j \in Item
               PROVE  /\ RowMoves(db.items[j], db'.items[j])
                      /\ failed = 0 /\ IsRow(db.items[j]) =>
                           Kept(db'.items[j], db'.history[j], db.items[j].version, db.items[j].payload)
    BY <1>5, GrowsSame DEF Moves
  <2>1. CASE j = i
    BY <1>5, <1>6, <1>7, <1>9, <2>1
  <2>2. CASE j # i
    <3>1. db'.items[j] = db.items[j] /\ (IsRow(db.items[j]) => db.items[j].version \in Nat)
      BY <1>4, <1>6, <2>2 DEF IsRow, Row
    <3> QED BY <3>1 DEF RowMoves, Kept
  <2> QED BY <2>1, <2>2
<1> QED BY <1>1, <1>5, <1>6, <1>10, <1>11

LEMMA WriteKeeps ==
  ASSUME CountedVersions, ServerInv, NEW c \in Client, Api!Write(c),
         UNCHANGED <<pushVars, cursor, seen>>
  PROVE  ServerInv' /\ Moves
<1>1. PICK r, i, new : r = Api!Req(c) /\ i = r.item /\ new = Api!RowOf(c)
  OBVIOUS
<1>2. UNCHANGED <<nextSeq, pend, done, calls, failed>> /\ call[c].pc = "write"
  BY DEF Api!Write
<1>3. CASE Api!End(c) /\ UNCHANGED db
  BY <1>2, <1>3, CallFacts, ApiEnd DEF tableVars
<1>4. CASE ~(Api!End(c) /\ UNCHANGED db)
  <2>1. PICK pc : pc = IF r.op = "create" THEN "save" ELSE "announce"
    OBVIOUS
  <2>2. /\ db' = [db EXCEPT !.items[i] = new] /\ Api!CurrentRow(c)
        /\ call' = [call EXCEPT ![c].row = new, ![c].pc = pc]
    BY <1>1, <1>4, <2>1 DEF Api!Write
  <2>3. r \in Requests /\ i \in Item /\ new \in Row /\ Good(new) /\ IsRow(new) /\ new.version \in Nat
    <3>1. r \in Requests
      BY <1>1, <1>2, CallFacts DEF CallTyped
    <3>2. i \in Item
      BY <1>1, <3>1, ReqType
    <3>3. new \in Row /\ Good(new)
      BY <1>1, <1>2, RowOfFacts
    <3> QED BY <3>1, <3>2, <3>3, NoRowAssumption DEF IsRow, Row
  <2>4. /\ db' \in Tables /\ db'.changes = db.changes /\ db'.items[i] = new
        /\ \A j \in Item \ {i} : db'.items[j] = db.items[j]
        /\ TablesSound' /\ Moves
    BY <1>1, <1>2, <2>2, StoreTables
  <2>5. ASSUME NEW t \in Session, NEW j \in Item, IsRow(pend[t].rows[j])
        PROVE  db'.items[j] = db.items[j]
    <3>1. c # t
      BY ServerAssumption
    <3>2. ~Api!RowHeldBy(c, t, i)
      BY <1>1 DEF Api!Write
    <3>3. ~IsRow(pend[t].rows[i])
      BY <3>1, <3>2, SameTables DEF Api!RowHeldBy
    <3> QED BY <2>4, <2>5, <3>3
  <2>6. PICK k : k = [call[c] EXCEPT !.row = new, !.pc = pc]
    OBVIOUS
  <2>7. k \in Api!Call /\ k.pc = pc /\ k.req = r /\ k.row = new
    BY <1>1, <2>1, <2>3, <2>6, CallFacts, SameTables DEF Api!Call
  <2>8. call' = [call EXCEPT ![c] = k] /\ call'[c] = k /\ \A d \in Client \ {c} : call'[d] = call[d]
    BY <2>2, <2>6, CallFacts
  <2>9. Api!Req(c)' = r /\ Holding(c)' /\ Stored(c)' /\ k.pc # "write" /\ k.pc # "find"
        /\ k.pc # "read" /\ (k.pc = "save" => r.op = "create")
    BY <2>1, <2>7, <2>8 DEF Api!Req, Holding, Stored
  <2>10. CallTyped(c)'
    BY <2>3, <2>7, <2>8, <2>9 DEF CallTyped
  <2>11. CallFollows(c)'
    BY <1>1, <2>3, <2>4, <2>7, <2>8, <2>9 DEF CallFollows, Good
  <2>12. CallKept(c)'
    <3>1. Kept(new, db'.history[i], new.version, new.payload)
      BY <2>3 DEF Kept
    <3> QED BY <1>1, <2>4, <2>7, <2>8, <2>9, <3>1 DEF CallKept
  <2>13. CallSound(c)'
    BY <2>10, <2>11, <2>12 DEF CallSound
  <2>14. CallsTyped'
    BY <1>2, <2>7, <2>8 DEF ServerInv, CallsTyped
  <2>15. nextSeq \in Nat \ {0} /\ \A d \in db.changes : d.seq < nextSeq
    BY DEF ServerInv, BasicInv, TypeOK, TablesTypeOK, SeqInv
  <2> QED BY <1>2, <2>4, <2>5, <2>8, <2>13, <2>14, <2>15, ApiKeeps
<1> QED BY <1>3, <1>4

\* An answered call: what it was acknowledged for is kept.
LEMMA AnswerKept ==
  ASSUME ServerInv, NEW c \in Client, call[c].pc = "announce", Api!Answer(c),
         db'.items = db.items, db'.history = db.history
  PROVE  /\ call' = [call EXCEPT ![c] = Api!NoCall] /\ Api!NoCall \in Api!Call
         /\ \A d \in Client \ {c} : call'[d] = call[d]
         /\ CallSound(c)'
         /\ \A w \in done' : w.item \in Item /\ w.version \in Nat
         /\ failed = 0 => \A w \in done' \ done :
              Kept(db'.items[w.item], db'.history[w.item], w.version, w.payload)
         /\ call[c].row \in Row /\ Api!Req(c) \in Requests /\ Api!Req(c).item \in Item
<1>1. PICK i, row, n : i = Api!Req(c).item /\ row = call[c].row /\ n = row.row_version - 1
  OBVIOUS
<1>2. Holding(c) /\ Stored(c)
  BY DEF Holding, Stored
<1>3. row \in Row /\ Api!Req(c) \in Requests /\ i \in Item /\ row.version \in Nat
  <2>1. row \in Row /\ Api!Req(c) \in Requests
    BY <1>1, <1>2, CallFacts DEF CallTyped
  <2> QED BY <1>1, <2>1, ReqType DEF Row
<1>4. failed = 0 => Kept(db.items[i], db.history[i], row.version, row.payload)
  BY <1>1, <1>2, CallFacts DEF CallKept
<1>5. PICK x : x = [item |-> i, replaced |-> n, version |-> row.version, payload |-> row.payload]
  OBVIOUS
<1>6. done' = done \cup {x} /\ x.item = i /\ x.version = row.version /\ x.payload = row.payload
  BY <1>1, <1>5 DEF Api!Answer
<1>7. \A w \in done : w.item \in Item /\ w.version \in Nat
  BY DEF ServerInv, CallsTyped
<1>8. Api!NoCall \in Api!Call
  BY DEF Api!NoCall, Api!Call
<1>9. call' = [call EXCEPT ![c] = Api!NoCall] /\ call'[c].pc = "idle"
      /\ \A d \in Client \ {c} : call'[d] = call[d]
  BY CallFacts DEF Api!Answer, Api!End, Api!NoCall
<1>10. CallSound(c)'
  BY <1>9 DEF CallSound, CallTyped, CallFollows, CallKept, Holding, Stored
<1> QED BY <1>1, <1>3, <1>4, <1>6, <1>7, <1>8, <1>9, <1>10

LEMMA AnnounceKeeps ==
  ASSUME ServerInv, NEW c \in Client, Api!Announce(c), UNCHANGED <<pushVars, cursor, seen>>
  PROVE  ServerInv' /\ Moves
<1>1. PICK e : e = [seq |-> nextSeq, item |-> Api!Req(c).item, op |-> Api!FeedOpOf(Api!Req(c).op),
                    version |-> call[c].row.version]
  OBVIOUS
<1>2. /\ UNCHANGED <<pend, calls, failed>> /\ call[c].pc = "announce" /\ nextSeq' = nextSeq + 1
      /\ Api!Answer(c) /\ db' = [db EXCEPT !.changes = db.changes \cup {e}]
  BY <1>1 DEF Api!Announce
<1>3. db \in Tables /\ nextSeq \in Nat \ {0} /\ \A d \in db.changes : d.seq < nextSeq
  BY DEF ServerInv, BasicInv, TypeOK, TablesTypeOK, SeqInv
<1>4. db'.items = db.items /\ db'.history = db.history /\ db'.changes = db.changes \cup {e}
  BY <1>2, <1>3 DEF Tables
<1>5. /\ call' = [call EXCEPT ![c] = Api!NoCall] /\ Api!NoCall \in Api!Call
      /\ \A d \in Client \ {c} : call'[d] = call[d]
      /\ CallSound(c)'
      /\ \A w \in done' : w.item \in Item /\ w.version \in Nat
      /\ failed = 0 => \A w \in done' \ done :
           Kept(db'.items[w.item], db'.history[w.item], w.version, w.payload)
      /\ call[c].row \in Row /\ Api!Req(c) \in Requests /\ Api!Req(c).item \in Item
  BY <1>2, <1>4, AnswerKept
<1>6. e \in ChangeEntry /\ e.seq = nextSeq
  <2>1. Api!FeedOpOf(Api!Req(c).op) \in FeedOp
    BY <1>5, ReqType DEF Api!FeedOpOf, FeedOp, Op
  <2> QED BY <1>1, <1>3, <1>5, <2>1 DEF ChangeEntry, Row
<1>7. db' \in Tables
  <2>1. db.changes \cup {e} \in SUBSET ChangeEntry
    BY <1>3, <1>6 DEF Tables
  <2> QED BY <1>2, <1>3, <2>1 DEF Tables
<1>8. \A d \in db'.changes : d.seq < nextSeq'
  <2>1. \A d \in db.changes : d.seq \in Nat
    BY <1>3 DEF Tables, ChangeEntry
  <2> QED BY <1>2, <1>3, <1>4, <1>6, <2>1
<1>9. TablesSound' /\ Moves
  <2>1. TablesSound
    BY DEF ServerInv
  <2> QED BY <1>4, <2>1, QuietMoves DEF TablesSound
<1>10. CallsTyped'
  BY <1>2, <1>5 DEF ServerInv, CallsTyped
<1>11. nextSeq' \in Nat \ {0} /\ nextSeq <= nextSeq'
  BY <1>2, <1>3
<1> QED BY <1>2, <1>4, <1>5, <1>7, <1>8, <1>9, <1>10, <1>11, ApiKeeps

LEMMA LoggedErrorKeeps ==
  ASSUME ServerInv, NEW c \in Client, Api!LoggedError(c), UNCHANGED <<pushVars, cursor, seen>>
  PROVE  ServerInv' /\ Moves
<1>1. UNCHANGED <<tableVars, calls>> /\ failed' = failed + 1 /\ failed \in Nat /\ calls \in Nat
  BY CallFacts DEF Api!LoggedError, Api!Fault, Api!tableVars, tableVars
<1>2. failed' \in Nat /\ failed' # 0
  BY <1>1
<1>3. CASE call[c].pc = "save" /\ Api!Goto(c, Api!Saved(c)) /\ UNCHANGED done
  <2>1. PICK r, pc, k : /\ r = Api!Req(c) /\ pc = Api!Saved(c)
                        /\ k = [call[c] EXCEPT !.pc = pc]
    OBVIOUS
  <2>2. pc = IF r.op = "create" THEN "announce" ELSE "write"
    BY <2>1 DEF Api!Saved
  <2>3. /\ k \in Api!Call /\ k.pc = pc /\ k.req = r /\ k.row = call[c].row
        /\ k.old = call[c].old
    BY <2>1, <2>2, CallFacts DEF Api!Call
  <2>4. call' = [call EXCEPT ![c] = k] /\ call'[c] = k
    BY <1>3, <2>1, CallFacts DEF Api!Goto
  <2>5. Api!Req(c)' = r /\ Holding(c)' /\ Holding(c) /\ db' = db
    BY <1>1, <1>3, <2>2, <2>3, <2>4 DEF Api!Req, Holding, tableVars
  <2>6. CallTyped(c)'
    BY <1>3, <2>1, <2>2, <2>3, <2>4, <2>5, CallFacts DEF CallTyped
  <2>7. CallFollows(c)'
    BY <2>1, <2>3, <2>4, <2>5, CallFacts DEF CallFollows, Good
  <2>8. CallSound(c)'
    BY <1>2, <2>6, <2>7 DEF CallSound, CallKept
  <2> QED BY <1>1, <1>2, <1>3, <2>3, <2>4, <2>8, ApiQuiet
<1>4. CASE call[c].pc = "announce" /\ Api!Answer(c)
  <2>1. UNCHANGED <<db, nextSeq, pend>>
    BY <1>1 DEF tableVars
  <2>2. /\ call' = [call EXCEPT ![c] = Api!NoCall] /\ Api!NoCall \in Api!Call
        /\ \A d \in Client \ {c} : call'[d] = call[d]
        /\ CallSound(c)'
        /\ \A w \in done' : w.item \in Item /\ w.version \in Nat
    BY <1>4, <2>1, AnswerKept
  <2>3. db \in Tables /\ nextSeq \in Nat \ {0} /\ (\A d \in db.changes : d.seq < nextSeq)
        /\ TablesSound
    BY DEF ServerInv, BasicInv, TypeOK, TablesTypeOK, SeqInv
  <2>4. TablesSound' /\ Moves
    BY <2>1, <2>3, QuietMoves DEF TablesSound
  <2>5. CallsTyped'
    BY <1>1, <1>2, <2>2 DEF ServerInv, CallsTyped
  <2> QED BY <1>2, <2>1, <2>2, <2>3, <2>4, <2>5, ApiKeeps
<1> QED BY <1>3, <1>4 DEF Api!LoggedError

LEMMA DieKeeps ==
  ASSUME ServerInv, NEW c \in Client, Api!Die(c), UNCHANGED <<pushVars, cursor, seen>>
  PROVE  ServerInv' /\ Moves
<1>1. UNCHANGED <<tableVars, done, calls>> /\ failed' = failed + 1 /\ Api!End(c)
      /\ failed \in Nat /\ calls \in Nat
  BY CallFacts DEF Api!Die, Api!Fault, Api!tableVars, tableVars
<1> QED BY <1>1, ApiEnd

LEMMA ApiStep ==
  ASSUME CountedVersions, ServerInv, Api!Next, UNCHANGED <<pushVars, cursor, seen>>
  PROVE  ServerInv' /\ Moves
BY BeginKeeps, ReadKeeps, FindKeeps, SaveKeeps, WriteKeeps, AnnounceKeeps, LoggedErrorKeeps,
   DieKeeps DEF Api!Next, Api!CallStep

-----------------------------------------------------------------------------
(* A step of a push *)

\* A push leaves the calls alone: it is enough to look at the tables and at
\* its own transaction.
LEMMA PushKeeps ==
  ASSUME ServerInv, BasicInv', StayInv', UNCHANGED <<call, done, calls, failed>>,
         TablesSound', Moves, NEW s \in Session, OthersKeep(s),
         \A t \in Session \ {s} : \A i \in Item :
           IsRow(pend[t].rows[i]) => db'.items[i] = db.items[i],
         LockInv', PushSound(s)'
  PROVE  ServerInv' /\ Moves
<1>1. db' \in Tables
  BY DEF BasicInv, TypeOK, TablesTypeOK
<1>2. CallsTyped'
  BY DEF ServerInv, CallsTyped
<1>3. PushesSound'
  <2>1. ASSUME NEW t \in Session, t # s PROVE PushSound(t)'
    <3>1. /\ tx'[t] = tx[t] /\ pend'[t] = pend[t] /\ snap'[t] = snap[t]
          /\ \A i \in Item : IsRow(pend[t].rows[i]) => db'.items[i] = db.items[i]
      BY <2>1 DEF OthersKeep
    <3> QED BY <1>1, <3>1, PushStays
  <2> QED BY <2>1 DEF PushesSound
<1>4. CallsSound'
  <2>1. \A c \in Client : CallSound(c)'
    BY <1>1, CallStays
  <2> QED BY <2>1 DEF CallsSound, CallSound
<1>5. DoneKept'
  <2>1. \A w \in done' : w.item \in Item /\ w.version \in Nat
    BY <1>2 DEF CallsTyped
  <2>2. done' = done /\ failed' = failed
    OBVIOUS
  <2> QED BY <1>1, <2>1, <2>2, DoneStays
<1> QED BY <1>2, <1>3, <1>4, <1>5 DEF ServerInv

\* The same when the committed tables stay as they are.
LEMMA PushQuiet ==
  ASSUME ServerInv, BasicInv', StayInv', UNCHANGED <<call, done, calls, failed>>,
         db' = db, NEW s \in Session, OthersKeep(s), LockInv', PushSound(s)'
  PROVE  ServerInv' /\ Moves
<1>1. Moves
  BY QuietMoves
<1>2. TablesSound'
  BY DEF ServerInv, TablesSound
<1> QED BY <1>1, <1>2, PushKeeps

\* Nothing is locked by a push that has nothing pending.
LEMMA NothingLocked ==
  ASSUME ServerInv, NEW s \in Session, OthersKeep(s), pend'[s] = NothingPending
  PROVE  LockInv'
<1>1. \A i \in Item : ~IsRow(pend'[s].rows[i])
  BY DEF NothingPending, IsRow
<1> QED BY <1>1 DEF OthersKeep, ServerInv, PushesSound, LockInv

LEMMA PushOver ==
  ASSUME ServerInv, BasicInv', StayInv', UNCHANGED <<call, done, calls, failed>>,
         NEW s \in Session, Dropped(s) \/ Respond(s)
  PROVE  ServerInv' /\ Moves
<1>1. tx'[s].pc = "idle" /\ pend'[s] = NothingPending /\ db' = db /\ OthersKeep(s)
  BY DEF Dropped, Respond, OthersKeep, Idle, tableVars, ServerInv, BasicInv, TypeOK,
         ProgressInv, Progress
<1>2. PushSound(s)'
  BY <1>1 DEF PushSound, Open
<1> QED BY <1>1, <1>2, NothingLocked, PushQuiet

LEMMA PushStarts ==
  ASSUME ServerInv, BasicInv', StayInv', UNCHANGED <<call, done, calls, failed>>,
         Isolation = "repeatable_read", NEW s \in Session, Started(s)
  PROVE  ServerInv' /\ Moves
<1>1. /\ tx'[s].pc = "max_seq" /\ pend'[s] = NothingPending /\ db' = db /\ snap'[s] = db
      /\ OthersKeep(s)
  BY DEF Started, tableVars
<1>2. ASSUME NEW i \in Item PROVE PushedItem(s, i)'
  <2>1. /\ pend'[s].rows[i] = NoRow /\ pend'[s].added[i] = {} /\ pend'[s].pruned[i] = {}
    BY <1>1 DEF NothingPending
  <2>2. RowIn(db, pend'[s], i) = db.items[i] /\ HistoryIn(db, pend'[s], i) = db.history[i]
    BY <2>1 DEF RowIn, HistoryIn, IsRow
  <2>3. /\ IsFiniteSet(db.history[i]) /\ Good(db.items[i]) /\ Keyed(db.items[i], db.history[i])
        /\ Good(NoRow) /\ ~IsRow(NoRow)
    BY TablesFacts DEF Good, IsRow
  <2>4. Grows(db.history[i], db.history[i])
    BY GrowsSame
  <2>5. IsFiniteSet({})
    BY FS_EmptySet
  <2> QED BY <1>1, <2>1, <2>2, <2>3, <2>4, <2>5 DEF PushedItem, Seen
<1>3. PushSound(s)'
  BY <1>1, <1>2, TablesFacts DEF PushSound
<1> QED BY <1>1, <1>3, NothingLocked, PushQuiet

\* A statement that reads: the row a push goes on with is the one its
\* snapshot and its own writes show.
Reads(s) ==
  /\ OthersKeep(s) /\ UNCHANGED <<db, pend, snap>>
  /\ Open(s)
  /\ tx'[s].pc \in {"path", "write"} =>
       tx'[s].row = RowIn(snap[s], pend[s], Cur(s).item) /\ Cur(s)' = Cur(s)

LEMMA PushReads ==
  ASSUME ServerInv, Isolation = "repeatable_read", NEW s \in Session,
         ReadMaxSeq(s) \/ ReadRow(s) \/ CheckPath(s)
  PROVE  Reads(s) \/ Abort(s)
<1>1. tx \in [Session -> Push] /\ tx[s] \in Push
  BY DEF ServerInv, BasicInv, TypeOK
<1>2. ASSUME tx[s].pc \in {"max_seq", "row", "path"}, Conflict(s), Reading PROVE Reads(s)
  <2>1. PICK t : t = [NextChange(tx[s]) EXCEPT !.conflicts = tx[s].conflicts \cup {tx[s].i}]
    OBVIOUS
  <2>2. t.pc \in {"finish", "max_seq"}
    BY <1>1, <2>1, NextChangeType DEF Push
  <2>3. tx' = [tx EXCEPT ![s] = t]
    BY <1>2, <2>1 DEF Conflict
  <2> QED BY <1>1, <1>2, <2>2, <2>3 DEF Reads, Reading, tableVars, OthersKeep, Open
<1>3. ASSUME tx[s].pc = "max_seq", Goto(s, "row"), Reading PROVE Reads(s)
  <2>1. tx'[s].pc = "row"
    BY <1>1, <1>3 DEF Goto, Push
  <2> QED BY <1>1, <1>3, <2>1 DEF Reads, Reading, tableVars, OthersKeep, Open, Goto
<1>4. ASSUME tx[s].pc = "row", Reading, NEW pc \in {"path", "write"},
             tx' = [tx EXCEPT ![s].row = RowSeen(s), ![s].pc = pc]
      PROVE  Reads(s)
  <2>1. tx'[s].pc = pc /\ tx'[s].row = RowSeen(s) /\ tx'[s].batch = tx[s].batch
        /\ tx'[s].i = tx[s].i
    BY <1>1, <1>4 DEF Push
  <2>2. Cur(s)' = Cur(s) /\ RowSeen(s) = RowIn(snap[s], pend[s], Cur(s).item)
    BY <2>1 DEF Cur, RowSeen, View
  <2> QED BY <1>1, <1>4, <2>1, <2>2 DEF Reads, Reading, tableVars, OthersKeep, Open
<1>5. ASSUME tx[s].pc = "path", Goto(s, "write"), Reading PROVE Reads(s)
  <2>1. tx'[s].pc = "write" /\ tx'[s].row = tx[s].row /\ tx'[s].batch = tx[s].batch
        /\ tx'[s].i = tx[s].i
    BY <1>1, <1>5 DEF Goto, Push
  <2>2. Cur(s)' = Cur(s) /\ tx[s].row = RowIn(snap[s], pend[s], Cur(s).item)
    BY <1>5, <2>1 DEF Cur, ServerInv, PushesSound, PushSound, Open
  <2> QED BY <1>1, <1>5, <2>1, <2>2 DEF Reads, Reading, tableVars, OthersKeep, Open, Goto
<1>6. CASE ReadMaxSeq(s)
  BY <1>2, <1>3, <1>6 DEF ReadMaxSeq
<1>7. CASE ReadRow(s)
  BY <1>2, <1>4, <1>7 DEF ReadRow
<1>8. CASE CheckPath(s)
  BY <1>2, <1>5, <1>8 DEF CheckPath
<1> QED BY <1>6, <1>7, <1>8

LEMMA ReadsKeep ==
  ASSUME ServerInv, BasicInv', StayInv', UNCHANGED <<call, done, calls, failed>>,
         NEW s \in Session, Reads(s)
  PROVE  ServerInv' /\ Moves
<1>1. PushSound(s) /\ Open(s)
  BY DEF ServerInv, PushesSound, Reads
<1>2. \A i \in Item : PushedItem(s, i)'
  BY <1>1 DEF PushSound, PushedItem, Seen, RowIn, HistoryIn, Reads
<1>3. PushSound(s)'
  BY <1>1, <1>2 DEF PushSound, Reads, RowIn
<1>4. LockInv'
  BY DEF ServerInv, PushesSound, LockInv, Reads
<1> QED BY <1>3, <1>4, PushQuiet DEF Reads

LEMMA AnnouncesKeep ==
  ASSUME ServerInv, BasicInv', StayInv', UNCHANGED <<call, done, calls, failed>>,
         NEW s \in Session, InsertChange(s)
  PROVE  ServerInv' /\ Moves
<1>1. BasicInv /\ pend \in [Session -> Pending] /\ pend[s] \in Pending
  BY DEF ServerInv, BasicInv, TypeOK, TablesTypeOK
<1>2. /\ OthersKeep(s) /\ db' = db /\ snap' = snap /\ pend'[s].rows = pend[s].rows
      /\ tx'[s].pc \in {"finish", "max_seq"}
  BY <1>1, InsertChangeEffect DEF OthersKeep
<1>3. pend'[s].added = pend[s].added /\ pend'[s].pruned = pend[s].pruned
  <2>1. PICK chs : pend' = [pend EXCEPT ![s].changes = chs]
    BY DEF InsertChange
  <2> QED BY <1>1, <2>1 DEF Pending
<1>4. PushSound(s) /\ Open(s)
  BY DEF ServerInv, PushesSound, InsertChange, Open
<1>5. \A i \in Item : PushedItem(s, i)'
  BY <1>2, <1>3, <1>4 DEF PushSound, PushedItem, Seen, RowIn, HistoryIn
<1>6. PushSound(s)'
  BY <1>2, <1>4, <1>5 DEF PushSound
<1>7. LockInv'
  BY <1>2 DEF ServerInv, PushesSound, LockInv, OthersKeep
<1> QED BY <1>2, <1>6, <1>7, PushQuiet

\* The row a push writes over the one it has read: both counters go up, the
\* checksum belongs to the payload, and a payload that is replaced has been
\* saved before.
LEMMA NewRowGood ==
  ASSUME NEW c \in Change, c.checksum = c.payload, NEW row \in Row \cup {NoRow}, Good(row),
         IF c.op = "create" THEN ~Incomplete(c) ELSE IsRow(row)
  PROVE  /\ Good(NewRow(c, row, row))
         /\ c.op # "create" => /\ NewRow(c, row, row).version = row.version + 1
                               /\ ~KeepsHistory(c, row) => NewRow(c, row, row).payload = row.payload
<1>1. CASE c.op = "create"
  BY <1>1 DEF NewRow, CreatedRow, Good
<1>2. CASE c.op # "create"
  <2>1. row \in Row /\ row.version = row.row_version /\ row.checksum = row.payload
    BY <1>2 DEF IsRow, Good
  <2>2. CASE c.op = "delete"
    <3>1. NewRow(c, row, row) = DeletedRow(row, row) /\ KeepsHistory(c, row)
      BY <1>2, <2>2 DEF NewRow, KeepsHistory
    <3>2. /\ DeletedRow(row, row).version = row.version + 1
          /\ DeletedRow(row, row).row_version = row.row_version + 1
          /\ DeletedRow(row, row).checksum = row.checksum
          /\ DeletedRow(row, row).payload = row.payload
      BY <2>1 DEF DeletedRow, Row
    <3> QED BY <2>1, <3>1, <3>2 DEF Good
  <2>3. CASE c.op # "delete"
    <3>1. NewRow(c, row, row) = UpdatedRow(c, row, row)
      BY <1>2, <2>3 DEF NewRow
    <3>2. /\ UpdatedRow(c, row, row).version = row.version + 1
          /\ UpdatedRow(c, row, row).row_version = row.row_version + 1
          /\ UpdatedRow(c, row, row).checksum = Given(c.checksum, row.checksum)
          /\ UpdatedRow(c, row, row).payload = Given(c.payload, row.payload)
      BY DEF UpdatedRow
    <3>3. Given(c.checksum, row.checksum) = Given(c.payload, row.payload)
      BY <2>1 DEF Given
    <3>4. ~KeepsHistory(c, row) => Given(c.payload, row.payload) = row.payload
      <4>1. c.op \in {"update", "restore"}
        BY <1>2, <2>3 DEF Change, Op
      <4> QED BY <2>1, <4>1 DEF KeepsHistory, PayloadChanged, Given
    <3> QED BY <2>1, <3>1, <3>2, <3>3, <3>4 DEF Good
  <2> QED BY <2>2, <2>3
<1> QED BY <1>1, <1>2

\* The row read is saved in the transaction, and what is cut for it is below
\* enough newer versions.
LEMMA PushSaves ==
  ASSUME NEW t \in Tables, NEW p \in Pending, NEW i \in Item, NEW row \in Row,
         NEW H, H = HistoryIn(t, p, i), IsFiniteSet(t.history[i]), IsFiniteSet(p.added[i]),
         Keyed(row, H), \A e \in p.pruned[i] : Lost(H, e.version),
         NEW q, q = SaveHistory(t, p, i, row), NEW G, G = HistoryIn(t, q, i)
  PROVE  /\ IsFiniteSet(q.added[i])
         /\ G \in SUBSET HistoryEntry /\ IsFiniteSet(G) /\ Grows(H, G) /\ Keyed(row, G)
         /\ InHistory(G, row.version, row.payload)
         /\ \A e \in q.pruned[i] : Lost(G, e.version)
<1>1. H \in SUBSET HistoryEntry /\ IsFiniteSet(H) /\ p.pruned[i] \in SUBSET HistoryEntry
  <2>1. t.history[i] \in SUBSET HistoryEntry /\ p.added[i] \in SUBSET HistoryEntry
        /\ p.pruned[i] \in SUBSET HistoryEntry
    BY DEF Tables, Pending
  <2>2. IsFiniteSet(t.history[i] \cup p.added[i])
    BY FS_Union
  <2>3. H \subseteq t.history[i] \cup p.added[i]
    BY DEF HistoryIn
  <2> QED BY <2>1, <2>2, <2>3, FS_Subset
<1>2. PICK new : new = NewEntry(H, row)
  OBVIOUS
<1>3. PICK cut : cut = Excess(H \cup new)
  OBVIOUS
<1>4. new \in SUBSET HistoryEntry /\ IsFiniteSet(new)
  <2>1. [version |-> row.version, payload |-> row.payload] \in HistoryEntry
    BY DEF Row, HistoryEntry
  <2>2. IsFiniteSet({}) /\ IsFiniteSet({[version |-> row.version, payload |-> row.payload]})
    BY FS_EmptySet, FS_Singleton
  <2> QED BY <1>2, <2>1, <2>2 DEF NewEntry
<1>5. q.added[i] = (p.added[i] \cup new) \ cut /\ q.pruned[i] = p.pruned[i] \cup cut
  BY <1>2, <1>3, SaveEffect
<1>6. G = SavedIn(H, row) /\ G = (H \cup new) \ cut
  <2>1. G = SavedIn(H, row)
    BY SaveSeen
  <2> QED BY <1>2, <1>3, <2>1 DEF SavedIn
<1>7. IsFiniteSet(q.added[i])
  <2>1. IsFiniteSet(p.added[i] \cup new)
    BY <1>4, FS_Union
  <2> QED BY <1>5, <2>1, FS_Subset
<1>8. /\ G \in SUBSET HistoryEntry /\ IsFiniteSet(G) /\ Grows(H, G) /\ Keyed(row, G)
      /\ InHistory(G, row.version, row.payload)
  <2>1. row.version <= row.version
    BY DEF Row
  <2> QED BY <1>1, <1>6, <2>1, SavedSound
<1>9. \A h \in H \cup new : h \in G \/ Lost(G, h.version)
  BY <1>1, <1>3, <1>4, <1>6, SavedGrows
<1>10. ASSUME NEW e \in q.pruned[i] PROVE Lost(G, e.version)
  <2>1. CASE e \in p.pruned[i]
    <3>1. e.version \in Nat /\ Lost(H, e.version)
      BY <1>1, <2>1 DEF HistoryEntry
    <3> QED BY <1>8, <3>1 DEF Grows
  <2>2. CASE e \in cut
    <3>1. e \in H \cup new /\ e \notin G
      BY <1>3, <1>6, <2>2 DEF Excess
    <3> QED BY <1>9, <3>1
  <2> QED BY <1>5, <2>1, <2>2
<1> QED BY <1>7, <1>8, <1>10

\* What the write leaves in the transaction's history of the item, whether it
\* saves the row it has read or has nothing to save.
LEMMA PushedHistory ==
  ASSUME NEW t \in Tables, NEW p \in Pending, NEW i \in Item, NEW c \in Change,
         NEW row \in Row \cup {NoRow}, NEW new \in Row, NEW H, H = HistoryIn(t, p, i),
         IsFiniteSet(t.history[i]), IsFiniteSet(p.added[i]),
         Keyed(row, H), \A e \in p.pruned[i] : Lost(H, e.version),
         IF c.op = "create" THEN ~IsRow(row) ELSE IsRow(row),
         IsRow(row) => /\ new.version = row.version + 1
                       /\ ~KeepsHistory(c, row) => new.payload = row.payload,
         NEW q, q = IF KeepsHistory(c, row) THEN SaveHistory(t, p, i, row) ELSE p,
         NEW G, G = HistoryIn(t, q, i)
  PROVE  /\ IsFiniteSet(q.added[i])
         /\ G \in SUBSET HistoryEntry /\ IsFiniteSet(G) /\ Grows(H, G) /\ Keyed(new, G)
         /\ IsRow(row) => Kept(new, G, row.version, row.payload)
         /\ \A e \in q.pruned[i] : Lost(G, e.version)
<1>1. H \in SUBSET HistoryEntry /\ IsFiniteSet(H) /\ IsRow(new) /\ new.version \in Nat
  <2>1. t.history[i] \in SUBSET HistoryEntry /\ p.added[i] \in SUBSET HistoryEntry
    BY DEF Tables, Pending
  <2>2. IsFiniteSet(t.history[i] \cup p.added[i])
    BY FS_Union
  <2>3. H \subseteq t.history[i] \cup p.added[i]
    BY DEF HistoryIn
  <2> QED BY <2>1, <2>2, <2>3, FS_Subset, NoRowAssumption DEF IsRow, Row
<1>2. CASE KeepsHistory(c, row)
  <2>1. row \in Row /\ IsRow(row) /\ row.version \in Nat /\ q = SaveHistory(t, p, i, row)
    BY <1>2 DEF KeepsHistory, IsRow, Row
  <2>2. /\ IsFiniteSet(q.added[i])
        /\ G \in SUBSET HistoryEntry /\ IsFiniteSet(G) /\ Grows(H, G) /\ Keyed(row, G)
        /\ InHistory(G, row.version, row.payload)
        /\ \A e \in q.pruned[i] : Lost(G, e.version)
    BY <2>1, PushSaves
  <2>3. Keyed(new, G)
    <3>1. \A h \in G : h.version \in Nat /\ h.version <= row.version
      BY <2>1, <2>2 DEF Keyed, HistoryEntry
    <3>2. \A h \in G : h.version < new.version
      BY <1>1, <2>1, <3>1
    <3> QED BY <1>1, <2>1, <3>1, <3>2 DEF Keyed
  <2> QED BY <2>2, <2>3 DEF Kept
<1>3. CASE ~KeepsHistory(c, row)
  <2>1. q = p /\ G = H
    BY <1>3
  <2>2. Grows(H, G)
    BY <2>1, GrowsSame
  <2>3. CASE IsRow(row)
    <3>1. row \in Row /\ row.version \in Nat /\ new.payload = row.payload
          /\ new.version >= row.version
      BY <1>3, <2>3 DEF IsRow, Row
    <3>2. \A h \in G : h.version \in Nat /\ h.version <= row.version
      BY <1>1, <2>1, <2>3 DEF Keyed, HistoryEntry
    <3>3. \A h \in G : h.version < new.version
      BY <1>1, <2>3, <3>1, <3>2
    <3>4. Keyed(new, G)
      BY <1>1, <3>1, <3>2, <3>3 DEF Keyed
    <3> QED BY <1>1, <2>1, <2>2, <3>1, <3>4 DEF Kept
  <2>4. CASE ~IsRow(row)
    <3>1. G = {}
      BY <2>1, <2>4 DEF Keyed
    <3>2. Keyed(new, G)
      BY <1>1, <3>1 DEF Keyed
    <3> QED BY <1>1, <2>1, <2>2, <2>4, <3>2
  <2> QED BY <2>3, <2>4
<1> QED BY <1>2, <1>3

\* What a write has read and what it leaves pending.
LEMMA WriteFacts ==
  ASSUME ServerInv, Isolation = "repeatable_read", OwnChecksums,
         NEW s \in Session, Write(s), ~Abort(s), NEW i, i = Cur(s).item,
         NEW row, row = tx[s].row, NEW q,
         q = IF KeepsHistory(Cur(s), row) THEN SaveHistory(snap[s], pend[s], i, row) ELSE pend[s]
  PROVE  /\ i \in Item /\ Cur(s) \in Change /\ Cur(s).checksum = Cur(s).payload
         /\ snap[s] \in Tables /\ pend[s] \in Pending /\ q \in Pending
         /\ row \in Row \cup {NoRow} /\ row = RowIn(snap[s], pend[s], i)
         /\ db.items[i] = snap[s].items[i]
         /\ IF Cur(s).op = "create" THEN ~IsRow(row) /\ ~Incomplete(Cur(s)) ELSE IsRow(row)
         /\ WriteRow(s) \in Row /\ WriteRow(s) = NewRow(Cur(s), row, row)
         /\ \A t \in Session \ {s} : ~IsRow(pend[t].rows[i])
         /\ pend'[s].rows = [pend[s].rows EXCEPT ![i] = WriteRow(s)]
         /\ pend'[s].added = q.added /\ pend'[s].pruned = q.pruned
<1>1. /\ BasicInv /\ StayInv /\ tx[s].pc = "write" /\ Progress(s) /\ Working(s)
      /\ PushSound(s) /\ Open(s)
      /\ pend[s] \in Pending /\ pend \in [Session -> Pending] /\ tx[s] \in Push
  BY DEF Write, ServerInv, BasicInv, ProgressInv, Working, PushesSound, Open, TypeOK,
         TablesTypeOK
<1>2. Cur(s) \in Change /\ i \in Item /\ WriteRow(s) \in Row
  BY <1>1, CurType, WriteRowType DEF BasicInv
<1>3. Cur(s).checksum = Cur(s).payload
  <2>1. tx[s].batch \in Batches /\ tx[s].batch \in Seq(Change) /\ tx[s].i \in 1 .. Len(tx[s].batch)
    BY <1>1, BatchesAssumption DEF Progress
  <2>2. tx[s].i \in DOMAIN tx[s].batch
    BY <2>1
  <2> QED BY <2>1, <2>2 DEF OwnChecksums, Cur
<1>4. snap[s] \in Tables /\ row = RowIn(snap[s], pend[s], i) /\ row \in Row \cup {NoRow}
  BY <1>1 DEF PushSound, Push
<1>5. /\ db.items[i] = snap[s].items[i]
      /\ Cur(s).op = "create" => ~IsRow(RowIn(db, pend[s], i))
      /\ \A t \in Session : ~RowHeldBy(s, t, i)
  BY <1>1 DEF Write, StaleWrite, WaitsFor
<1>6. RowIn(db, pend[s], i) = row
  BY <1>4, <1>5 DEF RowIn
<1>7. IF Cur(s).op = "create" THEN ~IsRow(row) /\ ~Incomplete(Cur(s)) ELSE IsRow(row)
  BY <1>1, <1>5, <1>6 DEF Progress
<1>8. WriteRow(s) = NewRow(Cur(s), row, row)
  BY <1>6 DEF WriteRow
<1>9. q \in Pending /\ q.rows = pend[s].rows
  <2>1. KeepsHistory(Cur(s), row) => row \in Row
    BY <1>4, <1>7 DEF KeepsHistory, IsRow
  <2> QED BY <1>1, <1>2, <1>4, <2>1, SaveHistoryType
<1>10. View(s) = snap[s]
  BY DEF View
<1>11. pend' = [pend EXCEPT ![s] = [q EXCEPT !.rows = [@ EXCEPT ![i] = WriteRow(s)]]]
  BY <1>10 DEF Write
<1>12. PICK new : new = WriteRow(s)
  OBVIOUS
<1>13. PICK rows : rows = [q.rows EXCEPT ![i] = new]
  OBVIOUS
<1>14. pend'[s] = [q EXCEPT !.rows = rows]
  BY <1>1, <1>9, <1>11, <1>12, <1>13 DEF Pending
<1>15. pend'[s].rows = rows /\ pend'[s].added = q.added /\ pend'[s].pruned = q.pruned
  BY <1>9, <1>14 DEF Pending
<1> QED BY <1>1, <1>2, <1>3, <1>4, <1>5, <1>7, <1>8, <1>9, <1>12, <1>13, <1>15 DEF RowHeldBy

LEMMA WritesKeep ==
  ASSUME ServerInv, BasicInv', StayInv', UNCHANGED <<call, done, calls, failed>>,
         Isolation = "repeatable_read", OwnChecksums,
         NEW s \in Session, Write(s), ~Abort(s)
  PROVE  ServerInv' /\ Moves
<1>1. PICK i, row, c, t, p, new :
        /\ i = Cur(s).item /\ row = tx[s].row /\ c = Cur(s) /\ t = snap[s] /\ p = pend[s]
        /\ new = WriteRow(s)
  OBVIOUS
<1>2. PICK q : q = IF KeepsHistory(c, row) THEN SaveHistory(t, p, i, row) ELSE p
  OBVIOUS
<1>3. /\ i \in Item /\ c \in Change /\ c.checksum = c.payload
      /\ t \in Tables /\ p \in Pending /\ q \in Pending
      /\ row \in Row \cup {NoRow} /\ row = RowIn(t, p, i)
      /\ db.items[i] = t.items[i]
      /\ IF c.op = "create" THEN ~IsRow(row) /\ ~Incomplete(c) ELSE IsRow(row)
      /\ new \in Row /\ new = NewRow(c, row, row)
      /\ \A u \in Session \ {s} : ~IsRow(pend[u].rows[i])
      /\ pend'[s].rows = [p.rows EXCEPT ![i] = new]
      /\ pend'[s].added = q.added /\ pend'[s].pruned = q.pruned
  BY <1>1, <1>2, WriteFacts
<1>4. /\ OthersKeep(s) /\ db' = db /\ snap' = snap /\ tx'[s].pc = "change"
  BY WriteEffect DEF OthersKeep, ServerInv
<1>5. Open(s) /\ \A j \in Item : PushedItem(s, j)
  BY DEF Write, Open, ServerInv, PushesSound, PushSound
<1>6. /\ pend'[s].rows[i] = new
      /\ \A j \in Item : j # i => pend'[s].rows[j] = p.rows[j]
  BY <1>3 DEF Pending
<1>7. ASSUME NEW j \in Item, j # i PROVE PushedItem(s, j)'
  <2>1. q.added[j] = p.added[j] /\ q.pruned[j] = p.pruned[j]
    <3>1. CASE KeepsHistory(c, row)
      <4>1. row \in Row
        BY <1>3, <3>1 DEF KeepsHistory, IsRow
      <4>2. PICK H, cut : H = HistoryIn(t, p, i) /\ cut = Excess(H \cup NewEntry(H, row))
        OBVIOUS
      <4>3. j \in Item \ {i}
        BY <1>7
      <4> QED BY <1>2, <1>3, <3>1, <4>1, <4>2, <4>3, SaveEffect
    <3> QED BY <1>2, <3>1
  <2>2. PushedItem(s, j) /\ pend'[s].rows[j] = pend[s].rows[j] /\ snap'[s] = snap[s] /\ db' = db
        /\ pend'[s].added[j] = pend[s].added[j] /\ pend'[s].pruned[j] = pend[s].pruned[j]
    BY <1>1, <1>3, <1>4, <1>5, <1>6, <1>7, <2>1
  <2> QED BY <2>2 DEF PushedItem, Seen, RowIn, HistoryIn
<1>8. PushedItem(s, i)'
  <2>1. PICK H, G : H = HistoryIn(t, p, i) /\ G = HistoryIn(t, q, i)
    OBVIOUS
  <2>2. /\ IsFiniteSet(t.history[i]) /\ IsFiniteSet(p.added[i])
        /\ Good(t.items[i]) /\ Good(p.rows[i]) /\ Keyed(row, H)
        /\ Grows(t.history[i], db.history[i])
        /\ IsRow(p.rows[i]) /\ IsRow(t.items[i]) =>
             /\ t.items[i].version < p.rows[i].version
             /\ Kept(p.rows[i], H, t.items[i].version, t.items[i].payload)
        /\ \A e \in p.pruned[i] : Lost(H, e.version)
    BY <1>1, <1>3, <1>5, <2>1 DEF PushedItem, Seen
  <2>3. Good(row)
    BY <1>3, <2>2 DEF RowIn
  <2>4. /\ Good(new)
        /\ IsRow(row) => /\ new.version = row.version + 1
                         /\ ~KeepsHistory(c, row) => new.payload = row.payload
    BY <1>3, <2>3, NewRowGood
  <2>5. /\ IsFiniteSet(q.added[i])
        /\ G \in SUBSET HistoryEntry /\ IsFiniteSet(G) /\ Grows(H, G) /\ Keyed(new, G)
        /\ IsRow(row) => Kept(new, G, row.version, row.payload)
        /\ \A e \in q.pruned[i] : Lost(G, e.version)
    BY <1>2, <1>3, <2>1, <2>2, <2>4, PushedHistory
  <2>6. ASSUME IsRow(t.items[i])
        PROVE  /\ t.items[i].version < new.version
               /\ Kept(new, G, t.items[i].version, t.items[i].payload)
    <3>1. /\ t.items[i] \in Row /\ t.items[i].version \in Nat /\ IsRow(row) /\ row \in Row
          /\ row.version \in Nat /\ H \in SUBSET HistoryEntry
      <4>1. t.items[i] \in Row /\ IsRow(row)
        BY <1>3, <2>6 DEF Tables, RowIn, IsRow
      <4>2. row \in Row
        BY <1>3, <4>1 DEF IsRow
      <4>3. H \in SUBSET HistoryEntry
        BY <1>3, <2>1 DEF HistoryIn, Tables, Pending
      <4> QED BY <4>1, <4>2, <4>3 DEF Row
    <3>2. PICK v, b : v = t.items[i].version /\ b = t.items[i].payload
      OBVIOUS
    <3>3. v <= row.version /\ Kept(row, H, v, b)
      <4>1. CASE IsRow(p.rows[i])
        <5>1. row = p.rows[i]
          BY <1>3, <4>1 DEF RowIn
        <5> QED BY <2>2, <2>6, <3>1, <3>2, <4>1, <5>1
      <4>2. CASE ~IsRow(p.rows[i])
        <5>1. row = t.items[i]
          BY <1>3, <4>2 DEF RowIn
        <5> QED BY <3>1, <3>2, <5>1 DEF Kept
      <4> QED BY <4>1, <4>2
    <3>4. Kept(new, G, v, b)
      BY <1>3, <2>5, <3>1, <3>2, <3>3, KeptStays
    <3> QED BY <2>4, <3>1, <3>2, <3>3, <3>4
  <2>7. IsRow(new)
    BY <1>3, NoRowAssumption DEF IsRow
  <2>8. Seen(s, i)' = G /\ RowIn(snap[s], pend[s], i)' = new
    BY <1>1, <1>3, <1>4, <1>6, <2>1, <2>7 DEF Seen, HistoryIn, RowIn
  <2>9. /\ snap'[s] = t /\ db' = db /\ pend'[s].rows[i] = new
        /\ pend'[s].added[i] = q.added[i] /\ pend'[s].pruned[i] = q.pruned[i]
    BY <1>1, <1>3, <1>4, <1>6
  <2> QED BY <1>3, <2>2, <2>4, <2>5, <2>6, <2>7, <2>8, <2>9 DEF PushedItem
<1>9. PushSound(s)'
  BY <1>1, <1>3, <1>4, <1>7, <1>8 DEF PushSound
<1>10. LockInv'
  <2>1. LockInv
    BY DEF ServerInv, PushesSound
  <2>2. \A u \in Session \ {s} : pend'[u] = pend[u]
    BY <1>4 DEF OthersKeep
  <2>3. \A j \in Item : IsRow(pend'[s].rows[j]) => j = i \/ IsRow(pend[s].rows[j])
    BY <1>1, <1>6
  <2>4. ASSUME NEW u \in Session, u # s, NEW j \in Item, IsRow(pend'[s].rows[j]),
               IsRow(pend'[u].rows[j])
        PROVE  FALSE
    BY <1>3, <2>1, <2>2, <2>3, <2>4 DEF LockInv
  <2> QED BY <2>1, <2>2, <2>4 DEF LockInv
<1> QED BY <1>4, <1>9, <1>10, PushQuiet

\* The history of an item after the commit: the committed entries without
\* those the push has cut, and with those it has added.
LEMMA CommitKeeps ==
  ASSUME ServerInv, NEW s \in Session, Open(s), NEW i \in Item,
         NEW N, N = HistoryIn(db, pend[s], i), NEW new, new = RowIn(db, pend[s], i)
  PROVE  /\ IsFiniteSet(N) /\ Grows(db.history[i], N) /\ Good(new) /\ Keyed(new, N)
         /\ RowMoves(db.items[i], new)
         /\ IsRow(db.items[i]) =>
              Kept(new, N, db.items[i].version, db.items[i].payload)
<1>1. /\ PushedItem(s, i) /\ snap[s] \in Tables /\ pend[s] \in Pending /\ db \in Tables
      /\ IsFiniteSet(db.history[i]) /\ Good(db.items[i]) /\ Keyed(db.items[i], db.history[i])
  BY TablesFacts DEF ServerInv, PushesSound, PushSound, BasicInv, TypeOK, TablesTypeOK
<1>2. PICK D, S, P, A, V, row, w :
        /\ D = db.history[i] /\ S = snap[s].history[i] /\ P = pend[s].pruned[i]
        /\ A = pend[s].added[i] /\ V = (S \ P) \cup A /\ row = db.items[i]
        /\ w = pend[s].rows[i]
  OBVIOUS
<1>3. /\ D \in SUBSET HistoryEntry /\ S \in SUBSET HistoryEntry /\ P \in SUBSET HistoryEntry
      /\ A \in SUBSET HistoryEntry /\ IsFiniteSet(D) /\ IsFiniteSet(S) /\ IsFiniteSet(A)
      /\ row \in Row \cup {NoRow} /\ w \in Row \cup {NoRow}
  BY <1>1, <1>2 DEF Tables, Pending, PushedItem
<1>4. N = (D \ P) \cup A /\ Seen(s, i) = V
  BY <1>2 DEF HistoryIn, Seen
<1>5. CASE ~IsRow(w)
  <2>1. N = D /\ new = row
    BY <1>1, <1>2, <1>4, <1>5 DEF PushedItem, RowIn
  <2>2. Grows(D, N)
    BY <2>1, GrowsSame
  <2>3. IsRow(row) => Kept(new, N, row.version, row.payload)
    BY <1>3, <2>1 DEF Kept, IsRow, Row
  <2> QED BY <1>1, <1>2, <2>1, <2>2, <2>3 DEF RowMoves
<1>6. CASE IsRow(w)
  <2>1. new = w /\ w \in Row /\ w.version \in Nat /\ row = snap[s].items[i]
    BY <1>1, <1>2, <1>3, <1>6 DEF RowIn, PushedItem, IsRow, Row
  <2>2. /\ Good(w) /\ Keyed(w, V) /\ Grows(S, D)
        /\ IsRow(row) => row.version < w.version /\ Kept(w, V, row.version, row.payload)
        /\ \A e \in P : Lost(V, e.version)
    <3>1. RowIn(snap[s], pend[s], i) = w
      BY <1>2, <1>6 DEF RowIn
    <3> QED BY <1>1, <1>2, <1>4, <1>6, <2>1, <3>1 DEF PushedItem
  <2>3. IsFiniteSet(N) /\ N \in SUBSET HistoryEntry
    <3>1. IsFiniteSet(D \cup A) /\ N \subseteq D \cup A
      BY <1>3, <1>4, FS_Union
    <3> QED BY <1>3, <3>1, FS_Subset
  <2>4. ASSUME NEW v \in Nat, Lost(V, v) \/ Lost(D, v) PROVE Lost(N, v)
    <3>1. /\ \A e \in S : e \in D \/ Lost(D, e.version)
          /\ \A e \in P : Lost((S \ P) \cup A, e.version)
          /\ Lost((S \ P) \cup A, v) \/ Lost(D, v)
      BY <1>2, <2>2, <2>4 DEF Grows
    <3>2. Lost((D \ P) \cup A, v)
      BY <1>3, <3>1, MergeKeeps
    <3> QED BY <1>4, <3>2
  <2>5. Grows(D, N)
    <3>1. ASSUME NEW h \in D, h \notin N PROVE Lost(N, h.version)
      <4>1. h \in P /\ h.version \in Nat
        BY <1>3, <1>4, <3>1 DEF HistoryEntry
      <4> QED BY <2>2, <2>4, <4>1
    <3> QED BY <2>4, <3>1 DEF Grows
  <2>6. Keyed(w, N)
    <3>1. ASSUME NEW h \in N
          PROVE  h.version <= w.version /\ (h.version = w.version => h.payload = w.payload)
      <4>1. CASE h \in A
        <5>1. h \in V
          BY <1>2, <4>1
        <5> QED BY <1>6, <2>2, <5>1 DEF Keyed
      <4>2. CASE h \in D
        <5>1. IsRow(row) /\ h.version <= row.version
          BY <1>1, <1>2, <4>2 DEF Keyed
        <5>2. h.version \in Nat /\ row.version \in Nat
          BY <1>3, <4>2, <5>1 DEF HistoryEntry, IsRow, Row
        <5> QED BY <2>1, <2>2, <5>1, <5>2
      <4> QED BY <1>4, <4>1, <4>2
    <3> QED BY <1>6, <3>1 DEF Keyed
  <2>7. ASSUME IsRow(row) PROVE Kept(w, N, row.version, row.payload)
    <3>1. PICK v, b : v = row.version /\ b = row.payload
      OBVIOUS
    <3>2. v \in Nat /\ Kept(w, V, v, b)
      BY <1>3, <2>2, <2>7, <3>1 DEF IsRow, Row
    <3>3. CASE Lost(V, v)
      BY <2>4, <3>1, <3>2, <3>3 DEF Kept, InHistory
    <3>4. ASSUME NEW h \in V, h.version >= v, h.payload = b PROVE Kept(w, N, v, b)
      <4>1. CASE h \in N
        BY <3>4, <4>1 DEF Kept, InHistory
      <4>2. CASE h \notin N
        <5>1. h \in S /\ h \notin D /\ h.version \in Nat
          BY <1>2, <1>3, <1>4, <4>2 DEF HistoryEntry
        <5>2. Lost(D, h.version)
          BY <2>2, <5>1 DEF Grows
        <5>3. Lost(N, h.version)
          BY <2>4, <5>1, <5>2
        <5>4. Above(N, h.version) \subseteq N /\ v <= h.version
          BY <3>2, <3>4, <5>1 DEF Above
        <5>5. Lost(N, v)
          BY <2>3, <3>2, <5>1, <5>3, <5>4, LostBelow
        <5> QED BY <5>5 DEF Kept, InHistory
      <4> QED BY <4>1, <4>2
    <3>5. CASE IsRow(w) /\ w.version >= v /\ w.payload = b
      BY <3>1, <3>5 DEF Kept
    <3> QED BY <3>1, <3>2, <3>3, <3>4, <3>5 DEF Kept, InHistory
  <2>8. RowMoves(row, w)
    BY <1>6, <2>2 DEF RowMoves
  <2> QED BY <1>2, <2>1, <2>2, <2>3, <2>5, <2>6, <2>7, <2>8
<1> QED BY <1>5, <1>6

LEMMA FinishKeeps ==
  ASSUME ServerInv, BasicInv', StayInv', UNCHANGED <<call, done, calls, failed>>,
         NEW s \in Session, Finish(s)
  PROVE  ServerInv' /\ Moves
<1>1. /\ tx \in [Session -> Push] /\ pend \in [Session -> Pending] /\ tx[s] \in Push
      /\ snap \in [Session -> Tables \cup {None}] /\ tx[s].pc = "finish" /\ Open(s)
  BY DEF ServerInv, BasicInv, TypeOK, TablesTypeOK, Finish, Open
<1>2. tx'[s].pc = "cursor" /\ pend'[s] = NothingPending /\ OthersKeep(s)
  BY <1>1 DEF Finish, OthersKeep, Push
<1>3. PushSound(s)' /\ LockInv'
  BY <1>2, NothingLocked DEF PushSound, Open
<1>4. CASE db' = db
  BY <1>2, <1>3, <1>4, PushQuiet
<1>5. CASE db' = Merged(db, pend[s])
  <2>1. \A i \in Item : /\ db'.items[i] = RowIn(db, pend[s], i)
                        /\ db'.history[i] = HistoryIn(db, pend[s], i)
    BY <1>5 DEF Merged
  <2>2. ASSUME NEW i \in Item
        PROVE  /\ IsFiniteSet(db'.history[i]) /\ Grows(db.history[i], db'.history[i])
               /\ Good(db'.items[i]) /\ Keyed(db'.items[i], db'.history[i])
               /\ RowMoves(db.items[i], db'.items[i])
               /\ IsRow(db.items[i]) =>
                    Kept(db'.items[i], db'.history[i], db.items[i].version, db.items[i].payload)
    <3>1. PICK N, new : N = HistoryIn(db, pend[s], i) /\ new = RowIn(db, pend[s], i)
      OBVIOUS
    <3>2. /\ IsFiniteSet(N) /\ Grows(db.history[i], N) /\ Good(new) /\ Keyed(new, N)
          /\ RowMoves(db.items[i], new)
          /\ IsRow(db.items[i]) => Kept(new, N, db.items[i].version, db.items[i].payload)
      BY <1>1, <3>1, CommitKeeps
    <3> QED BY <2>1, <3>1, <3>2
  <2>3. TablesSound' /\ Moves
    BY <2>2 DEF TablesSound, Moves
  <2>4. \A t \in Session \ {s} : \A i \in Item :
          IsRow(pend[t].rows[i]) => db'.items[i] = db.items[i]
    BY <2>1 DEF RowIn, ServerInv, PushesSound, LockInv
  <2> QED BY <1>2, <1>3, <2>3, <2>4, PushKeeps
<1> QED BY <1>4, <1>5 DEF Finish

LEMMA ServerQuiet ==
  ASSUME ServerInv, BasicInv', StayInv',
         UNCHANGED <<tableVars, pushVars, call, done, calls, failed>>
  PROVE  ServerInv' /\ Moves
<1>1. db' \in Tables /\ db' = db /\ tx' = tx /\ pend' = pend /\ snap' = snap
  BY DEF BasicInv, TypeOK, TablesTypeOK, tableVars, pushVars
<1>2. TablesSound' /\ CallsTyped' /\ Moves
  BY <1>1, QuietMoves DEF ServerInv, TablesSound, CallsTyped
<1>3. PushesSound'
  <2>1. \A t \in Session : PushSound(t)'
    BY <1>1, <1>2, PushStays
  <2> QED BY <1>1, <2>1 DEF ServerInv, PushesSound, LockInv
<1>4. CallsSound'
  <2>1. \A c \in Client : CallSound(c)'
    BY <1>1, <1>2, CallStays
  <2> QED BY <2>1 DEF CallsSound, CallSound
<1>5. DoneKept'
  BY <1>1 DEF ServerInv, DoneKept
<1> QED BY <1>2, <1>3, <1>4, <1>5 DEF ServerInv

LEMMA PushNext ==
  ASSUME ServerInv, Isolation = "repeatable_read", OwnChecksums,
         Next \/ UNCHANGED vars, UNCHANGED <<call, done, calls, failed>>
  PROVE  ServerInv' /\ Moves
<1>1. BasicInv' /\ StayInv'
  BY BasicStep, StayStep DEF ServerInv
<1>2. /\ tx \in [Session -> Push] /\ pend \in [Session -> Pending] /\ ProgressInv
      /\ snap \in [Session -> Tables \cup {None}]
  BY DEF ServerInv, BasicInv, TypeOK, TablesTypeOK
<1>3. ASSUME NEW s \in Session, Abort(s) PROVE ServerInv' /\ Moves
  <2>1. Dropped(s)
    BY <1>2, <1>3 DEF Abort, Dropped, OthersKeep, Idle
  <2> QED BY <1>1, <2>1, PushOver
<1>4. ASSUME NEW s \in Session, NEW b \in Batches, NEW base \in [1 .. Len(b) -> BaseSeqs],
             Begin(s, b, base)
      PROVE  ServerInv' /\ Moves
  <2>1. /\ tx'[s].pc = "max_seq" /\ tx'[s].batch = b /\ tx'[s].i = 1
        /\ tx'[s].conflicts = {} /\ tx'[s].applied = {} /\ snap'[s] = db
    BY <1>2, <1>4 DEF Begin, Idle
  <2>2. pend[s] = NothingPending
    BY <1>2, <1>4 DEF Begin, ProgressInv, Progress
  <2>3. OthersKeep(s) /\ UNCHANGED <<tableVars, responses>>
    BY <1>2, <1>4 DEF Begin, OthersKeep, tableVars
  <2>4. Started(s)
    BY <2>1, <2>2, <2>3 DEF Started
  <2> QED BY <1>1, <2>4, PushStarts
<1>5. ASSUME NEW s \in Session, ReadMaxSeq(s) \/ ReadRow(s) \/ CheckPath(s) PROVE ServerInv' /\ Moves
  BY <1>1, <1>3, <1>5, PushReads, ReadsKeep
<1>6. ASSUME NEW s \in Session, Write(s) PROVE ServerInv' /\ Moves
  BY <1>1, <1>3, <1>6, WritesKeep
<1>7. ASSUME NEW s \in Session, InsertChange(s) \/ Finish(s) \/ Respond(s) PROVE ServerInv' /\ Moves
  BY <1>1, <1>7, AnnouncesKeep, FinishKeeps, PushOver
<1>8. ASSUME NEW s \in Session, DbFault(s) \/ DeadlockVictim(s) PROVE ServerInv' /\ Moves
  BY <1>3, <1>8 DEF DbFault, DeadlockVictim
<1>9. CASE UNCHANGED vars \/ \E r \in Reader : Pull(r)
  BY <1>1, <1>9, ServerQuiet DEF vars, Pull
<1> QED BY <1>4, <1>5, <1>6, <1>7, <1>8, <1>9 DEF Next, PushStep

LEMMA ServerStep ==
  ASSUME ServerInv, Isolation = "repeatable_read", CountedVersions, OwnChecksums,
         [ServerNext]_serverVars
  PROVE  ServerInv' /\ Moves
<1>1. CASE UNCHANGED serverVars
  BY <1>1, PushNext DEF serverVars
<1>2. CASE Next /\ UNCHANGED <<call, done, calls, failed>>
  BY <1>2, PushNext
<1>3. CASE Api!Next /\ UNCHANGED <<pushVars, cursor, seen>>
  BY <1>3, ApiStep
<1> QED BY <1>1, <1>2, <1>3 DEF ServerNext

LEMMA ServerInitially == ServerInit => ServerInv
<1> SUFFICES ASSUME ServerInit PROVE ServerInv
  OBVIOUS
<1>1. /\ BasicInv /\ StayInv /\ db = EmptyTables /\ \A s \in Session : tx[s] = Idle
      /\ pend = [s \in Session |-> NothingPending]
      /\ call = [c \in Client |-> Api!NoCall] /\ done = {} /\ calls = 0 /\ failed = 0
  BY InitBasic DEF ServerInit, Init, TablesInit, Api!Init
<1>2. CallsTyped
  <2>1. Api!NoCall \in Api!Call
    BY DEF Api!NoCall, Api!Call
  <2> QED BY <1>1, <2>1 DEF CallsTyped
<1>3. TablesSound
  <2>1. \A i \in Item : db.history[i] = {} /\ db.items[i] = NoRow
    BY <1>1 DEF EmptyTables
  <2>2. ~IsRow(NoRow)
    BY DEF IsRow
  <2> QED BY <2>1, <2>2, FS_EmptySet DEF TablesSound, Good, Keyed
<1>4. PushesSound
  <2>1. \A s \in Session : ~Open(s)
    BY <1>1 DEF Open, Idle
  <2>2. LockInv
    BY <1>1 DEF LockInv, NothingPending, IsRow
  <2> QED BY <2>1, <2>2 DEF PushesSound, PushSound
<1>5. CallsSound
  <2>1. \A c \in Client : call[c].pc = "idle"
    BY <1>1 DEF Api!NoCall
  <2> QED BY <2>1 DEF CallsSound, CallTyped, CallFollows, CallKept, Holding, Stored
<1>6. DoneKept
  BY <1>1 DEF DoneKept
<1> QED BY <1>1, <1>2, <1>3, <1>4, <1>5, <1>6 DEF ServerInv

\* What a call of the items API was acknowledged for is kept, for any number
\* of pushes and calls at the same time: as long as no statement has failed,
\* the payload is the row's or in item_history, until HistoryLimit newer
\* versions are there (apply_change and prune_item_history of a push, the
\* guarded UPDATE and prune_by_item of a call).  It takes REPEATABLE READ,
\* versions that the server counts, and checksums that devices compute from
\* the payload they send.
THEOREM AcknowledgedSurvives ==
  ASSUME Isolation = "repeatable_read", CountedVersions, OwnChecksums
  PROVE  ServerSpec => []AcknowledgedKept
<1>1. ServerInv /\ [ServerNext]_serverVars => ServerInv'
  BY ServerStep
<1>2. ServerInv => AcknowledgedKept
  <2> SUFFICES ASSUME ServerInv, failed = 0, NEW w \in done
               PROVE  \/ w.payload \in KeptPayloads(w.item)
                      \/ Cardinality({h \in db.history[w.item] : h.version > w.version})
                           >= HistoryLimit
    BY DEF AcknowledgedKept
  <2>1. Kept(db.items[w.item], db.history[w.item], w.version, w.payload)
    BY DEF ServerInv, DoneKept
  <2>2. CASE Lost(db.history[w.item], w.version)
    BY <2>2 DEF Lost, Above
  <2>3. ASSUME NEW h \in db.history[w.item], h.payload = w.payload
        PROVE  w.payload \in KeptPayloads(w.item)
    BY <2>3 DEF KeptPayloads
  <2>4. CASE IsRow(db.items[w.item]) /\ db.items[w.item].payload = w.payload
    BY <2>4 DEF KeptPayloads, IsRow
  <2> QED BY <2>1, <2>2, <2>3, <2>4 DEF Kept, InHistory
<1> QED BY <1>1, <1>2, ServerInitially, PTL DEF ServerSpec

\* Whoever writes a row under REPEATABLE READ, a push or a call, its version
\* goes up, and while no statement has failed the payload it replaces can
\* still be read, until HistoryLimit newer versions are in item_history: for
\* the commit of a batch, which lays what the push has cut and added over what
\* calls have saved since its snapshot, and for the UPDATE of a call, whose
\* history entry was saved in a statement before.
THEOREM ReplacedRowsKept ==
  ASSUME Isolation = "repeatable_read", CountedVersions, OwnChecksums
  PROVE  ServerSpec => RowsReplacedKept
<1>1. ServerInv /\ [ServerNext]_serverVars => ServerInv'
  BY ServerStep
<1>2. ServerInv /\ [ServerNext]_serverVars => \A i \in Item : ReplacedRow(i)
  <2> SUFFICES ASSUME ServerInv, Moves, NEW i \in Item, IsRow(db.items[i])
               PROVE  ReplacedRow(i)
    BY ServerStep DEF ReplacedRow
  <2>1. db'.items[i] # db.items[i] => db.items[i].version < db'.items[i].version
    BY DEF Moves, RowMoves
  <2>2. ASSUME failed' = 0
        PROVE  \/ db.items[i].payload \in KeptPayloads(i)'
               \/ Cardinality({h \in db'.history[i] : h.version > db.items[i].version})
                    >= HistoryLimit
    <3>1. PICK H, new, v, p : /\ H = db'.history[i] /\ new = db'.items[i]
                              /\ v = db.items[i].version /\ p = db.items[i].payload
      OBVIOUS
    <3>2. KeptPayloads(i)' = {h.payload : h \in H} \cup {r.payload : r \in {new} \ {NoRow}}
      BY <3>1 DEF KeptPayloads
    <3>3. Kept(new, H, v, p)
      BY <2>2, <3>1 DEF Moves
    <3>4. CASE Lost(H, v)
      BY <3>1, <3>4 DEF Lost, Above
    <3>5. ASSUME NEW h \in H, h.payload = p PROVE p \in KeptPayloads(i)'
      BY <3>2, <3>5
    <3>6. ASSUME IsRow(new), new.payload = p PROVE p \in KeptPayloads(i)'
      BY <3>2, <3>6 DEF IsRow
    <3> QED BY <3>1, <3>3, <3>4, <3>5, <3>6 DEF Kept, InHistory
  <2> QED BY <2>1, <2>2 DEF ReplacedRow
<1> QED BY <1>1, <1>2, ServerInitially, PTL DEF ServerSpec, RowsReplacedKept

=============================================================================
