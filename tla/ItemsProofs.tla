----------------------------- MODULE ItemsProofs -----------------------------
(***************************************************************************)
(* The items API loses no acknowledged write to another one: of the calls  *)
(* that read the same row at most one is answered with success, for any    *)
(* number of callers, items, requests, calls and faults.                   *)
(*                                                                         *)
(* A call is not a transaction, so the argument rests on the row_version   *)
(* alone: it only grows; a call that has stored a row keeps the number it  *)
(* gave it; and the guarded UPDATE gives each number of an item once.      *)
(*                                                                         *)
(* The files of items are there, are their own and are what was sent, for  *)
(* any number of items, files and callers.                                 *)
(*                                                                         *)
(* An id is given to one item until it is purged, so whoever has stored a  *)
(* file, or read a payload that says ready, knows that the file is the     *)
(* item's own or purged.  That it is not marked deleted rests on the       *)
(* row_version: the marks of a deletion stay with an active item only      *)
(* while that deletion is under way, and a restore that has cleared them   *)
(* either writes the row or finds another row_version.                     *)
(***************************************************************************)
EXTENDS ItemsApi, ItemFiles, WellFoundedInduction, TLAPS

-----------------------------------------------------------------------------
(* Part one: calls of the items API *)

\* The call is about to INSERT the row of a new item.
Inserting(c) == call[c].pc = "write" /\ Req(c).op = "create"

\* The call has stored its row and is not answered yet.
Stored(c) == \/ call[c].pc = "announce"
             \/ call[c].pc = "save" /\ Req(c).op = "create"

\* The call has read a row, or stored one.
Holding(c) == call[c].pc \in {"find", "save", "write", "announce"} /\ ~Inserting(c)

\* No push shares the tables with these calls.
NoPush == pend = [s \in Session |-> NothingPending]

\* What a call holds at each of its statements.  Rows are never removed, so
\* the row it read is still there.
CallSound(c) ==
  /\ call[c].pc # "idle" => Req(c) \in Requests
  /\ call[c].pc = "read" => Req(c).op # "create"
  /\ call[c].pc = "find" => Req(c).op = "restore"
  /\ Holding(c) => call[c].row \in Row /\ IsRow(db.items[Req(c).item])
  /\ call[c].pc \in {"save", "write"} /\ Req(c).op = "restore" => call[c].old \in Payload

\* An id that is about to be inserted is in no row.
InsertSound(c) == Inserting(c) => ~IsRow(db.items[Req(c).item])

\* A stored row is not above the one in the table.
StoredSound(c) ==
  Stored(c) => /\ call[c].row.row_version >= 1
               /\ call[c].row.row_version <= db.items[Req(c).item].row_version

CallsSound == \A c \in Client : CallSound(c) /\ InsertSound(c) /\ StoredSound(c)

\* No two calls insert the same item, or gave its row the same row_version.
Apart(c, d) ==
  /\ Inserting(c) /\ Inserting(d) => Req(c).item # Req(d).item
  /\ Stored(c) /\ Stored(d) /\ Req(c).item = Req(d).item =>
       call[c].row.row_version # call[d].row.row_version

CallsApart == \A c, d \in Client : c # d => Apart(c, d)

\* An acknowledged write is below the row in the table, and nobody who has
\* stored a row replaced the same one.
Below(x) ==
  /\ IsRow(db.items[x.item])
  /\ x.replaced < db.items[x.item].row_version
  /\ \A c \in Client : Stored(c) /\ Req(c).item = x.item =>
       x.replaced # call[c].row.row_version - 1

DoneSound == \A x \in done : Below(x)

ApiInv ==
  TypeOK /\ NoPush /\ CallsSound /\ CallsApart /\ DoneSound /\ OneWinnerPerRow

-----------------------------------------------------------------------------
(* Types *)

LEMMA NoCallType == NoCall \in Call
BY DEF NoCall, Call

LEMMA NothingPendingTyped == NothingPending \in Pending
BY DEF NothingPending, Pending

\* item_history loses no column type, and items and changes stay as they are,
\* when an entry is saved and the oldest ones are cut.
LEMMA HistorySaved ==
  ASSUME NEW t \in Tables, NEW i \in Item, NEW row \in Row
  PROVE  /\ Merged(t, SaveHistory(t, NothingPending, i, row)) \in Tables
         /\ Merged(t, SaveHistory(t, NothingPending, i, row)).items = t.items
<1> DEFINE p == NothingPending
           entry == [version |-> row.version, payload |-> row.payload]
           new == IF \E h \in HistoryIn(t, p, i) : h.version = row.version
                  THEN {} ELSE {entry}
           cut == Excess(HistoryIn(t, p, i) \cup new)
           add == [p.added EXCEPT ![i] = (p.added[i] \cup new) \ cut]
           del == [p.pruned EXCEPT ![i] = p.pruned[i] \cup cut]
           s == SaveHistory(t, p, i, row)
<1>1. entry \in HistoryEntry
  BY DEF HistoryEntry, Row
<1>2. p \in Pending
  BY NothingPendingTyped
<1>3. s = [p EXCEPT !.added = add, !.pruned = del]
  BY <1>2 DEF SaveHistory, Pending
<1>4. new \subseteq HistoryEntry
  BY <1>1
<1>5. p.added \in [Item -> SUBSET HistoryEntry] /\ p.pruned \in [Item -> SUBSET HistoryEntry]
  BY <1>2 DEF Pending
<1>6. p.rows = [j \in Item |-> NoRow] /\ p.changes = {}
  BY DEF NothingPending
<1> HIDE DEF p, new
<1>7. cut \subseteq HistoryEntry
  BY <1>2, <1>4 DEF HistoryIn, Tables, Pending, Excess
<1> HIDE DEF cut
<1>8. add \in [Item -> SUBSET HistoryEntry] /\ del \in [Item -> SUBSET HistoryEntry]
  BY <1>4, <1>5, <1>7
<1> HIDE DEF add, del
<1>9. /\ s.rows = [j \in Item |-> NoRow] /\ s.changes = {}
      /\ s.added \in [Item -> SUBSET HistoryEntry] /\ s.pruned \in [Item -> SUBSET HistoryEntry]
  BY <1>2, <1>3, <1>6, <1>8 DEF Pending
<1> HIDE DEF s
<1>10. \A j \in Item : RowIn(t, s, j) = t.items[j]
  BY <1>9 DEF RowIn, IsRow
<1>11. t.items \in [Item -> Row \cup {NoRow}] /\ [j \in Item |-> RowIn(t, s, j)] = t.items
  BY <1>10 DEF Tables
<1>12. \A j \in Item : HistoryIn(t, s, j) \in SUBSET HistoryEntry
  BY <1>9 DEF HistoryIn, Tables
<1>13. ChangesIn(t, s) \in SUBSET ChangeEntry
  BY <1>9 DEF ChangesIn, Tables
<1>14. Merged(t, s).items = t.items /\ Merged(t, s) \in Tables
  BY <1>11, <1>12, <1>13 DEF Merged, Tables
<1> QED BY <1>14 DEF s, p

\* What an INSERT or an UPDATE stores is a row; an UPDATE raises row_version
\* by one, an INSERT starts at 1.
LEMMA RowOfType ==
  ASSUME TypeOK, NEW c \in Client, CallSound(c), call[c].pc = "write"
  PROVE  /\ RowOf(c) \in Row
         /\ Req(c).op = "create" => RowOf(c).row_version = 1
         /\ Req(c).op # "create" => RowOf(c).row_version = call[c].row.row_version + 1
<1> DEFINE r == Req(c)
           row == call[c].row
<1>1. r \in Request /\ (r.op = "create" => r.path # None /\ r.payload # None)
  BY ApiAssumption DEF CallSound
<1>2. /\ r.op \in Op /\ r.path \in Path \cup {None} /\ r.payload \in Payload \cup {None}
      /\ r.version \in Nat
  BY <1>1 DEF Request
<1>3. CASE r.op = "create"
  <2>1. RowOf(c) = InsertedRow(r)
    BY <1>3 DEF RowOf
  <2>2. Chosen(r.version, 1) \in Nat
    BY <1>2 DEF Chosen
  <2> QED BY <1>1, <1>2, <1>3, <2>1, <2>2 DEF InsertedRow, Row
<1>4. CASE r.op # "create"
  <2>1. row \in Row
    BY <1>4 DEF CallSound, Holding, Inserting
  <2>2. row.version + 1 \in Nat /\ row.row_version + 1 \in Nat
    BY <2>1 DEF Row
  <2>3. /\ Given(r.path, row.path) \in Path /\ Given(r.payload, row.payload) \in Payload
        /\ Given(r.payload, row.checksum) \in Payload /\ Chosen(r.version, row.version + 1) \in Nat
    BY <1>2, <2>1, <2>2 DEF Given, Chosen, Row
  <2>4. CASE r.op = "update"
    <3>1. RowOf(c) = EditedRow(r, row)
      BY <2>4 DEF RowOf
    <3> HIDE DEF r, row
    <3>2. EditedRow(r, row) \in Row /\ EditedRow(r, row).row_version = row.row_version + 1
      BY <2>1, <2>2, <2>3 DEF EditedRow, Row
    <3> QED BY <1>4, <3>1, <3>2 DEF r, row
  <2>5. CASE r.op = "delete"
    <3>1. RowOf(c) = TombstoneRow(row)
      BY <2>5 DEF RowOf
    <3> HIDE DEF r, row
    <3>2. TombstoneRow(row) \in Row /\ TombstoneRow(row).row_version = row.row_version + 1
      BY <2>1, <2>2 DEF TombstoneRow, Row
    <3> QED BY <1>4, <3>1, <3>2 DEF r, row
  <2>6. CASE r.op = "restore"
    <3>1. RowOf(c) = RestoredRow(row, call[c].old) /\ call[c].old \in Payload
      BY <2>6 DEF RowOf, CallSound
    <3> HIDE DEF r, row
    <3>2. /\ RestoredRow(row, call[c].old) \in Row
          /\ RestoredRow(row, call[c].old).row_version = row.row_version + 1
      BY <2>1, <2>2, <3>1 DEF RestoredRow, Row
    <3> QED BY <1>4, <3>1, <3>2 DEF r, row
  <2> QED BY <1>2, <1>4, <2>4, <2>5, <2>6 DEF Op
<1> QED BY <1>3, <1>4

-----------------------------------------------------------------------------
(* Steps *)

\* The row numbers that a call and the table hold are naturals.
LEMMA Numbers ==
  ASSUME ApiInv, NEW c \in Client
  PROVE  /\ Stored(c) => Holding(c)
         /\ Holding(c) => /\ Req(c).item \in Item
                          /\ call[c].row \in Row /\ db.items[Req(c).item] \in Row
                          /\ call[c].row.row_version \in Nat
                          /\ db.items[Req(c).item].row_version \in Nat
<1>1. CallSound(c) /\ db.items \in [Item -> Row \cup {NoRow}]
  BY DEF ApiInv, CallsSound, TypeOK, TablesTypeOK, Tables
<1>2. Stored(c) => Holding(c)
  BY DEF Stored, Holding, Inserting
<1>3. ASSUME Holding(c)
      PROVE  Req(c).item \in Item /\ call[c].row \in Row /\ db.items[Req(c).item] \in Row
  <2>1. Req(c) \in Request
    BY <1>1, <1>3, ApiAssumption DEF CallSound, Holding
  <2>2. Req(c).item \in Item
    BY <2>1 DEF Request
  <2> QED BY <1>1, <1>3, <2>2 DEF CallSound, IsRow
<1> QED BY <1>2, <1>3 DEF Row

\* A step that stores nothing: call c moves, the rows stay.  It may begin an
\* insert only of an item nobody else inserts.
LEMMA QuietStep ==
  ASSUME ApiInv, NEW c \in Client, NEW k,
         call' = [call EXCEPT ![c] = k], db'.items = db.items,
         CallSound(c)', InsertSound(c)',
         Stored(c)' => Stored(c) /\ Req(c)' = Req(c) /\ call'[c].row = call[c].row,
         \A d \in Client : d # c /\ Inserting(c)' /\ Inserting(d) => Req(c)'.item # Req(d).item
  PROVE  CallsSound' /\ CallsApart' /\ \A x \in done : Below(x)'
<1>1. \A d \in Client : d # c => call'[d] = call[d]
  BY DEF ApiInv, TypeOK
<1>2. \A d \in Client : d # c =>
        /\ Req(d)' = Req(d) /\ (Inserting(d)' <=> Inserting(d)) /\ (Stored(d)' <=> Stored(d))
        /\ (Holding(d)' <=> Holding(d))
  BY <1>1 DEF Req, Inserting, Stored, Holding
<1>3. CallsSound'
  <2> SUFFICES ASSUME NEW d \in Client
               PROVE  CallSound(d)' /\ InsertSound(d)' /\ StoredSound(d)'
    BY DEF CallsSound
  <2>1. CallSound(d) /\ InsertSound(d) /\ StoredSound(d)
    BY DEF ApiInv, CallsSound
  <2>2. CASE d # c
    BY <1>1, <1>2, <2>1, <2>2 DEF CallSound, InsertSound, StoredSound
  <2>3. CASE d = c
    BY <2>1, <2>3 DEF StoredSound
  <2> QED BY <2>2, <2>3
<1>4. CallsApart'
  <2> SUFFICES ASSUME NEW d \in Client, NEW e \in Client, d # e PROVE Apart(d, e)'
    BY DEF CallsApart
  <2>1. Apart(d, e)
    BY DEF ApiInv, CallsApart
  <2>2. CASE d # c /\ e # c
    BY <1>1, <1>2, <2>1, <2>2 DEF Apart
  <2>3. CASE d = c
    BY <1>1, <1>2, <2>1, <2>3 DEF Apart
  <2>4. CASE e = c
    BY <1>1, <1>2, <2>1, <2>4 DEF Apart
  <2> QED BY <2>2, <2>3, <2>4
<1>5. ASSUME NEW x \in done PROVE Below(x)'
  <2>1. Below(x)
    BY DEF ApiInv, DoneSound
  <2>2. ASSUME NEW d \in Client, Stored(d)', Req(d)'.item = x.item
        PROVE  x.replaced # call'[d].row.row_version - 1
    <3>1. Stored(d) /\ Req(d)' = Req(d) /\ call'[d].row = call[d].row
      BY <1>1, <1>2, <2>2
    <3> QED BY <2>1, <2>2, <3>1 DEF Below
  <2> QED BY <2>1, <2>2 DEF Below
<1> QED BY <1>3, <1>4, <1>5

\* The step of a call that leaves the acknowledged writes alone, too.
LEMMA SilentStep ==
  ASSUME ApiInv, NEW c \in Client, NEW k \in Call,
         call' = [call EXCEPT ![c] = k], db'.items = db.items, db' \in Tables,
         nextSeq' \in Nat \ {0}, pend' = pend, done' = done,
         calls' \in 0 .. MaxCalls, failed' \in 0 .. MaxFaults,
         CallSound(c)', InsertSound(c)',
         Stored(c)' => Stored(c) /\ Req(c)' = Req(c) /\ call'[c].row = call[c].row,
         \A d \in Client : d # c /\ Inserting(c)' /\ Inserting(d) => Req(c)'.item # Req(d).item
  PROVE  ApiInv'
<1>1. CallsSound' /\ CallsApart' /\ \A x \in done : Below(x)'
  BY QuietStep
<1>2. DoneSound' /\ OneWinnerPerRow'
  BY <1>1 DEF ApiInv, DoneSound, OneWinnerPerRow
<1>3. TypeOK'
  BY DEF ApiInv, TypeOK, TablesTypeOK
<1> QED BY <1>1, <1>2, <1>3 DEF ApiInv, NoPush

\* A call returns, or is dropped, with no answer.
LEMMA EndStep ==
  ASSUME ApiInv, NEW c \in Client, End(c), db' = db, nextSeq' = nextSeq, pend' = pend,
         done' = done, calls' = calls, failed' \in 0 .. MaxFaults
  PROVE  ApiInv'
<1>1. call' = [call EXCEPT ![c] = NoCall] /\ NoCall \in Call /\ call \in [Client -> Call]
  BY NoCallType DEF End, ApiInv, TypeOK
<1>2. call'[c] = NoCall
  BY <1>1
<1>3. call'[c].pc = "idle"
  BY <1>2 DEF NoCall
<1>4. ~Stored(c)' /\ ~Inserting(c)' /\ CallSound(c)' /\ InsertSound(c)'
  BY <1>3 DEF Stored, Inserting, CallSound, InsertSound, Holding
<1>5. db' \in Tables /\ nextSeq' \in Nat \ {0} /\ calls' \in 0 .. MaxCalls
  BY DEF ApiInv, TypeOK, TablesTypeOK
<1> QED BY <1>1, <1>4, <1>5, SilentStep

LEMMA BeginApi ==
  ASSUME ApiInv, NEW c \in Client, NEW r \in Requests, Begin(c, r)
  PROVE  ApiInv'
<1> DEFINE k == [NoCall EXCEPT !.req = r, !.pc = IF r.op = "create" THEN "write" ELSE "read"]
<1>1. k \in Call /\ k.req = r /\ k.pc = IF r.op = "create" THEN "write" ELSE "read"
  BY DEF NoCall, Call
<1>2. call' = [call EXCEPT ![c] = k] /\ call \in [Client -> Call]
  BY DEF Begin, ApiInv, TypeOK
<1> HIDE DEF k
<1>3. call'[c].pc = (IF r.op = "create" THEN "write" ELSE "read") /\ Req(c)' = r
  BY <1>1, <1>2 DEF Req
<1>4. CallSound(c)' /\ ~Stored(c)' /\ (Inserting(c)' => r.op = "create")
  BY <1>3 DEF CallSound, Stored, Holding, Inserting
<1>5. r.op = "create" => ~IsRow(db.items[r.item])
  BY DEF Begin, Unused
<1>6. db' = db /\ nextSeq' = nextSeq /\ pend' = pend /\ done' = done /\ failed' = failed
  BY DEF Begin, tableVars
<1>7. InsertSound(c)'
  BY <1>3, <1>4, <1>5, <1>6 DEF InsertSound
<1>8. ASSUME NEW d \in Client, Inserting(c)', Inserting(d) PROVE Req(c)'.item # Req(d).item
  <2>1. Req(d) \in Requests
    BY <1>8 DEF ApiInv, CallsSound, CallSound, Inserting
  <2>2. Req(d) # None
    BY <2>1, ApiAssumption
  <2> QED BY <1>3, <1>4, <1>8, <2>2 DEF Begin, Unused
<1>9. calls' \in 0 .. MaxCalls
  BY ApiAssumption DEF Begin, ApiInv, TypeOK
<1>10. db' \in Tables /\ nextSeq' \in Nat \ {0} /\ failed' \in 0 .. MaxFaults
  BY <1>6 DEF ApiInv, TypeOK, TablesTypeOK
<1> QED BY <1>1, <1>2, <1>4, <1>6, <1>7, <1>8, <1>9, <1>10, SilentStep

LEMMA ReadApi ==
  ASSUME ApiInv, NEW c \in Client, Read(c)
  PROVE  ApiInv'
<1> DEFINE r == Req(c)
           row == db.items[r.item]
           pc == CASE r.op = "restore" -> "find"
                   [] r.op = "delete" -> "save"
                   [] OTHER -> IF NewPayload(r, row) THEN "save" ELSE "write"
<1>1. /\ db' = db /\ nextSeq' = nextSeq /\ pend' = pend /\ done' = done
      /\ calls' = calls /\ failed' = failed /\ failed' \in 0 .. MaxFaults
  BY DEF Read, tableVars, ApiInv, TypeOK
<1>2. CASE End(c)
  BY <1>1, <1>2, EndStep
<1>3. CASE ~End(c)
  <2>1. /\ call[c].pc = "read" /\ IsRow(row)
        /\ call' = [call EXCEPT ![c].row = row, ![c].pc = pc]
    BY <1>3 DEF Read
  <2>2. r \in Requests /\ r.op # "create"
    BY <2>1 DEF ApiInv, CallsSound, CallSound
  <2>3. r.item \in Item /\ r.op \in {"update", "delete", "restore"}
    BY <2>2, ApiAssumption DEF Request, Op
  <2>4. row \in Row
    <3>1. db.items \in [Item -> Row \cup {NoRow}]
      BY DEF ApiInv, TypeOK, TablesTypeOK, Tables
    <3> QED BY <2>1, <2>3, <3>1 DEF IsRow
  <2>5. pc \in {"find", "save", "write"} /\ (pc = "find" <=> r.op = "restore")
    BY <2>3
  <2> HIDE DEF r, row, pc
  <2> DEFINE k == [call[c] EXCEPT !.row = row, !.pc = pc]
  <2>6. call[c] \in Call /\ call \in [Client -> Call]
    BY DEF ApiInv, TypeOK
  <2>7. k \in Call /\ k.row = row /\ k.pc = pc /\ k.req = call[c].req /\ k.old = call[c].old
    BY <2>4, <2>5, <2>6 DEF Call
  <2>8. call' = [call EXCEPT ![c] = k]
    BY <2>1, <2>6
  <2> HIDE DEF k
  <2>9. call'[c].pc = pc /\ call'[c].row = row /\ Req(c)' = r
    BY <2>6, <2>7, <2>8 DEF Req, r
  <2>10. ~Stored(c)' /\ ~Inserting(c)'
    BY <2>2, <2>5, <2>9 DEF Stored, Inserting
  <2>11. CallSound(c)' /\ InsertSound(c)'
    <3>1. IsRow(db'.items[Req(c)'.item])
      BY <1>1, <2>1, <2>9 DEF row
    <3>2. call'[c].pc \in {"save", "write"} => Req(c)'.op # "restore"
      BY <2>5, <2>9
    <3> QED BY <2>2, <2>4, <2>5, <2>9, <2>10, <3>1, <3>2 DEF CallSound, InsertSound
  <2>12. db' \in Tables /\ nextSeq' \in Nat \ {0} /\ calls' \in 0 .. MaxCalls
    BY <1>1 DEF ApiInv, TypeOK, TablesTypeOK
  <2> QED BY <1>1, <2>7, <2>8, <2>10, <2>11, <2>12, SilentStep
<1> QED BY <1>2, <1>3

LEMMA FindApi ==
  ASSUME ApiInv, NEW c \in Client, Find(c)
  PROVE  ApiInv'
<1>1. /\ db' = db /\ nextSeq' = nextSeq /\ pend' = pend /\ done' = done
      /\ calls' = calls /\ failed' = failed /\ failed' \in 0 .. MaxFaults
  BY DEF Find, tableVars, ApiInv, TypeOK
<1>2. CASE End(c)
  BY <1>1, <1>2, EndStep
<1>3. CASE ~End(c)
  <2>1. /\ call[c].pc = "find"
        /\ \E h \in db.history[Req(c).item] :
             call' = [call EXCEPT ![c].old = h.payload, ![c].pc = "save"]
    BY <1>3 DEF Find
  <2>2. PICK h \in db.history[Req(c).item] :
          call' = [call EXCEPT ![c].old = h.payload, ![c].pc = "save"]
    BY <2>1
  <2>3. CallSound(c) /\ Holding(c) /\ Req(c).op = "restore"
    BY <2>1 DEF ApiInv, CallsSound, CallSound, Holding, Inserting
  <2>4. Req(c).item \in Item /\ Req(c) \in Requests
    BY <2>1, <2>3, Numbers DEF CallSound
  <2>5. h \in HistoryEntry
    BY <2>4 DEF ApiInv, TypeOK, TablesTypeOK, Tables
  <2>6. h.payload \in Payload
    BY <2>5 DEF HistoryEntry
  <2> DEFINE k == [call[c] EXCEPT !.old = h.payload, !.pc = "save"]
  <2>7. call[c] \in Call /\ call \in [Client -> Call]
    BY DEF ApiInv, TypeOK
  <2>8. /\ k \in Call /\ k.row = call[c].row /\ k.pc = "save" /\ k.req = call[c].req
        /\ k.old = h.payload
    BY <2>6, <2>7 DEF Call
  <2>9. call' = [call EXCEPT ![c] = k]
    BY <2>2, <2>7
  <2> HIDE DEF k
  <2>10. /\ call'[c].pc = "save" /\ call'[c].row = call[c].row /\ Req(c)' = Req(c)
         /\ call'[c].old = h.payload
    BY <2>7, <2>8, <2>9 DEF Req
  <2>11. ~Stored(c)' /\ ~Inserting(c)'
    BY <2>3, <2>10 DEF Stored, Inserting
  <2>12. CallSound(c)' /\ InsertSound(c)'
    <3>1. call[c].row \in Row /\ IsRow(db'.items[Req(c)'.item])
      BY <1>1, <2>3, <2>10 DEF CallSound
    <3> QED BY <2>4, <2>6, <2>10, <2>11, <3>1 DEF CallSound, InsertSound
  <2>13. db' \in Tables /\ nextSeq' \in Nat \ {0} /\ calls' \in 0 .. MaxCalls
    BY <1>1 DEF ApiInv, TypeOK, TablesTypeOK
  <2> QED BY <1>1, <2>8, <2>9, <2>11, <2>12, <2>13, SilentStep
<1> QED BY <1>2, <1>3

\* After item_history, whether its INSERT succeeded or not: an insert goes on
\* to the feed, an update to its UPDATE.
LEMMA SavedStep ==
  ASSUME ApiInv, NEW c \in Client, call[c].pc = "save", Goto(c, Saved(c)),
         db'.items = db.items, db' \in Tables, nextSeq' = nextSeq, pend' = pend,
         done' = done, calls' = calls, failed' \in 0 .. MaxFaults
  PROVE  ApiInv'
<1> DEFINE pc == Saved(c)
           k == [call[c] EXCEPT !.pc = pc]
<1>1. pc \in {"announce", "write"} /\ (pc = "announce" <=> Req(c).op = "create")
  BY DEF Saved
<1>2. call[c] \in Call /\ call \in [Client -> Call]
  BY DEF ApiInv, TypeOK
<1> HIDE DEF pc
<1>3. k \in Call /\ k.row = call[c].row /\ k.pc = pc /\ k.req = call[c].req /\ k.old = call[c].old
  BY <1>1, <1>2 DEF Call
<1>4. call' = [call EXCEPT ![c] = k]
  BY <1>2 DEF Goto, pc
<1> HIDE DEF k
<1>5. /\ call'[c].pc = pc /\ call'[c].row = call[c].row /\ Req(c)' = Req(c)
      /\ call'[c].old = call[c].old
  BY <1>2, <1>3, <1>4 DEF Req
<1>6. ~Inserting(c)' /\ (Stored(c)' => Stored(c)) /\ Holding(c)
  BY <1>1, <1>5 DEF Stored, Inserting, Holding
<1>7. CallSound(c)
  BY DEF ApiInv, CallsSound
<1>8. CallSound(c)' /\ InsertSound(c)'
  BY <1>1, <1>5, <1>6, <1>7 DEF CallSound, InsertSound
<1>9. nextSeq' \in Nat \ {0} /\ calls' \in 0 .. MaxCalls
  BY DEF ApiInv, TypeOK, TablesTypeOK
<1> QED BY <1>3, <1>4, <1>5, <1>6, <1>8, <1>9, SilentStep

LEMMA SaveApi ==
  ASSUME ApiInv, NEW c \in Client, Save(c)
  PROVE  ApiInv'
<1>1. call[c].pc = "save" /\ Goto(c, Saved(c))
  BY DEF Save
<1>2. Holding(c)
  BY <1>1 DEF Holding, Inserting
<1>3. Req(c).item \in Item /\ call[c].row \in Row /\ db \in Tables
  BY <1>2, Numbers DEF ApiInv, TypeOK, TablesTypeOK
<1>4. db' \in Tables /\ db'.items = db.items
  BY <1>3, HistorySaved DEF Save
<1>5. /\ nextSeq' = nextSeq /\ pend' = pend /\ done' = done /\ calls' = calls
      /\ failed' \in 0 .. MaxFaults
  BY DEF Save, ApiInv, TypeOK
<1> QED BY <1>1, <1>4, <1>5, SavedStep

\* A row is stored: its row_version is one above the row that the call read,
\* which is the one in the table; an inserted item has no row yet.
LEMMA StoreStep ==
  ASSUME ApiInv, NEW c \in Client, call[c].pc = "write", CurrentRow(c),
         db' = [db EXCEPT !.items[Req(c).item] = RowOf(c)],
         call' = [call EXCEPT ![c].row = RowOf(c),
                              ![c].pc = IF Req(c).op = "create" THEN "save" ELSE "announce"],
         nextSeq' = nextSeq, pend' = pend, done' = done, calls' = calls, failed' = failed
  PROVE  ApiInv'
<1> DEFINE i == Req(c).item
           new == RowOf(c)
           pc == IF Req(c).op = "create" THEN "save" ELSE "announce"
           k == [call[c] EXCEPT !.row = new, !.pc = pc]
<1>1. CallSound(c) /\ InsertSound(c) /\ Req(c) \in Requests /\ i \in Item
  BY ApiAssumption DEF ApiInv, CallsSound, CallSound, Request
<1>2. /\ new \in Row /\ (Req(c).op = "create" => new.row_version = 1)
      /\ (Req(c).op # "create" => new.row_version = call[c].row.row_version + 1)
  BY <1>1, RowOfType DEF ApiInv
<1>3. db \in Tables /\ call[c] \in Call /\ call \in [Client -> Call]
  BY DEF ApiInv, TypeOK, TablesTypeOK
<1>4. db.items \in [Item -> Row \cup {NoRow}]
  BY <1>3 DEF Tables
<1> HIDE DEF i, new
<1>5. db' \in Tables /\ db'.items = [db.items EXCEPT ![i] = new]
  BY <1>1, <1>2, <1>3 DEF Tables, i, new
<1>6. k \in Call /\ k.row = new /\ k.pc = pc /\ k.req = call[c].req /\ k.old = call[c].old
  BY <1>2, <1>3 DEF Call
<1>7. call' = [call EXCEPT ![c] = k]
  BY <1>3 DEF new
<1>8. pc \in {"save", "announce"} /\ (pc = "save" <=> Req(c).op = "create")
  OBVIOUS
<1> HIDE DEF k, pc
<1>9. /\ call'[c].pc = pc /\ call'[c].row = new /\ Req(c)' = Req(c)
      /\ call'[c].old = call[c].old
  BY <1>3, <1>6, <1>7 DEF Req
<1>10. \A d \in Client : d # c => call'[d] = call[d]
  BY <1>3, <1>7
<1>11. \A d \in Client : d # c =>
         /\ Req(d)' = Req(d) /\ (Inserting(d)' <=> Inserting(d)) /\ (Stored(d)' <=> Stored(d))
         /\ (Holding(d)' <=> Holding(d))
  BY <1>10 DEF Req, Inserting, Stored, Holding
\* The row in the table when the call stores its own.
<1>12. new.row_version \in Nat /\ new.row_version >= 1 /\ IsRow(new)
  <2>1. Req(c).op # "create" => call[c].row \in Row
    BY <1>1 DEF CallSound, Holding, Inserting
  <2> QED BY <1>2, <2>1, NoRowAssumption DEF Row, IsRow
<1>13. IsRow(db.items[i]) => /\ db.items[i].row_version \in Nat
                             /\ new.row_version = db.items[i].row_version + 1
  <2> SUFFICES ASSUME IsRow(db.items[i])
               PROVE  /\ db.items[i].row_version \in Nat
                      /\ new.row_version = db.items[i].row_version + 1
    OBVIOUS
  <2>1. Req(c).op # "create"
    BY <1>1 DEF InsertSound, Inserting, i
  <2>2. db.items[i] \in Row
    BY <1>1, <1>4 DEF IsRow, i
  <2> QED BY <1>2, <2>1, <2>2 DEF CurrentRow, Row, i
<1>14. db'.items[i] = new /\ \A j \in Item : j # i => db'.items[j] = db.items[j]
  BY <1>1, <1>4, <1>5 DEF i
<1>15. Stored(c)' /\ ~Inserting(c)' /\ Holding(c)'
  BY <1>8, <1>9 DEF Stored, Inserting, Holding
<1>16. ASSUME NEW d \in Client, d # c, Req(d).item = i
       PROVE  /\ ~Inserting(d)
              /\ Holding(d) => IsRow(db.items[i])
              /\ Stored(d) => call[d].row.row_version < new.row_version
  <2>1. CallSound(d) /\ InsertSound(d) /\ StoredSound(d) /\ Apart(c, d)
    BY <1>16 DEF ApiInv, CallsSound, CallsApart
  <2>2. Holding(d) => IsRow(db.items[i])
    BY <1>16, <2>1 DEF CallSound
  <2>3. ~Inserting(d)
    <3>1. CASE Req(c).op = "create"
      BY <1>16, <2>1, <3>1 DEF Apart, Inserting, i
    <3>2. CASE Req(c).op # "create"
      BY <1>1, <1>16, <2>1, <3>2 DEF CallSound, Holding, Inserting, InsertSound, i
    <3> QED BY <3>1, <3>2
  <2>4. ASSUME Stored(d) PROVE call[d].row.row_version < new.row_version
    <3>1. Holding(d) /\ call[d].row.row_version \in Nat
      BY <2>4, Numbers
    <3>2. call[d].row.row_version <= db.items[i].row_version
      BY <1>16, <2>1, <2>4 DEF StoredSound
    <3> QED BY <1>12, <1>13, <2>2, <3>1, <3>2
  <2> QED BY <2>2, <2>3, <2>4
<1>17. CallsSound'
  <2> SUFFICES ASSUME NEW d \in Client
               PROVE  CallSound(d)' /\ InsertSound(d)' /\ StoredSound(d)'
    BY DEF CallsSound
  <2>1. CASE d = c
    <3>1. CallSound(c)'
      BY <1>1, <1>2, <1>8, <1>9, <1>12, <1>14, <1>15 DEF CallSound, i
    <3>2. StoredSound(c)'
      BY <1>9, <1>12, <1>14 DEF StoredSound, i
    <3> QED BY <1>15, <2>1, <3>1, <3>2 DEF InsertSound
  <2>2. CASE d # c
    <3>1. CallSound(d) /\ InsertSound(d) /\ StoredSound(d) /\ call'[d] = call[d] /\ Req(d)' = Req(d)
      BY <1>10, <1>11, <2>2 DEF ApiInv, CallsSound
    <3>2. Holding(d) \/ Inserting(d) => Req(d).item \in Item
      <4>1. Inserting(d) \/ Holding(d) => Req(d) \in Request
        BY <3>1, ApiAssumption DEF CallSound, Inserting, Holding
      <4> QED BY <4>1 DEF Request
    <3>3. CASE Req(d).item = i
      <4>1. CallSound(d)' /\ InsertSound(d)'
        BY <1>11, <1>12, <1>14, <1>16, <2>2, <3>1, <3>3 DEF CallSound, InsertSound
      <4>2. Stored(d) => call[d].row.row_version <= new.row_version
        <5> SUFFICES ASSUME Stored(d) PROVE call[d].row.row_version <= new.row_version
          OBVIOUS
        <5>1. call[d].row.row_version \in Nat /\ call[d].row.row_version < new.row_version
          BY <1>16, <2>2, <3>3, Numbers
        <5> QED BY <1>12, <5>1
      <4>3. StoredSound(d)'
        BY <1>11, <1>14, <2>2, <3>1, <3>3, <4>2 DEF StoredSound
      <4> QED BY <4>1, <4>3
    <3>4. CASE Req(d).item # i
      <4>1. Holding(d) \/ Inserting(d) => db'.items[Req(d).item] = db.items[Req(d).item]
        BY <1>14, <3>2, <3>4
      <4>2. Stored(d) => Holding(d)
        BY Numbers
      <4> QED BY <1>11, <2>2, <3>1, <4>1, <4>2 DEF CallSound, InsertSound, StoredSound
    <3> QED BY <3>3, <3>4
  <2> QED BY <2>1, <2>2
<1>18. CallsApart'
  <2>1. ASSUME NEW d \in Client, d # c PROVE Apart(c, d)' /\ Apart(d, c)'
    <3>1. Stored(d) /\ Req(d).item = i => call[d].row.row_version # new.row_version
      <4> SUFFICES ASSUME Stored(d), Req(d).item = i
                   PROVE  call[d].row.row_version # new.row_version
        OBVIOUS
      <4>1. call[d].row.row_version \in Nat /\ call[d].row.row_version < new.row_version
        BY <1>16, <2>1, Numbers
      <4> QED BY <1>12, <4>1
    <3> QED BY <1>9, <1>10, <1>11, <1>15, <2>1, <3>1 DEF Apart, i
  <2>2. ASSUME NEW d \in Client, NEW e \in Client, d # c, e # c, d # e PROVE Apart(d, e)'
    <3>1. Apart(d, e)
      BY <2>2 DEF ApiInv, CallsApart
    <3> QED BY <1>10, <1>11, <2>2, <3>1 DEF Apart
  <2> QED BY <2>1, <2>2 DEF CallsApart
<1>19. DoneSound'
  <2> SUFFICES ASSUME NEW x \in done PROVE Below(x)'
    BY DEF DoneSound
  <2>1. Below(x) /\ x \in Done
    BY DEF ApiInv, DoneSound, TypeOK
  <2>2. x.item \in Item /\ x.replaced \in Nat
    BY <2>1 DEF Done
  <2>3. x.item = i => x.replaced < db.items[i].row_version /\ x.replaced < new.row_version
    BY <1>12, <1>13, <2>1, <2>2 DEF Below
  <2>4. IsRow(db'.items[x.item]) /\ x.replaced < db'.items[x.item].row_version
    BY <1>12, <1>14, <2>1, <2>2, <2>3 DEF Below
  <2>5. ASSUME NEW d \in Client, Stored(d)', Req(d)'.item = x.item
        PROVE  x.replaced # call'[d].row.row_version - 1
    <3>1. CASE d = c
      <4>1. x.item = i
        BY <1>9, <2>5, <3>1 DEF i
      <4> QED BY <1>9, <1>13, <2>1, <2>2, <2>3, <3>1, <4>1 DEF Below
    <3>2. CASE d # c
      BY <1>10, <1>11, <2>1, <2>5, <3>2 DEF Below
    <3> QED BY <3>1, <3>2
  <2> QED BY <2>4, <2>5 DEF Below
<1>20. TypeOK' /\ NoPush' /\ OneWinnerPerRow'
  BY <1>3, <1>5, <1>6, <1>7 DEF ApiInv, TypeOK, TablesTypeOK, NoPush, OneWinnerPerRow
<1> QED BY <1>17, <1>18, <1>19, <1>20 DEF ApiInv

LEMMA WriteApi ==
  ASSUME ApiInv, NEW c \in Client, Write(c)
  PROVE  ApiInv'
<1>1. /\ call[c].pc = "write" /\ nextSeq' = nextSeq /\ pend' = pend /\ done' = done
      /\ calls' = calls /\ failed' = failed /\ failed' \in 0 .. MaxFaults
  BY DEF Write, ApiInv, TypeOK
<1>2. CASE End(c) /\ UNCHANGED db
  BY <1>1, <1>2, EndStep
<1>3. CASE ~(End(c) /\ UNCHANGED db)
  BY <1>1, <1>3, StoreStep DEF Write
<1> QED BY <1>2, <1>3

\* The call is answered: its write joins the acknowledged ones, and replaced a
\* row that none of them did.
LEMMA AnswerStep ==
  ASSUME ApiInv, NEW c \in Client, call[c].pc = "announce", Answer(c),
         db'.items = db.items, db' \in Tables, nextSeq' \in Nat \ {0}, pend' = pend,
         calls' = calls, failed' \in 0 .. MaxFaults
  PROVE  ApiInv'
<1> DEFINE row == call[c].row
<1>0. PICK x : x = [item |-> Req(c).item, replaced |-> row.row_version - 1,
                    version |-> row.version, payload |-> row.payload]
  OBVIOUS
<1>1. call' = [call EXCEPT ![c] = NoCall] /\ NoCall \in Call /\ call \in [Client -> Call]
  BY NoCallType DEF Answer, End, ApiInv, TypeOK
<1>2. call'[c].pc = "idle"
  BY <1>1 DEF NoCall
<1>3. ~Stored(c)' /\ ~Inserting(c)' /\ CallSound(c)' /\ InsertSound(c)'
  BY <1>2 DEF Stored, Inserting, CallSound, InsertSound, Holding
<1>4. CallsSound' /\ CallsApart' /\ \A y \in done : Below(y)'
  BY <1>1, <1>3, QuietStep
<1>5. Stored(c) /\ Holding(c)
  BY DEF Stored, Holding, Inserting
<1>6. /\ Req(c).item \in Item /\ row \in Row /\ row.row_version \in Nat
      /\ db.items[Req(c).item] \in Row /\ db.items[Req(c).item].row_version \in Nat
  BY <1>5, Numbers
<1>7. row.row_version >= 1 /\ row.row_version <= db.items[Req(c).item].row_version
  BY <1>5 DEF ApiInv, CallsSound, StoredSound
<1>8. done' = done \cup {x}
  BY <1>0 DEF Answer
<1>9. row.row_version - 1 \in Nat
  BY <1>6, <1>7
<1>10. x.item = Req(c).item /\ x.replaced = row.row_version - 1 /\ x \in Done
  BY <1>0, <1>6, <1>9 DEF Done, Row
<1>11. Below(x)'
  <2>1. IsRow(db'.items[x.item]) /\ x.replaced < db'.items[x.item].row_version
    BY <1>6, <1>7, <1>10, NoRowAssumption DEF IsRow
  <2>2. ASSUME NEW d \in Client, Stored(d)', Req(d)'.item = x.item
        PROVE  x.replaced # call'[d].row.row_version - 1
    <3>1. d # c
      BY <1>3, <2>2
    <3>2. call'[d] = call[d]
      BY <1>1, <3>1
    <3>3. Stored(d) /\ Req(d).item = Req(c).item
      BY <1>10, <2>2, <3>2 DEF Stored, Req
    <3>4. call[d].row.row_version \in Nat
      BY <3>3, Numbers
    <3>5. Apart(c, d)
      BY <3>1 DEF ApiInv, CallsApart
    <3> QED BY <1>5, <1>6, <1>10, <3>2, <3>3, <3>4, <3>5 DEF Apart
  <2> QED BY <2>1, <2>2 DEF Below
<1>12. DoneSound'
  BY <1>4, <1>8, <1>11 DEF DoneSound
<1>13. ASSUME NEW y \in done, y.item = x.item PROVE y.replaced # x.replaced
  BY <1>5, <1>10, <1>13 DEF ApiInv, DoneSound, Below
<1>14. OneWinnerPerRow'
  BY <1>8, <1>13 DEF ApiInv, OneWinnerPerRow
<1>15. TypeOK'
  BY <1>1, <1>8, <1>10 DEF ApiInv, TypeOK, TablesTypeOK
<1> QED BY <1>4, <1>12, <1>14, <1>15 DEF ApiInv, NoPush

LEMMA AnnounceApi ==
  ASSUME ApiInv, NEW c \in Client, Announce(c)
  PROVE  ApiInv'
<1> DEFINE e == [seq |-> nextSeq, item |-> Req(c).item, op |-> FeedOpOf(Req(c).op),
                 version |-> call[c].row.version]
<1>1. call[c].pc = "announce" /\ Answer(c) /\ nextSeq' = nextSeq + 1 /\ pend' = pend
  BY DEF Announce
<1>2. Holding(c) /\ Req(c) \in Requests
  BY <1>1 DEF Holding, Inserting, ApiInv, CallsSound, CallSound
<1>3. Req(c).item \in Item /\ call[c].row \in Row /\ Req(c).op \in Op
  BY <1>2, Numbers, ApiAssumption DEF Request
<1>4. nextSeq \in Nat \ {0} /\ db \in Tables
  BY DEF ApiInv, TypeOK, TablesTypeOK
<1>5. e \in ChangeEntry
  <2>1. FeedOpOf(Req(c).op) \in FeedOp
    BY <1>3 DEF FeedOpOf, FeedOp, Op
  <2> QED BY <1>3, <1>4, <2>1 DEF ChangeEntry, Row
<1>6. db' = [db EXCEPT !.changes = @ \cup {e}]
  BY DEF Announce
<1> HIDE DEF e
<1>7. db' \in Tables /\ db'.items = db.items
  BY <1>4, <1>5, <1>6 DEF Tables
<1>8. nextSeq' \in Nat \ {0} /\ calls' = calls /\ failed' \in 0 .. MaxFaults
  BY <1>1, <1>4 DEF Announce, ApiInv, TypeOK
<1> QED BY <1>1, <1>7, <1>8, AnswerStep

LEMMA FaultApi ==
  ASSUME ApiInv, NEW c \in Client, LoggedError(c) \/ Die(c)
  PROVE  ApiInv'
<1>1. /\ db' = db /\ nextSeq' = nextSeq /\ pend' = pend /\ calls' = calls
      /\ db \in Tables /\ nextSeq \in Nat \ {0}
  BY DEF LoggedError, Die, tableVars, ApiInv, TypeOK, TablesTypeOK
<1>2. failed' \in 0 .. MaxFaults
  BY ApiAssumption DEF LoggedError, Die, Fault, ApiInv, TypeOK
<1>3. CASE Die(c)
  BY <1>1, <1>2, <1>3, EndStep DEF Die
<1>4. CASE call[c].pc = "save" /\ Goto(c, Saved(c)) /\ UNCHANGED done
  BY <1>1, <1>2, <1>4, SavedStep
<1>5. CASE call[c].pc = "announce" /\ Answer(c)
  BY <1>1, <1>2, <1>5, AnswerStep
<1> QED BY <1>3, <1>4, <1>5 DEF LoggedError

LEMMA InitApi == Init => ApiInv
<1> SUFFICES ASSUME Init PROVE ApiInv
  OBVIOUS
<1>1. call \in [Client -> Call] /\ \A c \in Client : call[c].pc = "idle"
  BY NoCallType DEF Init, NoCall
<1>2. \A c \in Client : ~Stored(c) /\ ~Inserting(c) /\ ~Holding(c)
  BY <1>1 DEF Stored, Inserting, Holding
<1>3. CallsSound /\ CallsApart /\ DoneSound /\ OneWinnerPerRow
  BY <1>1, <1>2 DEF Init, CallsSound, CallSound, InsertSound, StoredSound, CallsApart, Apart,
     DoneSound, OneWinnerPerRow
<1>4. EmptyTables \in Tables
  BY DEF EmptyTables, Tables
<1>5. TypeOK
  BY <1>1, <1>4, NothingPendingTyped, ApiAssumption DEF Init, TablesInit, TypeOK, TablesTypeOK
<1> QED BY <1>3, <1>5 DEF ApiInv, NoPush, Init, TablesInit

\* The inductive invariant: every statement of every call keeps it.
THEOREM ApiInductive == Spec => []ApiInv
<1>1. ASSUME ApiInv, Next PROVE ApiInv'
  <2>1. PICK c \in Client : \/ \E r \in Requests : Begin(c, r)
                            \/ CallStep(c) \/ LoggedError(c) \/ Die(c)
    BY <1>1 DEF Next
  <2>2. ASSUME NEW r \in Requests, Begin(c, r) PROVE ApiInv'
    BY <1>1, <2>2, BeginApi
  <2>3. CASE CallStep(c)
    BY <1>1, <2>3, ReadApi, FindApi, SaveApi, WriteApi, AnnounceApi DEF CallStep
  <2>4. CASE LoggedError(c) \/ Die(c)
    BY <1>1, <2>4, FaultApi
  <2> QED BY <2>1, <2>2, <2>3, <2>4
<1>2. ASSUME ApiInv, UNCHANGED vars PROVE ApiInv'
  <2>1. /\ db' = db /\ nextSeq' = nextSeq /\ pend' = pend /\ call' = call /\ done' = done
        /\ calls' = calls /\ failed' = failed
    BY <1>2 DEF vars, tableVars, apiVars
  <2> QED BY <1>2, <2>1 DEF ApiInv, TypeOK, TablesTypeOK, NoPush, CallsSound, CallSound,
        InsertSound, StoredSound, CallsApart, Apart, DoneSound, Below, OneWinnerPerRow,
        Stored, Inserting, Holding, Req
<1> QED BY <1>1, <1>2, InitApi, PTL DEF Spec

\* The tables and the calls in progress keep their types.
THEOREM ApiTypeCorrect == Spec => []TypeOK
<1>1. ApiInv => TypeOK
  BY DEF ApiInv
<1> QED BY <1>1, ApiInductive, PTL

\* No two acknowledged calls of create_item, update_item, delete_item and
\* restore_item_version replaced the same row, although each of their
\* statements commits by itself and any of them may fail or be the last.
THEOREM OneWinner == Spec => []OneWinnerPerRow
<1>1. ApiInv => OneWinnerPerRow
  BY DEF ApiInv
<1> QED BY <1>1, ApiInductive, PTL

-----------------------------------------------------------------------------
(* Part two: the files of items *)

Handler ==
  [op : {"none", "upload", "edit", "delete", "restore", "download"},
   at : {"idle", "item", "file", "insert", "state", "read", "history", "mark", "purge",
         "clear", "write", "list"},
   item : FileItem, file : FileId, mode : Representation, content : Nat, now : Nat,
   row : FileRow, payload : FilePayload, version : Nat]

Entry == [item : FileItem, version : Nat, payload : FilePayload]

Upload == [item : FileItem, content : Nat, mode : Representation]

FilesTyped ==
  /\ ItemFilesTypeOK
  /\ fileMenu \in FileMenus
  /\ {seals, fileNow, fileCalls, deletesLost} \subseteq Nat
  /\ uploaded \subseteq FileItem \X FileId

\* The file is the item's, or it was until it was purged.
Own(f, i) == f \in purged \/ (FileKnown(f) /\ attachments[f].item = i)

\* A payload of the item i that says ready has its file.
Backed(p, i) == p.state = "ready" => Own(p.file, i)

Sent(k) == [item |-> k.item, content |-> k.content, mode |-> k.mode]

\* A handler that has read the row and writes it later.
Reader(k) == k.at \in {"history", "mark", "purge", "clear", "write"}

\* What a handler holds.
HandlerGood(k) ==
  /\ k.at \in {"item", "file", "insert", "state"} => k.op = "upload"
  /\ k.at \in {"mark", "purge"} => k.op = "delete"
  /\ k.at = "clear" => k.op = "restore"
  /\ k.at \in {"item", "file", "insert"} => Sent(k) \in uploads
  /\ k.op = "upload" /\ k.at \in {"state", "read", "history", "write"} => Own(k.file, k.item)
  /\ Reader(k) => /\ k.row.row_version <= fileRows[k.item].row_version
                  /\ k.row.row_version = fileRows[k.item].row_version =>
                       k.row = fileRows[k.item]
  /\ Backed(k.payload, k.item) /\ Backed(k.row.payload, k.item)

HandlersGood == \A c \in FileCaller : HandlerGood(fileCall[c])

\* The bytes of a file were sent to its item, by one of the calls so far.
FilesSent ==
  /\ \A f \in FileId : FileKnown(f) =>
       Sent(attachments[f]) \in uploads /\ attachments[f].created_at = attachments[f].content
  /\ \A u \in uploads : u.content \in 0 .. fileCalls

PayloadsBacked ==
  /\ \A i \in FileItem : Backed(fileRows[i].payload, i)
  /\ \A h \in fileHistory : Backed(h.payload, h.item)

\* No file of the item is marked deleted.
Clean(i) ==
  \A f \in FileId : FileKnown(f) /\ attachments[f].item = i =>
    attachments[f].deleted_at = NotDeleted

\* The handler k has marked the files of i and not written the row yet.
HasMarked(k, i) == k.op = "delete" /\ k.at \in {"purge", "write"} /\ k.item = i

Deleting(i) == \E c \in FileCaller : HasMarked(fileCall[c], i)

\* The handler k has cleared the marks of i and is going to write the row.
WillRestore(k, i) ==
  /\ k.op = "restore" /\ k.at = "write" /\ k.item = i
  /\ k.row.row_version = fileRows[i].row_version

Restoring(i) == \E c \in FileCaller : WillRestore(fileCall[c], i)

MarksHeld ==
  deletesLost = 0 =>
    \A i \in FileItem : fileRows[i].active \/ Restoring(i) => Clean(i) \/ Deleting(i)

FilesInv ==
  /\ FilesTyped /\ HandlersGood /\ FilesSent /\ PayloadsBacked /\ MarksHeld
  /\ AnsweredUploadHeld /\ DownloadIsOfItem

-----------------------------------------------------------------------------
(* What a step of one handler leaves alone *)

\* No file changes hands.
OwnKept == \A f \in FileId, i \in FileItem : Own(f, i) => Own(f, i)'

\* A row that is written counts its row_version up.
RowsGrow ==
  \A i \in FileItem : \/ fileRows'[i] = fileRows[i]
                      \/ fileRows'[i].row_version > fileRows[i].row_version

LEMMA NoFileCallIs ==
  /\ NoFileCall \in Handler
  /\ NoFileCall.at = "idle" /\ NoFileCall.op = "none"
  /\ NoFileCall.payload.state = "pending" /\ NoFileCall.row.payload.state = "pending"
<1>1. PICK i : i = CHOOSE j \in FileItem : TRUE
  OBVIOUS
<1>2. PICK f : f = CHOOSE g \in FileId : TRUE
  OBVIOUS
<1>3. i \in FileItem /\ f \in FileId
  BY <1>1, <1>2, ItemFilesAssumption
<1>4. PICK p : p = [seal |-> 0, state |-> "pending", file |-> f]
  OBVIOUS
<1>5. p \in FilePayload /\ p.state = "pending"
  BY <1>3, <1>4 DEF FilePayload
<1>6. NoFileRow \in FileRow /\ NoFileRow.payload = p
  BY <1>2, <1>4, <1>5 DEF NoFileRow, FileRow
<1> HIDE DEF NoFileRow
<1> QED  BY <1>1, <1>2, <1>3, <1>5, <1>6 DEF NoFileCall, Handler, Representation

LEMMA HandlerOf ==
  ASSUME FilesInv, NEW c \in FileCaller
  PROVE  /\ fileCall \in [FileCaller -> Handler]
         /\ fileCall[c] \in Handler /\ HandlerGood(fileCall[c])
         /\ fileCall[c].item \in FileItem /\ fileCall[c].file \in FileId
         /\ fileCall[c].payload \in FilePayload /\ fileCall[c].row \in FileRow
         /\ fileCall[c].row.payload \in FilePayload
         /\ fileCall[c].content \in Nat /\ fileCall[c].now \in Nat
         /\ fileCall[c].mode \in Representation
         /\ fileRows[fileCall[c].item] \in FileRow
BY DEF FilesInv, FilesTyped, ItemFilesTypeOK, HandlersGood, Handler, FileRow

LEMMA BackedStays ==
  ASSUME OwnKept, NEW p \in FilePayload, NEW i \in FileItem, Backed(p, i)
  PROVE  Backed(p, i)'
BY DEF Backed, OwnKept, FilePayload

LEMMA HandlerStays ==
  ASSUME OwnKept, RowsGrow, uploads \subseteq uploads', NEW k \in Handler, HandlerGood(k),
         fileRows \in [FileItem -> FileRow], fileRows' \in [FileItem -> FileRow]
  PROVE  HandlerGood(k)'
<1>1. /\ k.item \in FileItem /\ k.file \in FileId
      /\ k.payload \in FilePayload /\ k.row \in FileRow /\ k.row.payload \in FilePayload
  BY DEF Handler, FileRow
<1>2. Backed(k.payload, k.item)' /\ Backed(k.row.payload, k.item)'
  BY <1>1, BackedStays DEF HandlerGood
<1>3. Own(k.file, k.item) => Own(k.file, k.item)'
  BY <1>1 DEF OwnKept
<1>4. Reader(k) => /\ k.row.row_version <= fileRows'[k.item].row_version
                   /\ k.row.row_version = fileRows'[k.item].row_version =>
                        k.row = fileRows'[k.item]
  <2>1. /\ k.row.row_version \in Nat /\ fileRows[k.item].row_version \in Nat
        /\ fileRows'[k.item].row_version \in Nat
    BY <1>1 DEF FileRow
  <2> QED  BY <1>1, <2>1 DEF HandlerGood, RowsGrow
<1> HIDE DEF Backed, Own
<1> QED  BY <1>2, <1>3, <1>4 DEF HandlerGood, Sent, Reader

\* A step of the handler of c, which becomes k.
LEMMA FileStepKeeps ==
  ASSUME FilesInv, NEW c \in FileCaller, NEW k \in Handler,
         fileCall' = [fileCall EXCEPT ![c] = k], HandlerGood(k)',
         FilesTyped', uploads \subseteq uploads', OwnKept, RowsGrow, FilesSent',
         PayloadsBacked', MarksHeld', downloaded' \subseteq uploads',
         \A u \in uploaded' \ uploaded : Own(u[2], u[1])'
  PROVE  FilesInv'
<1>1. HandlersGood'
  <2> SUFFICES ASSUME NEW d \in FileCaller
               PROVE  HandlerGood(fileCall[d])'
    BY DEF HandlersGood
  <2>1. CASE d = c
    BY <2>1, HandlerOf
  <2>2. CASE d # c
    <3>1. PICK r : r = fileCall[d]
      OBVIOUS
    <3>2. r \in Handler /\ HandlerGood(r)
      BY <3>1, HandlerOf
    <3>3. fileRows \in [FileItem -> FileRow] /\ fileRows' \in [FileItem -> FileRow]
      BY DEF FilesInv, FilesTyped, ItemFilesTypeOK
    <3>4. HandlerGood(r)'
      BY <3>2, <3>3, HandlerStays
    <3>5. fileCall'[d] = r
      BY <2>2, <3>1, HandlerOf
    <3> QED  BY <3>4, <3>5
  <2> QED  BY <2>1, <2>2
<1>2. AnsweredUploadHeld'
  <2> SUFFICES ASSUME NEW u \in uploaded'
               PROVE  Own(u[2], u[1])'
    BY DEF AnsweredUploadHeld, Own
  <2>1. CASE u \in uploaded
    <3>1. u \in FileItem \X FileId
      BY <2>1 DEF FilesInv, FilesTyped
    <3>2. Own(u[2], u[1])
      BY <2>1 DEF FilesInv, AnsweredUploadHeld, Own
    <3> QED  BY <3>1, <3>2 DEF OwnKept
  <2> QED  BY <2>1
<1>3. DownloadIsOfItem'
  BY DEF DownloadIsOfItem
<1> QED  BY <1>1, <1>2, <1>3 DEF FilesInv

\* A step that marks only files it answers for, writes no row and ends no
\* deletion.
LEMMA MarksStay ==
  ASSUME FilesInv, NEW c \in FileCaller, NEW k \in Handler,
         fileCall' = [fileCall EXCEPT ![c] = k], UNCHANGED <<fileRows, deletesLost>>,
         \A i \in FileItem : Clean(i) => Clean(i)' \/ HasMarked(k, i),
         \A i \in FileItem : HasMarked(fileCall[c], i) => HasMarked(k, i),
         \A i \in FileItem : WillRestore(k, i) => Clean(i)'
  PROVE  MarksHeld'
<1> SUFFICES ASSUME deletesLost = 0, NEW i \in FileItem,
                    fileRows[i].active \/ Restoring(i)'
             PROVE  Clean(i)' \/ Deleting(i)'
  BY DEF MarksHeld
<1>1. fileCall'[c] = k /\ \A d \in FileCaller \ {c} : fileCall'[d] = fileCall[d]
  BY HandlerOf
<1>2. CASE Clean(i)
  <2>1. CASE HasMarked(k, i)
    BY <1>1, <2>1 DEF Deleting, HasMarked
  <2> QED  BY <1>2, <2>1
<1>3. CASE Deleting(i)
  <2>1. PICK d \in FileCaller : HasMarked(fileCall[d], i)
    BY <1>3 DEF Deleting
  <2>2. HasMarked(fileCall'[d], i)
    BY <1>1, <2>1
  <2> QED  BY <2>2 DEF Deleting, HasMarked
<1>4. CASE fileRows[i].active \/ Restoring(i)
  BY <1>2, <1>3, <1>4 DEF FilesInv, MarksHeld
<1>5. CASE Restoring(i)' /\ ~Restoring(i)
  <2>1. PICK d \in FileCaller : WillRestore(fileCall[d], i)'
    BY <1>5 DEF Restoring
  <2>2. WillRestore(fileCall'[d], i)
    BY <2>1 DEF WillRestore
  <2>3. d = c
    BY <1>1, <1>5, <2>2 DEF Restoring
  <2> QED  BY <1>1, <2>2, <2>3
<1> QED  BY <1>4, <1>5

\* A step that only moves its handler on, or ends it.
LEMMA QuietStepKeeps ==
  ASSUME FilesInv, NEW c \in FileCaller, NEW k \in Handler,
         fileCall' = [fileCall EXCEPT ![c] = k], HandlerGood(k)',
         UNCHANGED <<fileMenu, fileRows, fileHistory, attachments, purged, deletesLost>>,
         {seals', fileNow', fileCalls'} \subseteq Nat, uploads \subseteq uploads',
         fileCalls <= fileCalls', \A u \in uploads' \ uploads : u.content \in 0 .. fileCalls',
         uploaded' \subseteq FileItem \X FileId, downloaded' \subseteq uploads',
         \A u \in uploaded' \ uploaded : Own(u[2], u[1]),
         fileCall[c].op # "delete" \/ fileCall[c].at \notin {"purge", "write"},
         k.op # "restore" \/ k.at # "write"
  PROVE  FilesInv'
<1>1. FilesTyped'
  <2>1. fileCall' \in [FileCaller -> Handler]
    BY HandlerOf
  <2> QED  BY <2>1 DEF FilesInv, FilesTyped, ItemFilesTypeOK, Handler
<1>2. /\ \A f, i : Own(f, i)' <=> Own(f, i)
      /\ \A i : Clean(i)' <=> Clean(i)
  BY DEF Own, FileKnown, Clean
<1>3. OwnKept /\ RowsGrow
  BY <1>2 DEF OwnKept, RowsGrow
<1>6. FilesSent'
  <2>1. \A f \in FileId : FileKnown(f)' =>
          Sent(attachments'[f]) \in uploads' /\ attachments'[f].created_at = attachments'[f].content
    BY DEF FilesInv, FilesSent, FileKnown
  <2>2. fileCalls \in Nat /\ \A u \in uploads : u.content \in 0 .. fileCalls
    BY DEF FilesInv, FilesTyped, FilesSent
  <2>3. \A u \in uploads' : u.content \in 0 .. fileCalls'
    BY <2>2
  <2> QED  BY <2>1, <2>3 DEF FilesSent, Sent
<1>4. PayloadsBacked'
  BY <1>2 DEF FilesInv, PayloadsBacked, Backed
<1>5. MarksHeld'
  BY <1>2, MarksStay DEF HasMarked, WillRestore
<1> HIDE DEF Own
<1> QED  BY <1>1, <1>2, <1>3, <1>4, <1>5, <1>6, FileStepKeeps

\* A handler that has ended holds nothing.
LEMMA EndedIsGood ==
  ASSUME NEW k, k = NoFileCall
  PROVE  /\ k \in Handler /\ HandlerGood(k)'
         /\ k.at = "idle" /\ k.op = "none"
<1>1. /\ k \in Handler /\ k.at = "idle" /\ k.op = "none"
      /\ k.payload.state = "pending" /\ k.row.payload.state = "pending"
  BY NoFileCallIs
<1> QED  BY <1>1 DEF HandlerGood, Reader, Backed

LEMMA QuietEndKeeps ==
  ASSUME FilesInv, NEW c \in FileCaller, EndFile(c),
         UNCHANGED <<fileMenu, fileRows, fileHistory, attachments, purged, deletesLost,
                     seals, fileNow, fileCalls, uploads>>,
         uploaded' \subseteq FileItem \X FileId, downloaded' \subseteq uploads,
         \A u \in uploaded' \ uploaded : Own(u[2], u[1]),
         fileCall[c].op # "delete" \/ fileCall[c].at \notin {"purge", "write"}
  PROVE  FilesInv'
<1>1. PICK k : k = NoFileCall
  OBVIOUS
<1>2. fileCall' = [fileCall EXCEPT ![c] = k]
  BY <1>1 DEF EndFile
<1>3. {seals', fileNow', fileCalls'} \subseteq Nat /\ fileCalls <= fileCalls'
  BY DEF FilesInv, FilesTyped
<1>4. k \in Handler /\ HandlerGood(k)' /\ k.op = "none"
  BY <1>1, EndedIsGood
<1> QED  BY <1>2, <1>3, <1>4, QuietStepKeeps

-----------------------------------------------------------------------------
(* Requests that begin *)

LEMMA BeginKeeps ==
  ASSUME FilesInv, NEW c \in FileCaller, NEW k \in Handler, StartFile(c, k),
         seals' \in Nat, uploads \subseteq uploads',
         \A u \in uploads' \ uploads : u.content = fileCalls + 1,
         k.at \in {"item", "read", "list"},
         k.at = "item" => k.op = "upload" /\ Sent(k) \in uploads',
         k.op # "restore" \/ k.at # "write", k.at = "read" => k.op # "upload",
         Backed(k.payload, k.item), Backed(k.row.payload, k.item)
  PROVE  FilesInv'
<1>1. /\ fileCall[c].at = "idle" /\ fileCall' = [fileCall EXCEPT ![c] = k]
      /\ fileCalls' = fileCalls + 1
      /\ UNCHANGED <<fileMenu, fileRows, fileHistory, attachments, uploaded, downloaded, purged,
                     deletesLost, fileNow>>
  BY DEF StartFile, AtFile
<1>2. /\ {seals', fileNow', fileCalls'} \subseteq Nat /\ fileCalls <= fileCalls'
      /\ \A u \in uploads' \ uploads : u.content \in 0 .. fileCalls'
  BY <1>1 DEF FilesInv, FilesTyped
<1>3. uploaded' \subseteq FileItem \X FileId /\ downloaded' \subseteq uploads'
  BY <1>1 DEF FilesInv, FilesTyped, DownloadIsOfItem
<1>4. Backed(k.payload, k.item)' /\ Backed(k.row.payload, k.item)'
  BY <1>1 DEF Backed, Own, FileKnown
<1>5. HandlerGood(k)'
  <2> HIDE DEF Backed
  <2> QED  BY <1>4 DEF HandlerGood, Reader, Sent
<1> QED  BY <1>1, <1>2, <1>3, <1>5, QuietStepKeeps

LEMMA BeginUploadKeeps ==
  ASSUME FilesInv, NEW c \in FileCaller, NEW i \in FileItem, NEW f \in FileId,
         NEW mode \in Representation, BeginUpload(c, i, f, mode)
  PROVE  FilesInv'
<1>1. fileCalls + 1 \in Nat /\ seals \in Nat
  BY DEF FilesInv, FilesTyped
<1>2. PICK n : n = NoFileCall
  OBVIOUS
<1>3. n \in Handler /\ n.payload.state = "pending" /\ n.row.payload.state = "pending"
  BY <1>2, NoFileCallIs
<1>4. PICK k : k = [n EXCEPT !.op = "upload", !.at = "item", !.item = i, !.file = f,
                             !.mode = mode, !.content = fileCalls + 1]
  OBVIOUS
<1>5. /\ k \in Handler /\ k.op = "upload" /\ k.at = "item"
      /\ Sent(k) = [item |-> i, content |-> fileCalls + 1, mode |-> mode]
      /\ k.payload.state = "pending" /\ k.row.payload.state = "pending"
  BY <1>1, <1>3, <1>4 DEF Handler, Sent
<1>6. /\ StartFile(c, k)
      /\ uploads' = uploads \cup {[item |-> i, content |-> fileCalls + 1, mode |-> mode]}
      /\ seals' = seals
  BY <1>2, <1>4 DEF BeginUpload
<1>7. Backed(k.payload, k.item) /\ Backed(k.row.payload, k.item)
  BY <1>5 DEF Backed
<1> QED  BY <1>1, <1>5, <1>6, <1>7, BeginKeeps

LEMMA BeginFileEditKeeps ==
  ASSUME FilesInv, NEW c \in FileCaller, NEW i \in FileItem, NEW f \in FileId,
         NEW keeps, BeginFileEdit(c, i, f, keeps)
  PROVE  FilesInv'
<1>1. seals + 1 \in Nat
  BY DEF FilesInv, FilesTyped
<1>2. PICK p : p = IF keeps THEN [fileRows[i].payload EXCEPT !.seal = seals + 1]
                   ELSE [seal |-> seals + 1, state |-> "pending", file |-> f]
  OBVIOUS
<1>3. fileRows[i].payload \in FilePayload /\ Backed(fileRows[i].payload, i)
  BY DEF FilesInv, FilesTyped, ItemFilesTypeOK, FileRow, PayloadsBacked
<1>4. p \in FilePayload /\ Backed(p, i)
  BY <1>1, <1>2, <1>3 DEF FilePayload, Backed
<1>5. PICK n : n = NoFileCall
  OBVIOUS
<1>6. n \in Handler /\ n.row.payload.state = "pending"
  BY <1>5, NoFileCallIs
<1>7. PICK k : k = [n EXCEPT !.op = "edit", !.at = "read", !.item = i, !.payload = p]
  OBVIOUS
<1>8. /\ k \in Handler /\ k.op = "edit" /\ k.at = "read" /\ k.item = i /\ k.payload = p
      /\ k.row.payload.state = "pending"
  BY <1>4, <1>6, <1>7 DEF Handler
<1>9. StartFile(c, k) /\ seals' = seals + 1 /\ uploads' = uploads
  BY <1>2, <1>5, <1>7 DEF BeginFileEdit
<1>10. Backed(k.payload, k.item) /\ Backed(k.row.payload, k.item)
  BY <1>4, <1>8 DEF Backed
<1> QED  BY <1>1, <1>8, <1>9, <1>10, BeginKeeps

LEMMA BeginDeleteKeeps ==
  ASSUME FilesInv, NEW c \in FileCaller, NEW i \in FileItem, BeginFileDelete(c, i)
  PROVE  FilesInv'
<1>1. PICK n : n = NoFileCall
  OBVIOUS
<1>2. n \in Handler /\ n.payload.state = "pending" /\ n.row.payload.state = "pending"
  BY <1>1, NoFileCallIs
<1>3. PICK k : k = [n EXCEPT !.op = "delete", !.at = "read", !.item = i]
  OBVIOUS
<1>4. /\ k \in Handler /\ k.op = "delete" /\ k.at = "read"
      /\ k.payload.state = "pending" /\ k.row.payload.state = "pending"
  BY <1>2, <1>3 DEF Handler
<1>5. StartFile(c, k) /\ UNCHANGED <<uploads, seals>> /\ seals \in Nat
  BY <1>1, <1>3 DEF BeginFileDelete, FilesInv, FilesTyped
<1>6. Backed(k.payload, k.item) /\ Backed(k.row.payload, k.item)
  BY <1>4 DEF Backed
<1> QED  BY <1>4, <1>5, <1>6, BeginKeeps

LEMMA BeginRestoreKeeps ==
  ASSUME FilesInv, NEW c \in FileCaller, NEW i \in FileItem, NEW version \in Nat,
         BeginFileRestore(c, i, version)
  PROVE  FilesInv'
<1>1. PICK n : n = NoFileCall
  OBVIOUS
<1>2. n \in Handler /\ n.payload.state = "pending" /\ n.row.payload.state = "pending"
  BY <1>1, NoFileCallIs
<1>3. PICK k : k = [n EXCEPT !.op = "restore", !.at = "read", !.item = i, !.version = version]
  OBVIOUS
<1>4. /\ k \in Handler /\ k.op = "restore" /\ k.at = "read"
      /\ k.payload.state = "pending" /\ k.row.payload.state = "pending"
  BY <1>2, <1>3 DEF Handler
<1>5. StartFile(c, k) /\ UNCHANGED <<uploads, seals>> /\ seals \in Nat
  BY <1>1, <1>3 DEF BeginFileRestore, FilesInv, FilesTyped
<1>6. Backed(k.payload, k.item) /\ Backed(k.row.payload, k.item)
  BY <1>4 DEF Backed
<1> QED  BY <1>4, <1>5, <1>6, BeginKeeps

LEMMA BeginDownloadKeeps ==
  ASSUME FilesInv, NEW c \in FileCaller, NEW i \in FileItem, NEW mode \in Representation,
         BeginDownload(c, i, mode)
  PROVE  FilesInv'
<1>1. PICK n : n = NoFileCall
  OBVIOUS
<1>2. n \in Handler /\ n.payload.state = "pending"
  BY <1>1, NoFileCallIs
<1>3. PICK row : row = fileRows[i]
  OBVIOUS
<1>4. row \in FileRow /\ Backed(row.payload, i)
  BY <1>3 DEF FilesInv, FilesTyped, ItemFilesTypeOK, PayloadsBacked
<1>5. PICK k : k = [n EXCEPT !.op = "download", !.at = "list", !.item = i, !.mode = mode,
                             !.row = row]
  OBVIOUS
<1>6. /\ k \in Handler /\ k.op = "download" /\ k.at = "list" /\ k.item = i /\ k.row = row
      /\ k.payload.state = "pending"
  BY <1>2, <1>4, <1>5 DEF Handler
<1>7. StartFile(c, k) /\ UNCHANGED <<uploads, seals>> /\ seals \in Nat
  BY <1>1, <1>3, <1>5 DEF BeginDownload, FilesInv, FilesTyped
<1>8. Backed(k.payload, k.item) /\ Backed(k.row.payload, k.item)
  BY <1>4, <1>6 DEF Backed
<1> QED  BY <1>6, <1>7, <1>8, BeginKeeps

-----------------------------------------------------------------------------
(* Steps that only read *)

LEMMA Answers ==
  ASSUME FilesInv
  PROVE  /\ uploaded \subseteq FileItem \X FileId /\ downloaded \subseteq uploads
         /\ {seals, fileNow, fileCalls} \subseteq Nat /\ fileCalls <= fileCalls
BY DEF FilesInv, FilesTyped, DownloadIsOfItem

LEMMA UploadReadsItemKeeps ==
  ASSUME FilesInv, NEW c \in FileCaller, UploadReadsItem(c)
  PROVE  FilesInv'
<1>1. PICK k : k = fileCall[c]
  OBVIOUS
<1>2. k \in Handler /\ HandlerGood(k) /\ k.at = "item" /\ k.item \in FileItem
  BY <1>1, HandlerOf DEF UploadReadsItem, AtFile
<1>3. PICK row : row = fileRows[k.item]
  OBVIOUS
<1>4. row \in FileRow /\ Backed(row.payload, k.item)
  BY <1>2, <1>3 DEF FilesInv, FilesTyped, ItemFilesTypeOK, PayloadsBacked
<1>5. PICK r : r = [k EXCEPT !.at = "file", !.row = row]
  OBVIOUS
<1>6. /\ r \in Handler /\ r.at = "file" /\ r.row = row /\ r.payload = k.payload
      /\ r.op = k.op /\ r.item = k.item /\ Sent(r) = Sent(k)
  BY <1>2, <1>4, <1>5 DEF Handler, Sent
<1>7. /\ fileCall' = [fileCall EXCEPT ![c] = r]
      /\ UNCHANGED <<fileMenu, fileRows, fileHistory, attachments, uploads, uploaded, downloaded,
                     purged, deletesLost, seals, fileNow, fileCalls>>
  BY <1>1, <1>3, <1>5 DEF UploadReadsItem, fileAnswers
<1>8. Backed(r.payload, r.item)' /\ Backed(r.row.payload, r.item)'
  BY <1>2, <1>4, <1>6, <1>7 DEF HandlerGood, Backed, Own, FileKnown
<1>9. HandlerGood(r)'
  <2> HIDE DEF Backed
  <2> QED  BY <1>2, <1>6, <1>7, <1>8 DEF HandlerGood, Reader
<1> QED  BY <1>1, <1>2, <1>6, <1>7, <1>9, Answers, QuietStepKeeps

LEMMA UploadLooksUpFileKeeps ==
  ASSUME FilesInv, NEW c \in FileCaller, UploadLooksUpFile(c)
  PROVE  FilesInv'
<1>1. PICK k : k = fileCall[c]
  OBVIOUS
<1>2. /\ k \in Handler /\ HandlerGood(k) /\ k.at = "file"
      /\ k.item \in FileItem /\ k.file \in FileId
  BY <1>1, HandlerOf DEF UploadLooksUpFile, AtFile
<1>3. /\ UNCHANGED <<fileMenu, fileRows, fileHistory, attachments, uploads, downloaded,
                     purged, deletesLost, seals, fileNow, fileCalls>>
      /\ k.op = "upload"
  BY <1>2 DEF UploadLooksUpFile, HandlerGood
<1>4. CASE FileKnown(k.file)
  <2>1. /\ uploaded' = uploaded \cup IF attachments[k.file].item = k.item
                                     THEN {<<k.item, k.file>>} ELSE {}
        /\ EndFile(c)
    BY <1>1, <1>4 DEF UploadLooksUpFile
  <2>2. \A u \in uploaded' \ uploaded : Own(u[2], u[1])
    BY <1>4, <2>1 DEF Own
  <2>3. uploaded' \subseteq FileItem \X FileId
    BY <1>2, <2>1, Answers
  <2> QED  BY <1>1, <1>2, <1>3, <2>1, <2>2, <2>3, Answers, QuietEndKeeps
<1>5. CASE ~FileKnown(k.file) /\ EndFile(c)
  <2>1. uploaded' = uploaded
    BY <1>1, <1>5 DEF UploadLooksUpFile
  <2> QED  BY <1>1, <1>2, <1>3, <1>5, <2>1, Answers, QuietEndKeeps
<1>6. CASE ~FileKnown(k.file) /\ ~EndFile(c)
  <2>1. PICK r : r = [k EXCEPT !.at = "insert"]
    OBVIOUS
  <2>2. fileCall' = [fileCall EXCEPT ![c] = r] /\ uploaded' = uploaded
    BY <1>1, <1>6, <2>1 DEF UploadLooksUpFile, GotoFile
  <2>3. /\ r \in Handler /\ r.at = "insert" /\ r.row = k.row /\ r.payload = k.payload
        /\ r.op = k.op /\ r.item = k.item /\ Sent(r) = Sent(k)
    BY <1>2, <2>1 DEF Handler, Sent
  <2>4. Backed(r.payload, r.item)' /\ Backed(r.row.payload, r.item)'
    BY <1>2, <1>3, <2>3 DEF HandlerGood, Backed, Own, FileKnown
  <2>5. HandlerGood(r)'
    <3> HIDE DEF Backed
    <3> QED  BY <1>2, <1>3, <2>3, <2>4 DEF HandlerGood, Reader
  <2> QED  BY <1>1, <1>2, <1>3, <2>2, <2>3, <2>5, Answers, QuietStepKeeps
<1> QED  BY <1>4, <1>5, <1>6

LEMMA ReadUploadStateKeeps ==
  ASSUME FilesInv, NEW c \in FileCaller, ReadUploadState(c)
  PROVE  FilesInv'
<1>1. PICK k : k = fileCall[c]
  OBVIOUS
<1>2. /\ k \in Handler /\ HandlerGood(k) /\ k.at = "state"
      /\ k.item \in FileItem /\ k.file \in FileId
  BY <1>1, HandlerOf DEF ReadUploadState, AtFile
<1>3. k.op = "upload" /\ Own(k.file, k.item)
  BY <1>2 DEF HandlerGood
<1>4. PICK p : p = [seal |-> seals + 1, state |-> "ready", file |-> k.file]
  OBVIOUS
<1>5. p \in FilePayload /\ p.file = k.file /\ seals + 1 \in Nat
  BY <1>2, <1>4, Answers DEF FilePayload
<1>6. PICK r : r = [k EXCEPT !.at = "read", !.payload = p]
  OBVIOUS
<1>7. /\ r \in Handler /\ r.at = "read" /\ r.row = k.row /\ r.payload = p
      /\ r.op = k.op /\ r.item = k.item /\ r.file = k.file
  BY <1>2, <1>5, <1>6 DEF Handler
<1>8. /\ fileCall' = [fileCall EXCEPT ![c] = r] /\ seals' = seals + 1
      /\ UNCHANGED <<fileMenu, fileRows, fileHistory, attachments, uploads, uploaded, downloaded,
                     purged, deletesLost, fileNow, fileCalls>>
  BY <1>1, <1>4, <1>6 DEF ReadUploadState, fileAnswers
<1>9. Own(r.file, r.item)' /\ Backed(r.payload, r.item)' /\ Backed(r.row.payload, r.item)'
  BY <1>2, <1>3, <1>5, <1>7, <1>8 DEF HandlerGood, Backed, Own, FileKnown
<1>10. HandlerGood(r)'
  <2> HIDE DEF Backed, Own
  <2> QED  BY <1>3, <1>7, <1>9 DEF HandlerGood, Reader
<1> QED  BY <1>1, <1>2, <1>5, <1>7, <1>8, <1>10, Answers, QuietStepKeeps

\* The row of the item has been read for a write, with what to write.
LEMMA RowReadKeeps ==
  ASSUME FilesInv, NEW c \in FileCaller, fileCall[c].at = "read",
         NEW p \in FilePayload, Backed(p, fileCall[c].item), NEW now \in Nat, NEW r,
         r = [fileCall[c] EXCEPT !.at = "history", !.row = fileRows[fileCall[c].item],
                                 !.payload = p, !.now = now],
         fileCall' = [fileCall EXCEPT ![c] = r], fileNow' \in Nat,
         UNCHANGED <<fileMenu, fileRows, fileHistory, attachments, uploads, uploaded, downloaded,
                     purged, deletesLost, seals, fileCalls>>
  PROVE  FilesInv'
<1>1. PICK k : k = fileCall[c]
  OBVIOUS
<1>2. k \in Handler /\ HandlerGood(k) /\ k.at = "read" /\ k.item \in FileItem
  BY <1>1, HandlerOf
<1>3. PICK row : row = fileRows[k.item]
  OBVIOUS
<1>4. row \in FileRow /\ Backed(row.payload, k.item) /\ row.row_version <= row.row_version
  BY <1>2, <1>3 DEF FilesInv, FilesTyped, ItemFilesTypeOK, PayloadsBacked, FileRow
<1>5. /\ r \in Handler /\ r.at = "history" /\ r.row = row /\ r.payload = p
      /\ r.op = k.op /\ r.item = k.item /\ r.file = k.file
  <2>1. r = [k EXCEPT !.at = "history", !.row = row, !.payload = p, !.now = now]
    BY <1>1, <1>3
  <2> HIDE DEF FileRow, FilePayload
  <2> QED  BY <1>2, <1>4, <2>1 DEF Handler
<1>6. /\ \A f, i : Own(f, i)' <=> Own(f, i)
      /\ Backed(r.payload, r.item)' /\ Backed(r.row.payload, r.item)'
  BY <1>1, <1>4, <1>5 DEF Backed, Own, FileKnown
<1>7. HandlerGood(r)'
  <2> HIDE DEF Backed, Own
  <2> QED  BY <1>2, <1>3, <1>4, <1>5, <1>6 DEF HandlerGood, Reader
<1> QED  BY <1>5, <1>7, Answers, QuietStepKeeps

LEMMA ReadFileRowKeeps ==
  ASSUME FilesInv, NEW c \in FileCaller, NEW now \in Nat, ReadFileRow(c, now)
  PROVE  FilesInv'
<1>1. PICK k : k = fileCall[c]
  OBVIOUS
<1>2. k \in Handler /\ HandlerGood(k) /\ k.at = "read" /\ k.item \in FileItem
  BY <1>1, HandlerOf DEF ReadFileRow, AtFile
<1>3. PICK p : p = IF k.op = "delete" THEN fileRows[k.item].payload ELSE k.payload
  OBVIOUS
<1>4. p \in FilePayload /\ Backed(p, k.item)
  BY <1>1, <1>2, <1>3, HandlerOf
     DEF HandlerGood, FilesInv, FilesTyped, ItemFilesTypeOK, PayloadsBacked, FileRow
<1>5. PICK r : r = [k EXCEPT !.at = "history", !.row = fileRows[k.item], !.payload = p,
                             !.now = now]
  OBVIOUS
<1>6. /\ fileCall' = [fileCall EXCEPT ![c] = r] /\ fileNow' = now
      /\ UNCHANGED <<fileMenu, fileRows, fileHistory, attachments, uploads, uploaded, downloaded,
                     purged, deletesLost, seals, fileCalls>>
  BY <1>1, <1>3, <1>5 DEF ReadFileRow, fileAnswers
<1> QED  BY <1>1, <1>2, <1>4, <1>5, <1>6, RowReadKeeps

LEMMA ReadVersionKeeps ==
  ASSUME FilesInv, NEW c \in FileCaller, ReadVersion(c)
  PROVE  FilesInv'
<1>1. PICK k : k = fileCall[c]
  OBVIOUS
<1>2. /\ k \in Handler /\ HandlerGood(k) /\ k.at = "read" /\ k.item \in FileItem
      /\ UNCHANGED <<fileMenu, fileRows, fileHistory, attachments, uploads, uploaded, downloaded,
                     purged, deletesLost, seals, fileNow, fileCalls>>
  BY <1>1, HandlerOf DEF ReadVersion, AtFile, fileAnswers
<1>3. CASE EndFile(c)
  BY <1>1, <1>2, <1>3, Answers, QuietEndKeeps
<1>4. CASE ~EndFile(c)
  <2>1. PICK h \in fileHistory :
          /\ h.item = k.item
          /\ fileCall' = [fileCall EXCEPT ![c].at = "history", ![c].row = fileRows[k.item],
                             ![c].now = fileNow, ![c].payload = h.payload]
    BY <1>1, <1>4 DEF ReadVersion, GetByItemVersion
  <2>2. PICK p : p = h.payload
    OBVIOUS
  <2>3. p \in FilePayload /\ Backed(p, k.item)
    BY <2>1, <2>2 DEF FilesInv, FilesTyped, ItemFilesTypeOK, PayloadsBacked
  <2>4. PICK r : r = [k EXCEPT !.at = "history", !.row = fileRows[k.item], !.payload = p,
                               !.now = fileNow]
    OBVIOUS
  <2>5. fileCall' = [fileCall EXCEPT ![c] = r] /\ fileNow \in Nat
    BY <1>1, <2>1, <2>2, <2>4, Answers
  <2> QED  BY <1>1, <1>2, <2>3, <2>4, <2>5, RowReadKeeps
<1> QED  BY <1>3, <1>4

LEMMA LeastExists ==
  ASSUME NEW S \in SUBSET Nat, S # {}
  PROVE  \E n \in S : \A m \in S : n <= m
<1>1. PICK R : R = OpToRel(<, Nat)
  OBVIOUS
<1>2. IsWellFoundedOn(R, Nat)
  BY <1>1, NatLessThanWellFounded
<1>3. PICK n \in S : \A m \in S : ~(<<m, n>> \in R)
  BY <1>2, WFMin
<1>4. \A m, k \in Nat : m < k => <<m, k>> \in R
  BY <1>1 DEF OpToRel
<1>5. ASSUME NEW m \in S  PROVE n <= m
  <2>1. m \in Nat /\ n \in Nat /\ ~(<<m, n>> \in R)
    BY <1>3
  <2>2. ~(m < n)
    BY <1>4, <2>1
  <2> QED  BY <2>1, <2>2
<1> QED  BY <1>5

\* The files of an item have a newest one: their times are those of calls.
LEMMA NewestExists ==
  ASSUME FilesInv, NEW files \in SUBSET {f \in FileId : FileKnown(f)}, files # {}
  PROVE  \E f \in files : \A g \in files : attachments[g].created_at <= attachments[f].created_at
<1>1. fileCalls \in Nat /\ \A g \in files : attachments[g].created_at \in 0 .. fileCalls
  BY DEF FilesInv, FilesTyped, FilesSent, Sent
<1>2. PICK S : S = {fileCalls - attachments[g].created_at : g \in files}
  OBVIOUS
<1>3. S \in SUBSET Nat /\ S # {}
  BY <1>1, <1>2
<1>4. PICK n \in S : \A m \in S : n <= m
  BY <1>3, LeastExists
<1>5. PICK f \in files : n = fileCalls - attachments[f].created_at
  BY <1>2
<1>6. \A g \in files : n <= fileCalls - attachments[g].created_at
  BY <1>2, <1>4
<1> QED  BY <1>1, <1>5, <1>6

LEMMA DownloadFileKeeps ==
  ASSUME FilesInv, NEW c \in FileCaller, DownloadFile(c)
  PROVE  FilesInv'
<1>1. PICK k : k = fileCall[c]
  OBVIOUS
<1>2. k.at = "list"
  BY <1>1 DEF DownloadFile, AtFile
<1>3. PICK files : files = ListByItem(k.item)
  OBVIOUS
<1>4. PICK f : f = FileToShow(c, files)
  OBVIOUS
<1>5. /\ downloaded' = downloaded \cup
           IF files # {} /\ (k.mode = "opaque" \/ attachments[f].mode = "plain")
           THEN {[item |-> k.item, content |-> attachments[f].content,
                  mode |-> attachments[f].mode]}
           ELSE {}
      /\ EndFile(c)
      /\ UNCHANGED <<fileMenu, fileRows, fileHistory, attachments, uploads, uploaded, purged,
                     deletesLost, seals, fileNow, fileCalls>>
  BY <1>1, <1>3, <1>4 DEF DownloadFile
<1>6. files # {} => f \in files
  <2>1. files \in SUBSET {g \in FileId : FileKnown(g)}
    BY <1>3 DEF ListByItem
  <2> QED  BY <1>4, <2>1, NewestExists DEF FileToShow
<1>7. \A g \in files : FileKnown(g) /\ attachments[g].item = k.item /\ Sent(attachments[g]) \in uploads
  BY <1>3 DEF ListByItem, FilesInv, FilesSent
<1>8. downloaded' \subseteq uploads
  BY <1>5, <1>6, <1>7, Answers DEF Sent
<1> QED  BY <1>1, <1>2, <1>5, <1>8, Answers, QuietEndKeeps

-----------------------------------------------------------------------------
(* Steps that write table attachments *)

LEMMA GoneTo ==
  ASSUME FilesInv, NEW c \in FileCaller, NEW k, k = fileCall[c],
         NEW at \in {"state", "purge", "write", "mark", "clear"}, GotoFile(c, at)
  PROVE  \E r \in Handler :
           /\ fileCall' = [fileCall EXCEPT ![c] = r]
           /\ r.at = at /\ r.op = k.op /\ r.item = k.item /\ r.file = k.file
           /\ r.row = k.row /\ r.payload = k.payload
<1>1. k \in Handler
  BY HandlerOf
<1>2. PICK r : r = [k EXCEPT !.at = at]
  OBVIOUS
<1>3. fileCall' = [fileCall EXCEPT ![c] = r]
  BY <1>2 DEF GotoFile
<1>4. /\ r \in Handler /\ r.at = at /\ r.op = k.op /\ r.item = k.item /\ r.file = k.file
      /\ r.row = k.row /\ r.payload = k.payload
  BY <1>1, <1>2 DEF Handler
<1> QED  BY <1>3, <1>4

\* A handler that goes on towards its write.
LEMMA GoesOn ==
  ASSUME NEW k \in Handler, NEW r \in Handler, HandlerGood(k)', Reader(k), Reader(r),
         r.op = k.op, r.item = k.item, r.file = k.file, r.row = k.row, r.payload = k.payload,
         r.at \in {"mark", "purge"} => r.op = "delete", r.at = "clear" => r.op = "restore"
  PROVE  HandlerGood(r)'
<1>1. k.op = "upload" => k.at \in {"history", "write"}
  BY DEF HandlerGood, Reader
<1> HIDE DEF Backed, Own
<1> QED  BY <1>1 DEF HandlerGood, Reader

LEMMA FilesStepKeeps ==
  ASSUME FilesInv, NEW c \in FileCaller, NEW r \in Handler,
         fileCall' = [fileCall EXCEPT ![c] = r], HandlerGood(r)',
         attachments' \in [FileId -> Attachment \cup {NoFile}], OwnKept, FilesSent', MarksHeld',
         UNCHANGED <<fileMenu, fileRows, fileHistory, uploads, uploaded, downloaded,
                     deletesLost, seals, fileNow, fileCalls>>
  PROVE  FilesInv'
<1>1. FilesTyped'
  <2>1. fileCall' \in [FileCaller -> Handler]
    BY HandlerOf
  <2> QED  BY <2>1 DEF FilesInv, FilesTyped, ItemFilesTypeOK, Handler
<1>2. PayloadsBacked'
  <2>1. ASSUME NEW i \in FileItem
        PROVE  Backed(fileRows[i].payload, i)'
    <3>1. fileRows[i].payload \in FilePayload /\ Backed(fileRows[i].payload, i)
      BY DEF FilesInv, FilesTyped, ItemFilesTypeOK, FileRow, PayloadsBacked
    <3> QED  BY <3>1, BackedStays
  <2>2. ASSUME NEW h \in fileHistory
        PROVE  Backed(h.payload, h.item)'
    <3>1. h.payload \in FilePayload /\ h.item \in FileItem /\ Backed(h.payload, h.item)
      BY DEF FilesInv, FilesTyped, ItemFilesTypeOK, PayloadsBacked
    <3> QED  BY <3>1, BackedStays
  <2> HIDE DEF Backed
  <2> QED  BY <2>1, <2>2 DEF PayloadsBacked
<1>3. RowsGrow /\ downloaded' \subseteq uploads'
  BY Answers DEF RowsGrow
<1> HIDE DEF Own
<1> QED  BY <1>1, <1>2, <1>3, FileStepKeeps

\* A step that changes no more of a file than its mark.
LEMMA MarkStepKeeps ==
  ASSUME FilesInv, NEW c \in FileCaller, NEW r \in Handler, Reader(fileCall[c]), Reader(r),
         fileCall' = [fileCall EXCEPT ![c] = r],
         r.op = fileCall[c].op, r.item = fileCall[c].item, r.file = fileCall[c].file,
         r.row = fileCall[c].row, r.payload = fileCall[c].payload,
         r.at \in {"purge", "write"}, r.at = "purge" => r.op = "delete",
         attachments' \in [FileId -> Attachment \cup {NoFile}],
         \A f \in FileId : /\ FileKnown(f) => /\ FileKnown(f)'
                                              /\ attachments'[f].item = attachments[f].item
                                              /\ attachments'[f].content = attachments[f].content
                                              /\ attachments'[f].mode = attachments[f].mode
                                              /\ attachments'[f].created_at = attachments[f].created_at
                           /\ FileKnown(f)' => FileKnown(f),
         MarksHeld',
         UNCHANGED <<fileMenu, fileRows, fileHistory, uploads, uploaded, downloaded, purged,
                     deletesLost, seals, fileNow, fileCalls>>
  PROVE  FilesInv'
<1>1. OwnKept
  BY DEF OwnKept, Own
<1>2. FilesSent'
  BY DEF FilesInv, FilesSent, Sent
<1>3. PICK k : k = fileCall[c]
  OBVIOUS
<1>4. k \in Handler /\ HandlerGood(k)
  BY <1>3, HandlerOf
<1>5. RowsGrow /\ fileRows \in [FileItem -> FileRow]
  BY DEF RowsGrow, FilesInv, FilesTyped, ItemFilesTypeOK
<1>6. HandlerGood(k)'
  BY <1>1, <1>4, <1>5, HandlerStays
<1>7. HandlerGood(r)'
  BY <1>3, <1>4, <1>6, GoesOn
<1> QED  BY <1>1, <1>2, <1>7, FilesStepKeeps

LEMMA InsertAttachmentKeeps ==
  ASSUME FilesInv, NEW c \in FileCaller, InsertAttachment(c)
  PROVE  FilesInv'
<1>1. PICK k : k = fileCall[c]
  OBVIOUS
<1>2. /\ k \in Handler /\ HandlerGood(k) /\ k.at = "insert" /\ k.op = "upload"
      /\ k.item \in FileItem /\ k.file \in FileId /\ Sent(k) \in uploads
      /\ k.content \in Nat /\ k.mode \in Representation
  BY <1>1, HandlerOf DEF InsertAttachment, AtFile, HandlerGood
<1>3. UNCHANGED <<fileMenu, fileRows, fileHistory, uploads, uploaded, downloaded,
                  purged, deletesLost, seals, fileNow, fileCalls>>
  BY DEF InsertAttachment, fileAnswers
<1>4. CASE FileKnown(k.file)
  <2>1. EndFile(c) /\ attachments' = attachments
    BY <1>1, <1>4 DEF InsertAttachment, InsertFails
  <2> QED  BY <1>1, <1>2, <1>3, <2>1, Answers, QuietEndKeeps
<1>5. CASE ~FileKnown(k.file)
  <2>1. PICK a : a = [item |-> k.item, content |-> k.content, mode |-> k.mode,
                      created_at |-> k.content, deleted_at |-> NotDeleted]
    OBVIOUS
  <2>2. /\ a \in Attachment /\ a # NoFile /\ a.item = k.item /\ a.deleted_at = NotDeleted
        /\ Sent(a) = Sent(k) /\ a.created_at = a.content
    BY <1>2, <2>1, NoFileAssumption DEF Attachment, Sent, NotDeleted
  <2>3. attachments' = [attachments EXCEPT ![k.file] = a] /\ GotoFile(c, "state")
    BY <1>1, <1>5, <2>1 DEF InsertAttachment, InsertFails
  <2>4. attachments \in [FileId -> Attachment \cup {NoFile}]
    BY DEF FilesInv, FilesTyped, ItemFilesTypeOK
  <2>5. /\ attachments' \in [FileId -> Attachment \cup {NoFile}]
        /\ attachments'[k.file] = a
        /\ \A f \in FileId \ {k.file} : attachments'[f] = attachments[f]
    BY <1>2, <2>2, <2>3, <2>4
  <2>6. OwnKept /\ Own(k.file, k.item)'
    BY <1>2, <1>3, <1>5, <2>2, <2>5 DEF OwnKept, Own, FileKnown
  <2>7. FilesSent'
    BY <1>2, <1>3, <2>2, <2>5 DEF FilesInv, FilesSent, FileKnown
  <2>8. PICK r \in Handler :
           /\ fileCall' = [fileCall EXCEPT ![c] = r]
           /\ r.at = "state" /\ r.op = k.op /\ r.item = k.item /\ r.file = k.file
           /\ r.row = k.row /\ r.payload = k.payload
    BY <1>1, <2>3, GoneTo
  <2>9. HandlerGood(r)'
    <3>1. RowsGrow /\ fileRows \in [FileItem -> FileRow]
      BY <1>3 DEF RowsGrow, FilesInv, FilesTyped, ItemFilesTypeOK
    <3>2. HandlerGood(k)'
      BY <1>2, <1>3, <2>6, <3>1, HandlerStays
    <3> HIDE DEF Own, Backed
    <3> QED  BY <1>2, <2>6, <2>8, <3>2 DEF HandlerGood, Reader
  <2>10. MarksHeld'
    <3>1. \A i \in FileItem : Clean(i) => Clean(i)'
      BY <2>2, <2>5 DEF Clean, FileKnown
    <3>2. \A i \in FileItem : ~HasMarked(fileCall[c], i) /\ ~WillRestore(r, i)
      BY <1>1, <1>2, <2>8 DEF HasMarked, WillRestore
    <3> QED  BY <1>3, <2>8, <3>1, <3>2, MarksStay
  <2> QED  BY <1>3, <2>5, <2>6, <2>7, <2>8, <2>9, <2>10, FilesStepKeeps
<1> QED  BY <1>4, <1>5

LEMMA MarkFilesKeeps ==
  ASSUME FilesInv, NEW c \in FileCaller, MarkFiles(c)
  PROVE  FilesInv'
<1>1. PICK k : k = fileCall[c]
  OBVIOUS
<1>2. /\ k \in Handler /\ HandlerGood(k) /\ k.at = "mark" /\ k.op = "delete"
      /\ k.item \in FileItem /\ k.now \in Nat
  BY <1>1, HandlerOf DEF MarkFiles, AtFile, HandlerGood
<1>3. /\ UNCHANGED <<fileMenu, fileRows, fileHistory, uploads, uploaded, downloaded, purged,
                     deletesLost, seals, fileNow, fileCalls>>
      /\ attachments' = MarkDeletedByItem(k.item, k.now) /\ GotoFile(c, "purge")
  BY <1>1 DEF MarkFiles, fileAnswers
<1>4. attachments \in [FileId -> Attachment \cup {NoFile}]
  BY DEF FilesInv, FilesTyped, ItemFilesTypeOK
<1>5. ASSUME NEW f \in FileId
      PROVE  /\ attachments'[f] \in Attachment \cup {NoFile}
             /\ FileKnown(f) => /\ FileKnown(f)'
                                /\ attachments'[f].item = attachments[f].item
                                /\ attachments'[f].content = attachments[f].content
                                /\ attachments'[f].mode = attachments[f].mode
                                /\ attachments'[f].created_at = attachments[f].created_at
                                /\ attachments[f].item # k.item =>
                                     attachments'[f].deleted_at = attachments[f].deleted_at
             /\ FileKnown(f)' => FileKnown(f)
  <2>1. CASE f \in ListByItem(k.item)
    <3>1. PICK a : a = attachments[f]
      OBVIOUS
    <3>2. a \in Attachment /\ a.item = k.item /\ FileKnown(f)
      BY <1>4, <2>1, <3>1 DEF ListByItem, FileKnown
    <3>3. attachments'[f] = [a EXCEPT !.deleted_at = k.now]
      BY <1>3, <2>1, <3>1 DEF MarkDeletedByItem
    <3>4. PICK b : b = [a EXCEPT !.deleted_at = k.now]
      OBVIOUS
    <3>5. /\ b \in Attachment /\ b # NoFile /\ b.item = a.item /\ b.content = a.content
          /\ b.mode = a.mode /\ b.created_at = a.created_at
      BY <1>2, <3>2, <3>4, NoFileAssumption DEF Attachment
    <3> QED  BY <3>1, <3>2, <3>3, <3>4, <3>5 DEF FileKnown
  <2>2. CASE f \notin ListByItem(k.item)
    BY <1>3, <1>4, <2>2 DEF MarkDeletedByItem, FileKnown
  <2> QED  BY <2>1, <2>2
<1>6. attachments' \in [FileId -> Attachment \cup {NoFile}]
  BY <1>3, <1>5 DEF MarkDeletedByItem
<1>7. PICK r \in Handler :
           /\ fileCall' = [fileCall EXCEPT ![c] = r]
           /\ r.at = "purge" /\ r.op = k.op /\ r.item = k.item /\ r.file = k.file
           /\ r.row = k.row /\ r.payload = k.payload
  BY <1>1, <1>3, GoneTo
<1>8. MarksHeld'
  <2>1. \A i \in FileItem : Clean(i) => Clean(i)' \/ HasMarked(r, i)
    <3> SUFFICES ASSUME NEW i \in FileItem, Clean(i), i # k.item
                 PROVE  Clean(i)'
      BY <1>2, <1>7 DEF HasMarked
    <3> QED  BY <1>5 DEF Clean
  <2>2. \A i \in FileItem : ~HasMarked(fileCall[c], i) /\ ~WillRestore(r, i)
    BY <1>1, <1>2, <1>7 DEF HasMarked, WillRestore
  <2> HIDE DEF HasMarked
  <2> QED  BY <1>3, <1>7, <2>1, <2>2, MarksStay
<1>9. Reader(fileCall[c]) /\ Reader(r)
  BY <1>1, <1>2, <1>7 DEF Reader
<1> HIDE DEF FileKnown
<1> QED  BY <1>1, <1>2, <1>3, <1>5, <1>6, <1>7, <1>8, <1>9, MarkStepKeeps

LEMMA ClearFilesKeeps ==
  ASSUME FilesInv, NEW c \in FileCaller, ClearFiles(c)
  PROVE  FilesInv'
<1>1. PICK k : k = fileCall[c]
  OBVIOUS
<1>2. /\ k \in Handler /\ HandlerGood(k) /\ k.at = "clear" /\ k.op = "restore"
      /\ k.item \in FileItem
  BY <1>1, HandlerOf DEF ClearFiles, AtFile, HandlerGood
<1>3. /\ UNCHANGED <<fileMenu, fileRows, fileHistory, uploads, uploaded, downloaded, purged,
                     deletesLost, seals, fileNow, fileCalls>>
      /\ attachments' = ClearDeletedByItem(k.item) /\ GotoFile(c, "write")
  BY <1>1 DEF ClearFiles, fileAnswers
<1>4. attachments \in [FileId -> Attachment \cup {NoFile}]
  BY DEF FilesInv, FilesTyped, ItemFilesTypeOK
<1>5. ASSUME NEW f \in FileId
      PROVE  /\ attachments'[f] \in Attachment \cup {NoFile}
             /\ FileKnown(f) => /\ FileKnown(f)'
                                /\ attachments'[f].item = attachments[f].item
                                /\ attachments'[f].content = attachments[f].content
                                /\ attachments'[f].mode = attachments[f].mode
                                /\ attachments'[f].created_at = attachments[f].created_at
                                /\ attachments'[f].deleted_at \in {NotDeleted, attachments[f].deleted_at}
                                /\ attachments[f].item = k.item =>
                                     attachments'[f].deleted_at = NotDeleted
             /\ FileKnown(f)' => FileKnown(f)
  <2>1. CASE FileKnown(f) /\ attachments[f].item = k.item
    <3>1. PICK a : a = attachments[f]
      OBVIOUS
    <3>2. a \in Attachment
      BY <1>4, <2>1, <3>1 DEF FileKnown
    <3>3. attachments'[f] = [a EXCEPT !.deleted_at = NotDeleted]
      BY <1>3, <2>1, <3>1 DEF ClearDeletedByItem
    <3>4. PICK b : b = [a EXCEPT !.deleted_at = NotDeleted]
      OBVIOUS
    <3>5. /\ b \in Attachment /\ b # NoFile /\ b.item = a.item /\ b.content = a.content
          /\ b.mode = a.mode /\ b.created_at = a.created_at /\ b.deleted_at = NotDeleted
      BY <3>2, <3>4, NoFileAssumption DEF Attachment, NotDeleted
    <3> QED  BY <2>1, <3>1, <3>3, <3>4, <3>5 DEF FileKnown
  <2>2. CASE ~(FileKnown(f) /\ attachments[f].item = k.item)
    BY <1>3, <1>4, <2>2 DEF ClearDeletedByItem, FileKnown
  <2> QED  BY <2>1, <2>2
<1>6. attachments' \in [FileId -> Attachment \cup {NoFile}]
  BY <1>3, <1>5 DEF ClearDeletedByItem
<1>7. PICK r \in Handler :
           /\ fileCall' = [fileCall EXCEPT ![c] = r]
           /\ r.at = "write" /\ r.op = k.op /\ r.item = k.item /\ r.file = k.file
           /\ r.row = k.row /\ r.payload = k.payload
  BY <1>1, <1>3, GoneTo
<1>8. MarksHeld'
  <2>1. \A i \in FileItem : Clean(i) => Clean(i)'
    BY <1>5 DEF Clean
  <2>2. \A i \in FileItem : ~HasMarked(fileCall[c], i)
    BY <1>1, <1>2 DEF HasMarked
  <2>3. \A i \in FileItem : WillRestore(r, i) => Clean(i)'
    BY <1>5, <1>7 DEF WillRestore, Clean
  <2> HIDE DEF HasMarked, WillRestore, Clean
  <2> QED  BY <1>3, <1>7, <2>1, <2>2, <2>3, MarksStay
<1>9. Reader(fileCall[c]) /\ Reader(r)
  BY <1>1, <1>2, <1>7 DEF Reader
<1> HIDE DEF FileKnown
<1> QED  BY <1>1, <1>2, <1>3, <1>5, <1>6, <1>7, <1>8, <1>9, MarkStepKeeps

LEMMA PurgeFilesKeeps ==
  ASSUME FilesInv, NEW c \in FileCaller, PurgeFiles(c)
  PROVE  FilesInv'
<1>1. PICK k : k = fileCall[c]
  OBVIOUS
<1>2. /\ k \in Handler /\ HandlerGood(k) /\ k.at = "purge" /\ k.op = "delete"
      /\ k.item \in FileItem
  BY <1>1, HandlerOf DEF PurgeFiles, AtFile, HandlerGood
<1>3. PICK gone : gone = Purgeable(k.now)
  OBVIOUS
<1>4. /\ UNCHANGED <<fileMenu, fileRows, fileHistory, uploads, uploaded, downloaded,
                     deletesLost, seals, fileNow, fileCalls>>
      /\ attachments' = [f \in FileId |-> IF f \in gone THEN NoFile ELSE attachments[f]]
      /\ purged' = purged \cup gone
      /\ GotoFile(c, "write")
  BY <1>1, <1>3 DEF PurgeFiles, fileAnswers
<1>5. attachments \in [FileId -> Attachment \cup {NoFile}]
  BY DEF FilesInv, FilesTyped, ItemFilesTypeOK
<1>6. attachments' \in [FileId -> Attachment \cup {NoFile}]
  BY <1>4, <1>5
<1>7. OwnKept
  BY <1>4 DEF OwnKept, Own, FileKnown
<1>8. FilesSent'
  BY <1>4 DEF FilesInv, FilesSent, FileKnown
<1>9. PICK r \in Handler :
           /\ fileCall' = [fileCall EXCEPT ![c] = r]
           /\ r.at = "write" /\ r.op = k.op /\ r.item = k.item /\ r.file = k.file
           /\ r.row = k.row /\ r.payload = k.payload
  BY <1>1, <1>4, GoneTo
<1>10. MarksHeld'
  <2>1. \A i \in FileItem : Clean(i) => Clean(i)'
    BY <1>4 DEF Clean, FileKnown
  <2>2. \A i \in FileItem : HasMarked(fileCall[c], i) => HasMarked(r, i)
    BY <1>1, <1>2, <1>9 DEF HasMarked
  <2>3. \A i \in FileItem : ~WillRestore(r, i)
    BY <1>2, <1>9 DEF WillRestore
  <2> HIDE DEF HasMarked, WillRestore, Clean
  <2> QED  BY <1>4, <1>9, <2>1, <2>2, <2>3, MarksStay
<1>11. HandlerGood(r)'
  <2>1. RowsGrow /\ fileRows \in [FileItem -> FileRow]
    BY <1>4 DEF RowsGrow, FilesInv, FilesTyped, ItemFilesTypeOK
  <2>2. HandlerGood(k)'
    BY <1>2, <1>4, <1>7, <2>1, HandlerStays
  <2>3. Reader(k) /\ Reader(r)
    BY <1>2, <1>9 DEF Reader
  <2> QED  BY <1>2, <1>9, <2>2, <2>3, GoesOn
<1> QED  BY <1>4, <1>6, <1>7, <1>8, <1>9, <1>10, <1>11, FilesStepKeeps

-----------------------------------------------------------------------------
(* Steps that write the history and the item *)

LEMMA SaveFileVersionKeeps ==
  ASSUME FilesInv, NEW c \in FileCaller, SaveFileVersion(c)
  PROVE  FilesInv'
<1>1. PICK k : k = fileCall[c]
  OBVIOUS
<1>2. /\ k \in Handler /\ HandlerGood(k) /\ k.at = "history"
      /\ k.item \in FileItem /\ k.row \in FileRow
  BY <1>1, HandlerOf DEF SaveFileVersion, AtFile
<1>3. UNCHANGED <<fileMenu, fileRows, attachments, uploads, uploaded, downloaded, purged,
                  deletesLost, seals, fileNow, fileCalls>>
  BY DEF SaveFileVersion, fileAnswers
<1>4. PICK e : e = [item |-> k.item, version |-> k.row.version, payload |-> k.row.payload]
  OBVIOUS
<1>5. /\ e \in Entry /\ Backed(e.payload, e.item)
      /\ e.item = k.item /\ e.version = k.row.version
  BY <1>2, <1>4 DEF Entry, FileRow, HandlerGood
<1>6. /\ fileHistory \subseteq Entry
      /\ \A h, g \in fileHistory : h.item = g.item /\ h.version = g.version => h = g
      /\ \A h \in fileHistory : Backed(h.payload, h.item)
  BY DEF FilesInv, FilesTyped, ItemFilesTypeOK, Entry, PayloadsBacked
<1>7. PICK saved : saved = IF \E h \in fileHistory : h.item = k.item /\ h.version = k.row.version
                           THEN fileHistory ELSE fileHistory \cup {e}
  OBVIOUS
<1>8. fileHistory' \subseteq saved
  BY <1>1, <1>4, <1>7 DEF SaveFileVersion, SavedPayload
<1> HIDE DEF Backed
<1>9. /\ saved \subseteq Entry
      /\ \A h, g \in saved : h.item = g.item /\ h.version = g.version => h = g
      /\ \A h \in saved : Backed(h.payload, h.item)
  <2>1. CASE \E h \in fileHistory : h.item = k.item /\ h.version = k.row.version
    BY <1>6, <1>7, <2>1
  <2>2. CASE ~ \E h \in fileHistory : h.item = k.item /\ h.version = k.row.version
    BY <1>5, <1>6, <1>7, <2>2
  <2> QED  BY <2>1, <2>2
<1>10. PICK at \in {"mark", "clear", "write"} :
           /\ at = "mark" => k.op = "delete"
           /\ at = "clear" => k.op = "restore"
           /\ at = "write" => k.op \notin {"delete", "restore"}
           /\ GotoFile(c, at)
  <2>1. CASE k.op = "delete"
    <3>1. GotoFile(c, "mark")
      BY <1>1, <2>1 DEF SaveFileVersion
    <3> QED  BY <2>1, <3>1
  <2>2. CASE k.op = "restore"
    <3>1. GotoFile(c, "clear")
      BY <1>1, <2>2 DEF SaveFileVersion
    <3> QED  BY <2>2, <3>1
  <2>3. CASE k.op # "delete" /\ k.op # "restore"
    <3>1. GotoFile(c, "write")
      BY <1>1, <2>3 DEF SaveFileVersion
    <3> QED  BY <2>3, <3>1
  <2> QED  BY <2>1, <2>2, <2>3
<1>11. PICK r \in Handler :
           /\ fileCall' = [fileCall EXCEPT ![c] = r]
           /\ r.at = at /\ r.op = k.op /\ r.item = k.item /\ r.file = k.file
           /\ r.row = k.row /\ r.payload = k.payload
  BY <1>1, <1>10, GoneTo
<1>12. /\ \A f, i : Own(f, i)' <=> Own(f, i)
       /\ \A i : Clean(i)' <=> Clean(i)
       /\ \A q, i : Backed(q, i)' <=> Backed(q, i)
  BY <1>3 DEF Own, FileKnown, Clean, Backed
<1>13. OwnKept /\ RowsGrow /\ FilesSent' /\ downloaded' \subseteq uploads'
  BY <1>3, <1>12, Answers DEF OwnKept, RowsGrow, FilesInv, FilesSent, FileKnown
<1>14. FilesTyped'
  <2>1. fileCall' \in [FileCaller -> Handler]
    BY <1>11, HandlerOf
  <2>2. /\ fileHistory' \subseteq Entry
        /\ \A h, g \in fileHistory' : h.item = g.item /\ h.version = g.version => h = g
    BY <1>8, <1>9
  <2> QED  BY <1>3, <2>1, <2>2 DEF FilesInv, FilesTyped, ItemFilesTypeOK, Handler, Entry
<1>15. PayloadsBacked'
  <2>1. \A i \in FileItem : Backed(fileRows[i].payload, i)'
    BY <1>3, <1>12 DEF FilesInv, PayloadsBacked
  <2>2. \A h \in fileHistory' : Backed(h.payload, h.item)'
    BY <1>8, <1>9, <1>12
  <2> QED  BY <1>3, <2>1, <2>2 DEF PayloadsBacked
<1>16. MarksHeld'
  <2>1. \A i \in FileItem : ~HasMarked(fileCall[c], i)
    BY <1>1, <1>2 DEF HasMarked
  <2>2. \A i \in FileItem : ~WillRestore(r, i)
    BY <1>10, <1>11 DEF WillRestore
  <2> HIDE DEF HasMarked, WillRestore, Clean
  <2> QED  BY <1>3, <1>11, <1>12, <2>1, <2>2, MarksStay
<1>17. HandlerGood(r)'
  <2>1. fileRows \in [FileItem -> FileRow]
    BY DEF FilesInv, FilesTyped, ItemFilesTypeOK
  <2>2. HandlerGood(k)'
    BY <1>2, <1>3, <1>13, <2>1, HandlerStays
  <2>3. Reader(k) /\ Reader(r)
    BY <1>2, <1>10, <1>11 DEF Reader
  <2> QED  BY <1>2, <1>10, <1>11, <2>2, <2>3, GoesOn
<1> HIDE DEF Own
<1> QED  BY <1>3, <1>11, <1>13, <1>14, <1>15, <1>16, <1>17, FileStepKeeps

\* What WHERE row_version lets through: the handler has read the row as it is.
LEMMA WriteIsOfTheRow ==
  ASSUME FilesInv, NEW c \in FileCaller, NEW k, k = fileCall[c], k.at = "write",
         FileRowUnchanged(c), NEW w, w = WrittenFileRow(c)
  PROVE  /\ k.row = fileRows[k.item]
         /\ w \in FileRow /\ w.payload = k.payload
         /\ w.version = fileRows[k.item].version + 1
         /\ w.row_version = fileRows[k.item].row_version + 1
         /\ w.active => k.op # "delete" /\ (fileRows[k.item].active \/ k.op = "restore")
<1>1. /\ k \in Handler /\ HandlerGood(k) /\ k.item \in FileItem /\ k.row \in FileRow
      /\ k.payload \in FilePayload
  BY HandlerOf
<1>2. k.row = fileRows[k.item]
  BY <1>1 DEF HandlerGood, Reader, FileRowUnchanged
<1>3. PICK row : row = k.row
  OBVIOUS
<1>4. PICK b : b = ((row.active \/ k.op = "restore") /\ k.op # "delete")
  OBVIOUS
<1>5. row \in FileRow /\ b \in BOOLEAN
  BY <1>1, <1>3, <1>4 DEF FileRow
<1>6. w = [row EXCEPT !.payload = k.payload, !.version = row.version + 1,
                      !.row_version = row.row_version + 1, !.active = b]
  BY <1>3, <1>4, <1>5 DEF WrittenFileRow, FileRow
<1>7. row.version + 1 \in Nat /\ row.row_version + 1 \in Nat
  BY <1>5 DEF FileRow
<1>8. /\ w \in FileRow /\ w.payload = k.payload
      /\ w.version = row.version + 1 /\ w.row_version = row.row_version + 1 /\ w.active = b
  BY <1>1, <1>5, <1>6, <1>7 DEF FileRow
<1> QED  BY <1>2, <1>3, <1>4, <1>8

LEMMA WriteFileRowKeeps ==
  ASSUME FilesInv, NEW c \in FileCaller, NEW op \in {"upload", "edit", "restore", "delete"},
         WriteFileRow(c, op),
         deletesLost' = IF op = "delete" /\ ~FileRowUnchanged(c) THEN deletesLost + 1
                        ELSE deletesLost,
         uploaded' \subseteq FileItem \X FileId,
         \A u \in uploaded' \ uploaded : Own(u[2], u[1])
  PROVE  FilesInv'
<1>1. PICK k : k = fileCall[c]
  OBVIOUS
<1>2. /\ k \in Handler /\ HandlerGood(k) /\ k.at = "write" /\ k.op = op
      /\ k.item \in FileItem /\ k.payload \in FilePayload
  BY <1>1, HandlerOf DEF WriteFileRow, AtFile
<1>3. /\ UNCHANGED <<fileMenu, fileHistory, attachments, uploads, downloaded, purged, seals,
                     fileNow, fileCalls>>
      /\ EndFile(c)
  BY DEF WriteFileRow
<1>4. PICK r : r = NoFileCall
  OBVIOUS
<1>5. /\ r \in Handler /\ HandlerGood(r)' /\ r.op = "none" /\ r.at = "idle"
      /\ fileCall' = [fileCall EXCEPT ![c] = r]
  BY <1>3, <1>4, EndedIsGood DEF EndFile
<1>6. fileRows \in [FileItem -> FileRow] /\ deletesLost \in Nat
  BY DEF FilesInv, FilesTyped, ItemFilesTypeOK
<1>7. /\ \A f, i : Own(f, i)' <=> Own(f, i)
      /\ \A i : Clean(i)' <=> Clean(i)
      /\ \A q, i : Backed(q, i)' <=> Backed(q, i)
  BY <1>3 DEF Own, FileKnown, Clean, Backed
<1>8. OwnKept /\ FilesSent' /\ downloaded' \subseteq uploads'
  BY <1>3, <1>7, Answers DEF OwnKept, FilesInv, FilesSent, FileKnown
<1>9. PICK w : w = WrittenFileRow(c)
  OBVIOUS
<1>10. FileRowUnchanged(c) =>
         /\ k.row = fileRows[k.item]
         /\ w \in FileRow /\ w.payload = k.payload
         /\ w.version = fileRows[k.item].version + 1
         /\ w.row_version = fileRows[k.item].row_version + 1
         /\ w.active => k.op # "delete" /\ (fileRows[k.item].active \/ k.op = "restore")
  BY <1>1, <1>2, <1>9, WriteIsOfTheRow
<1>11. fileRows' = IF FileRowUnchanged(c) THEN [fileRows EXCEPT ![k.item] = w] ELSE fileRows
  BY <1>1, <1>9 DEF WriteFileRow
<1>12. /\ fileRows' \in [FileItem -> FileRow] /\ RowsGrow
       /\ \A i \in FileItem : fileRows'[i].version = fileRows'[i].row_version
  <2>1. CASE FileRowUnchanged(c)
    <3>1. \A i \in FileItem : fileRows'[i] = IF i = k.item THEN w ELSE fileRows[i]
      BY <1>6, <1>11, <2>1
    <3>2. fileRows[k.item].row_version \in Nat
      BY <1>2, <1>6 DEF FileRow
    <3>3. \A i \in FileItem : fileRows[i].version = fileRows[i].row_version
      BY DEF FilesInv, FilesTyped, ItemFilesTypeOK
    <3> QED  BY <1>2, <1>6, <1>10, <1>11, <2>1, <3>1, <3>2, <3>3 DEF RowsGrow
  <2>2. CASE ~FileRowUnchanged(c)
    BY <1>6, <1>11, <2>2 DEF RowsGrow, FilesInv, FilesTyped, ItemFilesTypeOK
  <2> QED  BY <2>1, <2>2
<1>13. FilesTyped'
  <2>1. fileCall' \in [FileCaller -> Handler]
    BY <1>5, HandlerOf
  <2>2. deletesLost' \in Nat
    BY <1>6
  <2> HIDE DEF FileRowUnchanged
  <2> QED  BY <1>3, <1>12, <2>1, <2>2 DEF FilesInv, FilesTyped, ItemFilesTypeOK, Handler
<1>14. PayloadsBacked'
  <2> HIDE DEF Backed, FileRowUnchanged
  <2>1. ASSUME NEW i \in FileItem
        PROVE  Backed(fileRows'[i].payload, i)
    <3>1. Backed(fileRows[i].payload, i) /\ Backed(k.payload, k.item)
      BY <1>2 DEF FilesInv, PayloadsBacked, HandlerGood
    <3>2. fileRows'[i] = fileRows[i] \/ (i = k.item /\ fileRows'[i].payload = k.payload)
      BY <1>6, <1>10, <1>11
    <3> QED  BY <3>1, <3>2
  <2>2. \A h \in fileHistory' : Backed(h.payload, h.item)
    BY <1>3 DEF FilesInv, PayloadsBacked
  <2>3. \A i \in FileItem : Backed(fileRows[i].payload, i)'
    BY <1>7, <2>1
  <2>4. \A h \in fileHistory' : Backed(h.payload, h.item)'
    BY <1>7, <2>2
  <2> QED  BY <2>3, <2>4 DEF PayloadsBacked
<1>15. MarksHeld'
  <2>1. CASE ~FileRowUnchanged(c) /\ op = "delete"
    <3>1. deletesLost' # 0
      BY <1>6, <2>1
    <3> QED  BY <3>1 DEF MarksHeld
  <2>2. CASE ~FileRowUnchanged(c) /\ op # "delete"
    <3>1. UNCHANGED <<fileRows, deletesLost>>
      BY <1>11, <2>2
    <3>2. \A i \in FileItem : ~HasMarked(fileCall[c], i) /\ ~WillRestore(r, i)
      BY <1>1, <1>2, <1>5, <2>2 DEF HasMarked, WillRestore
    <3> HIDE DEF HasMarked, WillRestore, Clean
    <3> QED  BY <1>5, <1>7, <3>1, <3>2, MarksStay
  <2>3. CASE FileRowUnchanged(c)
    <3> SUFFICES ASSUME deletesLost = 0, NEW i \in FileItem,
                        fileRows'[i].active \/ Restoring(i)'
                 PROVE  Clean(i) \/ Deleting(i)'
      BY <1>7, <2>3 DEF MarksHeld
    <3>1. fileCall'[c] = r /\ \A d \in FileCaller \ {c} : fileCall'[d] = fileCall[d]
      BY <1>5, HandlerOf
    <3>2. fileRows'[i] = IF i = k.item THEN w ELSE fileRows[i]
      BY <1>6, <1>11, <2>3
    <3>3. ASSUME NEW d \in FileCaller, WillRestore(fileCall[d], i)'
          PROVE  d # c /\ i # k.item /\ WillRestore(fileCall[d], i)
      <4>1. d # c
        BY <1>5, <3>1, <3>3 DEF WillRestore
      <4>2. PICK q : q = fileCall[d]
        OBVIOUS
      <4>3. /\ q.op = "restore" /\ q.at = "write" /\ q.item = i
            /\ q.row.row_version = fileRows'[i].row_version
        BY <3>1, <3>3, <4>1, <4>2 DEF WillRestore
      <4>4. HandlerGood(q) /\ q.row \in FileRow
        BY <4>2, HandlerOf
      <4>5. q.row.row_version <= fileRows[i].row_version
        BY <4>3, <4>4 DEF HandlerGood, Reader
      <4>6. fileRows[i].row_version \in Nat
        BY <1>6 DEF FileRow
      <4>7. i # k.item
        BY <1>10, <2>3, <3>2, <4>3, <4>5, <4>6
      <4> QED  BY <3>2, <4>1, <4>2, <4>3, <4>7 DEF WillRestore
    <3>4. ASSUME NEW d \in FileCaller, HasMarked(fileCall[d], i), d # c
          PROVE  Deleting(i)'
      BY <3>1, <3>4 DEF Deleting, HasMarked
    <3>5. CASE i # k.item
      <4>1. fileRows[i].active \/ Restoring(i)
        BY <3>2, <3>3, <3>5 DEF Restoring
      <4>2. Clean(i) \/ Deleting(i)
        BY <4>1 DEF FilesInv, MarksHeld
      <4>3. ~HasMarked(fileCall[c], i)
        BY <1>1, <3>5 DEF HasMarked
      <4> HIDE DEF HasMarked
      <4> QED  BY <3>4, <4>2, <4>3 DEF Deleting
    <3>6. CASE i = k.item
      <4>1. w.active
        BY <3>2, <3>3, <3>6 DEF Restoring
      <4>2. k.op # "delete" /\ (fileRows[i].active \/ k.op = "restore")
        BY <1>10, <2>3, <3>6, <4>1
      <4>3. fileRows[i].active \/ Restoring(i)
        <5>1. k.op = "restore" => WillRestore(k, i)
          BY <1>2, <1>10, <2>3, <3>6 DEF WillRestore
        <5> QED  BY <1>1, <4>2, <5>1 DEF Restoring
      <4>4. Clean(i) \/ Deleting(i)
        BY <4>3 DEF FilesInv, MarksHeld
      <4>5. ~HasMarked(fileCall[c], i)
        BY <1>1, <4>2 DEF HasMarked
      <4> HIDE DEF HasMarked
      <4> QED  BY <3>4, <4>4, <4>5 DEF Deleting
    <3> QED  BY <3>5, <3>6
  <2> QED  BY <2>1, <2>2, <2>3
<1> HIDE DEF Own, FileRowUnchanged
<1> QED  BY <1>3, <1>5, <1>7, <1>8, <1>12, <1>13, <1>14, <1>15, FileStepKeeps

LEMMA WriteUploadStateKeeps ==
  ASSUME FilesInv, NEW c \in FileCaller, WriteUploadState(c)
  PROVE  FilesInv'
<1>1. PICK k : k = fileCall[c]
  OBVIOUS
<1>2. /\ HandlerGood(k) /\ k.at = "write" /\ k.op = "upload"
      /\ k.item \in FileItem /\ k.file \in FileId
  BY <1>1, HandlerOf DEF WriteUploadState, WriteFileRow, AtFile
<1>3. Own(k.file, k.item)
  BY <1>2 DEF HandlerGood
<1>4. /\ uploaded' = uploaded \cup {<<k.item, k.file>>} /\ deletesLost' = deletesLost
      /\ WriteFileRow(c, "upload")
  BY <1>1 DEF WriteUploadState
<1>5. \A u \in uploaded' \ uploaded : Own(u[2], u[1])
  BY <1>3, <1>4
<1>6. uploaded' \subseteq FileItem \X FileId
  BY <1>2, <1>4, Answers
<1> QED  BY <1>4, <1>5, <1>6, WriteFileRowKeeps

LEMMA OtherWritesKeep ==
  ASSUME FilesInv, NEW c \in FileCaller,
         WriteFileEdit(c) \/ WriteFileRestore(c) \/ WriteFileDelete(c)
  PROVE  FilesInv'
<1>1. CASE WriteFileEdit(c)
  BY <1>1, Answers, WriteFileRowKeeps DEF WriteFileEdit
<1>2. CASE WriteFileRestore(c)
  BY <1>2, Answers, WriteFileRowKeeps DEF WriteFileRestore
<1>3. CASE WriteFileDelete(c)
  BY <1>3, Answers, WriteFileRowKeeps DEF WriteFileDelete
<1> QED  BY <1>1, <1>2, <1>3

LEMMA DropFileCallKeeps ==
  ASSUME FilesInv, NEW c \in FileCaller, DropFileCall(c)
  PROVE  FilesInv'
<1>1. /\ UNCHANGED <<fileMenu, fileRows, fileHistory, attachments, uploads, uploaded, downloaded,
                     purged, seals, fileNow, fileCalls>>
      /\ EndFile(c)
      /\ deletesLost' = IF fileCall[c].op = "delete" THEN deletesLost + 1 ELSE deletesLost
  BY DEF DropFileCall, fileAnswers
<1>2. CASE fileCall[c].op # "delete"
  BY <1>1, <1>2, Answers, QuietEndKeeps
<1>3. CASE fileCall[c].op = "delete"
  <2>1. PICK r : r = NoFileCall
    OBVIOUS
  <2>2. r \in Handler /\ HandlerGood(r)' /\ fileCall' = [fileCall EXCEPT ![c] = r]
    BY <1>1, <2>1, EndedIsGood DEF EndFile
  <2>3. deletesLost' \in Nat /\ deletesLost' # 0
    BY <1>1, <1>3 DEF FilesInv, FilesTyped
  <2>4. MarksHeld'
    BY <2>3 DEF MarksHeld
  <2>5. FilesTyped'
    <3>1. fileCall' \in [FileCaller -> Handler]
      BY <2>2, HandlerOf
    <3> QED  BY <1>1, <2>3, <3>1 DEF FilesInv, FilesTyped, ItemFilesTypeOK, Handler
  <2>6. \A f, i : Own(f, i)' <=> Own(f, i)
    BY <1>1 DEF Own, FileKnown
  <2>7. OwnKept /\ RowsGrow /\ FilesSent' /\ downloaded' \subseteq uploads'
    BY <1>1, <2>6, Answers DEF OwnKept, RowsGrow, FilesInv, FilesSent, FileKnown
  <2>8. PayloadsBacked'
    BY <1>1, <2>6 DEF FilesInv, PayloadsBacked, Backed
  <2> QED  BY <1>1, <2>2, <2>4, <2>5, <2>7, <2>8, FileStepKeeps
<1> QED  BY <1>2, <1>3

-----------------------------------------------------------------------------
(* The invariant *)

LEMMA FilesInitially == ItemFilesInit => FilesInv
<1> SUFFICES ASSUME ItemFilesInit
             PROVE  FilesInv
  OBVIOUS
<1>1. PICK expected \in [FileItem -> FileId], menu \in FileMenus, stored \in BOOLEAN :
        \E first \in menu.items : InitialFiles(expected, menu, stored, first)
  BY Zenon DEF ItemFilesInit, InitialFiles
<1>2. PICK first \in menu.items : InitialFiles(expected, menu, stored, first)
  BY <1>1
<1>3. first \in FileItem
  BY ItemFilesAssumption
<1>4. ASSUME NEW i \in FileItem
      PROVE  /\ fileRows[i] \in FileRow /\ fileRows[i].version = 1 /\ fileRows[i].row_version = 1
             /\ fileRows[i].payload \in FilePayload
             /\ fileRows[i].payload.file = expected[i]
             /\ fileRows[i].payload.state = "ready" => stored /\ i = first
  <2>1. PICK p : p = [seal |-> 1, file |-> expected[i],
                      state |-> IF stored /\ i = first THEN "ready" ELSE "pending"]
    OBVIOUS
  <2>2. /\ p \in FilePayload /\ p.file = expected[i]
        /\ p.state = "ready" => stored /\ i = first
    BY <2>1 DEF FilePayload
  <2>3. fileRows[i] = [payload |-> p, version |-> 1, row_version |-> 1, active |-> TRUE]
    BY <1>2, <2>1 DEF InitialFiles
  <2> QED  BY <2>2, <2>3 DEF FileRow
<1>5. PICK a : a = [item |-> first, content |-> 0, mode |-> "plain", created_at |-> 0,
                    deleted_at |-> NotDeleted]
  OBVIOUS
<1>6. /\ a \in Attachment /\ a # NoFile /\ a.item = first /\ a.deleted_at = NotDeleted
      /\ a.created_at = a.content
      /\ Sent(a) = [item |-> first, content |-> 0, mode |-> "plain"]
  BY <1>3, <1>5, NoFileAssumption DEF Attachment, Representation, NotDeleted, Sent
<1>7. ASSUME NEW f \in FileId
      PROVE  attachments[f] = IF stored /\ f = expected[first] THEN a ELSE NoFile
  BY <1>2, <1>5 DEF InitialFiles
<1>8. /\ attachments \in [FileId -> Attachment \cup {NoFile}]
      /\ \A f \in FileId : FileKnown(f) => attachments[f] = a /\ stored
  <2>1. attachments = [f \in FileId |-> IF stored /\ f = expected[first] THEN a ELSE NoFile]
    BY <1>2, <1>5 DEF InitialFiles
  <2> QED  BY <1>6, <1>7, <2>1 DEF FileKnown
<1>9. fileHistory \subseteq Entry /\ \A h \in fileHistory :
        h.item \in FileItem /\ h.version = 1 /\ h.payload = fileRows[h.item].payload
  <2> SUFFICES ASSUME NEW h \in fileHistory
               PROVE  /\ h \in Entry /\ h.item \in FileItem
                      /\ h.version = 1 /\ h.payload = fileRows[h.item].payload
    OBVIOUS
  <2>1. PICK i \in FileItem : h = [item |-> i, version |-> 1, payload |-> fileRows[i].payload]
    BY <1>2 DEF InitialFiles
  <2> QED  BY <1>4, <2>1 DEF Entry
<1>10. ASSUME NEW h \in fileHistory, NEW g \in fileHistory, h.item = g.item
       PROVE  h = g
  <2>1. h \in Entry /\ g \in Entry
    BY <1>9
  <2> QED  BY <1>9, <1>10, <2>1 DEF Entry
<1>11. \A i \in FileItem : Backed(fileRows[i].payload, i)
  <2>1. stored => FileKnown(expected[first]) /\ attachments[expected[first]].item = first
    BY <1>3, <1>6, <1>7 DEF FileKnown
  <2> QED  BY <1>4, <2>1 DEF Backed, Own
<1>12. FilesTyped
  <2>1. fileRows \in [FileItem -> FileRow]
    BY <1>2, <1>4 DEF InitialFiles
  <2>2. fileCall \in [FileCaller -> Handler]
    BY <1>2, NoFileCallIs DEF InitialFiles
  <2> QED  BY <1>2, <1>4, <1>8, <1>9, <1>10, <2>1, <2>2
           DEF InitialFiles, FilesTyped, ItemFilesTypeOK, Entry, Handler
<1>13. HandlersGood
  <2> SUFFICES ASSUME NEW c \in FileCaller
               PROVE  HandlerGood(fileCall[c])
    BY DEF HandlersGood
  <2>1. PICK k : k = fileCall[c]
    OBVIOUS
  <2>2. k = NoFileCall
    BY <1>2, <2>1 DEF InitialFiles
  <2>3. /\ k.at = "idle" /\ k.op = "none"
        /\ k.payload.state = "pending" /\ k.row.payload.state = "pending"
    BY <2>2, NoFileCallIs
  <2> QED  BY <2>1, <2>3 DEF HandlerGood, Reader, Backed
<1>14. FilesSent
  BY <1>2, <1>6, <1>8 DEF InitialFiles, FilesSent
<1>15. PayloadsBacked
  BY <1>9, <1>11 DEF PayloadsBacked
<1>16. MarksHeld
  BY <1>6, <1>8 DEF MarksHeld, Clean
<1>17. AnsweredUploadHeld /\ DownloadIsOfItem
  BY <1>2 DEF InitialFiles, AnsweredUploadHeld, DownloadIsOfItem
<1> QED  BY <1>12, <1>13, <1>14, <1>15, <1>16, <1>17 DEF FilesInv

LEMMA FileBeginKeeps ==
  ASSUME FilesInv, NEW c \in FileCaller, FileBegin(c)
  PROVE  FilesInv'
<1>1. fileMenu.items \subseteq FileItem /\ fileMenu.modes \subseteq Representation
  BY ItemFilesAssumption DEF FilesInv, FilesTyped, Representation
<1>2. ASSUME NEW i \in FileItem, NEW version \in ListItemVersions(i)
      PROVE  version \in Nat
  BY <1>2 DEF ListItemVersions, FilesInv, FilesTyped, ItemFilesTypeOK
<1> QED  BY <1>1, <1>2, BeginUploadKeeps, BeginFileEditKeeps, BeginDeleteKeeps, BeginDownloadKeeps,
            BeginRestoreKeeps DEF FileBegin

LEMMA FileStepsKeep ==
  ASSUME FilesInv, NEW c \in FileCaller, FileStep(c)
  PROVE  FilesInv'
<1>1. ASSUME NEW now \in {fileNow, fileNow + GraceDays + 1}
      PROVE  now \in Nat
  BY <1>1, ItemFilesAssumption DEF FilesInv, FilesTyped
<1> QED  BY <1>1, UploadReadsItemKeeps, UploadLooksUpFileKeeps, InsertAttachmentKeeps,
            ReadUploadStateKeeps, ReadFileRowKeeps, ReadVersionKeeps, SaveFileVersionKeeps,
            MarkFilesKeeps, PurgeFilesKeeps, ClearFilesKeeps, WriteUploadStateKeeps,
            OtherWritesKeep, DownloadFileKeeps DEF FileStep

LEMMA FilesInductive == ItemFilesSpec => []FilesInv
<1>1. FilesInv /\ [ItemFilesNext]_fileVars => FilesInv'
  <2> SUFFICES ASSUME FilesInv, [ItemFilesNext]_fileVars
               PROVE  FilesInv'
    OBVIOUS
  <2>1. CASE ItemFilesNext
    BY <2>1, FileBeginKeeps, FileStepsKeep, DropFileCallKeeps DEF ItemFilesNext
  <2>2. CASE UNCHANGED fileVars
    BY <2>2 DEF fileVars, FilesInv, FilesTyped, ItemFilesTypeOK, HandlersGood, HandlerGood, Reader,
                FilesSent, Sent, PayloadsBacked, Backed, Own, MarksHeld, Clean, Deleting, HasMarked,
                Restoring, WillRestore, AnsweredUploadHeld, DownloadIsOfItem, FileKnown
  <2> QED  BY <2>1, <2>2
<1> QED  BY <1>1, FilesInitially, PTL DEF ItemFilesSpec

-----------------------------------------------------------------------------
(* The theorems *)

\* Rows, history, files and handlers keep their types; version and row_version
\* of a row move together, and the history has a version of an item once.
THEOREM FilesTypeCorrect == ItemFilesSpec => []ItemFilesTypeOK
<1>1. FilesInv => ItemFilesTypeOK
  BY DEF FilesInv, FilesTyped
<1> QED  BY <1>1, FilesInductive, PTL

\* However uploads, edits, deletions and restores of any number of callers are
\* interleaved or dropped: an item that says its file is ready has it (unless
\* it was purged, or a deletion marked it and lost the item), an upload that
\* was answered has stored a file of its own item, and a download answers with
\* bytes that were sent to the item.
THEOREM FilesAreHeld == ItemFilesSpec => []FilesHeld
<1>1. FilesInv => FilesHeld
  <2> SUFFICES ASSUME FilesInv
               PROVE  ReadyFileHeld
    BY DEF FilesHeld, FilesInv
  <2> SUFFICES ASSUME deletesLost = 0, NEW i \in FileItem, fileRows[i].active,
                      fileRows[i].payload.state = "ready",
                      \A c \in FileCaller : fileCall[c].op # "delete"
               PROVE  fileRows[i].payload.file \in ListByItem(i) \cup purged
    BY DEF ReadyFileHeld
  <2>1. Clean(i)
    BY DEF FilesInv, MarksHeld, Deleting, HasMarked
  <2>2. Own(fileRows[i].payload.file, i) /\ fileRows[i].payload.file \in FileId
    BY DEF FilesInv, PayloadsBacked, Backed, FilesTyped, ItemFilesTypeOK, FileRow, FilePayload
  <2> QED  BY <2>1, <2>2 DEF Own, Clean, ListByItem
<1> QED  BY <1>1, FilesInductive, PTL
=============================================================================
