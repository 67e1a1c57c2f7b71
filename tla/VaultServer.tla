---------------------------- MODULE VaultServer -----------------------------
(***************************************************************************)
(* The server of one vault: sync pushes and items API calls on the same    *)
(* tables.  A push holds row locks until it commits and an API call waits  *)
(* for them; what an API call has written, a push that read the row before *)
(* does not know of.                                                       *)
(***************************************************************************)
EXTENDS SyncPush

CONSTANTS Client, Requests, MaxCalls, MaxFaults

VARIABLES call, done, calls, failed

Api == INSTANCE ItemsApi

\* Who calls the API is not a session of a push, and the requests are the
\* API's: a create brings a path and a payload.
ASSUME ServerAssumption ==
  /\ Client \cap Session = {}
  /\ Requests \subseteq Api!Request /\ None \notin Requests
  /\ \A r \in Requests : r.op = "create" => r.path # None /\ r.payload # None
  /\ MaxCalls \in Nat /\ MaxFaults \in Nat

serverVars == <<vars, call, done, calls, failed>>

ServerInit == Init /\ Api!Init

ServerNext ==
  \/ Next /\ UNCHANGED <<call, done, calls, failed>>
  \/ Api!Next /\ UNCHANGED <<pushVars, cursor, seen>>

ServerSpec == ServerInit /\ [][ServerNext]_serverVars

-----------------------------------------------------------------------------
(* Properties *)

KeptPayloads(i) ==
  {h.payload : h \in db.history[i]}
    \cup {r.payload : r \in {db.items[i]} \ {NoRow}}

\* What an items API call was acknowledged for is not lost to a sync push
\* or a call that runs at the same time: as long as no statement has failed,
\* the payload is the item's, or in its history until that holds as many newer
\* versions as it may (apply_change and prune_item_history against the
\* guarded UPDATE and prune_by_item of the items API).
AcknowledgedKept ==
  failed = 0 =>
    \A w \in done :
      \/ w.payload \in KeptPayloads(w.item)
      \/ Cardinality({h \in db.history[w.item] : h.version > w.version}) >= HistoryLimit

\* Whoever writes a row, a push or a call, its version goes up; and as long as
\* no statement has failed the payload that was there can still be read, from
\* the row or the history, until HistoryLimit newer versions are in it.  The
\* history is saved before the row is written, on both sides, and cut by what
\* each side sees of it (insert_item_history and prune_item_history of a push,
\* ItemHistoryRepo::create and prune_by_item of a call).
ReplacedRow(i) ==
  IsRow(db.items[i]) =>
    /\ db'.items[i] # db.items[i] => db.items[i].version < db'.items[i].version
    /\ failed' = 0 =>
         \/ db.items[i].payload \in KeptPayloads(i)'
         \/ Cardinality({h \in db'.history[i] : h.version > db.items[i].version})
              >= HistoryLimit
RowsReplacedKept == [][\A i \in Item : ReplacedRow(i)]_serverVars
=============================================================================
