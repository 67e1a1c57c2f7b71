----------------------------- MODULE MCItemsApi -----------------------------
(* Instances of ItemsApi: two items, two paths, three payloads.            *)
EXTENDS ItemsApi

CONSTANTS a, b, p, q, x, y, z

ApiRequest(op, i, path, payload, base, version, target) ==
  [op |-> op, item |-> i, path |-> path, payload |-> payload, base |-> base,
   version |-> version, target |-> target]

CreateA == ApiRequest("create", a, p, x, 0, 0, 0)
Edit(payload, base) == ApiRequest("update", a, None, payload, base, 0, 0)
DeleteA == ApiRequest("delete", a, None, None, 0, 0, 0)
RestoreA(v) == ApiRequest("restore", a, None, None, 0, 0, v)

\* Everything that can happen to one item, and a second one at its path.
MixedRequests ==
  { CreateA, Edit(y, 0), Edit(z, 1), DeleteA, RestoreA(1), RestoreA(2),
    ApiRequest("create", b, q, x, 0, 0, 0), ApiRequest("update", b, p, None, 0, 0, 0) }
=============================================================================
