--------------------------- MODULE MCVaultServer ----------------------------
(* An instance of VaultServer: one item that a device pushes and a caller  *)
(* edits through the API.                                                  *)
EXTENDS VaultServer

CONSTANTS a, p, x, y, z

Pushed(op, path, payload) ==
  [item |-> a, op |-> op, path |-> path, payload |-> payload, checksum |-> payload]

ItemBatches == { <<Pushed("create", p, x)>>, <<Pushed("update", None, y)>>,
                 <<Pushed("delete", None, None)>>, <<Pushed("restore", None, None)>> }

Called(op, payload, target) ==
  [op |-> op, item |-> a, path |-> None, payload |-> payload, base |-> 0,
   version |-> 0, target |-> target]

ItemRequests == { Called("update", z, 0), Called("delete", None, 0), Called("restore", None, 1) }
=============================================================================
