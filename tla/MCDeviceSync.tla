---------------------------- MODULE MCDeviceSync ----------------------------
(* Instances of DeviceSync: one or two items that want one path.           *)
EXTENDS DeviceSync

CONSTANTS p, p_a, p_b, a, b, w, r, OpsOfW, OpsOfR

Paths == {p, p_a, p_b}
CopyPath == [i \in Item |-> IF i = a THEN p_a ELSE p_b]
UserOps == [d \in Device |-> IF d = w THEN OpsOfW ELSE OpsOfR]
Payloads == 1 .. MaxEdits
=============================================================================
