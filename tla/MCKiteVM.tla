------------------------------ MODULE MCKiteVM ------------------------------
(* Instances of KiteVM for TLC. *)
EXTENDS KiteVM

CONSTANTS k1, k2, k3, k4, r1, r2

VMAndKV == {"vm", "kv"}
\* Once late, ChildrenProtected holds trivially: such states are not expanded.
Timely == ~late

VMAndDV == {"vm", "dv"}
=============================================================================
