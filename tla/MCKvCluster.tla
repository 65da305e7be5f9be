----------------------------- MODULE MCKvCluster -----------------------------
(* The whole program for TLC. *)
EXTENDS KvCluster, TLC

CONSTANTS m1, m2, m3, k1, a, b

TwoMachines == (m1 :> <<m2>>) @@ (m2 :> <<m1>>)

Set(t) == [op |-> "Set", key |-> k1, text |-> t]
SetOrDelete == {Set(a), [op |-> "Delete", key |-> k1]}
Commands == SetOrDelete \union {[op |-> "Get", key |-> k1]}
OneSet == {Set(a)}
AnyCommand == OneSet \union {[op |-> "Get", key |-> k1], [op |-> "Invalid"]}
=============================================================================
