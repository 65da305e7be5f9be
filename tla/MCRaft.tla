------------------------------- MODULE MCRaft -------------------------------
(* Instances of Raft for TLC: the three machines of kv/data. *)
EXTENDS RaftProperties, TLC

CONSTANTS m1, m2, m3

ThreeMachines ==
  (m1 :> <<m2, m3>>) @@ (m2 :> <<m1, m3>>) @@ (m3 :> <<m2, m1>>)

TwoMachines == (m1 :> <<m2>>) @@ (m2 :> <<m1>>)
=============================================================================
