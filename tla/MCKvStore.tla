------------------------------ MODULE MCKvStore ------------------------------
(* One node's store for TLC: keys, values and what clients may send. *)
EXTENDS KvStoreProperties

CONSTANTS k1, a

ASet == [op |-> "Set", key |-> k1, text |-> a]

\* A write, a read, and what makes parse_command panic.
Commands == {ASet, [op |-> "Get", key |-> k1], [op |-> "Short"]}

Entries == {[value |-> v, term |-> 1] : v \in {ASet, [op |-> "Delete", key |-> k1]}}
=============================================================================
