----------------------------- MODULE MCKvTerminal -----------------------------
(* One terminal and its session for TLC: two lengths, one longer than a read. *)
EXTENDS KvTerminal

ShortAndLong == {1, 3}
=============================================================================
