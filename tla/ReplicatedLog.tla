--------------------------- MODULE ReplicatedLog ----------------------------
(***************************************************************************)
(* What raft promises the KV store behind deliver_tx: one sequence of      *)
(* entries is agreed upon, it only grows, and every node applies it from   *)
(* its first entry on, without a gap, a repetition or another order.  A    *)
(* node that restarts applies it again from the start.                     *)
(***************************************************************************)
EXTENDS Naturals, Sequences

CONSTANTS Node, Command

VARIABLES
  agreed,   \* the entries agreed upon so far
  applied   \* applied[n]: what n has applied since it started

logvars == <<agreed, applied>>

Extends(s, t) == Len(s) < Len(t) /\ t \in Seq(Command) /\ SubSeq(t, 1, Len(s)) = s

Init == agreed = <<>> /\ applied = [n \in Node |-> <<>>]

\* A node that has applied everything agreed upon decides what comes next.
Decide(n) ==
  /\ applied[n] = agreed
  /\ Extends(agreed, agreed')
  /\ applied' = [applied EXCEPT ![n] = agreed']

Learn(n) ==
  /\ \E k \in Len(applied[n])+1 .. Len(agreed) :
       applied' = [applied EXCEPT ![n] = SubSeq(agreed, 1, k)]
  /\ UNCHANGED agreed

Restart(n) ==
  /\ applied' = [applied EXCEPT ![n] = <<>>]
  /\ UNCHANGED agreed

Next == \E n \in Node : Decide(n) \/ Learn(n) \/ Restart(n)

Spec == Init /\ [][Next]_logvars
=============================================================================
