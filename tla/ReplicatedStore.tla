--------------------------- MODULE ReplicatedStore ---------------------------
(***************************************************************************)
(* What the cluster promises those who read from it: there is one history  *)
(* of writes; a node has applied some first part of it, and answers a Get  *)
(* by that part.  So a client that stays with a node never sees the store  *)
(* go back, unless the node restarts, and two nodes may differ only in how *)
(* far they are.  A Get may miss what another node has acknowledged.       *)
(***************************************************************************)
EXTENDS KvHistory, Sequences

CONSTANTS Node, Client, Key, Entry, NoNode

VARIABLES
  agreed,   \* the writes agreed upon so far
  version,  \* version[n]: how many of them n has applied
  at,       \* the node that a client talks to
  read      \* what its Get has found, until the client has taken it

storevars == <<agreed, version, at, read>>

Init ==
  /\ agreed = <<>>
  /\ version = [n \in Node |-> 0]
  /\ at = [c \in Client |-> NoNode]
  /\ read = [c \in Client |-> Undefined]

Agree ==
  /\ agreed' \in Seq(Entry)
  /\ Len(agreed) < Len(agreed') /\ SubSeq(agreed', 1, Len(agreed)) = agreed
  /\ UNCHANGED <<version, at, read>>

Advance(n) ==
  /\ version[n] < Len(agreed)
  /\ version' = [version EXCEPT ![n] = @ + 1]
  /\ UNCHANGED <<agreed, at, read>>

Get(c) ==
  /\ at[c] # NoNode
  /\ \E key \in Key :
       read' = [read EXCEPT ![c] = ValueAfter(agreed, version[at[c]], key)]
  /\ UNCHANGED <<agreed, version, at>>

Take(c) ==
  /\ read' = [read EXCEPT ![c] = Undefined]
  /\ \E n \in {at[c], NoNode} : at' = [at EXCEPT ![c] = n]
  /\ UNCHANGED <<agreed, version>>

Connect(c) ==
  /\ at[c] = NoNode
  /\ \E n \in Node : at' = [at EXCEPT ![c] = n]
  /\ UNCHANGED <<agreed, version, read>>

\* A node that restarts has applied nothing yet, and its clients are cut off.
Restart(n) ==
  /\ version' = [version EXCEPT ![n] = 0]
  /\ at' = [c \in Client |-> IF at[c] = n THEN NoNode ELSE at[c]]
  /\ read' = [c \in Client |-> IF at[c] = n THEN Undefined ELSE read[c]]
  /\ UNCHANGED agreed

Next ==
  \/ Agree
  \/ \E n \in Node : Advance(n) \/ Restart(n)
  \/ \E c \in Client : Get(c) \/ Take(c) \/ Connect(c)

Spec == Init /\ [][Next]_storevars
=============================================================================
