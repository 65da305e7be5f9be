-------------------------- MODULE RaftRulesLemmas --------------------------
(***************************************************************************)
(* What the operators of RaftRules return, for logs and requests of any    *)
(* length: the facts that the proofs about the rules and about the node    *)
(* have in common.                                                         *)
(***************************************************************************)
EXTENDS RaftRules, TLAPS, SequenceTheorems

LEMMA PeerIsNode ==
  ASSUME NEW n \in Node, NEW i \in Nat \ {0}, i <= Len(connections[n])
  PROVE  connections[n][i] \in Node /\ connections[n][i] # n
<1>1. connections[n] \in Seq(Node) /\ i \in 1..Len(connections[n])
  BY ConnectionsAssumption
<1> QED  BY <1>1, ElementOfSeq, ConnectionsAssumption

LEMMA LastTermType ==
  ASSUME NEW l \in Seq(Entry)
  PROVE  LastTerm(l) \in Nat
<1>1. CASE l = <<>>  BY <1>1 DEF LastTerm
<1>2. CASE l # <<>>
  <2>1. l[Len(l)] \in Entry  BY <1>2, ElementOfSeq, EmptySeq
  <2> QED  BY <1>2, <2>1 DEF LastTerm, Entry
<1> QED  BY <1>1, <1>2

LEMMA VoteRequestType ==
  ASSUME NEW n \in Node, NEW t \in Nat, NEW l \in Seq(Entry)
  PROVE  VoteRequestOf(n, t, l) \in VoteRequest
BY LastTermType DEF VoteRequestOf, VoteRequest

LEMMA AppendRequestType ==
  ASSUME NEW n \in Node, NEW t \in Nat, NEW l \in Seq(Entry), NEW next \in Nat,
         NEW commit \in Nat, ~HeartbeatPanics(l, next)
  PROVE  AppendRequestOf(n, t, l, next, commit) \in AppendRequest
<1> DEFINE prev == PrevIndexFor(l, next)
<1>1. prev \in Nat /\ prev <= Len(l)
  BY DEF PrevIndexFor, HeartbeatPanics
<1>2. (IF prev = 0 THEN 0 ELSE l[prev].term) \in Nat
  <2>1. CASE prev = 0
    BY <2>1
  <2>2. CASE prev # 0
    <3>1. prev \in 1..Len(l)  BY <1>1, <2>2
    <3>2. l[prev] \in Entry   BY <3>1, ElementOfSeq
    <3> QED  BY <2>2, <3>2 DEF Entry
  <2> QED  BY <2>1, <2>2
<1>3. SubSeq(l, prev + 1, Len(l)) \in Seq(Entry)
  BY <1>1, SubSeqProperties, ElementOfSeq
<1>4. (IF next = 0 THEN <<>> ELSE SubSeq(l, prev + 1, Len(l))) \in Seq(Entry)
  BY <1>3
<1> QED  BY <1>1, <1>2, <1>4 DEF AppendRequestOf, AppendRequest

LEMMA MergedLogType ==
  ASSUME NEW l \in Seq(Entry), NEW req \in AppendRequest, req.prevLogIndex <= Len(l)
  PROVE  MergedLog(l, req) \in Seq(Entry)
<1>1. req.entries \in Seq(Entry) /\ req.prevLogIndex \in Nat
  BY DEF AppendRequest
<1>2. SubSeq(l, 1, req.prevLogIndex - 1) \in Seq(Entry)
  BY <1>1, SubSeqProperties, ElementOfSeq
<1> QED  BY <1>1, <1>2, ConcatProperties DEF MergedLog

LEMMA DeliveredSliceType ==
  ASSUME NEW l \in Seq(Entry), NEW from \in Nat, NEW to \in Nat
  PROVE  DeliveredSlice(l, from, to) \in Seq(Entry)
<1> DEFINE last == IF to <= Len(l) THEN to ELSE Len(l)
<1>1. last \in Nat /\ last <= Len(l)
  OBVIOUS
<1>2. \A i \in from+1 .. last : l[i] \in Entry
  BY <1>1, ElementOfSeq
<1> QED  BY <1>1, <1>2, SubSeqProperties DEF DeliveredSlice

LEMMA ConnectionsLength ==
  \A n \in Node : Len(connections[n]) \in Nat
BY ConnectionsAssumption, LenProperties

\* get_quorum_length is more than half of the cluster.
LEMMA QuorumIsMajority ==
  ASSUME NEW n \in Node
  PROVE  QuorumLength(n) \in Nat /\ 2 * QuorumLength(n) > Cardinality(Node)
<1> DEFINE peers == Len(connections[n])
<1>1. peers \in Nat /\ peers + 1 = Cardinality(Node)
  BY ConnectionsAssumption, ConnectionsLength
<1>2. QuorumLength(n) = (peers + 1) \div 2 + 1
  BY DEF QuorumLength
<1> HIDE DEF peers
<1>3. (peers + 1) \div 2 \in Nat /\ 2 * ((peers + 1) \div 2) >= peers
  BY <1>1
<1> QED  BY <1>1, <1>2, <1>3
=============================================================================
