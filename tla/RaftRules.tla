----------------------------- MODULE RaftRules -----------------------------
(***************************************************************************)
(* The pure decisions of raft/src/server: what request_vote and            *)
(* append_entries decide, what request a leader builds for a peer, and     *)
(* which index maybe_commit_log_entries picks.  No state of its own: Raft  *)
(* applies these operators under the lock that the code holds.             *)
(*                                                                         *)
(* A log is a sequence indexed from 1, as the code's comment has it        *)
(* ("Everything is indexed from 1"); an index of 0 is "no entry".          *)
(***************************************************************************)
EXTENDS Integers, Sequences, FiniteSets

CONSTANTS
  Node,         \* the machines of the cluster (node_id and listener_addr)
  Value,        \* the commands an entry may carry (kv::Operation)
  NoNode,       \* Option::None where the code has an Option<NodeId>
  connections   \* connections[n]: the peers of n, in the order of its yml file

ASSUME NodeAssumption == IsFiniteSet(Node) /\ NoNode \notin Node

ASSUME ConnectionsAssumption ==
  /\ connections \in [Node -> Seq(Node)]
  /\ \A n \in Node :
       /\ Len(connections[n]) + 1 = Cardinality(Node)
       /\ \A i, j \in 1..Len(connections[n]) :
            connections[n][i] = connections[n][j] => i = j
       /\ \A i \in 1..Len(connections[n]) : connections[n][i] # n

Role == {"Follower", "Candidate", "Leader"}
Entry == [value : Value, term : Nat]

VoteRequest == [type : {"RequestVote"}, term : Nat, candidate : Node,
                lastLogIndex : Nat, lastLogTerm : Nat]
AppendRequest == [type : {"AppendEntries"}, term : Nat, leader : Node,
                  prevLogIndex : Nat, prevLogTerm : Nat,
                  entries : Seq(Entry), leaderCommit : Nat]
\* ElectionVoteResponse and AppendEntriesResponse have the same shape; ok is
\* vote_granted or success.
Reply == [node : Node, term : Nat, ok : BOOLEAN]

\* Mutant of QuorumLength: rounded up before the 1 is added.
QuorumLengthRoundedUp(n) == (Len(connections[n]) + 2) \div 2 + 1

\* get_quorum_length: more than half of the peers and the node itself.
QuorumLength(n) == (Len(connections[n]) + 1) \div 2 + 1

LastTerm(l) == IF l = <<>> THEN 0 ELSE l[Len(l)].term

-----------------------------------------------------------------------------
(* request_vote *)

\* The candidate asks for a term the voter has left behind, or for a term in
\* which the voter has already voted for another.
VoteRefused(term, votedFor, req) ==
  \/ req.term < term
  \/ req.term = term /\ votedFor \notin {NoNode, req.candidate}

\* Among the rest, a voter with an empty log looks only at voted_for, whatever
\* the term of the request.
LogAllowsVote(votedFor, l, req) ==
  IF l = <<>> THEN votedFor = NoNode
  ELSE \/ LastTerm(l) < req.lastLogTerm
       \/ LastTerm(l) = req.lastLogTerm /\ Len(l) <= req.lastLogIndex

\* Mutant of GrantsVote: an up-to-date log is enough.
GrantsWithoutRecord(term, votedFor, l, req) ==
  req.term >= term /\ (l = <<>> \/ LogAllowsVote(votedFor, l, req))

GrantsVote(term, votedFor, l, req) ==
  ~VoteRefused(term, votedFor, req) /\ LogAllowsVote(votedFor, l, req)

\* Mutant of VoteRequestOf: last_log_index counted from 0.
VoteRequestFromZero(n, term, l) ==
  [type |-> "RequestVote", term |-> term, candidate |-> n,
   lastLogIndex |-> Len(l) - 1, lastLogTerm |-> LastTerm(l)]

\* The request built by handle_candidate_election.
VoteRequestOf(n, term, l) ==
  [type |-> "RequestVote", term |-> term, candidate |-> n,
   lastLogIndex |-> Len(l), lastLogTerm |-> LastTerm(l)]

-----------------------------------------------------------------------------
(* append_entries *)

\* Mutant of StaleAppend: the leader's own term is stale as well.
StaleAppendOrEqual(role, term, req) == req.term <= term /\ role = "Leader"

\* A stale term is a reason to refuse only for a node that is itself a leader.
StaleAppend(role, term, req) == req.term < term /\ role = "Leader"

\* log[prev_log_index - 1] underflows: the handler panics.
AppendUnderflows(role, term, l, req) ==
  ~StaleAppend(role, term, req) /\ l # <<>> /\ req.prevLogIndex = 0

AppendAccepted(role, term, l, req) ==
  /\ ~StaleAppend(role, term, req)
  /\ req.prevLogIndex <= Len(l)
  /\ l # <<>> => /\ req.prevLogIndex > 0
                 /\ l[req.prevLogIndex].term = req.prevLogTerm

\* Mutant of RoleAfterAppend: only a later term demotes.
RoleUnlessLater(role, term, req) == IF req.term > term THEN "Follower" ELSE role

\* An accepted append makes its receiver a follower, whatever it was before.
RoleAfterAppend(role, term, req) == "Follower"

\* Mutant of MergedLog: the log is truncated whatever its length.
MergedByTruncation(l, req) == SubSeq(l, 1, req.prevLogIndex - 1) \o req.entries

\* truncate(prev_log_index - 1) drops the matched entry too; a log that is not
\* longer than the leader's is extended without looking at what it holds.
MergedLog(l, req) ==
  IF Len(req.entries) + req.prevLogIndex < Len(l)
  THEN SubSeq(l, 1, req.prevLogIndex - 1) \o req.entries
  ELSE l \o req.entries

-----------------------------------------------------------------------------
(* Delivery: "for i in from..to { deliver_tx.send(log[i].clone()) }" *)

DeliveryPanics(l, from, to) == from < to /\ Len(l) < to

\* Mutants of DeliveredSlice: the loop runs to the end of the log; the loop
\* starts from the first entry again.
DeliveredToEnd(l, from, to) == SubSeq(l, from + 1, Len(l))
DeliveredFromStart(l, from, to) ==
  IF from < to THEN SubSeq(l, 1, IF to <= Len(l) THEN to ELSE Len(l)) ELSE <<>>

\* What was sent before the loop ended or indexed past the log.
DeliveredSlice(l, from, to) ==
  SubSeq(l, from + 1, IF to <= Len(l) THEN to ELSE Len(l))

-----------------------------------------------------------------------------
(* maybe_send_heartbeat *)

\* With next_index 0 nothing is sent, with 1 the whole log.
PrevIndexFor(l, next) == IF l # <<>> /\ next >= 2 THEN next - 1 ELSE 0

HeartbeatPanics(l, next) == PrevIndexFor(l, next) > Len(l)

AppendRequestOf(n, term, l, next, commit) ==
  LET prev == PrevIndexFor(l, next)
  IN  [type |-> "AppendEntries", term |-> term, leader |-> n,
       prevLogIndex |-> prev,
       prevLogTerm |-> IF prev = 0 THEN 0 ELSE l[prev].term,
       entries |-> IF next = 0 THEN <<>> ELSE SubSeq(l, prev + 1, Len(l)),
       leaderCommit |-> commit]

-----------------------------------------------------------------------------
(* maybe_commit_log_entries *)

\* How many values of the match_index map are equal to k.
Frequency(match, k) == Cardinality({m \in Node : match[m] = k})

\* Mutant of QuorumMatches: one node less than a quorum is enough.
NearQuorumMatches(n, match) ==
  {k \in {match[m] : m \in Node} : Frequency(match, k) >= QuorumLength(n) - 1}

\* The values that a quorum of the map is equal to (not: has reached).
QuorumMatches(n, match) ==
  {k \in {match[m] : m \in Node} : Frequency(match, k) >= QuorumLength(n)}
=============================================================================
