--------------------------- MODULE RaftProperties ---------------------------
(***************************************************************************)
(* What a cluster of quaso nodes should do and not do.  The first part     *)
(* holds in every instance of Raft, whatever fails; the second part holds  *)
(* while no second leader arises; the third says what a call may wait for; *)
(* the last states what comments of the code promise.                      *)
(***************************************************************************)
EXTENDS Raft

IsPrefixOf(s, t) == Len(s) <= Len(t) /\ s = SubSeq(t, 1, Len(s))

-----------------------------------------------------------------------------
(* Types *)

Places == {"top", "persist", "create", "beat", "heartbeat", "commit", "check",
           "expired", "candidate", "campaign", "won", "lost", "late", "clear",
           "dead", "down"}
Wires == {"idle", "sent", "replied", "failed", "closed", "reset", "lost"}
Requests == VoteRequest \union AppendRequest
Orphans == [from : {NoNode}, to : Node,
            req : Requests \union {Torn, Silence, Held}]
Disks == [state : {"saved", "torn", "absent"}, term : Nat,
          votedFor : Node \union {NoNode}, log : Seq(Entry)]

\* Every variable holds a value of the Rust type it stands for; in particular
\* no index or term that a request carries, some of them differences, is below
\* zero.  (Where a handler's own arithmetic fails it panics: AppendUnderflows.)
TypeOK ==
  /\ node_term \in [Node -> Nat]
  /\ voted_for \in [Node -> Node \union {NoNode}]
  /\ log \in [Node -> Seq(Entry)]
  /\ node_type \in [Node -> Role]
  /\ votes_recieved \in [Node -> Seq(Node)]
  /\ commited_index \in [Node -> Nat]
  /\ next_index \in [Node -> [Node -> Nat]]
  /\ match_index \in [Node -> [Node -> Nat]]
  /\ recieved_leader_heartbeat \in [Node -> BOOLEAN]
  /\ is_leader \in [Node -> BOOLEAN]
  /\ delivered \in [Node -> Seq(Entry)]
  /\ pc \in [Node -> Places]
  /\ conn \in [Node -> Nat \ {0}]
  /\ \A n \in Node : conn[n] <= Len(connections[n]) + 1
  /\ seen_term \in [Node -> Nat]
  /\ serving \in [Node -> BOOLEAN]
  /\ wire \in [Node -> Wires]
  /\ request \in [Node -> Requests \union {NoRequest}]
  /\ reply \in [Node -> Reply \union {NoReply}]
  /\ orphans \subseteq Orphans
  /\ disk \in [Node -> Disks]
  /\ rare \in Nat

\* TypeOK is not inductive: an answer that is counted must be a node's, a
\* request that is handled a request, and the log that WriteFile cuts still as
\* long as it was when RemoveFile looked at it.
CallInv ==
  \A n \in Node :
    /\ wire[n] # "idle" => /\ pc[n] \in {"heartbeat", "campaign"}
                          /\ InLoop(n)
                          /\ request[n] \in Requests
    /\ wire[n] = "replied" => reply[n] \in Reply

PersistInv ==
  \A n \in Node :
    pc[n] \in {"persist", "create"} => commited_index[n] <= Len(log[n])

TypeInv == TypeOK /\ CallInv /\ PersistInv

-----------------------------------------------------------------------------
(* Elections, in any instance *)

\* The nodes that have voted in n's campaign are n and peers it has been to,
\* each counted once.
CountedOnce(n) ==
  /\ \E i \in 1..Len(votes_recieved[n]) : votes_recieved[n][i] = n
  /\ \A i, j \in 1..Len(votes_recieved[n]) :
       votes_recieved[n][i] = votes_recieved[n][j] => i = j

\* Who leads, or is about to, holds the votes of a quorum of distinct nodes,
\* its own among them: votes_recieved is emptied before each campaign, and no
\* answer, late answer or second answer is counted twice.
LeaderHasQuorum ==
  \A n \in Node :
    node_type[n] = "Leader" \/ pc[n] = "won" =>
      CountedOnce(n) /\ Len(votes_recieved[n]) >= QuorumLength(n)

\* The request that n's ticker waits for is the one n would build now.
SpeaksFor(n) ==
  wire[n] # "idle" =>
    /\ pc[n] \in {"heartbeat", "campaign"} /\ InLoop(n)
    /\ pc[n] = "campaign" =>
         request[n] = VoteRequestOf(n, node_term[n], log[n])
    /\ pc[n] = "heartbeat" =>
         /\ node_type[n] = "Leader"
         /\ request[n] = AppendRequestOf(n, node_term[n], log[n],
                                         next_index[n][Peer(n)],
                                         commited_index[n])

\* While a peer works on a request, and until its answer has been read, the
\* request is still what its sender would send: no other task has changed the
\* sender's term, role, log, or indexes behind the ticker that waits.  So every
\* answer is judged by the state the question was asked in.
RequestSpeaksForSender == \A n \in Node : SpeaksFor(n)

\* The last two are not inductive.  What they rest on, for one node: it is no
\* leader while it campaigns, leads while it sends heartbeats, and is nothing
\* while it is down; an answer comes from the peer that was asked; the votes of
\* a campaign come from the node and the peers it has been to.
OfficeInv(n) ==
  /\ pc[n] \in {"expired", "candidate", "campaign", "won", "lost", "late"} =>
       node_type[n] # "Leader"
  /\ pc[n] = "heartbeat" => node_type[n] = "Leader"
  /\ pc[n] = "down" => node_type[n] = "Follower" /\ ~serving[n]

Visited(n) == {connections[n][j] : j \in 1..conn[n]-1}

VotesInv(n) ==
  /\ wire[n] = "replied" => reply[n].node = Peer(n)
  /\ pc[n] = "campaign" =>
       /\ CountedOnce(n)
       /\ \A i \in 1..Len(votes_recieved[n]) :
            votes_recieved[n][i] \in {n} \union Visited(n)
  /\ node_type[n] = "Leader" \/ pc[n] = "won" =>
       CountedOnce(n) /\ Len(votes_recieved[n]) >= QuorumLength(n)

LeaderInv == \A n \in Node : OfficeInv(n) /\ VotesInv(n) /\ SpeaksFor(n)

\* What n goes by in elections: what it holds in memory or, while it is down,
\* what its file will give it back.
TermOf(n) == IF Up(n) THEN node_term[n] ELSE disk[n].term
VoteOf(n) == IF Up(n) THEN voted_for[n] ELSE disk[n].votedFor

\* What elections rest on, for one node and one step.  n goes back to no earlier
\* term, be it at the word of a caller, of an answer or of its file, and finds its
\* vote in the file if it finds its term there.
KeepsRecord(n) ==
  /\ TermOf(n)' >= TermOf(n)
  /\ pc'[n] = "down" /\ TermOf(n)' = TermOf(n) => VoteOf(n)' = VoteOf(n)

\* Its listener grants no vote after it has become a candidate and before its
\* campaign takes the lock again.
NoVoteInGap(n) == pc[n] = "candidate" => ~\E msg \in Inbox(n) : GrantVote(n, msg)

\* Having won, it is still in the term it has won when it becomes a leader.
TermUntilOffice(n) ==
  pc[n] = "won" => node_term'[n] = node_term[n] \/ pc'[n] = "down"

VotesStandStep ==
  \A n \in Node : KeepsRecord(n) /\ NoVoteInGap(n) /\ TermUntilOffice(n)

\* The steps of the code that are not so.
CrashUnsaved(n) ==
  /\ \/ disk[n].term < node_term[n]
     \/ disk[n].term = node_term[n] /\ disk[n].votedFor # voted_for[n]
  /\ Crash(n)
StepDownStale(n) == seen_term[n] < node_term[n] /\ StepDown(n)
AppendStale(n) ==
  \E msg \in Inbox(n) : AcceptAppend(n, msg) /\ msg.req.term < node_term[n]
VoteInGap(n) == pc[n] = "candidate" /\ \E msg \in Inbox(n) : GrantVote(n, msg)
WonTermLeft(n) ==
  /\ pc[n] = "won"
  /\ \E msg \in Inbox(n) : GrantVote(n, msg) \/ AcceptAppend(n, msg)
  /\ node_term'[n] # node_term[n]

\* n does one of these.  Two nodes lead in one term only after such a step, and the
\* code takes every one of them: OneLeaderWhileNoLapse in RaftSafetyProofs.
Lapse(n) ==
  \/ CrashUnsaved(n) \/ StepDownStale(n) \/ AppendStale(n)
  \/ VoteInGap(n) \/ WonTermLeft(n)

NoLapse == [][\A n \in Node : ~Lapse(n)]_vars

\* n counts on votes: those it has counted, and an ok that it has yet to read.
Stands(n) == pc[n] \in {"campaign", "won"} \/ node_type[n] = "Leader"

Voters(n) == {votes_recieved[n][i] : i \in 1..Len(votes_recieved[n])}

Supporters(n) ==
  Voters(n) \union
  {m \in Node : /\ pc[n] = "campaign" /\ wire[n] = "replied" /\ reply[n].ok
               /\ m = Peer(n)}

Voted(m, n, t) == TermOf(m) > t \/ (TermOf(m) = t /\ VoteOf(m) = n)

\* Whom n counts on has voted for n in its term or left that term behind, and
\* counts for nobody else in it; a candidate yet to begin counts for nobody.
ElectionInv(n) ==
  /\ Stands(n) => \A m \in Supporters(n) : Voted(m, n, node_term[n])
  /\ \A k \in Node \ {n} :
       Stands(n) /\ Stands(k) /\ node_term[n] = node_term[k] =>
         Supporters(n) \cap Supporters(k) = {}
  /\ pc[n] = "candidate" =>
       \A k \in Node :
         Stands(k) /\ node_term[n] = node_term[k] => n \notin Supporters(k)

\* "we can never let nextIndex value go below 1": a leader has a next_index of
\* at least 1 for every peer, over campaigns, refusals and step-downs, and no
\* match_index of a leader lies beyond its own log, so that the loop of
\* maybe_commit_log_entries never indexes past it.
LeaderIndexBounds ==
  \A n \in Node :
    node_type[n] = "Leader" =>
      \A m \in Node : /\ m # n => next_index[n][m] >= 1
                      /\ match_index[n][m] <= Len(log[n])

\* What LeaderIndexBounds rests on, for one node: the indexes are those of the
\* office or of the election just won, and while it is only won, match_index is
\* all 0, since an append may still cut the log.
IndexInv(n) ==
  /\ node_type[n] = "Leader" \/ pc[n] = "won" =>
       \A m \in Node \ {n} : next_index[n][m] >= 1
  /\ node_type[n] = "Leader" => \A m \in Node : match_index[n][m] <= Len(log[n])
  /\ pc[n] = "won" => \A m \in Node : match_index[n][m] = 0

\* A node that leads before and after a step has not lost or rewritten an
\* entry of its log: append_entries, which truncates, demotes the node first.
LeaderAppendOnly ==
  [][\A n \in Node :
       node_type[n] = "Leader" /\ node_type'[n] = "Leader" =>
         IsPrefixOf(log[n], log'[n])]_vars

\* Every index up to commited_index has been delivered to the KV task exactly
\* once since the node started; only a listener that panicked between the
\* deliveries of a request may have delivered more.
DeliveredOnce ==
  \A n \in Node :
    /\ commited_index[n] <= Len(delivered[n])
    /\ serving[n] => commited_index[n] = Len(delivered[n])

-----------------------------------------------------------------------------
(* Replication, while no second leader arises and no answer is lost *)

\* The longest sequence that a node has delivered.
LongestDelivered ==
  CHOOSE s \in {delivered[n] : n \in Node} :
    \A n \in Node : Len(delivered[n]) <= Len(s)

Log == INSTANCE ReplicatedLog
         WITH Command <- Entry, agreed <- LongestDelivered, applied <- delivered

\* The KV tasks of the nodes apply one common sequence: the commits of the
\* leader decide it, leader_commit and the merged log of append_entries teach
\* it, and a restarted follower learns it again from index 1.
ImplementsReplicatedLog == Log!Spec

Leads(n) == node_type[n] = "Leader" /\ Up(n)

\* A follower that answers success holds the leader's whole log: the merge of
\* append_entries left neither a hole, a repetition nor an old entry, so that the
\* leader may record its own log length as the follower's match_index.  One that
\* may crash has, after a restart, a first part of it.
AckMeansStored ==
  \A n \in Node :
    pc[n] = "heartbeat" /\ wire[n] = "replied" /\ reply[n].ok =>
      /\ IsPrefixOf(log[Peer(n)], log[n])
      /\ Peer(n) \notin Fallible => log[Peer(n)] = log[n]

\* What a leader has committed is in the logs of a quorum, not only in its
\* match_index map, but for nodes that may crash: those forget, when they restart,
\* what they have acknowledged and not saved, and the map does not.
CommittedOnQuorum ==
  \A n \in Node :
    Leads(n) =>
      Cardinality({m \in Node :
        \/ m \in Fallible
        \/ IsPrefixOf(SubSeq(log[n], 1, commited_index[n]), log[m])}) >= QuorumLength(n)

\* A saved file holds nothing that a leader has not committed: persist cuts the
\* log at commited_index, so a restart brings back no entry that could differ.
DiskIsCommitted ==
  \A n \in Node : disk[n].state = "saved" =>
    \A m \in Node : Leads(m) => IsPrefixOf(disk[n].log, delivered[m])

\* What these rest on, while l alone contends, does not crash, and no answer is
\* lost.  The other nodes only answer, persist, crash and restart.
SoleContender(l) ==
  Contenders \subseteq {l} /\ l \notin Fallible /\ "break" \notin RareKinds

OnlyCaller(l) ==
  /\ orphans = {}
  /\ pc[l] # "down"
  /\ \A m \in Node \ {l} :
       /\ node_type[m] # "Leader"
       /\ pc[m] \in {"top", "persist", "create", "beat", "dead", "down"}

\* What m has stored or may restart from is shorter than k.
StoredBelow(m, k) == Len(log[m]) < k /\ Len(disk[m].log) < k

\* Whatever is stored or delivered anywhere is a first part of the log of l, and
\* nothing is stored before l leads.
LogsInv(l) ==
  /\ node_type[l] # "Leader" => log[l] = <<>>
  /\ commited_index[l] <= Len(log[l])
  /\ \A m \in Node :
       /\ IsPrefixOf(log[m], log[l])
       /\ IsPrefixOf(disk[m].log, log[l])
       /\ commited_index[m] <= commited_index[l]
       /\ Len(disk[m].log) <= commited_index[l]
       /\ pc[m] # "down" => Len(disk[m].log) <= Len(log[m])
       /\ delivered[m] = SubSeq(log[l], 1, commited_index[m])

\* While l waits for the answer of a peer or has it: the peer has said ok.
Acked(l, m) ==
  pc[l] = "heartbeat" /\ wire[l] = "replied" /\ reply[l].ok /\ m = Peer(l)

\* next_index of a peer lies beyond all that the peer may hold, so that a request
\* it accepts begins exactly where its log ends; until an ok is recorded, and by
\* one more while a refusal is not.
NextInv(l) ==
  /\ node_type[l] = "Leader" \/ pc[l] = "won" =>
       \A m \in Node \ {l} :
         /\ next_index[l][m] <= Len(log[l]) + 1
         /\ StoredBelow(m, next_index[l][m]) \/ Acked(l, m)
  /\ pc[l] = "heartbeat" /\ wire[l] = "replied" /\ ~reply[l].ok =>
       StoredBelow(Peer(l), next_index[l][Peer(l)] - 1)

ReplicationInv(l) == OnlyCaller(l) /\ LogsInv(l) /\ NextInv(l)

\* Acks of the nodes that do not crash stay true: for the records of l too.
AckInv(l) ==
  /\ \A m \in Node \ Fallible :
       /\ Acked(l, m) => log[m] = log[l]
       /\ node_type[l] = "Leader" => match_index[l][m] <= Len(log[m])
  /\ Cardinality({m \in Node : m \in Fallible \/ commited_index[l] <= Len(log[m])})
       >= QuorumLength(l)

\* Some node wins an election, and keeps its office.
LeaderElected == <>[](\E n \in Node : Leads(n))

\* An entry that append_entry has put in the leader's log is delivered to the
\* KV task of every node.
AppendedIsDelivered ==
  \A k \in 1..MaxLog :
    (\E n \in Node : Leads(n) /\ Len(log[n]) >= k)
      ~> (\A n \in Node : Len(delivered[n]) >= k)

-----------------------------------------------------------------------------
(* Waiting *)

\* The listener handles, of all that wait, the request of n.
ServeCaller(m, n) ==
  Listener(m) /\ wire[n] = "sent" /\ Peer(n) = m /\ wire'[n] # "sent"

\* The backlog of a listening socket and the queue of a tokio mutex are served in
\* the order of arrival, so that nobody who waits is passed over for ever.
FifoSpec == FairSpec /\ \A m \in Node : \A n \in Node \ {m} : SF_vars(ServeCaller(m, n))

\* Nodes that all wait for an answer of one of them.  Their listeners wait for the
\* locks that their tickers hold.
Circle == \E S \in (SUBSET Node) \ {{}} : \A n \in S : wire[n] = "sent" /\ Peer(n) \in S

\* m answers nobody any more, and nobody is told: its ticker waits, with the lock,
\* for an answer that was lost in silence, or its listener for a request that was.
CutOff(m) == wire[m] = "lost" \/ HeldAt(m) \in orphans

CanAnswer(m) == Listening(m) /\ wire[m] \notin {"sent", "lost"}

\* Where calls wait, and not in a circle, one is with a node that can answer it now,
\* or that is cut off: a listener that dies, by a panic or a crash, takes the calls
\* that it had not yet accepted with it, so that nobody who is told of a failure
\* keeps its lock, and with it others, waiting.
SomeoneCanAnswer ==
  (\E n \in Node : wire[n] = "sent") =>
    \/ Circle
    \/ \E n \in Node : wire[n] = "sent" /\ (CanAnswer(Peer(n)) \/ CutOff(Peer(n)))

\* What it rests on, and is inductive: no call is with a listener that is dead.
AskedStillListens == \A n \in Node : wire[n] = "sent" => serving[Peer(n)]

\* A call, of a heartbeat or a campaign, ends, although the caller keeps its lock
\* and Client::send has no timeout, unless nodes wait for each other in a circle or
\* one has lost a connection without being told: panics, crashes, resets, torn
\* requests and slow campaigns make no call last for ever.
CallEndsUnlessStuck ==
  \A n \in Node :
    wire[n] \in {"sent", "lost"} ~>
      wire[n] \notin {"sent", "lost"} \/ Circle \/ \E m \in Node : CutOff(m)

-----------------------------------------------------------------------------
(* Promises of comments and messages *)

\* rpc.rs, request_vote, "check if voted for any other candidate in the same
\* term", and what that check is for: no two nodes lead in one term.
OneLeaderPerTerm ==
  \A m, n \in Node :
    Leads(m) /\ Leads(n) /\ node_term[m] = node_term[n] => m = n

\* rpc.rs, append_entries, "Reply falses if term < current term (5.1)".
StaleAppendRefused ==
  [][\A m \in Node : \A msg \in Inbox(m) :
       AcceptAppend(m, msg) => msg.req.term >= node_term[m]]_vars

\* kv.rs, KVStore, "by having and agreement over the Opeartion": of what two
\* nodes have delivered to their stores, the shorter begins the longer.
DeliveriesAgree ==
  \A m, n \in Node :
    IsPrefixOf(delivered[m], delivered[n]) \/ IsPrefixOf(delivered[n], delivered[m])
=============================================================================
