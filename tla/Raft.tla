-------------------------------- MODULE Raft --------------------------------
(***************************************************************************)
(* The nodes of a quaso cluster: for each, the ticker task (Raft::tick),   *)
(* the listener task (Server::start_listener), the append_entry calls of   *)
(* its KV task, and the process that holds them, which may crash.          *)
(*                                                                         *)
(* All tasks of a node share one State behind a tokio Mutex.  A function   *)
(* that takes the lock, works and returns is one action.  The ticker keeps *)
(* the lock across an RPC (Client::send(..).await) and across the writes   *)
(* of try_persist_state, so these are several actions, and until the last  *)
(* of them no other task of the node can touch its State.                  *)
(*                                                                         *)
(* Time is abstract: heartbeat and election timers may be found expired    *)
(* at any tick (election timers only of Contenders).  A call that returns  *)
(* without changing anything is merged with the one that follows it.       *)
(***************************************************************************)
EXTENDS RaftRules

CONSTANTS
  Contenders,   \* the nodes whose election timer may expire
  Fallible,     \* the nodes that may crash
  RareKinds,    \* the rare events of this instance
  MaxRare,      \* bound: how many rare events happen in all
  MaxTerm,      \* bound: no ticker raises its term beyond it
  MaxLog        \* bound: append_entry is called only on shorter logs

AllRareKinds == {"persist", "disk", "refuse", "break", "slow", "crash"}

ASSUME BoundsAssumption ==
  /\ Contenders \subseteq Node /\ Fallible \subseteq Node
  /\ RareKinds \subseteq AllRareKinds
  /\ MaxRare \in Nat /\ MaxTerm \in Nat /\ MaxLog \in Nat

VARIABLES
  node_term, voted_for, log,              \* PersistentState
  node_type, votes_recieved,              \* VolatileState
  commited_index, next_index, match_index,
  recieved_leader_heartbeat,              \* State's atomic flag
  is_leader,                              \* the flag Raft shares with the KV store
  delivered,                              \* what went down deliver_tx
  pc,                                     \* where the ticker is
  conn,                                   \* the ticker's place in connections
  seen_term,                              \* a reply's term, kept after the unlock
  serving,                                \* the listener task is alive
  wire, request, reply,                   \* the ticker's one RPC
  orphans,                                \* connections whose caller has gone
  disk,                                   \* the file at persist_path
  rare                                    \* rare events so far

persistent == <<node_term, voted_for, log>>
indexes    == <<next_index, match_index>>
flags      == <<recieved_leader_heartbeat, is_leader>>
call       == <<wire, request, reply>>
ticker     == <<pc, conn, seen_term>>

vars == <<node_term, voted_for, log, node_type, votes_recieved, commited_index,
          next_index, match_index, recieved_leader_heartbeat, is_leader,
          delivered, pc, conn, seen_term, serving, wire, request, reply,
          orphans, disk, rare>>

-----------------------------------------------------------------------------
Peer(n) == connections[n][conn[n]]

InLoop(n) == conn[n] <= Len(connections[n])

\* Mutant of LockFree: the lock is dropped while a heartbeat awaits its answer.
LockFreeInHeartbeat(n) == pc[n] \notin {"persist", "create", "campaign"}

\* The ticker holds the node's lock across its steps at these places only.
LockFree(n) == pc[n] \notin {"persist", "create", "heartbeat", "campaign"}

Up(n) == pc[n] # "down"

Goto(n, l) == pc' = [pc EXCEPT ![n] = l]

\* An event that timing makes rare happens, if the instance allows it.
Rarely(kind) == kind \in RareKinds /\ rare < MaxRare /\ rare' = rare + 1

\* An operation on the file may fail in this instance; saves are rare already.
DiskFails == "disk" \in RareKinds

NoRequest == [type |-> "None"]
NoReply == [node |-> NoNode, term |-> 0, ok |-> FALSE]
FreshDisk == [state |-> "saved", term |-> 0, votedFor |-> NoNode, log |-> <<>>]
\* "torn" is the created file before its content has been flushed.
TornDisk == [FreshDisk EXCEPT !.state = "torn"]
AbsentDisk == [FreshDisk EXCEPT !.state = "absent"]

\* The places of the tick loop, each before the call it is named for; the
\* calls before it may have found nothing to do.
AwaitsHeartbeat(n) == pc[n] \in {"top", "beat"}
AwaitsCommit(n) == pc[n] \in {"top", "beat", "commit"}

\* Mutant of CommitTargets: the first new entry alone is never committed.
CommitTargetsOffByOne(n) ==
  {k \in QuorumMatches(n, match_index[n]) :
     node_type[n] = "Leader" /\ k > commited_index[n] + 1}

\* The index that maybe_commit_log_entries moves commited_index to.
CommitTargets(n) ==
  {k \in QuorumMatches(n, match_index[n]) :
     node_type[n] = "Leader" /\ k > commited_index[n]}

AwaitsElection(n) ==
  pc[n] = "check" \/ (AwaitsCommit(n) /\ CommitTargets(n) = {})

-----------------------------------------------------------------------------
Init ==
  /\ node_term = [n \in Node |-> 0]
  /\ voted_for = [n \in Node |-> NoNode]
  /\ log = [n \in Node |-> <<>>]
  /\ node_type = [n \in Node |-> "Follower"]
  /\ votes_recieved = [n \in Node |-> <<>>]
  /\ commited_index = [n \in Node |-> 0]
  /\ next_index = [n \in Node |-> [m \in Node |-> 0]]
  /\ match_index = [n \in Node |-> [m \in Node |-> 0]]
  /\ recieved_leader_heartbeat = [n \in Node |-> FALSE]
  /\ is_leader = [n \in Node |-> FALSE]
  /\ delivered = [n \in Node |-> <<>>]
  /\ pc = [n \in Node |-> "top"]
  /\ conn = [n \in Node |-> 1]
  /\ seen_term = [n \in Node |-> 0]
  /\ serving = [n \in Node |-> TRUE]
  /\ wire = [n \in Node |-> "idle"]
  /\ request = [n \in Node |-> NoRequest]
  /\ reply = [n \in Node |-> NoReply]
  /\ orphans = {}
  /\ disk = [n \in Node |-> FreshDisk]
  /\ rare = 0

-----------------------------------------------------------------------------
(* The KV task: handle_cmd calls append_entry for a Set or a Delete. *)

AppendEntry(n, v) ==
  /\ Up(n) /\ LockFree(n)
  /\ node_type[n] = "Leader"
  /\ Len(log[n]) < MaxLog
  /\ log' = [log EXCEPT ![n] = Append(@, [value |-> v, term |-> node_term[n]])]
  /\ UNCHANGED <<node_term, voted_for, node_type, votes_recieved, commited_index,
                 indexes, flags, delivered, ticker, serving, call, orphans,
                 disk, rare>>

-----------------------------------------------------------------------------
(* The ticker: try_persist_state.  Three steps under the lock.  Whatever    *)
(* fails, the loop goes on, and the timer is set anew.                     *)

\* The timer has expired.  log[0..commit_index] is sliced before the file is
\* touched, and panics when the log is shorter.  That remove_file fails is ignored.
RemoveFile(n) ==
  /\ pc[n] = "top"
  /\ Rarely("persist")
  /\ IF commited_index[n] > Len(log[n])
     THEN Goto(n, "dead") /\ UNCHANGED disk
     ELSE /\ Goto(n, "persist")
          /\ \/ disk' = [disk EXCEPT ![n] = AbsentDisk]
             \/ DiskFails /\ UNCHANGED disk
  /\ UNCHANGED <<persistent, node_type, votes_recieved, commited_index, indexes,
                 flags, delivered, conn, seen_term, serving, call, orphans>>

\* Where File::create fails nothing is written; a file that remove_file has left
\* is cut to nothing.
CreateFile(n) ==
  /\ pc[n] = "persist"
  /\ \/ Goto(n, "create") /\ disk' = [disk EXCEPT ![n] = TornDisk]
     \/ DiskFails /\ Goto(n, "beat") /\ UNCHANGED disk
  /\ UNCHANGED <<persistent, node_type, votes_recieved, commited_index, indexes,
                 flags, delivered, conn, seen_term, serving, call, orphans, rare>>

\* Mutant of PersistedLog: the whole log is written.
WholeLog(n) == log[n]

\* Only the committed part of the log is written.
PersistedLog(n) == SubSeq(log[n], 1, commited_index[n])

\* Where write_all or flush fails the file stays as it is.
WriteFile(n) ==
  /\ pc[n] = "create"
  /\ Goto(n, "beat")
  /\ \/ disk' = [disk EXCEPT ![n] =
                   [state |-> "saved", term |-> node_term[n],
                    votedFor |-> voted_for[n],
                    log |-> PersistedLog(n)]]
     \/ DiskFails /\ UNCHANGED disk
  /\ UNCHANGED <<persistent, node_type, votes_recieved, commited_index, indexes,
                 flags, delivered, conn, seen_term, serving, call, orphans, rare>>

-----------------------------------------------------------------------------
(* Client::send, for the ticker of n and the peer it has come to. *)

\* connect succeeds and the request is written, or connect fails (None) and
\* the loop goes on with the next peer.
Dial(n, req) ==
  \/ /\ serving[Peer(n)]
     /\ wire' = [wire EXCEPT ![n] = "sent"]
     /\ request' = [request EXCEPT ![n] = req]
     /\ UNCHANGED <<reply, conn, rare>>
  \/ /\ IF serving[Peer(n)] THEN Rarely("refuse") ELSE UNCHANGED rare
     /\ conn' = [conn EXCEPT ![n] = @ + 1]
     /\ UNCHANGED call

Answered(n) == wire[n] \in {"replied", "failed", "closed", "reset"}

HangUp(n) ==
  /\ wire' = [wire EXCEPT ![n] = "idle"]
  /\ request' = [request EXCEPT ![n] = NoRequest]
  /\ reply' = [reply EXCEPT ![n] = NoReply]

\* What may be on a connection in the place of a request: a piece of one; nothing,
\* and no end either, before the listener comes to read it and from then on.
Torn == [type |-> "Torn"]
Silence == [type |-> "Silence"]
Held == [type |-> "Held"]

\* What a call of n may leave at the peer: nothing, or a connection with one of reqs.
LeftOf(n, reqs) ==
  IF wire[n] = "sent"
  THEN {{}} \union {{[from |-> NoNode, to |-> Peer(n), req |-> r]} : r \in reqs}
  ELSE {{}}

\* The connection breaks while the peer has not answered.  Either the read fails
\* (None), or write_all does, and its unwrap ends the ticker; or no one tells the
\* caller, who has no timeout and waits for ever.
BreakCall(n) ==
  /\ wire[n] = "sent"
  /\ Rarely("break")
  /\ \/ /\ wire' = [wire EXCEPT ![n] = "failed"]
        /\ \E left \in LeftOf(n, {request[n], Torn, Silence}) :
              orphans' = orphans \union left
     \/ /\ wire' = [wire EXCEPT ![n] = "reset"]
        /\ \E left \in LeftOf(n, {Torn}) : orphans' = orphans \union left
     \/ /\ wire' = [wire EXCEPT ![n] = "lost"]
        /\ \E left \in LeftOf(n, {request[n], Silence}) :
              orphans' = orphans \union left
  /\ UNCHANGED <<persistent, node_type, votes_recieved, commited_index, indexes,
                 flags, delivered, ticker, serving, request, reply, disk>>

-----------------------------------------------------------------------------
(* The ticker: maybe_send_heartbeat.  The lock is held from the first to   *)
(* the last of these steps.                                                *)

HeartbeatBegin(n) ==
  /\ AwaitsHeartbeat(n)
  /\ node_type[n] = "Leader"
  /\ Goto(n, "heartbeat")
  /\ conn' = [conn EXCEPT ![n] = 1]
  /\ UNCHANGED <<persistent, node_type, votes_recieved, commited_index, indexes,
                 flags, delivered, seen_term, serving, call, orphans, disk, rare>>

HeartbeatSend(n) ==
  /\ pc[n] = "heartbeat" /\ InLoop(n) /\ wire[n] = "idle"
  /\ LET next == next_index[n][Peer(n)]
     IN  IF HeartbeatPanics(log[n], next)
         THEN Goto(n, "dead") /\ UNCHANGED <<call, conn, rare>>
         ELSE /\ Dial(n, AppendRequestOf(n, node_term[n], log[n], next,
                                         commited_index[n]))
              /\ UNCHANGED pc
  /\ UNCHANGED <<persistent, node_type, votes_recieved, commited_index, indexes,
                 flags, delivered, seen_term, serving, orphans, disk>>

\* The reply's term is not looked at.  An empty reply does not deserialize and
\* the unwrap panics, as does a write to a connection that was reset.
HeartbeatReceive(n) ==
  /\ pc[n] = "heartbeat" /\ Answered(n)
  /\ HangUp(n)
  /\ IF wire[n] \in {"closed", "reset"}
     THEN Goto(n, "dead") /\ UNCHANGED conn
     ELSE UNCHANGED pc /\ conn' = [conn EXCEPT ![n] = @ + 1]
  /\ LET p == Peer(n)
     IN  \/ /\ wire[n] = "replied" /\ reply[n].ok
            /\ next_index' = [next_index EXCEPT ![n][p] = Len(log[n]) + 1]
            /\ match_index' = [match_index EXCEPT ![n][p] =
                                 IF log[n] = <<>> THEN @ ELSE Len(log[n])]
         \/ /\ wire[n] = "replied" /\ ~reply[n].ok
            /\ next_index' = [next_index EXCEPT ![n][p] =
                                IF @ > 1 THEN @ - 1 ELSE @]
            /\ UNCHANGED match_index
         \/ wire[n] # "replied" /\ UNCHANGED indexes
  /\ UNCHANGED <<persistent, node_type, votes_recieved, commited_index, flags,
                 delivered, seen_term, serving, orphans, disk, rare>>

\* After the last peer the leader counts itself.
HeartbeatEnd(n) ==
  /\ pc[n] = "heartbeat" /\ ~InLoop(n)
  /\ Goto(n, "commit")
  /\ conn' = [conn EXCEPT ![n] = 1]
  /\ next_index' = [next_index EXCEPT ![n][n] = Len(log[n]) + 1]
  /\ match_index' = [match_index EXCEPT ![n][n] = Len(log[n])]
  /\ UNCHANGED <<persistent, node_type, votes_recieved, commited_index, flags,
                 delivered, seen_term, serving, call, orphans, disk, rare>>

-----------------------------------------------------------------------------
(* The ticker: maybe_commit_log_entries. *)

CommitEntries(n) ==
  /\ AwaitsCommit(n)
  /\ \E k \in CommitTargets(n) :
       /\ delivered' = [delivered EXCEPT ![n] =
                          @ \o DeliveredSlice(log[n], commited_index[n], k)]
       /\ IF DeliveryPanics(log[n], commited_index[n], k)
          THEN Goto(n, "dead") /\ UNCHANGED commited_index
          ELSE /\ Goto(n, "check")
               /\ commited_index' = [commited_index EXCEPT ![n] = k]
  /\ UNCHANGED <<persistent, node_type, votes_recieved, indexes, flags, conn,
                 seen_term, serving, call, orphans, disk, rare>>

-----------------------------------------------------------------------------
(* The ticker: maybe_transition_candidate and handle_candidate_election.   *)
(* The lock is dropped between the check, the transition, the campaign and *)
(* the transition that ends it: the listener may run in each gap.          *)

ElectionTimeout(n) ==
  /\ n \in Contenders
  /\ AwaitsElection(n)
  /\ node_type[n] # "Leader"
  /\ ~recieved_leader_heartbeat[n]
  /\ node_term[n] < MaxTerm
  /\ Goto(n, "expired")
  /\ UNCHANGED <<persistent, node_type, votes_recieved, commited_index, indexes,
                 flags, delivered, conn, seen_term, serving, call, orphans,
                 disk, rare>>

\* transition_wrapper(Candidate, 1), before a campaign and after one that took
\* longer than the election timeout.
BecomeCandidate(n) ==
  /\ pc[n] \in {"expired", "late"}
  /\ node_term[n] < MaxTerm
  /\ Goto(n, IF pc[n] = "expired" THEN "candidate" ELSE "clear")
  /\ node_type' = [node_type EXCEPT ![n] = "Candidate"]
  /\ node_term' = [node_term EXCEPT ![n] = @ + 1]
  /\ is_leader' = [is_leader EXCEPT ![n] = FALSE]
  /\ UNCHANGED <<voted_for, log, votes_recieved, commited_index, indexes,
                 recieved_leader_heartbeat, delivered, conn, seen_term, serving,
                 call, orphans, disk, rare>>

\* Mutant of FirstVotes: votes_recieved is not emptied before a campaign.
UnclearedVotes(n) == Append(votes_recieved[n], n)

FirstVotes(n) == <<n>>

\* The role and the term are whatever they have become in the meantime.
CampaignBegin(n) ==
  /\ pc[n] = "candidate"
  /\ Goto(n, "campaign")
  /\ conn' = [conn EXCEPT ![n] = 1]
  /\ votes_recieved' = [votes_recieved EXCEPT ![n] = FirstVotes(n)]
  /\ voted_for' = [voted_for EXCEPT ![n] = n]
  /\ UNCHANGED <<node_term, log, node_type, commited_index, indexes, flags,
                 delivered, seen_term, serving, call, orphans, disk, rare>>

CampaignSend(n) ==
  /\ pc[n] = "campaign" /\ InLoop(n) /\ wire[n] = "idle"
  /\ Dial(n, VoteRequestOf(n, node_term[n], log[n]))
  /\ UNCHANGED <<persistent, node_type, votes_recieved, commited_index, indexes,
                 flags, delivered, pc, seen_term, serving, orphans, disk>>

\* "Election timed out for candidate!", seen only between two peers.
CampaignSlow(n) ==
  /\ pc[n] = "campaign" /\ InLoop(n) /\ wire[n] = "idle"
  /\ Rarely("slow")
  /\ Goto(n, "late")
  /\ conn' = [conn EXCEPT ![n] = 1]
  /\ UNCHANGED <<persistent, node_type, votes_recieved, commited_index, indexes,
                 flags, delivered, seen_term, serving, call, orphans, disk>>

\* Mutant of FreshNextIndex: the index of the last entry, not the one after it.
LastNextIndex(n) == [m \in Node |-> IF m = n THEN 0 ELSE Len(log[n])]

\* Its own address has no next_index until its first heartbeat.
FreshNextIndex(n) == [m \in Node |-> IF m = n THEN 0 ELSE Len(log[n]) + 1]

\* A vote that makes the quorum resets the leader's indexes and ends the loop.
VoteReceived(n) ==
  /\ pc[n] = "campaign" /\ wire[n] = "replied" /\ reply[n].ok
  /\ HangUp(n)
  /\ votes_recieved' = [votes_recieved EXCEPT ![n] = Append(@, reply[n].node)]
  /\ IF Len(votes_recieved'[n]) >= QuorumLength(n)
     THEN /\ Goto(n, "won")
          /\ conn' = [conn EXCEPT ![n] = 1]
          /\ next_index' = [next_index EXCEPT ![n] = FreshNextIndex(n)]
          /\ match_index' = [match_index EXCEPT ![n] = [m \in Node |-> 0]]
     ELSE /\ conn' = [conn EXCEPT ![n] = @ + 1]
          /\ UNCHANGED <<pc, indexes>>
  /\ UNCHANGED <<persistent, node_type, commited_index, flags, delivered,
                 seen_term, serving, orphans, disk, rare>>

\* A refusal at the candidate's own term or a later one ends the campaign and
\* takes back the vote; a refusal at an earlier term is only a missing vote.
VoteDenied(n) ==
  /\ pc[n] = "campaign" /\ wire[n] = "replied" /\ ~reply[n].ok
  /\ HangUp(n)
  /\ IF reply[n].term >= node_term[n]
     THEN /\ Goto(n, "lost")
          /\ conn' = [conn EXCEPT ![n] = 1]
          /\ seen_term' = [seen_term EXCEPT ![n] = reply[n].term]
          /\ voted_for' = [voted_for EXCEPT ![n] = NoNode]
     ELSE /\ conn' = [conn EXCEPT ![n] = @ + 1]
          /\ UNCHANGED <<pc, seen_term, voted_for>>
  /\ UNCHANGED <<node_term, log, node_type, votes_recieved, commited_index,
                 indexes, flags, delivered, serving, orphans, disk, rare>>

\* No reply: None, or an empty one that does not deserialize.
VoteMissing(n) ==
  /\ pc[n] = "campaign" /\ wire[n] \in {"failed", "closed", "reset"}
  /\ HangUp(n)
  /\ IF wire[n] = "reset"
     THEN Goto(n, "dead") /\ UNCHANGED conn
     ELSE UNCHANGED pc /\ conn' = [conn EXCEPT ![n] = @ + 1]
  /\ UNCHANGED <<persistent, node_type, votes_recieved, commited_index, indexes,
                 flags, delivered, seen_term, serving, orphans, disk, rare>>

CampaignEnd(n) ==
  /\ pc[n] = "campaign" /\ ~InLoop(n)
  /\ Goto(n, "clear")
  /\ conn' = [conn EXCEPT ![n] = 1]
  /\ UNCHANGED <<persistent, node_type, votes_recieved, commited_index, indexes,
                 flags, delivered, seen_term, serving, call, orphans, disk, rare>>

\* transition_wrapper(Leader, 0): leader of the term the node is in by now.
BecomeLeader(n) ==
  /\ pc[n] = "won"
  /\ Goto(n, "clear")
  /\ node_type' = [node_type EXCEPT ![n] = "Leader"]
  /\ is_leader' = [is_leader EXCEPT ![n] = TRUE]
  /\ UNCHANGED <<persistent, votes_recieved, commited_index, indexes,
                 recieved_leader_heartbeat, delivered, conn, seen_term, serving,
                 call, orphans, disk, rare>>

\* transition_to_term(Follower, deser_resp.term), whatever the term is by now.
StepDown(n) ==
  /\ pc[n] = "lost"
  /\ Goto(n, "clear")
  /\ node_type' = [node_type EXCEPT ![n] = "Follower"]
  /\ node_term' = [node_term EXCEPT ![n] = seen_term[n]]
  /\ is_leader' = [is_leader EXCEPT ![n] = FALSE]
  /\ seen_term' = [seen_term EXCEPT ![n] = 0]
  /\ UNCHANGED <<voted_for, log, votes_recieved, commited_index, indexes,
                 recieved_leader_heartbeat, delivered, conn, serving, call,
                 orphans, disk, rare>>

\* The end of a tick: the heartbeat flag is cleared.
TickEnd(n) ==
  /\ pc[n] = "clear" \/ AwaitsElection(n)
  /\ Goto(n, "top")
  /\ recieved_leader_heartbeat' = [recieved_leader_heartbeat EXCEPT ![n] = FALSE]
  /\ UNCHANGED <<persistent, node_type, votes_recieved, commited_index, indexes,
                 is_leader, delivered, conn, seen_term, serving, call, orphans,
                 disk, rare>>

-----------------------------------------------------------------------------
(* The listener: one connection at a time, each handler under the lock. *)

Callers(m) == {n \in Node : wire[n] = "sent" /\ Peer(n) = m}

Inbox(m) ==
  {[from |-> n, to |-> m, req |-> request[n]] : n \in Callers(m)}
    \union {o \in orphans : o.to = m}

\* The listener is alive, and not inside a connection on which nothing comes.
HeldAt(m) == [from |-> NoNode, to |-> m, req |-> Held]
Listening(m) == serving[m] /\ HeldAt(m) \notin orphans

CanServe(m, msg, type) ==
  /\ Listening(m) /\ LockFree(m)
  /\ msg \in Inbox(m) /\ msg.req.type = type

\* Mutant of Panic: those still waiting to be accepted hear nothing.
PanicUnheard(m, msg) ==
  /\ serving' = [serving EXCEPT ![m] = FALSE]
  /\ orphans' = {o \in orphans : o.to # m}
  /\ wire' = [n \in Node |-> IF n = msg.from THEN "closed" ELSE wire[n]]
  /\ UNCHANGED <<request, reply>>

\* The listener task panics on msg: its caller reads an end of file, those
\* still waiting to be accepted are reset, and no later one can connect.
Panic(m, msg) ==
  /\ serving' = [serving EXCEPT ![m] = FALSE]
  /\ orphans' = {o \in orphans : o.to # m}
  /\ \E f \in [Callers(m) -> {"closed", "failed", "reset"}] :
       /\ \A n \in Callers(m) : (f[n] = "closed") <=> (n = msg.from)
       /\ wire' = [n \in Node |-> IF n \in Callers(m) THEN f[n] ELSE wire[n]]
  /\ UNCHANGED <<request, reply>>

\* The response is written.  To a caller that has gone the write may fail, and
\* its unwrap ends the listener.
Respond(m, msg, ok) ==
  \/ /\ msg.from # NoNode
     /\ wire' = [wire EXCEPT ![msg.from] = "replied"]
     /\ reply' = [reply EXCEPT ![msg.from] =
                    [node |-> m, term |-> node_term'[m], ok |-> ok]]
     /\ UNCHANGED <<request, orphans, serving>>
  \/ /\ msg.from = NoNode
     /\ orphans' = orphans \ {msg}
     /\ UNCHANGED <<call, serving>>
  \/ msg.from = NoNode /\ Panic(m, msg)

GrantVote(m, msg) ==
  /\ CanServe(m, msg, "RequestVote")
  /\ GrantsVote(node_term[m], voted_for[m], log[m], msg.req)
  /\ voted_for' = [voted_for EXCEPT ![m] = msg.req.candidate]
  /\ node_type' = [node_type EXCEPT ![m] = "Follower"]
  /\ node_term' = [node_term EXCEPT ![m] = msg.req.term]
  /\ recieved_leader_heartbeat' = [recieved_leader_heartbeat EXCEPT ![m] = TRUE]
  /\ Respond(m, msg, TRUE)
  /\ UNCHANGED <<log, votes_recieved, commited_index, indexes, is_leader,
                 delivered, ticker, disk, rare>>

\* Mutant of DenyVote: a refusal is not written to the caller.
DenyVoteSilently(m, msg) ==
  /\ CanServe(m, msg, "RequestVote")
  /\ ~GrantsVote(node_term[m], voted_for[m], log[m], msg.req)
  /\ UNCHANGED vars

\* A refusal changes nothing, the voter's term included.
DenyVote(m, msg) ==
  /\ CanServe(m, msg, "RequestVote")
  /\ ~GrantsVote(node_term[m], voted_for[m], log[m], msg.req)
  /\ UNCHANGED persistent
  /\ Respond(m, msg, FALSE)
  /\ UNCHANGED <<node_type, votes_recieved, commited_index, indexes, flags,
                 delivered, ticker, disk, rare>>

\* The log is merged, then everything up to leader_commit is delivered from
\* it; if the log ends before leader_commit the handler panics on the way.
AcceptAppend(m, msg) ==
  LET req == msg.req
      merged == MergedLog(log[m], req)
      from == commited_index[m]
  IN  /\ CanServe(m, msg, "AppendEntries")
      /\ AppendAccepted(node_type[m], node_term[m], log[m], req)
      /\ node_term' = [node_term EXCEPT ![m] = req.term]
      /\ voted_for' = [voted_for EXCEPT ![m] =
                         IF req.term > node_term[m] THEN req.leader ELSE @]
      /\ node_type' = [node_type EXCEPT ![m] =
                         RoleAfterAppend(@, node_term[m], req)]
      /\ recieved_leader_heartbeat' =
           [recieved_leader_heartbeat EXCEPT ![m] = TRUE]
      /\ log' = [log EXCEPT ![m] = merged]
      /\ delivered' = [delivered EXCEPT ![m] =
                         @ \o DeliveredSlice(merged, from, req.leaderCommit)]
      /\ \/ /\ ~DeliveryPanics(merged, from, req.leaderCommit)
            /\ commited_index' = [commited_index EXCEPT ![m] =
                 IF req.leaderCommit > @ THEN req.leaderCommit ELSE @]
            /\ Respond(m, msg, TRUE)
         \/ /\ DeliveryPanics(merged, from, req.leaderCommit)
            /\ UNCHANGED commited_index
            /\ Panic(m, msg)
      /\ UNCHANGED <<votes_recieved, indexes, is_leader, ticker, disk, rare>>

RejectAppend(m, msg) ==
  /\ CanServe(m, msg, "AppendEntries")
  /\ ~AppendAccepted(node_type[m], node_term[m], log[m], msg.req)
  /\ UNCHANGED persistent
  /\ IF AppendUnderflows(node_type[m], node_term[m], log[m], msg.req)
     THEN Panic(m, msg)
     ELSE Respond(m, msg, FALSE)
  /\ UNCHANGED <<node_type, votes_recieved, commited_index, indexes, flags,
                 delivered, ticker, disk, rare>>

\* The caller went before its whole request was written: what was read does
\* not deserialize, and the unwrap ends the listener.
TornRequest(m, msg) ==
  /\ Listening(m) /\ msg \in Inbox(m) /\ msg.req = Torn
  /\ Panic(m, msg)
  /\ UNCHANGED <<persistent, node_type, votes_recieved, commited_index, indexes,
                 flags, delivered, ticker, disk, rare>>

\* The loop of read_buf waits, without a timeout, for an end of file that never
\* comes, and accepts no other connection meanwhile.
HoldConnection(m, msg) ==
  /\ Listening(m) /\ msg \in Inbox(m) /\ msg.req = Silence
  /\ orphans' = (orphans \ {msg}) \union {HeldAt(m)}
  /\ UNCHANGED <<persistent, node_type, votes_recieved, commited_index, indexes,
                 flags, delivered, ticker, serving, call, disk, rare>>

-----------------------------------------------------------------------------
(* The process. *)

\* Everything but the file is lost.  Who waits for n gets None or an empty
\* reply, or panics writing, or, if the machine went with the process, gets nothing
\* at all; what n itself had sent may still be handled.
Crash(n) ==
  /\ Up(n) /\ n \in Fallible
  /\ Rarely("crash")
  /\ node_term' = [node_term EXCEPT ![n] = 0]
  /\ voted_for' = [voted_for EXCEPT ![n] = NoNode]
  /\ log' = [log EXCEPT ![n] = <<>>]
  /\ node_type' = [node_type EXCEPT ![n] = "Follower"]
  /\ votes_recieved' = [votes_recieved EXCEPT ![n] = <<>>]
  /\ commited_index' = [commited_index EXCEPT ![n] = 0]
  /\ next_index' = [next_index EXCEPT ![n] = [m \in Node |-> 0]]
  /\ match_index' = [match_index EXCEPT ![n] = [m \in Node |-> 0]]
  /\ recieved_leader_heartbeat' = [recieved_leader_heartbeat EXCEPT ![n] = FALSE]
  /\ is_leader' = [is_leader EXCEPT ![n] = FALSE]
  /\ delivered' = [delivered EXCEPT ![n] = <<>>]
  /\ Goto(n, "down")
  /\ conn' = [conn EXCEPT ![n] = 1]
  /\ seen_term' = [seen_term EXCEPT ![n] = 0]
  /\ serving' = [serving EXCEPT ![n] = FALSE]
  /\ \E f \in [Callers(n) -> {"closed", "failed", "reset", "lost"}] :
       wire' = [m \in Node |-> IF m = n THEN "idle"
                               ELSE IF m \in Callers(n) THEN f[m] ELSE wire[m]]
  /\ request' = [request EXCEPT ![n] = NoRequest]
  /\ reply' = [reply EXCEPT ![n] = NoReply]
  /\ \E left \in LeftOf(n, {request[n], Torn, Silence}) :
       orphans' = {o \in orphans : o.to # n} \union left
  /\ UNCHANGED disk

\* A torn file does not deserialize: the node cannot be started on it.
Restart(n) ==
  /\ pc[n] = "down" /\ disk[n].state # "torn"
  /\ Goto(n, "top")
  /\ serving' = [serving EXCEPT ![n] = TRUE]
  /\ node_term' = [node_term EXCEPT ![n] = disk[n].term]
  /\ voted_for' = [voted_for EXCEPT ![n] = disk[n].votedFor]
  /\ log' = [log EXCEPT ![n] = disk[n].log]
  /\ disk' = [disk EXCEPT ![n].state = "saved"]
  /\ UNCHANGED <<node_type, votes_recieved, commited_index, indexes, flags,
                 delivered, conn, seen_term, call, orphans, rare>>

-----------------------------------------------------------------------------
Ticker(n) ==
  \/ RemoveFile(n) \/ CreateFile(n) \/ WriteFile(n)
  \/ HeartbeatBegin(n) \/ HeartbeatSend(n) \/ HeartbeatReceive(n) \/ HeartbeatEnd(n)
  \/ CommitEntries(n)
  \/ ElectionTimeout(n) \/ BecomeCandidate(n)
  \/ CampaignBegin(n) \/ CampaignSend(n) \/ CampaignSlow(n)
  \/ VoteReceived(n) \/ VoteDenied(n) \/ VoteMissing(n) \/ CampaignEnd(n)
  \/ BecomeLeader(n) \/ StepDown(n)
  \/ TickEnd(n)

Listener(n) ==
  \E msg \in Inbox(n) :
    \/ GrantVote(n, msg) \/ DenyVote(n, msg)
    \/ AcceptAppend(n, msg) \/ RejectAppend(n, msg)
    \/ TornRequest(n, msg) \/ HoldConnection(n, msg)

Next ==
  \E n \in Node :
    \/ Ticker(n)
    \/ Listener(n)
    \/ \E v \in Value : AppendEntry(n, v)
    \/ BreakCall(n) \/ Crash(n) \/ Restart(n)

Spec == Init /\ [][Next]_vars

\* Tokio runs every task that can run, and sleeps and timers end.
Fairness == \A n \in Node : WF_vars(Ticker(n)) /\ WF_vars(Listener(n))

FairSpec == Spec /\ Fairness
=============================================================================
