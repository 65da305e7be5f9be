------------------------------ MODULE KvCluster ------------------------------
(***************************************************************************)
(* The whole program: on every node a Raft and a KvStore.  They share      *)
(* is_leader, which raft writes and sessions read; delivered, which raft   *)
(* extends and the KV task receives; the call of append_entry, which waits *)
(* for the lock of raft's State; and the process that ends with both.      *)
(***************************************************************************)
EXTENDS RaftProperties

CONSTANTS
  Client, Key, Text, Command,   \* as in KvStore
  MaxQueued                     \* bound: as in KvStore

VARIABLES received, storage, queued, handled, task, at, phase, asked, value,
          gone, acked

Kv == INSTANCE KvStoreProperties WITH MaxDelivered <- MaxLog

\* As for KvStore; and what sessions send down client_tx is what entries carry.
ASSUME ClusterAssumption ==
  /\ Kv!Undefined \notin Text
  /\ Command \subseteq Kv!Operation \union Kv!ShortOp
  /\ Command \intersect Kv!WriteOp \subseteq Value /\ Value \subseteq Kv!WriteOp
  /\ MaxQueued \in Nat

storevars == <<received, storage, queued, handled, task, at, phase, asked,
               value, gone, acked>>
clustervars == <<vars, storevars>>

-----------------------------------------------------------------------------
ClusterInit == Init /\ Kv!Init

\* A step of raft's own tasks.
RaftStep(n) ==
  /\ Ticker(n) \/ Listener(n) \/ BreakCall(n) \/ Restart(n)
  /\ UNCHANGED storevars

\* A step of the store's own tasks; the listener for clients is up with the rest.
SessionStep(c) == Kv!Session(c) /\ UNCHANGED vars
UserStep(c) ==
  /\ Kv!User(c)
  /\ at'[c] \in Node => Up(at'[c])
  /\ UNCHANGED vars
KvStep(n) == Kv!KvTask(n) /\ UNCHANGED vars

\* append_entry has the lock: a leader appends, any other node drops the command
\* that the client may already have an "OK." for.
AppendDone(n) ==
  /\ Kv!AppendReturns(n)
  /\ \/ AppendEntry(n, task[n].op)
     \/ Up(n) /\ LockFree(n) /\ node_type[n] # "Leader" /\ UNCHANGED vars

\* Mutant of CrashNode: the map outlives the process.
CrashKeepsMap(n) ==
  /\ Crash(n)
  /\ UNCHANGED <<storage, queued, handled, task, at, phase, asked, value, gone,
                 acked>>
  /\ received' = [received EXCEPT ![n] = 0]

CrashNode(n) == Crash(n) /\ Kv!CrashStore(n)

ClusterNext ==
  \/ \E n \in Node : RaftStep(n) \/ KvStep(n) \/ AppendDone(n) \/ CrashNode(n)
  \/ \E c \in Client : SessionStep(c) \/ UserStep(c)

ClusterSpec == ClusterInit /\ [][ClusterNext]_clustervars

\* The fairness of both parts: select! comes to commands and to deliveries, and
\* append_entry gets raft's lock in its turn.
ClusterFairness ==
  /\ \A n \in Node :
       /\ WF_clustervars(Ticker(n) /\ UNCHANGED storevars)
       /\ WF_clustervars(Listener(n) /\ UNCHANGED storevars)
       /\ SF_clustervars((Kv!TakeCommand(n) /\ UNCHANGED vars) \/ AppendDone(n))
       /\ SF_clustervars((Kv!TakeDelivery(n) \/ Kv!Apply(n)) /\ UNCHANGED vars)
  /\ \A c \in Client : WF_clustervars(Kv!AnswerValue(c) /\ UNCHANGED vars)

FairClusterSpec == ClusterSpec /\ ClusterFairness

-----------------------------------------------------------------------------
\* Raft is to the store what the store takes it for: delivered only grows, and
\* begins anew only when the map, the channels and the sessions begin anew too.
StoreAssumptionMet == Kv!OpenSpec

Store == INSTANCE ReplicatedStore
           WITH agreed <- LongestDelivered,
                version <- [n \in Node |-> Kv!AppliedCount(n)],
                read <- value

\* Whatever a client reads, at whichever node, is what one common history of
\* writes leaves in the map up to some point of it: raft's log, its commits, the
\* channel, select! and the locks of the store make one replicated store, over
\* restarts of followers.  For one contender and no lost answers.
ImplementsReplicatedStore == Store!Spec

\* The writes among the first k commands of a channel, by their places.
WritesUpTo(s, k) == {i \in 1..k : s[i].op \in Value}

\* How many commands of the channel are through with append_entry: not the one
\* that waits in it.
Offered(n) == IF task[n].doing = "append" THEN handled[n] - 1 ELSE handled[n]

\* The log of n is, in order, the writes that are through.
LogFollowsChannel(n) ==
  LET through == WritesUpTo(queued[n], Offered(n))
  IN  /\ Len(log[n]) = Cardinality(through)
      /\ \A i \in through :
           log[n][Cardinality(WritesUpTo(queued[n], i))].value = queued[n][i].op

\* With one contender no acknowledged write is dropped: the log of the leader
\* is, in order, the writes that its KV task has taken from the channel, and
\* clients have an "OK." for those that stand there, but at most the last.
AcknowledgedIsLogged == \A n \in Node : Leads(n) => LogFollowsChannel(n)

\* More contenders may leave entries in the log of n before it leads; behind these
\* are, in order, the writes that are through.
LogEndsWithChannel(n) ==
  LET through == WritesUpTo(queued[n], Offered(n))
  IN  \E before \in 0..Len(log[n]) :
        /\ Len(log[n]) = before + Cardinality(through)
        /\ \A i \in through :
             log[n][before + Cardinality(WritesUpTo(queued[n], i))].value
               = queued[n][i].op

\* A node that runs on is a leader no more: the flag may stay up behind it.
Deposed(n) == node_type[n] = "Leader" /\ node_type'[n] # "Leader" /\ pc'[n] # "down"

\* What a node that is never deposed rests on: its flag is up only when it leads,
\* so that nobody has put anything into its channel before, and what it waits to
\* append is the command it has taken last.
ChannelServed(n) ==
  /\ node_type[n] # "Leader" =>
       /\ ~is_leader[n] /\ queued[n] = <<>>
       /\ \A c \in Client : at[c] = n => phase[c] \notin {"allowed", "ok"}
  /\ handled[n] <= Len(queued[n])
  /\ task[n].doing = "append" =>
       handled[n] > 0 /\ task[n].op = queued[n][handled[n]].op
  /\ node_type[n] = "Leader" => LogEndsWithChannel(n)

\* With one contender a write that a client has an "OK." for reaches the map of
\* every node.
AcknowledgedIsApplied ==
  \A n \in Node : \A k \in 1..MaxQueued :
    Cardinality(WritesUpTo(acked[n], Len(acked[n]))) >= k
      ~> \A m \in Node : Kv!AppliedCount(m) >= k
=============================================================================
