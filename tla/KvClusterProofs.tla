--------------------------- MODULE KvClusterProofs ---------------------------
(***************************************************************************)
(* Raft and the store in one program, for every cluster and every number   *)
(* of clients: each half is to the other what the other's proofs take it   *)
(* for.  A step of the cluster is a step of Raft or nothing to it, and a   *)
(* step of the store (OpenNext: raft as any raft may be) or nothing to it. *)
(* So what is proved of a half alone, by RaftProofs, RaftSafetyProofs,     *)
(* RaftReplicationProofs and KvStoreProofs, is true of the program.        *)
(*                                                                         *)
(* Neither half gives that alone: that raft extends delivered by entries   *)
(* with a Set or a Delete in them rests on raft's invariant, and that what *)
(* the KV task appends is such an operation on the store's.                *)
(*                                                                         *)
(* Then the refinements compose: where raft implements the replicated log, *)
(* the program implements the replicated store.  AgreedInv is what is used *)
(* of the log: every delivery is a first part of what is agreed upon.      *)
(*                                                                         *)
(* Last, what no half knows alone: the log of a leader ends with what came *)
(* through its channel (ChannelServed), because the flag that raft raises  *)
(* with the office keeps the channel empty until then; but only as long as *)
(* the node is not deposed, which may leave the flag up behind it.         *)
(***************************************************************************)
EXTENDS KvCluster, RaftReplicationProofs

KvP == INSTANCE KvStoreProofs WITH MaxDelivered <- MaxLog

-----------------------------------------------------------------------------
(* The store of KvCluster is the one that KvStoreProofs speaks of *)

USE DEF Kv!SetOp, KvP!SetOp, Kv!DeleteOp, KvP!DeleteOp, Kv!GetOp, KvP!GetOp,
        Kv!InvalidOp, KvP!InvalidOp, Kv!ShortOp, KvP!ShortOp, Kv!WriteOp,
        KvP!WriteOp, Kv!Operation, KvP!Operation, Kv!Undefined, KvP!Undefined,
        Kv!NoCommand, KvP!NoCommand, Kv!EmptyMap, KvP!EmptyMap, Kv!Idle, KvP!Idle,
        Store!Undefined, Kv!vars, KvP!vars, flags

LEMMA StoreAssumptionHolds == KvP!StoreAssumption
BY ClusterAssumption, NodeAssumption, BoundsAssumption DEF Entry

LEMMA SameInit == Kv!Init <=> KvP!Init
BY Zenon DEF Kv!Init, KvP!Init

LEMMA SameAsk ==
  ASSUME NEW c \in Client, NEW cmd \in Command
  PROVE  Kv!Ask(c, cmd) <=> KvP!Ask(c, cmd)
<1>1. Kv!Writing(at[c]) = KvP!Writing(at[c])
  BY Zenon DEF Kv!Writing, KvP!Writing
<1>2. Kv!Cardinality(Kv!Writing(at[c])) = KvP!Cardinality(KvP!Writing(at[c]))
  BY <1>1, Zenon DEF Kv!Cardinality, KvP!Cardinality
<1> QED
  BY <1>2, Zenon DEF Kv!Ask, KvP!Ask, Kv!EndSession, KvP!EndSession, Kv!Proceed,
     KvP!Proceed, Kv!Forget, KvP!Forget, Kv!raftvars, KvP!raftvars, Kv!taskvars,
     KvP!taskvars

LEMMA SameUser ==
  ASSUME NEW c \in Client
  PROVE  Kv!User(c) <=> KvP!User(c)
<1>1. \A n \in Node : Kv!Connect(c, n) <=> KvP!Connect(c, n)
  BY Zenon DEF Kv!Connect, KvP!Connect, Kv!Proceed, KvP!Proceed, Kv!raftvars,
     KvP!raftvars, Kv!taskvars, KvP!taskvars
<1>2. \A cmd \in Command : Kv!Ask(c, cmd) <=> KvP!Ask(c, cmd)
  BY SameAsk
<1>3. Kv!Leave(c) <=> KvP!Leave(c)
  BY Zenon DEF Kv!Leave, KvP!Leave, Kv!raftvars, KvP!raftvars, Kv!taskvars,
     KvP!taskvars
<1> QED  BY <1>1, <1>2, <1>3, Zenon DEF Kv!User, KvP!User

LEMMA SameNext == Kv!OpenNext <=> KvP!OpenNext
BY SameUser, Zenon DEF Kv!OpenNext, KvP!OpenNext, Kv!StoreNext, KvP!StoreNext,
   Kv!Session, KvP!Session, Kv!KvTask, KvP!KvTask,
   Kv!EndSession, KvP!EndSession, Kv!Proceed, KvP!Proceed, Kv!Forget, KvP!Forget,
   Kv!ReadNext, KvP!ReadNext, Kv!ReadStorage, KvP!ReadStorage,
   Kv!CheckLeader, KvP!CheckLeader, Kv!Enqueue, KvP!Enqueue,
   Kv!AnswerValue, KvP!AnswerValue, Kv!AnswerOk, KvP!AnswerOk,
   Kv!AnswerError, KvP!AnswerError, Kv!Close, KvP!Close,
   Kv!StorageFree, KvP!StorageFree, Kv!SenderFree, KvP!SenderFree,
   Kv!Applied, KvP!Applied, Kv!Appending, KvP!Appending, Kv!Applying, KvP!Applying,
   Kv!TakeCommand, KvP!TakeCommand, Kv!TakeDelivery, KvP!TakeDelivery,
   Kv!Apply, KvP!Apply, Kv!AppendReturns, KvP!AppendReturns,
   Kv!CrashStore, KvP!CrashStore, Kv!Crash, KvP!Crash,
   Kv!RaftFlags, KvP!RaftFlags, Kv!RaftExtends, KvP!RaftExtends,
   Kv!raftvars, KvP!raftvars, Kv!taskvars, KvP!taskvars, Kv!session, KvP!session,
   Kv!storevars, KvP!storevars

LEMMA StoreInvStays ==
  ASSUME KvP!StoreInv, [Kv!OpenNext]_(Kv!vars)
  PROVE  KvP!StoreInv'
BY StoreAssumptionHolds, SameNext, KvP!StoreInvKept

-----------------------------------------------------------------------------
(* What raft's steps are to the store *)

\* A delivery of any raft, one that raft makes by sending s.
LEMMA SlicesExtend ==
  ASSUME TypeInv, NEW n \in Node, NEW s \in Seq(Entry),
         delivered' = [delivered EXCEPT ![n] = @ \o s],
         UNCHANGED <<is_leader, storevars>>
  PROVE  Kv!RaftExtends(n)
<1> DEFINE d == delivered[n]
<1>1. d \in Seq(Entry) /\ delivered'[n] = d \o s
  BY DEF TypeInv, TypeOK
<1> HIDE DEF d
<1>2. /\ d \o s \in Seq(Entry)
      /\ Len(d) <= Len(d \o s)
      /\ SubSeq(d \o s, 1, Len(d)) = d
  BY <1>1
<1> QED
  BY <1>1, <1>2 DEF Kv!RaftExtends, Kv!storevars, storevars, d

LEMMA CommitIsDelivery ==
  ASSUME TypeInv, NEW n \in Node, CommitEntries(n), UNCHANGED storevars
  PROVE  Kv!RaftExtends(n)
<1>1. PICK k \in CommitTargets(n) :
        delivered' = [delivered EXCEPT ![n] =
                        @ \o DeliveredSlice(log[n], commited_index[n], k)]
  BY DEF CommitEntries
<1>2. k \in Nat
  BY DEF CommitTargets, QuorumMatches, TypeInv, TypeOK
<1>3. DeliveredSlice(log[n], commited_index[n], k) \in Seq(Entry)
  BY <1>2, DeliveredSliceType DEF TypeInv, TypeOK
<1>4. UNCHANGED is_leader
  BY DEF CommitEntries
<1> QED
  BY <1>1, <1>3, <1>4, SlicesExtend

LEMMA AcceptIsDelivery ==
  ASSUME TypeInv, NEW m \in Node, NEW msg \in Inbox(m), AcceptAppend(m, msg),
         UNCHANGED storevars
  PROVE  Kv!RaftExtends(m)
<1> DEFINE req == msg.req
           merged == MergedLog(log[m], req)
           slice == DeliveredSlice(merged, commited_index[m], req.leaderCommit)
<1>1. req \in AppendRequest
  BY InboxTyped DEF AcceptAppend, CanServe, Requests, VoteRequest
<1>2. req.leaderCommit \in Nat
  BY <1>1 DEF AppendRequest
<1>3. merged \in Seq(Entry)
  <2>1. req.prevLogIndex <= Len(log[m]) /\ log[m] \in Seq(Entry)
    BY DEF AcceptAppend, AppendAccepted, TypeInv, TypeOK
  <2> HIDE DEF req
  <2> QED  BY <1>1, <2>1, MergedLogType
<1>4. slice \in Seq(Entry)
  BY <1>2, <1>3, DeliveredSliceType DEF TypeInv, TypeOK
<1>5. delivered' = [delivered EXCEPT ![m] = @ \o slice] /\ UNCHANGED is_leader
  BY DEF AcceptAppend
<1> HIDE DEF slice
<1> QED
  BY <1>4, <1>5, SlicesExtend

\* All that the store sees of a step of raft's tasks: the flag of the node, more
\* deliveries, or nothing.
LEMMA RaftStepOfStore ==
  ASSUME TypeInv, NEW n \in Node, RaftStep(n)
  PROVE  [Kv!OpenNext]_(Kv!vars)
<1>1. UNCHANGED storevars
  BY DEF RaftStep
<1>2. CASE UNCHANGED <<is_leader, delivered>>
  BY <1>1, <1>2 DEF storevars
<1>3. CASE /\ \E b \in BOOLEAN : is_leader' = [is_leader EXCEPT ![n] = b]
           /\ UNCHANGED delivered
  BY <1>1, <1>3 DEF storevars, Kv!storevars, Kv!RaftFlags, Kv!StoreNext, Kv!OpenNext
<1>4. CASE CommitEntries(n)
  BY <1>1, <1>4, CommitIsDelivery DEF Kv!OpenNext
<1>5. CASE \E msg \in Inbox(n) : AcceptAppend(n, msg)
  BY <1>1, <1>5, AcceptIsDelivery DEF Kv!OpenNext
<1>6. CASE Ticker(n)
  <2>1. CASE BecomeCandidate(n) \/ BecomeLeader(n) \/ StepDown(n)
    BY <1>3, <2>1 DEF BecomeCandidate, BecomeLeader, StepDown
  <2>2. CASE RemoveFile(n) \/ CreateFile(n) \/ WriteFile(n)
    BY <1>2, <2>2 DEF RemoveFile, CreateFile, WriteFile
  <2>3. CASE HeartbeatBegin(n) \/ HeartbeatSend(n) \/ HeartbeatReceive(n)
             \/ HeartbeatEnd(n)
    BY <1>2, <2>3 DEF HeartbeatBegin, HeartbeatSend, HeartbeatReceive, HeartbeatEnd
  <2>4. CASE ElectionTimeout(n) \/ TickEnd(n)
    BY <1>2, <2>4 DEF ElectionTimeout, TickEnd
  <2>5. CASE CampaignBegin(n) \/ CampaignSend(n) \/ CampaignSlow(n) \/ CampaignEnd(n)
    BY <1>2, <2>5 DEF CampaignBegin, CampaignSend, CampaignSlow, CampaignEnd
  <2>6. CASE VoteReceived(n) \/ VoteDenied(n) \/ VoteMissing(n)
    BY <1>2, <2>6 DEF VoteReceived, VoteDenied, VoteMissing
  <2> QED
    BY <1>4, <1>6, <2>1, <2>2, <2>3, <2>4, <2>5, <2>6 DEF Ticker
<1>7. CASE Listener(n)
  <2>1. ASSUME NEW msg \in Inbox(n),
               \/ GrantVote(n, msg) \/ DenyVote(n, msg)
               \/ RejectAppend(n, msg) \/ TornRequest(n, msg) \/ HoldConnection(n, msg)
        PROVE  UNCHANGED <<is_leader, delivered>>
    BY <2>1 DEF GrantVote, DenyVote, RejectAppend, TornRequest, HoldConnection
  <2> QED
    BY <1>2, <1>5, <1>7, <2>1 DEF Listener
<1>8. CASE BreakCall(n) \/ Restart(n)
  BY <1>2, <1>8 DEF BreakCall, Restart
<1> QED
  BY <1>6, <1>7, <1>8 DEF RaftStep

-----------------------------------------------------------------------------
(* Both halves of a step of the cluster *)

\* What the KV task hands to append_entry is what an entry may carry.
LEMMA AppendedIsValue ==
  ASSUME KvP!TypeOK, NEW n \in Node, task[n].doing = "append"
  PROVE  task[n].op \in Value
<1>1. task[n] \in KvP!Tasks
  BY DEF KvP!TypeOK
<1>2. task[n] # KvP!Idle /\ task[n] \notin [doing : {"apply"}, op : KvP!WriteOp]
  OBVIOUS
<1>3. task[n].op \in Command \intersect KvP!WriteOp
  BY <1>1, <1>2 DEF KvP!Tasks
<1> QED
  BY <1>3, ClusterAssumption

LEMMA StepOfBoth ==
  ASSUME TypeInv, KvP!StoreInv, [ClusterNext]_clustervars
  PROVE  [Next]_vars /\ [Kv!OpenNext]_(Kv!vars)
<1>1. ASSUME NEW n \in Node, RaftStep(n)
      PROVE  Next /\ [Kv!OpenNext]_(Kv!vars)
  BY <1>1, RaftStepOfStore DEF RaftStep, Next
<1>2. ASSUME NEW n \in Node, KvStep(n)
      PROVE  UNCHANGED vars /\ Kv!OpenNext
  BY <1>2 DEF KvStep, Kv!StoreNext, Kv!OpenNext
<1>3. ASSUME NEW n \in Node, AppendDone(n)
      PROVE  [Next]_vars /\ Kv!OpenNext
  <2>1. task[n].op \in Value
    BY <1>3, AppendedIsValue DEF AppendDone, Kv!AppendReturns, KvP!StoreInv
  <2>2. AppendEntry(n, task[n].op) \/ UNCHANGED vars
    BY <1>3 DEF AppendDone
  <2>3. [Next]_vars
    BY <2>1, <2>2 DEF Next
  <2>4. UNCHANGED <<is_leader, delivered>>
    BY <2>2 DEF AppendEntry, vars
  <2>5. Kv!OpenNext
    BY <1>3, <2>4 DEF AppendDone, Kv!raftvars, Kv!StoreNext, Kv!OpenNext
  <2> QED  BY <2>3, <2>5
<1>4. ASSUME NEW n \in Node, CrashNode(n)
      PROVE  Next /\ Kv!OpenNext
  BY <1>4 DEF CrashNode, Crash, Next, Kv!Crash, Kv!StoreNext, Kv!OpenNext
<1>5. ASSUME NEW c \in Client, SessionStep(c) \/ UserStep(c)
      PROVE  UNCHANGED vars /\ Kv!OpenNext
  BY <1>5 DEF SessionStep, UserStep, Kv!StoreNext, Kv!OpenNext
<1>6. CASE UNCHANGED clustervars
  BY <1>6 DEF clustervars, storevars, vars
<1> QED
  BY <1>1, <1>2, <1>3, <1>4, <1>5, <1>6 DEF ClusterNext

LEMMA ClusterInvHolds == ClusterSpec => [](TypeInv /\ KvP!StoreInv)
<1>1. ClusterInit => TypeInv /\ KvP!StoreInv
  BY InitTyped, StoreAssumptionHolds, SameInit, KvP!StoreInvAtStart DEF ClusterInit
<1>2. TypeInv /\ KvP!StoreInv /\ [ClusterNext]_clustervars
        => (TypeInv /\ KvP!StoreInv)'
  BY StepOfBoth, NextTyped, StoreInvStays
<1> QED
  BY <1>1, <1>2, PTL DEF ClusterSpec

-----------------------------------------------------------------------------

\* Raft in the program is the Raft that its own proofs are about: the KV task
\* calls append_entry with what append_entry is for, and a node that crashes ends
\* both halves at once.
THEOREM RaftRunsInCluster == ClusterSpec => Spec
<1>1. ClusterInit => Init
  BY DEF ClusterInit
<1>2. TypeInv /\ KvP!StoreInv /\ [ClusterNext]_clustervars => [Next]_vars
  BY StepOfBoth
<1> QED
  BY <1>1, <1>2, ClusterInvHolds, PTL DEF ClusterSpec, Spec

\* Raft is to the store what the store takes it for: it writes nothing of the
\* store but the flag and deliver_tx, delivered only grows and only by entries
\* with a write in them, and it begins anew only when the map, the channels and
\* the sessions of the node begin anew too.
THEOREM StoreRunsInCluster == ClusterSpec => StoreAssumptionMet
<1>1. ClusterInit => Kv!Init
  BY DEF ClusterInit
<1>2. TypeInv /\ KvP!StoreInv /\ [ClusterNext]_clustervars => [Kv!OpenNext]_(Kv!vars)
  BY StepOfBoth
<1> QED
  BY <1>1, <1>2, ClusterInvHolds, PTL
  DEF ClusterSpec, StoreAssumptionMet, Kv!OpenSpec

-----------------------------------------------------------------------------
(* From one agreed sequence to one replicated store *)

\* What every node has been sent is a first part of what is agreed upon.
AgreedInv ==
  /\ LongestDelivered \in Seq(Entry)
  /\ \A n \in Node :
       /\ Len(delivered[n]) <= Len(LongestDelivered)
       /\ \A i \in 1..Len(delivered[n]) : delivered[n][i] = LongestDelivered[i]

LEMMA AgreedAtStart == Log!Init => AgreedInv
BY DEF Log!Init, AgreedInv

LEMMA AgreedKept ==
  ASSUME TypeInv, TypeInv', AgreedInv, [Log!Next]_(Log!logvars)
  PROVE  AgreedInv'
<1>1. PICK a \in Seq(Entry) : a = LongestDelivered
  BY DEF AgreedInv
<1>2. \A n \in Node : delivered[n] \in Seq(Entry) /\ delivered'[n] \in Seq(Entry)
  BY DEF TypeInv, TypeOK
<1>3. CASE UNCHANGED Log!logvars
  BY <1>3 DEF Log!logvars, AgreedInv
<1>4. ASSUME NEW n \in Node, Log!Learn(n)
      PROVE  AgreedInv'
  <2>1. PICK k \in Len(delivered[n])+1 .. Len(a) :
          delivered' = [delivered EXCEPT ![n] = SubSeq(a, 1, k)]
    BY <1>1, <1>4 DEF Log!Learn
  <2>2. LongestDelivered' = a
    BY <1>1, <1>4 DEF Log!Learn
  <2>3. k \in Nat /\ k <= Len(a)
    BY <1>2, <2>1
  <2>4. delivered'[n] = SubSeq(a, 1, k)
    BY <2>1 DEF TypeInv, TypeOK
  <2>5. Len(delivered'[n]) = k /\ \A i \in 1..k : delivered'[n][i] = a[i]
    BY <2>3, <2>4
  <2>6. \A m \in Node \ {n} : delivered'[m] = delivered[m]
    BY <2>1 DEF TypeInv, TypeOK
  <2> QED
    BY <1>1, <2>2, <2>3, <2>5, <2>6 DEF AgreedInv
<1>5. ASSUME NEW n \in Node, Log!Restart(n)
      PROVE  AgreedInv'
  <2>1. delivered'[n] = <<>> /\ \A m \in Node \ {n} : delivered'[m] = delivered[m]
    BY <1>5 DEF Log!Restart, TypeInv, TypeOK
  <2>2. LongestDelivered' = a
    BY <1>1, <1>5 DEF Log!Restart
  <2> QED
    BY <1>1, <2>1, <2>2 DEF AgreedInv
<1>6. ASSUME NEW n \in Node, Log!Decide(n)
      PROVE  AgreedInv'
  <2>1. PICK b \in Seq(Entry) : b = LongestDelivered'
    BY <1>6 DEF Log!Decide, Log!Extends
  <2>2. Len(a) < Len(b) /\ SubSeq(b, 1, Len(a)) = a
    BY <1>1, <1>6, <2>1 DEF Log!Decide, Log!Extends
  <2>3. \A i \in 1..Len(a) : b[i] = a[i]
    BY <2>2
  <2>4. delivered'[n] = b /\ \A m \in Node \ {n} : delivered'[m] = delivered[m]
    BY <1>6, <2>1 DEF Log!Decide, TypeInv, TypeOK
  <2>5. \A m \in Node : /\ Len(delivered[m]) \in Nat /\ Len(delivered[m]) <= Len(a)
                        /\ \A i \in 1..Len(delivered[m]) : delivered[m][i] = a[i]
    BY <1>1, <1>2 DEF AgreedInv
  <2>6. ASSUME NEW m \in Node
        PROVE  /\ Len(delivered'[m]) <= Len(b)
               /\ \A i \in 1..Len(delivered'[m]) : delivered'[m][i] = b[i]
    <3>1. CASE m = n
      BY <2>4, <3>1
    <3>2. CASE m # n
      BY <2>2, <2>3, <2>4, <2>5, <3>2
    <3> QED  BY <3>1, <3>2
  <2> QED
    BY <2>1, <2>6 DEF AgreedInv
<1> QED
  BY <1>3, <1>4, <1>5, <1>6 DEF Log!Next

\* To agree upon more takes a delivery of it.
LEMMA AgreedWithoutDelivery ==
  ASSUME TypeInv, [Log!Next]_(Log!logvars),
         \A n \in Node : delivered'[n] \in {delivered[n], <<>>}
  PROVE  LongestDelivered' = LongestDelivered
<1>1. ASSUME NEW n \in Node, Log!Decide(n)
      PROVE  FALSE
  <2>1. PICK s \in Seq(Entry) : s = LongestDelivered'
    BY <1>1 DEF Log!Decide, Log!Extends
  <2>2. delivered[n] \in Seq(Entry) /\ Len(delivered[n]) < Len(s)
    BY <1>1, <2>1 DEF Log!Decide, Log!Extends, TypeInv, TypeOK
  <2>3. delivered'[n] = s
    BY <1>1, <2>1 DEF Log!Decide, TypeInv, TypeOK
  <2> QED  BY <2>2, <2>3
<1> QED
  BY <1>1 DEF Log!Next, Log!Learn, Log!Restart, Log!logvars

LEMMA AgreedByRaft ==
  ASSUME [Log!Next]_(Log!logvars), UNCHANGED <<received, task, at, value>>
  PROVE  [Store!Agree]_(Store!storevars)
<1>1. UNCHANGED [n \in Node |-> Kv!AppliedCount(n)]
  BY DEF Kv!AppliedCount
<1>2. ASSUME NEW n \in Node, Log!Decide(n)
      PROVE  Store!Agree
  BY <1>1, <1>2 DEF Log!Decide, Log!Extends, Store!Agree
<1> QED
  BY <1>1, <1>2 DEF Log!Next, Log!Learn, Log!Restart, Log!logvars, Store!storevars

-----------------------------------------------------------------------------
(* The steps of the store, while nothing is delivered *)

\* The sessions that a command ends or that end by themselves.
LEMMA EndIsTake ==
  ASSUME NEW c \in Client, LongestDelivered' = LongestDelivered,
         UNCHANGED <<received, task>>, Kv!EndSession(c)
  PROVE  Store!Take(c)
BY DEF Kv!EndSession, Kv!Forget, Store!Take, Kv!AppliedCount

LEMMA ReadNextIsTake ==
  ASSUME KvP!TypeOK, NEW c \in Client, LongestDelivered' = LongestDelivered,
         UNCHANGED <<received, task>>, Kv!ReadNext(c)
  PROVE  Store!Take(c)
<1>1. at' = [at EXCEPT ![c] = at[c]]
  BY DEF Kv!ReadNext, KvP!TypeOK
<1> QED
  BY <1>1 DEF Kv!ReadNext, Kv!Forget, Store!Take, Kv!AppliedCount

\* The value of a key depends on the first entries alone, and means one thing in
\* both modules.
LEMMA ValueOfAgreed ==
  ASSUME NEW d, NEW a, NEW k \in Nat, NEW key, \A i \in 1..k : d[i] = a[i]
  PROVE  KvP!ValueAfter(d, k, key) = Store!ValueAfter(a, k, key)
<1>1. KvP!ValueAfter(d, k, key) = KvP!ValueAfter(a, k, key)
  BY StoreAssumptionHolds, KvP!ValueOfPrefix
<1>2. KvP!ValueAfter(a, k, key) = Store!ValueAfter(a, k, key)
  BY DEF KvP!ValueAfter, Store!ValueAfter, KvP!WritesTo, Store!WritesTo
<1> QED  BY <1>1, <1>2

\* The map of the node is what its first deliveries say, and these are the first
\* that were agreed upon.
LEMMA ReadIsGet ==
  ASSUME TypeInv, KvP!StoreInv, AgreedInv, NEW c \in Client,
         LongestDelivered' = LongestDelivered, Kv!ReadStorage(c)
  PROVE  Store!Get(c)
<1> DEFINE n == at[c]
           key == asked[c].key
<1>1. n \in Node /\ key \in Key
  <2>1. KvP!SessionInv(c)
    BY DEF KvP!StoreInv
  <2> QED  BY <2>1 DEF KvP!SessionInv, Kv!ReadStorage
<1>2. PICK k \in Nat : k = KvP!AppliedCount(n) /\ k <= Len(delivered[n])
  <2>1. received \in [Node -> Nat] /\ KvP!DeliveryInv(n)
    BY <1>1 DEF KvP!StoreInv, KvP!TypeOK
  <2>2. Len(delivered[n]) \in Nat
    BY <1>1, LenProperties DEF TypeInv, TypeOK
  <2>3. KvP!AppliedCount(n) \in Nat /\ KvP!AppliedCount(n) <= Len(delivered[n])
    BY <1>1, <2>1, <2>2 DEF KvP!DeliveryInv, KvP!AppliedCount
  <2> QED  BY <2>3
<1>3. storage[n][key] = KvP!ValueAfter(delivered[n], k, key)
  BY <1>1, <1>2 DEF KvP!StoreInv, KvP!StorageIsLastWrite
<1>4. \A i \in 1..k : delivered[n][i] = LongestDelivered[i]
  <2>1. Len(delivered[n]) \in Nat
    BY <1>1, LenProperties DEF TypeInv, TypeOK
  <2> QED  BY <1>1, <1>2, <2>1 DEF AgreedInv
<1>5. PICK d, a, w : d = delivered[n] /\ a = LongestDelivered /\ w = key
  OBVIOUS
<1>6. \A i \in 1..k : d[i] = a[i]
  BY <1>4, <1>5
<1>7. KvP!ValueAfter(d, k, w) = Store!ValueAfter(a, k, w)
  BY <1>6, ValueOfAgreed
<1>8. value' = [value EXCEPT ![c] = Store!ValueAfter(a, k, key)]
  BY <1>3, <1>5, <1>6, <1>7 DEF Kv!ReadStorage
<1>9. [m \in Node |-> Kv!AppliedCount(m)][n] = k
  BY <1>1, <1>2 DEF Kv!AppliedCount, KvP!AppliedCount
<1>10. UNCHANGED <<LongestDelivered, [m \in Node |-> Kv!AppliedCount(m)], at>>
  BY DEF Kv!ReadStorage, Kv!taskvars, Kv!AppliedCount
<1>11. n # NoNode
  BY <1>1, NodeAssumption
<1> QED
  BY <1>1, <1>5, <1>8, <1>9, <1>10, <1>11 DEF Store!Get

LEMMA SessionOfStore ==
  ASSUME TypeInv, KvP!StoreInv, AgreedInv, NEW c \in Client,
         LongestDelivered' = LongestDelivered, Kv!Session(c) \/ Kv!User(c)
  PROVE  [Store!Next]_(Store!storevars)
<1>1. UNCHANGED <<received, task>>
  BY DEF Kv!Session, Kv!User, Kv!ReadStorage, Kv!CheckLeader, Kv!Enqueue,
     Kv!AnswerValue, Kv!AnswerOk, Kv!AnswerError, Kv!Close, Kv!Connect, Kv!Ask,
     Kv!Leave, Kv!taskvars
<1>2. UNCHANGED [n \in Node |-> Kv!AppliedCount(n)]
  BY <1>1 DEF Kv!AppliedCount
<1>3. KvP!TypeOK /\ KvP!SessionInv(c)
  BY DEF KvP!StoreInv
<1>4. CASE Kv!ReadStorage(c)
  BY <1>4, ReadIsGet DEF Store!Next
<1>5. CASE Kv!EndSession(c) \/ Kv!ReadNext(c)
  BY <1>1, <1>3, <1>5, EndIsTake, ReadNextIsTake DEF Store!Next
<1>6. CASE UNCHANGED <<at, value>>
  BY <1>2, <1>6 DEF Store!storevars
<1>7. ASSUME NEW n \in Node, Kv!Connect(c, n)
      PROVE  Store!Connect(c)
  BY <1>2, <1>3, <1>7 DEF Kv!Connect, KvP!SessionInv, Store!Connect
<1>8. ASSUME NEW cmd \in Command, Kv!Ask(c, cmd)
      PROVE  Kv!EndSession(c) \/ UNCHANGED <<at, value>>
  BY <1>8 DEF Kv!Ask
<1>9. CASE Kv!Session(c)
  BY <1>4, <1>5, <1>6, <1>9
  DEF Kv!Session, Kv!CheckLeader, Kv!Enqueue, Kv!AnswerValue, Kv!AnswerOk,
      Kv!AnswerError, Kv!Close
<1>10. CASE Kv!User(c)
  BY <1>5, <1>6, <1>7, <1>8, <1>10 DEF Kv!User, Kv!Leave, Store!Next
<1> QED  BY <1>9, <1>10

\* Of the steps of the KV task the end of one alone is seen: that it has applied.
LEMMA TaskOfStore ==
  ASSUME TypeInv, KvP!StoreInv, AgreedInv, NEW n \in Node,
         LongestDelivered' = LongestDelivered,
         Kv!KvTask(n) \/ Kv!AppendReturns(n)
  PROVE  [Store!Next]_(Store!storevars)
<1>1. KvP!TypeOK /\ KvP!DeliveryInv(n)
  BY DEF KvP!StoreInv
<1>2. UNCHANGED <<at, value>>
  BY DEF Kv!KvTask, Kv!TakeCommand, Kv!TakeDelivery, Kv!Apply, Kv!AppendReturns,
     Kv!session
<1>3. \A m \in Node \ {n} : Kv!AppliedCount(m)' = Kv!AppliedCount(m)
  BY <1>1 DEF Kv!KvTask, Kv!TakeCommand, Kv!TakeDelivery, Kv!Apply,
     Kv!AppendReturns, Kv!AppliedCount, KvP!TypeOK
<1>4. received[n] \in Nat
  BY <1>1 DEF KvP!TypeOK
<1>5. CASE Kv!Apply(n)
  <2>1. Kv!AppliedCount(n) = received[n] - 1 /\ Kv!AppliedCount(n)' = received[n]
    BY <1>1, <1>5 DEF Kv!Apply, Kv!AppliedCount, KvP!TypeOK
  <2>2. received[n] <= Len(LongestDelivered) /\ received[n] > 0
    <3>1. Len(delivered[n]) \in Nat /\ Len(LongestDelivered) \in Nat
      BY LenProperties DEF TypeInv, TypeOK, AgreedInv
    <3> QED
      BY <1>1, <1>4, <1>5, <3>1 DEF Kv!Apply, KvP!DeliveryInv, AgreedInv
  <2>3. Store!Advance(n)
    <3> DEFINE v == [m \in Node |-> Kv!AppliedCount(m)]
    <3>1. v[n] = received[n] - 1 /\ Len(LongestDelivered) \in Nat
      BY <2>1, LenProperties DEF AgreedInv
    <3>2. v' = [v EXCEPT ![n] = v[n] + 1]
      <4>1. v[n] + 1 = received[n]
        BY <1>4, <3>1
      <4>2. v' = [v EXCEPT ![n] = received[n]]
        BY <1>3, <2>1, Zenon
      <4> QED  BY <4>1, <4>2
    <3>3. v[n] < Len(LongestDelivered)
      BY <1>4, <2>2, <3>1
    <3> QED
      BY <1>2, <3>2, <3>3 DEF Store!Advance
  <2> QED  BY <2>3 DEF Store!Next
<1>6. CASE Kv!TakeCommand(n) \/ Kv!TakeDelivery(n) \/ Kv!AppendReturns(n)
  <2>1. CASE Kv!TakeCommand(n)
    <3>1. Kv!AppliedCount(n)' = Kv!AppliedCount(n)
      BY <1>1, <2>1 DEF Kv!TakeCommand, Kv!AppliedCount, Kv!Appending, KvP!TypeOK
    <3> QED  BY <1>2, <1>3, <3>1 DEF Store!storevars
  <2>2. CASE Kv!TakeDelivery(n)
    <3>1. Kv!AppliedCount(n) = received[n] /\ Kv!AppliedCount(n)' = received[n] + 1 - 1
      BY <1>1, <2>2 DEF Kv!TakeDelivery, Kv!AppliedCount, Kv!Applying, KvP!TypeOK
    <3>2. Kv!AppliedCount(n)' = Kv!AppliedCount(n)
      BY <1>4, <3>1
    <3> QED  BY <1>2, <1>3, <3>2 DEF Store!storevars
  <2>3. CASE Kv!AppendReturns(n)
    <3>1. Kv!AppliedCount(n)' = Kv!AppliedCount(n)
      BY <1>1, <2>3 DEF Kv!AppendReturns, Kv!AppliedCount, KvP!TypeOK
    <3> QED  BY <1>2, <1>3, <3>1 DEF Store!storevars
  <2> QED  BY <1>6, <2>1, <2>2, <2>3
<1> QED
  BY <1>5, <1>6 DEF Kv!KvTask

LEMMA CrashOfStore ==
  ASSUME KvP!TypeOK, NEW n \in Node, LongestDelivered' = LongestDelivered,
         Kv!CrashStore(n)
  PROVE  Store!Restart(n)
<1>1. Kv!AppliedCount(n)' = 0
  BY DEF Kv!CrashStore, Kv!AppliedCount, KvP!TypeOK
<1>2. \A m \in Node \ {n} : Kv!AppliedCount(m)' = Kv!AppliedCount(m)
  BY DEF Kv!CrashStore, Kv!AppliedCount, KvP!TypeOK
<1> QED
  BY <1>1, <1>2 DEF Kv!CrashStore, Store!Restart

LEMMA StepOfReplicatedStore ==
  ASSUME TypeInv, KvP!StoreInv, AgreedInv, [ClusterNext]_clustervars,
         [Log!Next]_(Log!logvars)
  PROVE  [Store!Next]_(Store!storevars)
<1>1. ASSUME NEW n \in Node, RaftStep(n)
      PROVE  [Store!Next]_(Store!storevars)
  BY <1>1, AgreedByRaft DEF RaftStep, storevars, Store!Next
<1>2. ASSUME UNCHANGED delivered
      PROVE  LongestDelivered' = LongestDelivered
  BY <1>2, AgreedWithoutDelivery
<1>3. ASSUME NEW n \in Node, KvStep(n)
      PROVE  [Store!Next]_(Store!storevars)
  BY <1>2, <1>3, TaskOfStore DEF KvStep, vars
<1>4. ASSUME NEW n \in Node, AppendDone(n)
      PROVE  [Store!Next]_(Store!storevars)
  <2>1. UNCHANGED delivered
    BY <1>4 DEF AppendDone, AppendEntry, vars
  <2> QED  BY <1>2, <1>4, <2>1, TaskOfStore DEF AppendDone
<1>5. ASSUME NEW n \in Node, CrashNode(n)
      PROVE  [Store!Next]_(Store!storevars)
  <2>1. \A m \in Node : delivered'[m] \in {delivered[m], <<>>}
    BY <1>5 DEF CrashNode, Crash, TypeInv, TypeOK
  <2>2. LongestDelivered' = LongestDelivered
    BY <2>1, AgreedWithoutDelivery
  <2> QED  BY <1>5, <2>2, CrashOfStore DEF CrashNode, KvP!StoreInv, Store!Next
<1>6. ASSUME NEW c \in Client, SessionStep(c) \/ UserStep(c)
      PROVE  [Store!Next]_(Store!storevars)
  BY <1>2, <1>6, SessionOfStore DEF SessionStep, UserStep, vars
<1>7. CASE UNCHANGED clustervars
  BY <1>2, <1>7 DEF clustervars, storevars, vars, Store!storevars, Kv!AppliedCount
<1> QED
  BY <1>1, <1>3, <1>4, <1>5, <1>6, <1>7 DEF ClusterNext

\* Where raft implements the replicated log, the whole program implements the
\* replicated store: whatever the sessions, select!, the locks, append_entry and
\* the restarts do, each Get answers what one common history of writes leaves in
\* the map up to some point of it, and a node goes back in it only by a restart.
\* Nothing else is asked of raft, of clients, or of what fails.
THEOREM ReplicatedLogMakesReplicatedStore ==
  ClusterSpec /\ ImplementsReplicatedLog => ImplementsReplicatedStore
<1>1. ClusterInit /\ Log!Init => AgreedInv /\ Store!Init
  BY AgreedAtStart
  DEF ClusterInit, Log!Init, Store!Init, Kv!Init, Kv!AppliedCount
<1>2. /\ TypeInv /\ KvP!StoreInv /\ (TypeInv /\ KvP!StoreInv)'
      /\ AgreedInv /\ [Log!Next]_(Log!logvars)
      => AgreedInv'
  BY AgreedKept
<1>3. /\ TypeInv /\ KvP!StoreInv /\ AgreedInv
      /\ [ClusterNext]_clustervars /\ [Log!Next]_(Log!logvars)
      => [Store!Next]_(Store!storevars)
  BY StepOfReplicatedStore
<1> QED
  BY <1>1, <1>2, <1>3, ClusterInvHolds, PTL
  DEF ClusterSpec, ImplementsReplicatedLog, ImplementsReplicatedStore,
      Log!Spec, Store!Spec

\* So, while one node contends and no connection breaks under a call, the whole
\* program is a replicated store: for any cluster, any clients, and any crashes
\* and restarts of the other nodes.
THEOREM ClusterIsReplicatedStore ==
  ASSUME NEW l \in Node, SoleContender(l)
  PROVE  ClusterSpec => ImplementsReplicatedStore
BY RaftRunsInCluster, ClusterIsReplicatedLog, ReplicatedLogMakesReplicatedStore, PTL

-----------------------------------------------------------------------------
(* No acknowledged write is lost: counting the writes of a channel *)

\* How many writes there are among the first commands is a number.
LEMMA WritesFinite ==
  ASSUME NEW s, NEW k \in Nat
  PROVE  /\ WritesUpTo(s, k) \subseteq 1..k
         /\ IsFiniteSet(WritesUpTo(s, k))
         /\ Cardinality(WritesUpTo(s, k)) \in Nat
<1>1. WritesUpTo(s, k) \subseteq 1..k
  BY DEF WritesUpTo
<1>2. IsFiniteSet(1..k)
  BY FS_Interval
<1>3. IsFiniteSet(WritesUpTo(s, k))
  BY <1>1, <1>2, FS_Subset
<1> QED  BY <1>1, <1>3, FS_CardinalityType

\* The place of a write among the writes lies within their number.
LEMMA WritePlace ==
  ASSUME NEW s, NEW k \in Nat, NEW i \in WritesUpTo(s, k)
  PROVE  Cardinality(WritesUpTo(s, i)) \in 1..Cardinality(WritesUpTo(s, k))
<1>1. i \in Nat /\ i >= 1 /\ i <= k
  BY DEF WritesUpTo
<1>2. i \in WritesUpTo(s, i) /\ WritesUpTo(s, i) \subseteq WritesUpTo(s, k)
  BY <1>1 DEF WritesUpTo
<1>3. IsFiniteSet(WritesUpTo(s, i)) /\ Cardinality(WritesUpTo(s, i)) \in Nat
      /\ IsFiniteSet(WritesUpTo(s, k)) /\ Cardinality(WritesUpTo(s, k)) \in Nat
  BY <1>1, WritesFinite
<1>4. Cardinality(WritesUpTo(s, i)) <= Cardinality(WritesUpTo(s, k))
  BY <1>2, <1>3, FS_Subset
<1>5. Cardinality(WritesUpTo(s, i)) # 0
  BY <1>2, <1>3, FS_EmptySet
<1> QED  BY <1>3, <1>4, <1>5

\* One more command is one more write, or none.
LEMMA WritesStep ==
  ASSUME NEW s, NEW k \in Nat \ {0}
  PROVE  IF s[k].op \in Value
         THEN /\ WritesUpTo(s, k) = WritesUpTo(s, k-1) \union {k}
              /\ Cardinality(WritesUpTo(s, k)) = Cardinality(WritesUpTo(s, k-1)) + 1
         ELSE WritesUpTo(s, k) = WritesUpTo(s, k-1)
<1>1. k-1 \in Nat /\ 1..k = 1..k-1 \union {k} /\ k \notin 1..k-1
  OBVIOUS
<1>2. CASE s[k].op \in Value
  <2>1. WritesUpTo(s, k) = WritesUpTo(s, k-1) \union {k} /\ k \notin WritesUpTo(s, k-1)
    BY <1>1, <1>2 DEF WritesUpTo
  <2>2. IsFiniteSet(WritesUpTo(s, k-1))
    BY <1>1, WritesFinite
  <2> QED  BY <1>2, <2>1, <2>2, FS_AddElement
<1>3. CASE s[k].op \notin Value
  BY <1>1, <1>3 DEF WritesUpTo
<1> QED  BY <1>2, <1>3

\* What is sent later does not move what is there.
LEMMA WritesOfLonger ==
  ASSUME NEW S, NEW s \in Seq(S), NEW e \in S, NEW k \in 0..Len(s)
  PROVE  /\ WritesUpTo(Append(s, e), k) = WritesUpTo(s, k)
         /\ \A i \in 1..Len(s) : Append(s, e)[i] = s[i]
<1>1. \A i \in 1..Len(s) : Append(s, e)[i] = s[i]
  OBVIOUS
<1>2. 1..k \subseteq 1..Len(s)
  BY LenProperties
<1> QED  BY <1>1, <1>2 DEF WritesUpTo

-----------------------------------------------------------------------------
(* What each step does to the channel and the log of a node not deposed *)

\* As long as nothing of the channel is through, the log may be any.
LEMMA NothingThrough ==
  ASSUME NEW l \in Node, log[l] \in Seq(Entry), queued[l] = <<>>, Offered(l) <= 0,
         Offered(l) \in Int
  PROVE  LogEndsWithChannel(l)
<1>1. WritesUpTo(queued[l], Offered(l)) = {}
  BY DEF WritesUpTo
<1>2. Cardinality({}) = 0
  BY FS_EmptySet
<1>3. Len(log[l]) \in Nat
  BY LenProperties
<1>4. Len(log[l]) \in 0..Len(log[l]) /\ Len(log[l]) = Len(log[l]) + 0
  BY <1>3
<1> QED  BY <1>1, <1>2, <1>4 DEF LogEndsWithChannel

\* Raft's own tasks leave the log of a leader alone, and raise its flag with its
\* office.
LEMMA RaftStepKeepsOffice ==
  ASSUME TypeInv, LeaderInv, NEW l \in Node, ~Deposed(l), NEW n \in Node, RaftStep(n)
  PROVE  /\ node_type[l] = "Leader" => node_type'[l] = "Leader"
         /\ node_type'[l] = "Leader" => log'[l] = log[l]
         /\ ~is_leader[l] /\ node_type'[l] # "Leader" => ~is_leader'[l]
<1> USE DEF TypeInv, TypeOK
<1>1. pc[l] = "down" => node_type[l] = "Follower"
  BY DEF LeaderInv, OfficeInv
<1>2. CASE Ticker(n)
  <2>1. log' = log
    BY <1>2 DEF Ticker, RemoveFile, CreateFile, WriteFile, HeartbeatBegin,
       HeartbeatSend, HeartbeatReceive, HeartbeatEnd, CommitEntries, ElectionTimeout,
       BecomeCandidate, CampaignBegin, CampaignSend, CampaignSlow, VoteReceived,
       VoteDenied, VoteMissing, CampaignEnd, BecomeLeader, StepDown, TickEnd, persistent
  <2>2. node_type[l] = "Leader" => node_type'[l] = "Leader"
    BY <1>1, <1>2, TickerFrame DEF Deposed
  <2>3. \/ is_leader' = is_leader
        \/ is_leader' = [is_leader EXCEPT ![n] = FALSE]
        \/ /\ is_leader' = [is_leader EXCEPT ![n] = TRUE]
           /\ node_type' = [node_type EXCEPT ![n] = "Leader"]
    BY <1>2 DEF Ticker, RemoveFile, CreateFile, WriteFile, HeartbeatBegin,
       HeartbeatSend, HeartbeatReceive, HeartbeatEnd, CommitEntries, ElectionTimeout,
       BecomeCandidate, CampaignBegin, CampaignSend, CampaignSlow, VoteReceived,
       VoteDenied, VoteMissing, CampaignEnd, BecomeLeader, StepDown, TickEnd, flags
  <2> QED  BY <2>1, <2>2, <2>3
<1>3. CASE Listener(n)
  <2>1. PICK msg \in Inbox(n) :
          \/ GrantVote(n, msg) \/ DenyVote(n, msg)
          \/ AcceptAppend(n, msg) \/ RejectAppend(n, msg)
          \/ TornRequest(n, msg) \/ HoldConnection(n, msg)
    BY <1>3 DEF Listener
  <2>2. pc' = pc /\ is_leader' = is_leader
    BY <2>1 DEF GrantVote, DenyVote, AcceptAppend, RejectAppend, TornRequest,
       HoldConnection, flags, ticker
  <2>3. node_type[l] = "Leader" => node_type'[l] = "Leader"
    BY <1>1, <2>2 DEF Deposed
  <2>4. log'[l] = log[l] \/ node_type'[l] = "Follower"
    BY <2>1 DEF GrantVote, DenyVote, AcceptAppend, RejectAppend, TornRequest,
       HoldConnection, persistent, RoleAfterAppend
  <2> QED  BY <2>2, <2>3, <2>4
<1>4. CASE BreakCall(n) \/ Restart(n)
  <2>1. node_type' = node_type /\ is_leader' = is_leader
    BY <1>4 DEF BreakCall, Restart, flags
  <2>2. node_type[l] = "Leader" /\ Restart(n) => n # l
    BY <1>1 DEF Restart
  <2> QED  BY <1>4, <2>1, <2>2 DEF BreakCall, Restart, persistent
<1> QED  BY <1>2, <1>3, <1>4 DEF RaftStep

LEMMA RaftStepServes ==
  ASSUME TypeInv, LeaderInv, KvP!StoreInv, NEW l \in Node, ~Deposed(l),
         ChannelServed(l), NEW n \in Node, RaftStep(n)
  PROVE  ChannelServed(l)'
<1>1. UNCHANGED <<queued, handled, task, at, phase>>
  BY DEF RaftStep, storevars
<1>2. /\ node_type[l] = "Leader" => node_type'[l] = "Leader"
      /\ node_type'[l] = "Leader" => log'[l] = log[l]
      /\ ~is_leader[l] /\ node_type'[l] # "Leader" => ~is_leader'[l]
  BY RaftStepKeepsOffice
<1>3. CASE node_type[l] = "Leader"
  BY <1>1, <1>2, <1>3 DEF ChannelServed, LogEndsWithChannel, Offered
<1>4. CASE node_type[l] # "Leader" /\ node_type'[l] # "Leader"
  BY <1>1, <1>2, <1>4 DEF ChannelServed
<1>5. CASE node_type[l] # "Leader" /\ node_type'[l] = "Leader"
  <2>1. /\ queued[l] = <<>> /\ handled[l] <= 0
        /\ task[l].doing = "append" => handled[l] > 0
    BY <1>5, EmptySeq DEF ChannelServed
  <2>2. handled[l] \in Nat
    BY DEF KvP!StoreInv, KvP!TypeOK
  <2>a. Offered(l) \in Int /\ Offered(l) <= 0
    BY <2>1, <2>2 DEF Offered
  <2>3. log[l] \in Seq(Entry) /\ LogEndsWithChannel(l)
    BY <2>1, <2>a, NothingThrough DEF TypeInv, TypeOK
  <2> QED  BY <1>1, <1>2, <1>5, <2>1, <2>3 DEF ChannelServed, LogEndsWithChannel, Offered
<1> QED  BY <1>3, <1>4, <1>5

\* The KV task takes what is in the channel, which only a leader's has anything in.
LEMMA KvStepServes ==
  ASSUME KvP!StoreInv, NEW l \in Node, ChannelServed(l), NEW n \in Node, KvStep(n)
  PROVE  ChannelServed(l)'
<1>0. /\ queued \in [Node -> Seq(KvP!Sent)] /\ handled \in [Node -> Nat]
      /\ task \in [Node -> KvP!Tasks]
  BY DEF KvP!StoreInv, KvP!TypeOK
<1>1. UNCHANGED <<log, node_type, is_leader, queued, at, phase>>
  BY DEF KvStep, vars, Kv!KvTask, Kv!TakeCommand, Kv!TakeDelivery, Kv!Apply, Kv!session,
     flags, persistent
<1>2. CASE n # l
  <2>1. handled'[l] = handled[l] /\ task'[l] = task[l]
    BY <1>0, <1>2 DEF KvStep, Kv!KvTask, Kv!TakeCommand, Kv!TakeDelivery, Kv!Apply
  <2> QED  BY <1>1, <2>1 DEF ChannelServed, LogEndsWithChannel, Offered
<1>3. CASE n = l /\ (Kv!TakeDelivery(l) \/ Kv!Apply(l))
  <2>1. handled' = handled /\ task[l].doing # "append" /\ task'[l].doing # "append"
    BY <1>0, <1>3 DEF Kv!TakeDelivery, Kv!Apply, Kv!Applying
  <2> QED  BY <1>1, <2>1 DEF ChannelServed, LogEndsWithChannel, Offered
<1>4. CASE n = l /\ Kv!TakeCommand(l)
  <2>1. PICK s \in Seq(KvP!Sent), h \in Nat : s = queued[l] /\ h = handled[l]
    BY <1>0
  <2>2. /\ h + 1 <= Len(s) /\ Len(s) \in Nat
        /\ handled'[l] = h + 1
        /\ task[l].doing # "append"
        /\ task'[l] = IF s[h+1].op \in Kv!WriteOp THEN Kv!Appending(s[h+1].op) ELSE Kv!Idle
    BY <1>0, <1>4, <2>1, LenProperties DEF Kv!TakeCommand
  <2>3. node_type'[l] = "Leader"
    BY <1>1, <2>1, <2>2 DEF ChannelServed
  <2>4. s[h+1] \in KvP!Sent
    BY <2>2
  <2>5. s[h+1].op \in Kv!WriteOp <=> s[h+1].op \in Value
    BY <2>4, ClusterAssumption DEF KvP!Sent
  <2>6. Offered(l) = h /\ queued'[l] = s
    BY <1>1, <2>1, <2>2 DEF Offered
  <2>7. IF s[h+1].op \in Value
        THEN Offered(l)' = h /\ task'[l].doing = "append" /\ task'[l].op = s[h+1].op
        ELSE Offered(l)' = h + 1 /\ task'[l].doing # "append"
    BY <2>2, <2>5 DEF Offered, Kv!Appending
  <2>8. WritesUpTo(s, Offered(l)') = WritesUpTo(s, h)
    BY <2>7, WritesStep
  <2>9. LogEndsWithChannel(l)'
    BY <1>1, <2>1, <2>3, <2>6, <2>8 DEF ChannelServed, LogEndsWithChannel
  <2> QED  BY <2>2, <2>3, <2>6, <2>7, <2>9 DEF ChannelServed
<1> QED  BY <1>2, <1>3, <1>4 DEF KvStep, Kv!KvTask

\* append_entry puts the command that was taken last at the end of the log.
LEMMA AppendDoneServes ==
  ASSUME TypeInv, KvP!StoreInv, NEW l \in Node, ChannelServed(l),
         NEW n \in Node, AppendDone(n)
  PROVE  ChannelServed(l)'
<1>0. /\ queued \in [Node -> Seq(KvP!Sent)] /\ handled \in [Node -> Nat]
      /\ task \in [Node -> KvP!Tasks] /\ log \in [Node -> Seq(Entry)]
      /\ task[n].op \in Value /\ node_term \in [Node -> Nat]
  BY AppendedIsValue DEF KvP!StoreInv, KvP!TypeOK, TypeInv, TypeOK, AppendDone, Kv!AppendReturns
<1>1. /\ UNCHANGED <<node_type, is_leader, queued, handled, at, phase>>
      /\ task[n].doing = "append" /\ task' = [task EXCEPT ![n] = Kv!Idle]
  BY DEF AppendDone, AppendEntry, vars, Kv!AppendReturns, Kv!session, flags, persistent
<1>2. CASE n # l
  <2>1. log'[l] = log[l] /\ task'[l] = task[l]
    BY <1>0, <1>1, <1>2 DEF AppendDone, AppendEntry, vars, persistent
  <2> QED  BY <1>1, <2>1 DEF ChannelServed, LogEndsWithChannel, Offered
<1>3. CASE n = l
  <2>1. PICK s \in Seq(KvP!Sent), h \in Nat, t \in Seq(Entry), e \in Entry :
          /\ s = queued[l] /\ h = handled[l] /\ t = log[l]
          /\ e = [value |-> task[l].op, term |-> node_term[l]]
    BY <1>0, <1>3 DEF Entry
  <2>2. h > 0 /\ h <= Len(s) /\ task[l].op = s[h].op /\ s[h].op \in Value
    BY <1>0, <1>1, <1>3, <2>1 DEF ChannelServed
  <2>3. node_type[l] = "Leader"
    BY <2>1, <2>2 DEF ChannelServed
  <2>4. log'[l] = Append(t, e)
    BY <1>0, <1>3, <2>1, <2>3 DEF AppendDone, AppendEntry
  <2>5. Offered(l) = h - 1 /\ Offered(l)' = h /\ queued'[l] = s
    BY <1>0, <1>1, <1>3, <2>1 DEF Offered
  <2>6. /\ WritesUpTo(s, h) = WritesUpTo(s, h-1) \union {h}
        /\ Cardinality(WritesUpTo(s, h)) = Cardinality(WritesUpTo(s, h-1)) + 1
    BY <2>2, WritesStep
  <2>7. PICK b \in 0..Len(t) :
          /\ Len(t) = b + Cardinality(WritesUpTo(s, h-1))
          /\ \A i \in WritesUpTo(s, h-1) :
               t[b + Cardinality(WritesUpTo(s, i))].value = s[i].op
    BY <2>1, <2>3, <2>5 DEF ChannelServed, LogEndsWithChannel
  <2>8. /\ Len(Append(t, e)) = Len(t) + 1 /\ Append(t, e)[Len(t) + 1] = e
        /\ \A j \in 1..Len(t) : Append(t, e)[j] = t[j]
    BY AppendProperties
  <2>9. ASSUME NEW i \in WritesUpTo(s, h)
        PROVE  Append(t, e)[b + Cardinality(WritesUpTo(s, i))].value = s[i].op
    <3>0. h - 1 \in Nat /\ Len(t) \in Nat /\ Cardinality(WritesUpTo(s, h-1)) \in Nat
      BY <2>2, LenProperties, WritesFinite
    <3>1. CASE i = h
      <4>a. PICK w \in Nat : w = Cardinality(WritesUpTo(s, h-1))
        BY <3>0
      <4>b. Cardinality(WritesUpTo(s, i)) = w + 1 /\ Len(t) = b + w /\ b \in Nat
        <5>1. b \in Nat /\ Len(t) = b + w
          BY <2>7, <3>0, <4>a
        <5> QED  BY <2>6, <3>1, <4>a, <5>1
      <4>1. b + Cardinality(WritesUpTo(s, i)) = Len(t) + 1
        BY <4>b
      <4> QED  BY <2>1, <2>2, <2>8, <3>1, <4>1
    <3>2. CASE i \in WritesUpTo(s, h-1)
      <4>1. Cardinality(WritesUpTo(s, i)) \in 1..Cardinality(WritesUpTo(s, h-1))
        BY <3>0, <3>2, WritePlace
      <4>2. b + Cardinality(WritesUpTo(s, i)) \in 1..Len(t)
        BY <2>7, <3>0, <4>1
      <4> QED  BY <2>7, <2>8, <3>2, <4>2
    <3> QED  BY <2>6, <2>9, <3>1, <3>2
  <2>10. LogEndsWithChannel(l)'
    <3>1. Len(Append(t, e)) = b + Cardinality(WritesUpTo(s, h))
          /\ b \in 0..Len(Append(t, e))
      <4>1. h - 1 \in Nat /\ Len(t) \in Nat /\ Cardinality(WritesUpTo(s, h-1)) \in Nat
        BY <2>2, LenProperties, WritesFinite
      <4> QED  BY <2>6, <2>7, <2>8, <4>1
    <3> QED  BY <2>4, <2>5, <2>9, <3>1 DEF LogEndsWithChannel
  <2>11. task'[l].doing # "append"
    BY <1>0, <1>1, <1>3
  <2> QED  BY <1>1, <2>1, <2>2, <2>3, <2>10, <2>11 DEF ChannelServed
<1> QED  BY <1>2, <1>3

\* A session at l gets past the flag, and then into the channel, only while l leads.
LEMMA ClientStepServes ==
  ASSUME KvP!StoreInv, NEW l \in Node, ChannelServed(l),
         NEW c \in Client, SessionStep(c) \/ UserStep(c)
  PROVE  ChannelServed(l)'
<1>0. /\ queued \in [Node -> Seq(KvP!Sent)] /\ handled \in [Node -> Nat]
      /\ at \in [Client -> Node \union {NoNode}] /\ phase \in [Client -> KvP!Phases]
      /\ KvP!SessionInv(c)
  BY DEF KvP!StoreInv, KvP!TypeOK
<1>1. UNCHANGED <<log, node_type, is_leader, handled, task>>
  BY DEF SessionStep, UserStep, vars, flags, persistent, Kv!Session, Kv!User, Kv!ReadStorage,
     Kv!CheckLeader, Kv!Enqueue, Kv!AnswerValue, Kv!AnswerOk, Kv!AnswerError,
     Kv!Close, Kv!Connect, Kv!Ask, Kv!Leave, Kv!taskvars
<1>2. CASE Kv!Enqueue(c)
  <2>1. /\ phase[c] = "allowed" /\ at[c] \in Node /\ at' = at
        /\ phase' = [phase EXCEPT ![c] = "ok"]
        /\ queued' = [queued EXCEPT ![at[c]] = Append(@, [from |-> c, op |-> asked[c]])]
        /\ [from |-> c, op |-> asked[c]] \in KvP!Sent
    BY <1>0, <1>2 DEF Kv!Enqueue, Kv!Proceed, KvP!SessionInv, KvP!Sent
  <2>2. CASE at[c] # l
    <3>1. /\ queued'[l] = queued[l]
          /\ \A d \in Client : at[d] = l => phase'[d] = phase[d]
      BY <1>0, <2>1, <2>2
    <3>2. LogEndsWithChannel(l) => LogEndsWithChannel(l)'
      BY <1>1, <3>1 DEF LogEndsWithChannel, Offered
    <3> QED  BY <1>1, <2>1, <3>1, <3>2 DEF ChannelServed
  <2>3. CASE at[c] = l
    <3>1. node_type[l] = "Leader"
      BY <2>1, <2>3 DEF ChannelServed
    <3>2. PICK s \in Seq(KvP!Sent), h \in Nat, e \in KvP!Sent, k \in Int :
            /\ s = queued[l] /\ h = handled[l] /\ e = [from |-> c, op |-> asked[c]]
            /\ k = Offered(l) /\ k \in {h, h-1}
      BY <1>0, <2>1 DEF Offered
    <3>3. queued'[l] = Append(s, e) /\ Offered(l)' = k /\ handled'[l] = h
      BY <1>0, <1>1, <2>1, <2>3, <3>2 DEF Offered
    <3>4. h <= Len(s) /\ k \in 0..Len(s) /\ (task[l].doing = "append" => h > 0)
      BY <3>2, LenProperties DEF ChannelServed, Offered
    <3>5. /\ WritesUpTo(Append(s, e), k) = WritesUpTo(s, k)
          /\ \A i \in 1..Len(s) : Append(s, e)[i] = s[i]
          /\ Len(Append(s, e)) = Len(s) + 1
      BY <3>4, WritesOfLonger, AppendProperties
    <3>6. ASSUME NEW i \in WritesUpTo(s, k)
          PROVE  /\ WritesUpTo(Append(s, e), i) = WritesUpTo(s, i)
                 /\ Append(s, e)[i] = s[i]
      <4>1. i \in 1..Len(s) /\ i \in 0..Len(s)
        BY <3>4 DEF WritesUpTo
      <4> QED  BY <3>5, <4>1, WritesOfLonger
    <3>7. LogEndsWithChannel(l)'
      <4>1. PICK b \in 0..Len(log[l]) :
              /\ Len(log[l]) = b + Cardinality(WritesUpTo(s, k))
              /\ \A i \in WritesUpTo(s, k) :
                   log[l][b + Cardinality(WritesUpTo(s, i))].value = s[i].op
        BY <3>1, <3>2 DEF ChannelServed, LogEndsWithChannel
      <4>2. /\ Len(log[l]) = b + Cardinality(WritesUpTo(Append(s, e), k))
            /\ \A i \in WritesUpTo(Append(s, e), k) :
                 log[l][b + Cardinality(WritesUpTo(Append(s, e), i))].value
                   = Append(s, e)[i].op
        BY <3>5, <3>6, <4>1
      <4> QED  BY <1>1, <3>3, <4>2 DEF LogEndsWithChannel
    <3>8. task[l].doing = "append" => h \in 1..Len(s) /\ task[l].op = s[h].op
      BY <3>2, <3>4 DEF ChannelServed
    <3> QED  BY <1>1, <3>1, <3>3, <3>4, <3>5, <3>7, <3>8 DEF ChannelServed
  <2> QED  BY <2>2, <2>3
<1>3. CASE ~Kv!Enqueue(c)
  <2>1. queued' = queued
    BY <1>3 DEF SessionStep, UserStep, Kv!Session, Kv!User, Kv!ReadStorage,
       Kv!CheckLeader, Kv!AnswerValue, Kv!AnswerOk, Kv!AnswerError,
       Kv!Close, Kv!Connect, Kv!Ask, Kv!Leave
  <2>2. /\ \A d \in Client \ {c} : at'[d] = at[d] /\ phase'[d] = phase[d]
        /\ \/ at'[c] = at[c] /\ phase'[c] = phase[c]
           \/ phase'[c] \notin {"allowed", "ok"}
           \/ at'[c] = at[c] /\ is_leader[at[c]]
    BY <1>0, <1>3 DEF SessionStep, UserStep, Kv!Session, Kv!User, Kv!ReadStorage,
       Kv!CheckLeader, Kv!AnswerValue, Kv!AnswerOk, Kv!AnswerError,
       Kv!Close, Kv!Connect, Kv!Ask, Kv!Leave, Kv!Proceed, Kv!ReadNext, Kv!EndSession
  <2> QED  BY <1>1, <2>1, <2>2 DEF ChannelServed, LogEndsWithChannel, Offered
<1> QED  BY <1>2, <1>3

\* The process ends, and with it the office and the channel.
LEMMA CrashServes ==
  ASSUME KvP!StoreInv, TypeInv, NEW l \in Node, ChannelServed(l),
         NEW n \in Node, CrashNode(n)
  PROVE  ChannelServed(l)'
<1>0. /\ queued \in [Node -> Seq(KvP!Sent)] /\ handled \in [Node -> Nat]
      /\ task \in [Node -> KvP!Tasks]
      /\ log \in [Node -> Seq(Entry)] /\ node_type \in [Node -> Role]
      /\ is_leader \in [Node -> BOOLEAN]
  BY DEF KvP!StoreInv, KvP!TypeOK, TypeInv, TypeOK
<1>1. CASE n = l
  <2>1. /\ queued'[l] = <<>> /\ handled'[l] = 0 /\ task'[l].doing = "nothing"
        /\ node_type'[l] = "Follower" /\ ~is_leader'[l]
    BY <1>0, <1>1 DEF CrashNode, Crash, Kv!CrashStore
  <2>2. \A c \in Client : at'[c] # l
    BY <1>1, NodeAssumption DEF CrashNode, Kv!CrashStore
  <2> QED  BY <2>1, <2>2, EmptySeq DEF ChannelServed
<1>2. CASE n # l
  <2>1. /\ queued'[l] = queued[l] /\ handled'[l] = handled[l] /\ task'[l] = task[l]
        /\ log'[l] = log[l] /\ node_type'[l] = node_type[l]
        /\ is_leader'[l] = is_leader[l]
    BY <1>0, <1>2 DEF CrashNode, Crash, Kv!CrashStore
  <2>2. \A c \in Client : at'[c] = l => at[c] = l /\ phase'[c] = phase[c]
    BY <1>2, NodeAssumption DEF CrashNode, Kv!CrashStore
  <2> QED  BY <2>1, <2>2 DEF ChannelServed, LogEndsWithChannel, Offered
<1> QED  BY <1>1, <1>2

NeverDeposed(l) == [][~Deposed(l)]_clustervars

LEMMA ChannelServedHolds ==
  ASSUME NEW l \in Node
  PROVE  ClusterSpec /\ NeverDeposed(l) => []ChannelServed(l)
<1>1. ClusterInit => ChannelServed(l)
  <2> SUFFICES ASSUME ClusterInit
               PROVE  ChannelServed(l)
    OBVIOUS
  <2>1. /\ ~is_leader[l] /\ queued[l] = <<>> /\ handled[l] = 0
        /\ node_type[l] = "Follower"
        /\ task[l].doing # "append" /\ \A c \in Client : phase[c] = "closed"
    BY DEF ClusterInit, Init, Kv!Init
  <2> QED  BY <2>1, EmptySeq DEF ChannelServed
<1>2. /\ TypeInv /\ LeaderInv /\ KvP!StoreInv /\ ChannelServed(l)
      /\ [ClusterNext]_clustervars /\ [~Deposed(l)]_clustervars
      => ChannelServed(l)'
  <2> SUFFICES ASSUME TypeInv, LeaderInv, KvP!StoreInv, ChannelServed(l),
                      [ClusterNext]_clustervars, [~Deposed(l)]_clustervars
               PROVE  ChannelServed(l)'
    OBVIOUS
  <2>1. CASE UNCHANGED clustervars
    BY <2>1 DEF clustervars, storevars, vars, flags, persistent, ChannelServed,
       LogEndsWithChannel, Offered
  <2>2. CASE ClusterNext /\ ~Deposed(l)
    BY <2>2, RaftStepServes, KvStepServes, AppendDoneServes, CrashServes,
       ClientStepServes DEF ClusterNext
  <2> QED  BY <2>1, <2>2
<1> QED
  BY <1>1, <1>2, ClusterInvHolds, RaftRunsInCluster, LeaderInvHolds, PTL
  DEF ClusterSpec, NeverDeposed

\* No command that a client has an "OK." for is lost on its way to the log of a
\* node that is never deposed: behind what its log held when it came to lead are
\* the writes of its channel, each once and in order; for any number of clients
\* and of contenders, and over crashes of any node.  The flag, which sessions read
\* without any lock, is enough for that.  Without the premise it is not true: a
\* node that grants a vote or accepts an append steps down and leaves the flag up,
\* and append_entry drops what sessions then confirm.
THEOREM AcknowledgedStaysLogged ==
  ASSUME NEW l \in Node
  PROVE  ClusterSpec /\ NeverDeposed(l) => [](Leads(l) => LogEndsWithChannel(l))
<1>1. ChannelServed(l) => (Leads(l) => LogEndsWithChannel(l))
  BY DEF Leads, ChannelServed
<1> QED  BY <1>1, ChannelServedHolds, PTL
=============================================================================
