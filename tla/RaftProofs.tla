----------------------------- MODULE RaftProofs -----------------------------
(***************************************************************************)
(* Type correctness of Raft, for every cluster, every connections map and  *)
(* every bound.  TypeOK is proved from TypeInv, which adds what it rests   *)
(* on: CallInv, that a ticker with an RPC on its way is at a peer of its   *)
(* list and an answer that is counted is a node's, and PersistInv, that    *)
(* between the removal of the file and the write of the new one the log    *)
(* stays as long as commited_index, since the ticker holds the lock.       *)
(*                                                                         *)
(* One lemma for each action of Raft, then the theorem.                    *)
(***************************************************************************)
EXTENDS RaftProperties, RaftRulesLemmas

-----------------------------------------------------------------------------
USE DEF persistent, indexes, flags, call, ticker, Wires

LEMMA InitTyped == Init => TypeInv
<1> SUFFICES ASSUME Init PROVE TypeInv
  OBVIOUS
<1>1. \A n \in Node : conn[n] <= Len(connections[n]) + 1
  BY ConnectionsLength DEF Init
<1>2. FreshDisk \in Disks
  BY DEF FreshDisk, Disks
<1>3. TypeOK
  BY <1>1, <1>2 DEF Init, TypeOK, Role, Places
<1> QED
  BY <1>3 DEF Init, TypeInv, CallInv, PersistInv

-----------------------------------------------------------------------------
(* The KV task's action *)

LEMMA AppendEntryTyped ==
  ASSUME TypeInv, NEW n \in Node, NEW v \in Value, AppendEntry(n, v)
  PROVE  TypeInv'
<1>1. [value |-> v, term |-> node_term[n]] \in Entry
  BY DEF TypeInv, TypeOK, Entry
<1>2. log' \in [Node -> Seq(Entry)]
  BY <1>1, AppendProperties DEF AppendEntry, TypeInv, TypeOK
<1>3. TypeOK'
  BY <1>2 DEF AppendEntry, TypeInv, TypeOK, persistent, indexes, flags, call, ticker
<1>4. CallInv'
  BY DEF AppendEntry, TypeInv, CallInv, InLoop, call, ticker
<1>5. PersistInv'
  BY <1>2 DEF AppendEntry, TypeInv, TypeOK, PersistInv, LockFree, ticker
<1> QED  BY <1>3, <1>4, <1>5 DEF TypeInv

-----------------------------------------------------------------------------
(* The ticker's actions *)

\* Where the ticker's place in connections is set, it stays in range.
LEMMA FirstConnection ==
  ASSUME TypeOK, NEW n \in Node, conn' = [conn EXCEPT ![n] = 1]
  PROVE  /\ conn' \in [Node -> Nat \ {0}]
         /\ \A m \in Node : conn'[m] <= Len(connections[m]) + 1
<1>1. conn' \in [Node -> Nat \ {0}]
  BY DEF TypeOK
<1>2. ASSUME NEW m \in Node PROVE conn'[m] <= Len(connections[m]) + 1
  <2>1. Len(connections[m]) \in Nat  BY ConnectionsLength
  <2>2. conn \in [Node -> Nat \ {0}] /\ conn[m] <= Len(connections[m]) + 1
    BY DEF TypeOK
  <2>3. CASE m = n   BY <2>1, <2>2, <2>3
  <2>4. CASE m # n   BY <2>2, <2>4
  <2> QED  BY <2>3, <2>4
<1> QED  BY <1>1, <1>2

LEMMA NextConnection ==
  ASSUME TypeOK, NEW n \in Node, InLoop(n), conn' = [conn EXCEPT ![n] = @ + 1]
  PROVE  /\ conn' \in [Node -> Nat \ {0}]
         /\ \A m \in Node : conn'[m] <= Len(connections[m]) + 1
<1>1. conn' \in [Node -> Nat \ {0}]
  BY DEF TypeOK
<1>2. ASSUME NEW m \in Node PROVE conn'[m] <= Len(connections[m]) + 1
  <2>1. Len(connections[m]) \in Nat  BY ConnectionsLength
  <2>2. conn \in [Node -> Nat \ {0}] /\ conn[m] <= Len(connections[m]) + 1
    BY DEF TypeOK
  <2>3. CASE m = n   BY <2>1, <2>2, <2>3 DEF InLoop
  <2>4. CASE m # n   BY <2>2, <2>4
  <2> QED  BY <2>3, <2>4
<1> QED  BY <1>1, <1>2

LEMMA DisksTyped ==
  FreshDisk \in Disks /\ AbsentDisk \in Disks /\ TornDisk \in Disks
<1>1. FreshDisk \in Disks
  BY DEF FreshDisk, Disks
<1> QED  BY <1>1 DEF AbsentDisk, TornDisk, Disks

LEMMA RemoveFileTyped ==
  ASSUME TypeInv, NEW n \in Node, RemoveFile(n)
  PROVE  TypeInv'
<1> USE DEF TypeInv
<1>1. rare' \in Nat
  BY DEF RemoveFile, TypeOK, Rarely
<1>2. \/ Goto(n, "dead") /\ UNCHANGED disk
      \/ /\ commited_index[n] <= Len(log[n])
         /\ Goto(n, "persist")
         /\ disk' = [disk EXCEPT ![n] = AbsentDisk] \/ UNCHANGED disk
  <2>1. commited_index[n] \in Nat /\ Len(log[n]) \in Nat
    BY LenProperties DEF TypeOK
  <2> QED  BY <2>1 DEF RemoveFile
<1>3. pc' \in [Node -> Places] /\ disk' \in [Node -> Disks]
  <2>1. pc \in [Node -> Places] /\ disk \in [Node -> Disks]
    BY DEF TypeOK
  <2>2. pc' \in [Node -> Places]
    <3>1. Goto(n, "dead") \/ Goto(n, "persist")
      BY <1>2
    <3> QED  BY <2>1, <3>1 DEF Goto, Places
  <2>3. disk' \in [Node -> Disks]
    <3>1. disk' = disk \/ disk' = [disk EXCEPT ![n] = AbsentDisk]
      BY <1>2
    <3> QED  BY <2>1, <3>1, DisksTyped
  <2> QED  BY <2>2, <2>3
<1>4. TypeOK'
  BY <1>1, <1>3 DEF RemoveFile, TypeOK
<1>5. CallInv'
  BY <1>2 DEF RemoveFile, TypeOK, CallInv, InLoop, Goto
<1>6. PersistInv'
  BY <1>2 DEF RemoveFile, TypeOK, PersistInv, Goto
<1> QED  BY <1>4, <1>5, <1>6

LEMMA CreateFileTyped ==
  ASSUME TypeInv, NEW n \in Node, CreateFile(n)
  PROVE  TypeInv'
<1> USE DEF TypeInv
<1>1. Goto(n, "create") \/ Goto(n, "beat")
  BY DEF CreateFile
<1>2. pc' \in [Node -> Places] /\ disk' \in [Node -> Disks]
  <2>1. pc' \in [Node -> Places]
    BY <1>1 DEF TypeOK, Goto, Places
  <2>2. disk' = disk \/ disk' = [disk EXCEPT ![n] = TornDisk]
    BY DEF CreateFile
  <2>3. disk \in [Node -> Disks]
    BY DEF TypeOK
  <2>4. disk' \in [Node -> Disks]
    BY <2>2, <2>3, DisksTyped
  <2> QED  BY <2>1, <2>4
<1>3. TypeOK'
  BY <1>2 DEF CreateFile, TypeOK
<1>4. CallInv'
  BY <1>1 DEF CreateFile, TypeOK, CallInv, InLoop, Goto
<1>5. PersistInv'
  BY <1>1 DEF CreateFile, TypeOK, PersistInv, Goto
<1> QED  BY <1>3, <1>4, <1>5

LEMMA WriteFileTyped ==
  ASSUME TypeInv, NEW n \in Node, WriteFile(n)
  PROVE  TypeInv'
<1> USE DEF TypeInv
<1>1. commited_index[n] <= Len(log[n]) /\ commited_index[n] \in Nat
  BY DEF PersistInv, WriteFile, TypeOK
<1>2. SubSeq(log[n], 1, commited_index[n]) \in Seq(Entry)
  BY <1>1, SubSeqProperties, ElementOfSeq DEF TypeOK
<1>3. pc' \in [Node -> Places] /\ disk' \in [Node -> Disks]
  <2>1. pc' \in [Node -> Places]
    BY DEF WriteFile, TypeOK, Goto, Places
  <2> DEFINE saved == [state |-> "saved", term |-> node_term[n],
                       votedFor |-> voted_for[n], log |-> PersistedLog(n)]
  <2>2. saved \in Disks
    BY <1>2 DEF PersistedLog, TypeOK, Disks
  <2>3. disk' = disk \/ disk' = [disk EXCEPT ![n] = saved]
    BY DEF WriteFile
  <2>4. disk \in [Node -> Disks]
    BY DEF TypeOK
  <2> HIDE DEF saved
  <2>5. disk' \in [Node -> Disks]
    BY <2>2, <2>3, <2>4
  <2> QED  BY <2>1, <2>5
<1>4. TypeOK'
  BY <1>3 DEF WriteFile, TypeOK
<1>5. CallInv'
  BY DEF WriteFile, TypeOK, CallInv, InLoop, Goto
<1>6. PersistInv'
  BY DEF WriteFile, TypeOK, PersistInv, Goto
<1> QED  BY <1>4, <1>5, <1>6

LEMMA HeartbeatBeginTyped ==
  ASSUME TypeInv, NEW n \in Node, HeartbeatBegin(n)
  PROVE  TypeInv'
<1> USE DEF TypeInv
<1>1. pc' \in [Node -> Places] /\ conn' \in [Node -> Nat \ {0}]
      /\ \A m \in Node : conn'[m] <= Len(connections[m]) + 1
  BY FirstConnection DEF HeartbeatBegin, TypeOK, Goto, Places
<1>2. wire[n] = "idle"
  BY DEF HeartbeatBegin, AwaitsHeartbeat, CallInv, TypeOK
<1>3. TypeOK'
  BY <1>1 DEF HeartbeatBegin, TypeOK
<1>4. CallInv'
  BY <1>2 DEF HeartbeatBegin, TypeOK, CallInv, InLoop, Goto
<1>5. PersistInv'
  BY DEF HeartbeatBegin, TypeOK, PersistInv, Goto
<1> QED  BY <1>3, <1>4, <1>5

\* Dialling keeps the ticker in its loop and leaves a well-typed request.
LEMMA DialTyped ==
  ASSUME TypeInv, NEW n \in Node, NEW req \in Requests,
         pc[n] \in {"heartbeat", "campaign"}, InLoop(n), wire[n] = "idle",
         Dial(n, req), pc' = pc
  PROVE  /\ wire' \in [Node -> Wires]
         /\ request' \in [Node -> Requests \union {NoRequest}]
         /\ reply' = reply
         /\ conn' \in [Node -> Nat \ {0}]
         /\ \A m \in Node : conn'[m] <= Len(connections[m]) + 1
         /\ rare' \in Nat
         /\ CallInv'
<1> USE DEF TypeInv, TypeOK
<1>1. CASE wire' = [wire EXCEPT ![n] = "sent"] /\ UNCHANGED <<reply, conn, rare>>
           /\ request' = [request EXCEPT ![n] = req]
  BY <1>1 DEF CallInv, InLoop
<1>2. CASE /\ rare' = rare \/ Rarely("refuse")
           /\ conn' = [conn EXCEPT ![n] = @ + 1]
           /\ UNCHANGED <<wire, request, reply>>
  <2>2. conn' \in [Node -> Nat \ {0}] /\ \A m \in Node : conn'[m] <= Len(connections[m]) + 1
    BY <1>2, NextConnection
  <2>3. rare' \in Nat
    BY <1>2 DEF Rarely
  <2>4. CallInv'
    BY <1>2 DEF CallInv, InLoop
  <2> QED  BY <1>2, <2>2, <2>3, <2>4
<1> QED  BY <1>1, <1>2 DEF Dial

LEMMA HeartbeatSendTyped ==
  ASSUME TypeInv, NEW n \in Node, HeartbeatSend(n)
  PROVE  TypeInv'
<1> USE DEF TypeInv
<1> DEFINE next == next_index[n][Peer(n)]
<1>1. CASE HeartbeatPanics(log[n], next)
  <2>1. Goto(n, "dead") /\ UNCHANGED <<wire, request, reply, conn, rare>>
    BY <1>1 DEF HeartbeatSend
  <2>2. pc' \in [Node -> Places]
    BY <2>1 DEF TypeOK, Goto, Places
  <2>3. TypeOK'
    BY <2>1, <2>2 DEF HeartbeatSend, TypeOK
  <2>4. CallInv'
    BY <2>1 DEF HeartbeatSend, TypeOK, CallInv, InLoop, Goto
  <2>5. PersistInv'
    BY <2>1 DEF HeartbeatSend, TypeOK, PersistInv, Goto
  <2> QED  BY <2>3, <2>4, <2>5
<1>2. CASE ~HeartbeatPanics(log[n], next)
  <2> DEFINE req == AppendRequestOf(n, node_term[n], log[n], next, commited_index[n])
  <2>1. Dial(n, req) /\ pc' = pc
    BY <1>2 DEF HeartbeatSend
  <2>2. Peer(n) \in Node
    BY PeerIsNode DEF HeartbeatSend, InLoop, Peer, TypeOK
  <2>3. req \in Requests
    <3>1. /\ node_term[n] \in Nat /\ log[n] \in Seq(Entry)
          /\ next \in Nat /\ commited_index[n] \in Nat
      BY <2>2 DEF TypeOK
    <3>2. req \in AppendRequest
      <4> HIDE DEF next
      <4> QED  BY <1>2, <3>1, AppendRequestType
    <3> QED  BY <3>2 DEF Requests
  <2>4. /\ wire' \in [Node -> Wires]
        /\ request' \in [Node -> Requests \union {NoRequest}]
        /\ reply' = reply
        /\ conn' \in [Node -> Nat \ {0}]
        /\ \A m \in Node : conn'[m] <= Len(connections[m]) + 1
        /\ rare' \in Nat
        /\ CallInv'
    <3> HIDE DEF req
    <3> QED  BY <2>1, <2>3, DialTyped DEF HeartbeatSend
  <2>5. TypeOK'
    BY <2>1, <2>4 DEF HeartbeatSend, TypeOK
  <2>6. PersistInv'
    BY <2>1 DEF HeartbeatSend, PersistInv
  <2> QED  BY <2>4, <2>5, <2>6
<1> QED  BY <1>1, <1>2

\* A ticker that has its answer hangs up.
LEMMA HangUpTyped ==
  ASSUME TypeInv, NEW n \in Node, HangUp(n),
         \A m \in Node \ {n} : pc'[m] = pc[m] /\ conn'[m] = conn[m]
  PROVE  /\ wire' \in [Node -> Wires]
         /\ request' \in [Node -> Requests \union {NoRequest}]
         /\ reply' \in [Node -> Reply \union {NoReply}]
         /\ CallInv'
<1> USE DEF TypeInv
<1>1. /\ wire' \in [Node -> Wires]
      /\ request' \in [Node -> Requests \union {NoRequest}]
      /\ reply' \in [Node -> Reply \union {NoReply}]
  BY DEF HangUp, TypeOK
<1>2. CallInv'
  BY DEF HangUp, TypeOK, CallInv, InLoop
<1> QED  BY <1>1, <1>2

LEMMA HeartbeatReceiveTyped ==
  ASSUME TypeInv, NEW n \in Node, HeartbeatReceive(n)
  PROVE  TypeInv'
<1> USE DEF TypeInv
<1> DEFINE p == Peer(n)
<1>1. InLoop(n)
  BY DEF HeartbeatReceive, Answered, CallInv
<1>2. \/ Goto(n, "dead") /\ UNCHANGED conn
      \/ UNCHANGED pc /\ conn' = [conn EXCEPT ![n] = @ + 1]
  BY DEF HeartbeatReceive
<1>3. pc' \in [Node -> Places]
  BY <1>2 DEF TypeOK, Goto, Places
<1>4. conn' \in [Node -> Nat \ {0}] /\ \A m \in Node : conn'[m] <= Len(connections[m]) + 1
  <2>1. CASE UNCHANGED conn  BY <2>1 DEF TypeOK
  <2>2. CASE conn' = [conn EXCEPT ![n] = @ + 1]  BY <1>1, <2>2, NextConnection
  <2> QED  BY <1>2, <2>1, <2>2
<1>5. next_index' \in [Node -> [Node -> Nat]] /\ match_index' \in [Node -> [Node -> Nat]]
  <2>1. Len(log[n]) \in Nat
    BY LenProperties DEF TypeOK
  <2>2. p \in Node
    BY <1>1, PeerIsNode DEF Peer, InLoop, TypeOK
  <2>3. next_index[n][p] \in Nat /\ match_index[n][p] \in Nat
    BY <2>2 DEF TypeOK
  <2>4. next_index \in [Node -> [Node -> Nat]] /\ match_index \in [Node -> [Node -> Nat]]
    BY DEF TypeOK
  <2>5. \/ /\ next_index' = [next_index EXCEPT ![n][p] = Len(log[n]) + 1]
           /\ match_index' = [match_index EXCEPT ![n][p] =
                                IF log[n] = <<>> THEN @ ELSE Len(log[n])]
        \/ /\ next_index' = [next_index EXCEPT ![n][p] = IF @ > 1 THEN @ - 1 ELSE @]
           /\ UNCHANGED match_index
        \/ UNCHANGED <<next_index, match_index>>
    BY DEF HeartbeatReceive
  <2> DEFINE lower == IF next_index[n][p] > 1 THEN next_index[n][p] - 1
                      ELSE next_index[n][p]
             upper == IF log[n] = <<>> THEN match_index[n][p] ELSE Len(log[n])
  <2>6. lower \in Nat /\ upper \in Nat
    BY <2>1, <2>3
  <2>7. /\ next_index' \in {next_index, [next_index EXCEPT ![n][p] = lower],
                            [next_index EXCEPT ![n][p] = Len(log[n]) + 1]}
        /\ match_index' \in {match_index, [match_index EXCEPT ![n][p] = upper]}
    BY <2>5
  <2> HIDE DEF p, lower, upper
  <2>8. [next_index EXCEPT ![n][p] = lower] \in [Node -> [Node -> Nat]]
    BY <2>2, <2>4, <2>6
  <2>9. [next_index EXCEPT ![n][p] = Len(log[n]) + 1] \in [Node -> [Node -> Nat]]
    BY <2>1, <2>2, <2>4
  <2>12. [match_index EXCEPT ![n][p] = upper] \in [Node -> [Node -> Nat]]
    BY <2>2, <2>4, <2>6
  <2>10. next_index' \in [Node -> [Node -> Nat]]
    BY <2>4, <2>7, <2>8, <2>9
  <2>11. match_index' \in [Node -> [Node -> Nat]]
    BY <2>4, <2>7, <2>12
  <2> QED  BY <2>10, <2>11
<1>6. HangUp(n) /\ \A m \in Node \ {n} : pc'[m] = pc[m] /\ conn'[m] = conn[m]
  BY <1>2 DEF HeartbeatReceive, Goto, TypeOK
<1>7. /\ wire' \in [Node -> Wires]
      /\ request' \in [Node -> Requests \union {NoRequest}]
      /\ reply' \in [Node -> Reply \union {NoReply}]
      /\ CallInv'
  BY <1>6, HangUpTyped
<1>8. TypeOK'
  BY <1>3, <1>4, <1>5, <1>7 DEF HeartbeatReceive, TypeOK
<1>9. PersistInv'
  BY <1>2 DEF HeartbeatReceive, TypeOK, PersistInv, Goto
<1> QED  BY <1>7, <1>8, <1>9

LEMMA HeartbeatEndTyped ==
  ASSUME TypeInv, NEW n \in Node, HeartbeatEnd(n)
  PROVE  TypeInv'
<1> USE DEF TypeInv
<1>1. Len(log[n]) \in Nat
  BY LenProperties DEF TypeOK
<1>2. next_index' \in [Node -> [Node -> Nat]] /\ match_index' \in [Node -> [Node -> Nat]]
  BY <1>1 DEF HeartbeatEnd, TypeOK
<1>3. pc' \in [Node -> Places] /\ conn' \in [Node -> Nat \ {0}]
      /\ \A m \in Node : conn'[m] <= Len(connections[m]) + 1
  BY FirstConnection DEF HeartbeatEnd, TypeOK, Goto, Places
<1>4. wire[n] = "idle"
  BY DEF HeartbeatEnd, CallInv, TypeOK
<1>5. TypeOK'
  BY <1>2, <1>3 DEF HeartbeatEnd, TypeOK
<1>6. CallInv'
  BY <1>4 DEF HeartbeatEnd, TypeOK, CallInv, InLoop, Goto
<1>7. PersistInv'
  BY DEF HeartbeatEnd, TypeOK, PersistInv, Goto
<1> QED  BY <1>5, <1>6, <1>7

LEMMA CommitEntriesTyped ==
  ASSUME TypeInv, NEW n \in Node, CommitEntries(n)
  PROVE  TypeInv'
<1> USE DEF TypeInv
<1>1. PICK k \in CommitTargets(n) :
        /\ delivered' = [delivered EXCEPT ![n] =
                           @ \o DeliveredSlice(log[n], commited_index[n], k)]
        /\ \/ Goto(n, "dead") /\ UNCHANGED commited_index
           \/ /\ Goto(n, "check")
              /\ commited_index' = [commited_index EXCEPT ![n] = k]
  BY DEF CommitEntries
<1>2. k \in Nat
  BY DEF CommitTargets, QuorumMatches, TypeOK
<1>3. DeliveredSlice(log[n], commited_index[n], k) \in Seq(Entry)
  BY <1>2, DeliveredSliceType DEF TypeOK
<1>4. delivered' \in [Node -> Seq(Entry)]
  BY <1>1, <1>3, ConcatProperties DEF TypeOK
<1>5. pc' \in [Node -> Places] /\ commited_index' \in [Node -> Nat]
  <2>1. pc \in [Node -> Places] /\ commited_index \in [Node -> Nat]
    BY DEF TypeOK
  <2>2. Goto(n, "dead") \/ Goto(n, "check")
    BY <1>1
  <2>3. \/ commited_index' = commited_index
        \/ commited_index' = [commited_index EXCEPT ![n] = k]
    BY <1>1
  <2>4. pc' \in [Node -> Places]
    BY <2>1, <2>2 DEF Goto, Places
  <2>5. commited_index' \in [Node -> Nat]
    BY <1>2, <2>1, <2>3
  <2> QED  BY <2>4, <2>5
<1>6. wire[n] = "idle"
  BY DEF CommitEntries, AwaitsCommit, CallInv, TypeOK
<1>7. TypeOK'
  BY <1>4, <1>5 DEF CommitEntries, TypeOK
<1>8. CallInv'
  BY ZenonT(60), <1>1, <1>6 DEF CommitEntries, TypeOK, CallInv, InLoop, Goto
<1>9. PersistInv'
  BY ZenonT(60), <1>1 DEF CommitEntries, TypeOK, PersistInv, Goto
<1> QED  BY <1>7, <1>8, <1>9

LEMMA ElectionTimeoutTyped ==
  ASSUME TypeInv, NEW n \in Node, ElectionTimeout(n)
  PROVE  TypeInv'
<1> USE DEF TypeInv
<1>1. wire[n] = "idle"
  BY DEF ElectionTimeout, AwaitsElection, AwaitsCommit, CallInv, TypeOK
<1>2. TypeOK'
  BY DEF ElectionTimeout, TypeOK, Goto, Places
<1>3. CallInv'
  BY <1>1 DEF ElectionTimeout, TypeOK, CallInv, InLoop, Goto
<1>4. PersistInv'
  BY DEF ElectionTimeout, TypeOK, PersistInv, Goto
<1> QED  BY <1>2, <1>3, <1>4

LEMMA BecomeCandidateTyped ==
  ASSUME TypeInv, NEW n \in Node, BecomeCandidate(n)
  PROVE  TypeInv'
<1> USE DEF TypeInv
<1>1. pc' \in [Node -> Places]
  BY DEF BecomeCandidate, TypeOK, Goto, Places
<1>2. /\ node_type' \in [Node -> Role] /\ node_term' \in [Node -> Nat]
      /\ is_leader' \in [Node -> BOOLEAN]
  BY DEF BecomeCandidate, TypeOK, Role
<1>3. TypeOK'
  BY <1>1, <1>2 DEF BecomeCandidate, TypeOK
<1>4. CallInv'
  BY DEF BecomeCandidate, TypeOK, CallInv, InLoop, Goto
<1>5. PersistInv'
  BY DEF BecomeCandidate, TypeOK, PersistInv, Goto
<1> QED  BY <1>3, <1>4, <1>5

LEMMA CampaignBeginTyped ==
  ASSUME TypeInv, NEW n \in Node, CampaignBegin(n)
  PROVE  TypeInv'
<1> USE DEF TypeInv
<1>1. pc' \in [Node -> Places] /\ conn' \in [Node -> Nat \ {0}]
      /\ \A m \in Node : conn'[m] <= Len(connections[m]) + 1
  BY FirstConnection DEF CampaignBegin, TypeOK, Goto, Places
<1>2. /\ votes_recieved' \in [Node -> Seq(Node)]
      /\ voted_for' \in [Node -> Node \union {NoNode}]
  <2>1. FirstVotes(n) \in Seq(Node)
    BY DEF FirstVotes
  <2>2. votes_recieved' = [votes_recieved EXCEPT ![n] = FirstVotes(n)]
        /\ voted_for' = [voted_for EXCEPT ![n] = n]
    BY DEF CampaignBegin
  <2> QED  BY <2>1, <2>2 DEF TypeOK
<1>3. wire[n] = "idle"
  BY DEF CampaignBegin, CallInv, TypeOK
<1>4. TypeOK'
  BY <1>1, <1>2 DEF CampaignBegin, TypeOK
<1>5. CallInv'
  BY <1>3 DEF CampaignBegin, TypeOK, CallInv, InLoop, Goto
<1>6. PersistInv'
  BY DEF CampaignBegin, TypeOK, PersistInv, Goto
<1> QED  BY <1>4, <1>5, <1>6

LEMMA CampaignSendTyped ==
  ASSUME TypeInv, NEW n \in Node, CampaignSend(n)
  PROVE  TypeInv'
<1> USE DEF TypeInv
<1> DEFINE req == VoteRequestOf(n, node_term[n], log[n])
<1>1. req \in Requests
  BY VoteRequestType DEF TypeOK, Requests
<1>2. Dial(n, req) /\ pc' = pc
  BY DEF CampaignSend
<1> HIDE DEF req
<1>3. /\ wire' \in [Node -> Wires]
      /\ request' \in [Node -> Requests \union {NoRequest}]
      /\ reply' = reply
      /\ conn' \in [Node -> Nat \ {0}]
      /\ \A m \in Node : conn'[m] <= Len(connections[m]) + 1
      /\ rare' \in Nat
      /\ CallInv'
  BY <1>1, <1>2, DialTyped DEF CampaignSend
<1>4. TypeOK'
  BY <1>2, <1>3 DEF CampaignSend, TypeOK
<1>5. PersistInv'
  BY DEF CampaignSend, PersistInv
<1> QED  BY <1>3, <1>4, <1>5

LEMMA CampaignSlowTyped ==
  ASSUME TypeInv, NEW n \in Node, CampaignSlow(n)
  PROVE  TypeInv'
<1> USE DEF TypeInv
<1>1. pc' \in [Node -> Places] /\ conn' \in [Node -> Nat \ {0}]
      /\ \A m \in Node : conn'[m] <= Len(connections[m]) + 1
  BY FirstConnection DEF CampaignSlow, TypeOK, Goto, Places
<1>2. rare' \in Nat
  BY DEF CampaignSlow, Rarely, TypeOK
<1>3. TypeOK'
  BY <1>1, <1>2 DEF CampaignSlow, TypeOK
<1>4. CallInv'
  BY DEF CampaignSlow, TypeOK, CallInv, InLoop, Goto
<1>5. PersistInv'
  BY DEF CampaignSlow, TypeOK, PersistInv, Goto
<1> QED  BY <1>3, <1>4, <1>5

LEMMA VoteReceivedTyped ==
  ASSUME TypeInv, NEW n \in Node, VoteReceived(n)
  PROVE  TypeInv'
<1> USE DEF TypeInv
<1>1. InLoop(n) /\ reply[n] \in Reply
  BY DEF VoteReceived, CallInv
<1>2. votes_recieved' \in [Node -> Seq(Node)]
  <2>1. reply[n].node \in Node
    BY <1>1 DEF Reply
  <2>2. Append(votes_recieved[n], reply[n].node) \in Seq(Node)
    BY <2>1, AppendProperties DEF TypeOK
  <2>3. votes_recieved' = [votes_recieved EXCEPT ![n] =
                             Append(votes_recieved[n], reply[n].node)]
    BY DEF VoteReceived
  <2> QED  BY <2>2, <2>3 DEF TypeOK
<1>3. \/ /\ Goto(n, "won")
         /\ conn' = [conn EXCEPT ![n] = 1]
         /\ next_index' = [next_index EXCEPT ![n] = FreshNextIndex(n)]
         /\ match_index' = [match_index EXCEPT ![n] = [m \in Node |-> 0]]
      \/ /\ conn' = [conn EXCEPT ![n] = @ + 1]
         /\ UNCHANGED <<pc, next_index, match_index>>
  BY DEF VoteReceived
<1>4. pc' \in [Node -> Places]
  BY <1>3 DEF TypeOK, Goto, Places
<1>5. conn' \in [Node -> Nat \ {0}] /\ \A m \in Node : conn'[m] <= Len(connections[m]) + 1
  BY <1>1, <1>3, FirstConnection, NextConnection
<1>6. next_index' \in [Node -> [Node -> Nat]] /\ match_index' \in [Node -> [Node -> Nat]]
  <2>1. Len(log[n]) \in Nat
    BY LenProperties DEF TypeOK
  <2>2. FreshNextIndex(n) \in [Node -> Nat] /\ [m \in Node |-> 0] \in [Node -> Nat]
    BY <2>1 DEF FreshNextIndex
  <2>3. next_index' \in [Node -> [Node -> Nat]]
    BY ZenonT(60), <1>3, <2>2 DEF TypeOK
  <2>4. match_index' \in [Node -> [Node -> Nat]]
    BY ZenonT(60), <1>3, <2>2 DEF TypeOK
  <2> QED  BY <2>3, <2>4
<1>7. HangUp(n) /\ \A m \in Node \ {n} : pc'[m] = pc[m] /\ conn'[m] = conn[m]
  BY ZenonT(60), <1>3 DEF VoteReceived, Goto, TypeOK
<1>8. /\ wire' \in [Node -> Wires]
      /\ request' \in [Node -> Requests \union {NoRequest}]
      /\ reply' \in [Node -> Reply \union {NoReply}]
      /\ CallInv'
  BY <1>7, HangUpTyped
<1>9. TypeOK'
  BY <1>2, <1>4, <1>5, <1>6, <1>8 DEF VoteReceived, TypeOK
<1>10. PersistInv'
  BY ZenonT(60), <1>3 DEF VoteReceived, TypeOK, PersistInv, Goto
<1> QED  BY <1>8, <1>9, <1>10

LEMMA VoteDeniedTyped ==
  ASSUME TypeInv, NEW n \in Node, VoteDenied(n)
  PROVE  TypeInv'
<1> USE DEF TypeInv
<1>1. InLoop(n) /\ reply[n].term \in Nat
  BY DEF VoteDenied, CallInv, Reply
<1>2. \/ /\ Goto(n, "lost")
         /\ conn' = [conn EXCEPT ![n] = 1]
         /\ seen_term' = [seen_term EXCEPT ![n] = reply[n].term]
         /\ voted_for' = [voted_for EXCEPT ![n] = NoNode]
      \/ /\ conn' = [conn EXCEPT ![n] = @ + 1]
         /\ UNCHANGED <<pc, seen_term, voted_for>>
  BY DEF VoteDenied
<1>3. pc' \in [Node -> Places]
  BY <1>2 DEF TypeOK, Goto, Places
<1>4. conn' \in [Node -> Nat \ {0}] /\ \A m \in Node : conn'[m] <= Len(connections[m]) + 1
  BY <1>1, <1>2, FirstConnection, NextConnection
<1>5. seen_term' \in [Node -> Nat] /\ voted_for' \in [Node -> Node \union {NoNode}]
  BY <1>1, <1>2 DEF TypeOK
<1>6. HangUp(n) /\ \A m \in Node \ {n} : pc'[m] = pc[m] /\ conn'[m] = conn[m]
  BY <1>2 DEF VoteDenied, Goto, TypeOK
<1>7. /\ wire' \in [Node -> Wires]
      /\ request' \in [Node -> Requests \union {NoRequest}]
      /\ reply' \in [Node -> Reply \union {NoReply}]
      /\ CallInv'
  BY <1>6, HangUpTyped
<1>8. TypeOK'
  BY <1>3, <1>4, <1>5, <1>7 DEF VoteDenied, TypeOK
<1>9. PersistInv'
  BY <1>2 DEF VoteDenied, TypeOK, PersistInv, Goto
<1> QED  BY <1>7, <1>8, <1>9

LEMMA VoteMissingTyped ==
  ASSUME TypeInv, NEW n \in Node, VoteMissing(n)
  PROVE  TypeInv'
<1> USE DEF TypeInv
<1>1. InLoop(n)
  BY DEF VoteMissing, CallInv
<1>2. \/ Goto(n, "dead") /\ UNCHANGED conn
      \/ UNCHANGED pc /\ conn' = [conn EXCEPT ![n] = @ + 1]
  BY DEF VoteMissing
<1>3. pc' \in [Node -> Places]
  BY <1>2 DEF TypeOK, Goto, Places
<1>4. conn' \in [Node -> Nat \ {0}] /\ \A m \in Node : conn'[m] <= Len(connections[m]) + 1
  <2>1. CASE UNCHANGED conn  BY <2>1 DEF TypeOK
  <2>2. CASE conn' = [conn EXCEPT ![n] = @ + 1]  BY <1>1, <2>2, NextConnection
  <2> QED  BY <1>2, <2>1, <2>2
<1>5. HangUp(n) /\ \A m \in Node \ {n} : pc'[m] = pc[m] /\ conn'[m] = conn[m]
  BY <1>2 DEF VoteMissing, Goto, TypeOK
<1>6. /\ wire' \in [Node -> Wires]
      /\ request' \in [Node -> Requests \union {NoRequest}]
      /\ reply' \in [Node -> Reply \union {NoReply}]
      /\ CallInv'
  BY <1>5, HangUpTyped
<1>7. TypeOK'
  BY <1>3, <1>4, <1>6 DEF VoteMissing, TypeOK
<1>8. PersistInv'
  BY <1>2 DEF VoteMissing, TypeOK, PersistInv, Goto
<1> QED  BY <1>6, <1>7, <1>8

LEMMA CampaignEndTyped ==
  ASSUME TypeInv, NEW n \in Node, CampaignEnd(n)
  PROVE  TypeInv'
<1> USE DEF TypeInv
<1>1. pc' \in [Node -> Places] /\ conn' \in [Node -> Nat \ {0}]
      /\ \A m \in Node : conn'[m] <= Len(connections[m]) + 1
  BY FirstConnection DEF CampaignEnd, TypeOK, Goto, Places
<1>2. wire[n] = "idle"
  BY DEF CampaignEnd, CallInv, TypeOK
<1>3. TypeOK'
  BY <1>1 DEF CampaignEnd, TypeOK
<1>4. CallInv'
  BY <1>2 DEF CampaignEnd, TypeOK, CallInv, InLoop, Goto
<1>5. PersistInv'
  BY DEF CampaignEnd, TypeOK, PersistInv, Goto
<1> QED  BY <1>3, <1>4, <1>5

LEMMA BecomeLeaderTyped ==
  ASSUME TypeInv, NEW n \in Node, BecomeLeader(n)
  PROVE  TypeInv'
<1> USE DEF TypeInv
<1>1. /\ pc' \in [Node -> Places] /\ node_type' \in [Node -> Role]
      /\ is_leader' \in [Node -> BOOLEAN]
  BY DEF BecomeLeader, TypeOK, Goto, Places, Role
<1>2. TypeOK'
  BY <1>1 DEF BecomeLeader, TypeOK
<1>3. CallInv'
  BY DEF BecomeLeader, TypeOK, CallInv, InLoop, Goto
<1>4. PersistInv'
  BY DEF BecomeLeader, TypeOK, PersistInv, Goto
<1> QED  BY <1>2, <1>3, <1>4

LEMMA StepDownTyped ==
  ASSUME TypeInv, NEW n \in Node, StepDown(n)
  PROVE  TypeInv'
<1> USE DEF TypeInv
<1>1. /\ pc' \in [Node -> Places] /\ node_type' \in [Node -> Role]
      /\ node_term' \in [Node -> Nat] /\ seen_term' \in [Node -> Nat]
      /\ is_leader' \in [Node -> BOOLEAN]
  BY DEF StepDown, TypeOK, Goto, Places, Role
<1>2. TypeOK'
  BY <1>1 DEF StepDown, TypeOK
<1>3. CallInv'
  BY DEF StepDown, TypeOK, CallInv, InLoop, Goto
<1>4. PersistInv'
  BY DEF StepDown, TypeOK, PersistInv, Goto
<1> QED  BY <1>2, <1>3, <1>4

LEMMA TickEndTyped ==
  ASSUME TypeInv, NEW n \in Node, TickEnd(n)
  PROVE  TypeInv'
<1> USE DEF TypeInv
<1>1. pc' \in [Node -> Places] /\ recieved_leader_heartbeat' \in [Node -> BOOLEAN]
  BY DEF TickEnd, TypeOK, Goto, Places
<1>2. wire[n] = "idle"
  BY DEF TickEnd, AwaitsElection, AwaitsCommit, CallInv, TypeOK
<1>3. TypeOK'
  BY <1>1 DEF TickEnd, TypeOK
<1>4. CallInv'
  BY <1>2 DEF TickEnd, TypeOK, CallInv, InLoop, Goto
<1>5. PersistInv'
  BY DEF TickEnd, TypeOK, PersistInv, Goto
<1> QED  BY <1>3, <1>4, <1>5

-----------------------------------------------------------------------------
(* Requests on their way, and the listener's actions *)

LEMMA LeftTyped ==
  ASSUME TypeInv, NEW n \in Node
  PROVE  /\ \A left \in LeftOf(n, {request[n], Torn, Silence}) : left \subseteq Orphans
         /\ \A left \in LeftOf(n, {request[n], Silence}) : left \subseteq Orphans
         /\ \A left \in LeftOf(n, {Torn}) : left \subseteq Orphans
<1> USE DEF TypeInv
<1>1. CASE wire[n] = "sent"
  <2>1. InLoop(n) /\ request[n] \in Requests
    BY <1>1 DEF CallInv
  <2>2. Peer(n) \in Node
    BY <2>1, PeerIsNode DEF Peer, InLoop, TypeOK
  <2> QED  BY <1>1, <2>1, <2>2 DEF LeftOf, Orphans
<1>2. CASE wire[n] # "sent"
  BY <1>2 DEF LeftOf
<1> QED  BY <1>1, <1>2

\* What an orphan has in the place of a request is no request.
LEMMA InboxTyped ==
  ASSUME TypeInv, NEW m \in Node, NEW msg \in Inbox(m)
  PROVE  /\ msg.req \in Requests \union {Torn, Silence, Held}
         /\ msg.req.type \in {"RequestVote", "AppendEntries"} => msg.req \in Requests
         /\ msg.from # NoNode => msg.from \in Callers(m)
<1> USE DEF TypeInv
<1>1. ASSUME NEW n \in Callers(m), msg = [from |-> n, to |-> m, req |-> request[n]]
      PROVE  /\ msg.req \in Requests
             /\ msg.from \in Callers(m)
  BY <1>1 DEF Callers, CallInv
<1>2. ASSUME msg \in orphans
      PROVE  msg.req \in Requests \union {Torn, Silence, Held} /\ msg.from = NoNode
  BY <1>2 DEF TypeOK, Orphans
<1>3. /\ msg.req \in Requests \union {Torn, Silence, Held}
      /\ msg.from # NoNode => msg.from \in Callers(m)
  BY <1>1, <1>2 DEF Inbox
<1>4. \A r \in {Torn, Silence, Held} : r.type \notin {"RequestVote", "AppendEntries"}
  BY DEF Torn, Silence, Held
<1> QED  BY <1>3, <1>4

LEMMA PanicTyped ==
  ASSUME TypeInv, NEW m \in Node, NEW msg, Panic(m, msg), UNCHANGED <<pc, conn>>
  PROVE  /\ serving' \in [Node -> BOOLEAN]
         /\ orphans' \subseteq Orphans
         /\ wire' \in [Node -> Wires]
         /\ UNCHANGED <<request, reply>>
         /\ CallInv'
<1> USE DEF TypeInv
<1>1. PICK f \in [Callers(m) -> {"closed", "failed", "reset"}] :
        wire' = [n \in Node |-> IF n \in Callers(m) THEN f[n] ELSE wire[n]]
  BY DEF Panic
<1>2. serving' \in [Node -> BOOLEAN] /\ orphans' \subseteq Orphans /\ UNCHANGED <<request, reply>>
  BY DEF Panic, TypeOK
<1>3. wire' \in [Node -> Wires]
  BY <1>1 DEF TypeOK, Wires
<1>4. ASSUME NEW n \in Node
      PROVE  /\ wire'[n] # "idle" => wire[n] # "idle"
             /\ wire'[n] = "replied" => wire[n] = "replied"
  BY <1>1 DEF Callers
<1>5. CallInv'
  BY <1>2, <1>4 DEF CallInv, InLoop
<1> QED  BY <1>2, <1>3, <1>5

LEMMA RespondTyped ==
  ASSUME TypeInv, NEW m \in Node, NEW msg \in Inbox(m), NEW ok \in BOOLEAN,
         node_term'[m] \in Nat, Respond(m, msg, ok), UNCHANGED <<pc, conn>>
  PROVE  /\ serving' \in [Node -> BOOLEAN]
         /\ orphans' \subseteq Orphans
         /\ wire' \in [Node -> Wires]
         /\ reply' \in [Node -> Reply \union {NoReply}]
         /\ UNCHANGED request
         /\ CallInv'
<1> USE DEF TypeInv
<1>1. CASE /\ msg.from # NoNode
           /\ wire' = [wire EXCEPT ![msg.from] = "replied"]
           /\ reply' = [reply EXCEPT ![msg.from] =
                          [node |-> m, term |-> node_term'[m], ok |-> ok]]
           /\ UNCHANGED <<request, orphans, serving>>
  <2>1. msg.from \in Node /\ wire[msg.from] = "sent"
    BY <1>1, InboxTyped DEF Callers
  <2>2. [node |-> m, term |-> node_term'[m], ok |-> ok] \in Reply
    BY DEF Reply
  <2>3. wire' \in [Node -> Wires] /\ reply' \in [Node -> Reply \union {NoReply}]
    BY <1>1, <2>1, <2>2 DEF TypeOK, Wires
  <2>4. CallInv'
    BY <1>1, <2>1, <2>2 DEF TypeOK, CallInv, InLoop
  <2> QED  BY <1>1, <2>3, <2>4 DEF TypeOK
<1>2. CASE orphans' = orphans \ {msg} /\ UNCHANGED <<wire, request, reply, serving>>
  BY <1>2 DEF TypeOK, CallInv, InLoop, Wires
<1>3. CASE Panic(m, msg)
  BY <1>3, PanicTyped DEF TypeOK
<1> QED  BY <1>1, <1>2, <1>3 DEF Respond

LEMMA GrantVoteTyped ==
  ASSUME TypeInv, NEW m \in Node, NEW msg \in Inbox(m), GrantVote(m, msg)
  PROVE  TypeInv'
<1> USE DEF TypeInv
<1>1. msg.req \in VoteRequest
  BY InboxTyped DEF GrantVote, CanServe, Requests, AppendRequest
<1>2. msg.req.candidate \in Node /\ msg.req.term \in Nat
  BY <1>1 DEF VoteRequest
<1>3. /\ voted_for' \in [Node -> Node \union {NoNode}]
      /\ node_type' \in [Node -> Role]
      /\ node_term' \in [Node -> Nat]
      /\ recieved_leader_heartbeat' \in [Node -> BOOLEAN]
  BY <1>2 DEF GrantVote, TypeOK, Role
<1>4. /\ serving' \in [Node -> BOOLEAN]
      /\ orphans' \subseteq Orphans
      /\ wire' \in [Node -> Wires]
      /\ reply' \in [Node -> Reply \union {NoReply}]
      /\ UNCHANGED request
      /\ CallInv'
  BY <1>3, RespondTyped DEF GrantVote
<1>5. TypeOK'
  BY <1>3, <1>4 DEF GrantVote, TypeOK, Wires
<1>6. PersistInv'
  BY DEF GrantVote, PersistInv
<1> QED  BY <1>4, <1>5, <1>6

LEMMA DenyVoteTyped ==
  ASSUME TypeInv, NEW m \in Node, NEW msg \in Inbox(m), DenyVote(m, msg)
  PROVE  TypeInv'
<1> USE DEF TypeInv
<1>1. node_term'[m] \in Nat
  BY DEF DenyVote, TypeOK
<1>2. /\ serving' \in [Node -> BOOLEAN]
      /\ orphans' \subseteq Orphans
      /\ wire' \in [Node -> Wires]
      /\ reply' \in [Node -> Reply \union {NoReply}]
      /\ UNCHANGED request
      /\ CallInv'
  BY <1>1, RespondTyped DEF DenyVote
<1>3. TypeOK'
  BY <1>2 DEF DenyVote, TypeOK, Wires
<1>4. PersistInv'
  BY DEF DenyVote, PersistInv
<1> QED  BY <1>2, <1>3, <1>4

LEMMA AcceptAppendTyped ==
  ASSUME TypeInv, NEW m \in Node, NEW msg \in Inbox(m), AcceptAppend(m, msg)
  PROVE  TypeInv'
<1> USE DEF TypeInv
<1> DEFINE req == msg.req
           merged == MergedLog(log[m], req)
           slice == DeliveredSlice(merged, commited_index[m], req.leaderCommit)
<1>1. req \in AppendRequest
  BY InboxTyped DEF AcceptAppend, CanServe, Requests, VoteRequest
<1>2. req.leader \in Node /\ req.term \in Nat /\ req.leaderCommit \in Nat
  BY <1>1 DEF AppendRequest
<1>3. merged \in Seq(Entry)
  <2>1. req.prevLogIndex <= Len(log[m]) /\ log[m] \in Seq(Entry)
    BY DEF AcceptAppend, AppendAccepted, TypeOK
  <2> HIDE DEF req
  <2> QED  BY <1>1, <2>1, MergedLogType
<1>4. slice \in Seq(Entry)
  BY <1>2, <1>3, DeliveredSliceType DEF TypeOK
<1>5. /\ node_term' = [node_term EXCEPT ![m] = req.term]
      /\ voted_for' = [voted_for EXCEPT ![m] =
                         IF req.term > node_term[m] THEN req.leader ELSE @]
      /\ node_type' = [node_type EXCEPT ![m] = "Follower"]
      /\ recieved_leader_heartbeat' = [recieved_leader_heartbeat EXCEPT ![m] = TRUE]
      /\ log' = [log EXCEPT ![m] = merged]
      /\ delivered' = [delivered EXCEPT ![m] = @ \o slice]
      /\ UNCHANGED <<votes_recieved, next_index, match_index, is_leader, pc, conn,
                     seen_term, disk, rare>>
  BY DEF AcceptAppend, RoleAfterAppend
<1>6. \/ /\ commited_index' = [commited_index EXCEPT ![m] =
              IF req.leaderCommit > @ THEN req.leaderCommit ELSE @]
         /\ Respond(m, msg, TRUE)
      \/ UNCHANGED commited_index /\ Panic(m, msg)
  BY DEF AcceptAppend
<1> HIDE DEF req, merged, slice
<1>7. /\ node_term' \in [Node -> Nat]
      /\ voted_for' \in [Node -> Node \union {NoNode}]
      /\ node_type' \in [Node -> Role]
      /\ recieved_leader_heartbeat' \in [Node -> BOOLEAN]
  BY <1>2, <1>5 DEF TypeOK, Role
<1>8. log' \in [Node -> Seq(Entry)] /\ delivered' \in [Node -> Seq(Entry)]
  BY <1>3, <1>4, <1>5, ConcatProperties DEF TypeOK
<1>9. commited_index' \in [Node -> Nat]
  <2>1. \/ commited_index' = [commited_index EXCEPT ![m] =
              IF req.leaderCommit > @ THEN req.leaderCommit ELSE @]
        \/ commited_index' = commited_index
    BY <1>6
  <2>2. commited_index \in [Node -> Nat]
    BY DEF TypeOK
  <2> QED  BY <1>2, <2>1, <2>2
<1>10. /\ serving' \in [Node -> BOOLEAN]
       /\ orphans' \subseteq Orphans
       /\ wire' \in [Node -> Wires]
       /\ reply' \in [Node -> Reply \union {NoReply}]
       /\ UNCHANGED request
       /\ CallInv'
  <2>1. node_term'[m] \in Nat  BY <1>7
  <2>2. UNCHANGED <<pc, conn>>  BY <1>5
  <2>3. CASE Respond(m, msg, TRUE)  BY <2>1, <2>2, <2>3, RespondTyped
  <2>4. CASE Panic(m, msg)  BY <2>2, <2>4, PanicTyped DEF TypeOK
  <2> QED  BY <1>6, <2>3, <2>4
<1>11. TypeOK'
  BY <1>5, <1>7, <1>8, <1>9, <1>10 DEF TypeOK, Wires
<1>12. PersistInv'
  <2>1. pc[m] \notin {"persist", "create"}
    BY DEF AcceptAppend, CanServe, LockFree
  <2>2. ASSUME NEW n \in Node \ {m}
        PROVE  log'[n] = log[n] /\ commited_index'[n] = commited_index[n]
    BY <1>5, <1>6 DEF TypeOK
  <2> QED  BY <1>5, <2>1, <2>2 DEF PersistInv
<1> QED  BY <1>10, <1>11, <1>12

LEMMA RejectAppendTyped ==
  ASSUME TypeInv, NEW m \in Node, NEW msg \in Inbox(m), RejectAppend(m, msg)
  PROVE  TypeInv'
<1> USE DEF TypeInv
<1>1. node_term'[m] \in Nat /\ UNCHANGED <<pc, conn>>
  BY DEF RejectAppend, TypeOK
<1>2. /\ serving' \in [Node -> BOOLEAN]
      /\ orphans' \subseteq Orphans
      /\ wire' \in [Node -> Wires]
      /\ reply' \in [Node -> Reply \union {NoReply}]
      /\ UNCHANGED request
      /\ CallInv'
  <2>1. CASE Respond(m, msg, FALSE)  BY <1>1, <2>1, RespondTyped
  <2>2. CASE Panic(m, msg)  BY <1>1, <2>2, PanicTyped DEF TypeOK
  <2> QED  BY <2>1, <2>2 DEF RejectAppend
<1>3. TypeOK'
  BY <1>2 DEF RejectAppend, TypeOK, Wires
<1>4. PersistInv'
  BY DEF RejectAppend, PersistInv
<1> QED  BY <1>2, <1>3, <1>4

LEMMA TornRequestTyped ==
  ASSUME TypeInv, NEW m \in Node, NEW msg \in Inbox(m), TornRequest(m, msg)
  PROVE  TypeInv'
<1> USE DEF TypeInv
<1>1. /\ serving' \in [Node -> BOOLEAN]
      /\ orphans' \subseteq Orphans
      /\ wire' \in [Node -> Wires]
      /\ UNCHANGED <<request, reply>>
      /\ CallInv'
  BY PanicTyped DEF TornRequest
<1>2. TypeOK'
  BY <1>1 DEF TornRequest, TypeOK, Wires
<1>3. PersistInv'
  BY DEF TornRequest, PersistInv
<1> QED  BY <1>1, <1>2, <1>3

LEMMA HoldConnectionTyped ==
  ASSUME TypeInv, NEW m \in Node, NEW msg \in Inbox(m), HoldConnection(m, msg)
  PROVE  TypeInv'
<1> USE DEF TypeInv
<1>1. HeldAt(m) \in Orphans
  BY DEF HeldAt, Orphans
<1>2. orphans' \subseteq Orphans
  BY <1>1 DEF HoldConnection, TypeOK
<1>3. TypeOK'
  BY <1>2 DEF HoldConnection, TypeOK
<1>4. CallInv' /\ PersistInv'
  BY DEF HoldConnection, CallInv, PersistInv, InLoop
<1> QED  BY <1>3, <1>4

-----------------------------------------------------------------------------
(* Broken connections and the process *)

LEMMA BreakCallTyped ==
  ASSUME TypeInv, NEW n \in Node, BreakCall(n)
  PROVE  TypeInv'
<1> USE DEF TypeInv
<1>1. orphans' \subseteq Orphans
  BY LeftTyped DEF BreakCall, TypeOK
<1>2. wire' \in [Node -> Wires] /\ rare' \in Nat
  <2>1. rare' \in Nat
    BY DEF BreakCall, TypeOK, Rarely
  <2>2. \E w \in {"failed", "reset", "lost"} : wire' = [wire EXCEPT ![n] = w]
    BY DEF BreakCall
  <2> QED  BY <2>1, <2>2 DEF TypeOK, Wires
<1>3. TypeOK'
  BY <1>1, <1>2 DEF BreakCall, TypeOK, Wires
<1>4. CallInv'
  BY DEF BreakCall, TypeOK, CallInv, InLoop
<1>5. PersistInv'
  BY DEF BreakCall, PersistInv
<1> QED  BY <1>3, <1>4, <1>5

LEMMA CrashTyped ==
  ASSUME TypeInv, NEW n \in Node, Crash(n)
  PROVE  TypeInv'
<1> USE DEF TypeInv
<1>1. orphans' \subseteq Orphans
  BY LeftTyped DEF Crash, TypeOK
<1>2. PICK f \in [Callers(n) -> {"closed", "failed", "reset", "lost"}] :
        wire' = [m \in Node |-> IF m = n THEN "idle"
                                ELSE IF m \in Callers(n) THEN f[m] ELSE wire[m]]
  BY DEF Crash
<1>3. wire' \in [Node -> Wires] /\ rare' \in Nat
  <2>1. rare' \in Nat
    <3>1. rare' = rare + 1
      BY DEF Crash, Rarely
    <3> QED  BY <3>1 DEF TypeOK
  <2>2. ASSUME NEW m \in Node
        PROVE  (IF m = n THEN "idle"
                ELSE IF m \in Callers(n) THEN f[m] ELSE wire[m]) \in Wires
    BY DEF TypeOK, Wires
  <2>3. wire' \in [Node -> Wires]
    BY <1>2, <2>2
  <2> QED  BY <2>1, <2>3
<1>4. pc' \in [Node -> Places] /\ conn' \in [Node -> Nat \ {0}]
      /\ \A m \in Node : conn'[m] <= Len(connections[m]) + 1
  BY FirstConnection DEF Crash, TypeOK, Goto, Places
<1>5. /\ request' \in [Node -> Requests \union {NoRequest}]
      /\ reply' \in [Node -> Reply \union {NoReply}]
  BY DEF Crash, TypeOK
<1>6. /\ node_term' \in [Node -> Nat]
      /\ voted_for' \in [Node -> Node \union {NoNode}]
      /\ node_type' \in [Node -> Role]
      /\ commited_index' \in [Node -> Nat]
      /\ seen_term' \in [Node -> Nat]
  BY DEF Crash, TypeOK, Role
<1>7. /\ log' \in [Node -> Seq(Entry)]
      /\ votes_recieved' \in [Node -> Seq(Node)]
      /\ delivered' \in [Node -> Seq(Entry)]
  <2>1. <<>> \in Seq(Entry) /\ <<>> \in Seq(Node)
    OBVIOUS
  <2> QED  BY <2>1 DEF Crash, TypeOK
<1>8. /\ next_index' \in [Node -> [Node -> Nat]]
      /\ match_index' \in [Node -> [Node -> Nat]]
  <2>1. [m \in Node |-> 0] \in [Node -> Nat]
    OBVIOUS
  <2>2. next_index' \in [Node -> [Node -> Nat]]
    BY <2>1 DEF Crash, TypeOK
  <2>3. match_index' \in [Node -> [Node -> Nat]]
    BY <2>1 DEF Crash, TypeOK
  <2> QED  BY <2>2, <2>3
<1>9. /\ recieved_leader_heartbeat' \in [Node -> BOOLEAN]
      /\ is_leader' \in [Node -> BOOLEAN]
      /\ serving' \in [Node -> BOOLEAN]
      /\ disk' \in [Node -> Disks]
  BY DEF Crash, TypeOK
<1>10. TypeOK'
  BY <1>1, <1>3, <1>4, <1>5, <1>6, <1>7, <1>8, <1>9 DEF TypeOK, Wires
<1>11. ASSUME NEW m \in Node, wire'[m] # "idle"
       PROVE  /\ m # n /\ wire[m] # "idle"
              /\ wire'[m] = "replied" => wire[m] = "replied"
  BY <1>2, <1>11 DEF Callers
<1>12. ASSUME NEW m \in Node, m # n
       PROVE  /\ pc'[m] = pc[m] /\ conn'[m] = conn[m]
              /\ request'[m] = request[m] /\ reply'[m] = reply[m]
              /\ log'[m] = log[m] /\ commited_index'[m] = commited_index[m]
  BY <1>12 DEF Crash, TypeOK, Goto
<1>13. CallInv'
  BY <1>3, <1>11, <1>12 DEF CallInv, InLoop, Wires
<1>14. PersistInv'
  <2>1. pc'[n] = "down"
    BY DEF Crash, TypeOK, Goto
  <2> QED  BY <1>12, <2>1 DEF PersistInv
<1> QED  BY <1>10, <1>13, <1>14

LEMMA RestartTyped ==
  ASSUME TypeInv, NEW n \in Node, Restart(n)
  PROVE  TypeInv'
<1> USE DEF TypeInv
<1>1. disk[n] \in Disks
  BY DEF TypeOK
<1>2. /\ disk[n].term \in Nat /\ disk[n].votedFor \in Node \union {NoNode}
      /\ disk[n].log \in Seq(Entry)
  BY <1>1 DEF Disks
<1>3. disk' \in [Node -> Disks]
  <2>1. [disk[n] EXCEPT !.state = "saved"] \in Disks
    BY <1>1 DEF Disks
  <2>2. disk' = [disk EXCEPT ![n] = [disk[n] EXCEPT !.state = "saved"]]
    BY DEF Restart
  <2> QED  BY <2>1, <2>2 DEF TypeOK
<1>4. /\ pc' \in [Node -> Places] /\ serving' \in [Node -> BOOLEAN]
      /\ node_term' \in [Node -> Nat]
      /\ voted_for' \in [Node -> Node \union {NoNode}]
      /\ log' \in [Node -> Seq(Entry)]
  BY <1>2 DEF Restart, TypeOK, Goto, Places
<1>5. TypeOK'
  BY <1>3, <1>4 DEF Restart, TypeOK
<1>6. CallInv'
  BY DEF Restart, TypeOK, CallInv, InLoop, Goto
<1>7. PersistInv'
  BY DEF Restart, TypeOK, PersistInv, Goto
<1> QED  BY <1>5, <1>6, <1>7

-----------------------------------------------------------------------------

LEMMA NextTyped == TypeInv /\ [Next]_vars => TypeInv'
<1> SUFFICES ASSUME TypeInv, [Next]_vars
             PROVE  TypeInv'
  OBVIOUS
<1>1. ASSUME NEW n \in Node, Ticker(n)
      PROVE  TypeInv'
  BY <1>1, RemoveFileTyped, CreateFileTyped, WriteFileTyped, HeartbeatBeginTyped,
     HeartbeatSendTyped, HeartbeatReceiveTyped, HeartbeatEndTyped,
     CommitEntriesTyped, ElectionTimeoutTyped, BecomeCandidateTyped,
     CampaignBeginTyped, CampaignSendTyped, CampaignSlowTyped, VoteReceivedTyped,
     VoteDeniedTyped, VoteMissingTyped, CampaignEndTyped, BecomeLeaderTyped,
     StepDownTyped, TickEndTyped
  DEF Ticker
<1>2. ASSUME NEW n \in Node, Listener(n)
      PROVE  TypeInv'
  BY <1>2, GrantVoteTyped, DenyVoteTyped, AcceptAppendTyped, RejectAppendTyped,
     TornRequestTyped, HoldConnectionTyped
  DEF Listener
<1>3. ASSUME NEW n \in Node, NEW v \in Value, AppendEntry(n, v)
      PROVE  TypeInv'
  BY <1>3, AppendEntryTyped
<1>4. ASSUME NEW n \in Node, BreakCall(n) \/ Crash(n) \/ Restart(n)
      PROVE  TypeInv'
  BY <1>4, BreakCallTyped, CrashTyped, RestartTyped
<1>5. CASE UNCHANGED vars
  BY <1>5 DEF vars, TypeInv, TypeOK, CallInv, PersistInv, InLoop
<1> QED  BY <1>1, <1>2, <1>3, <1>4, <1>5 DEF Next

\* Every variable keeps its type in every behaviour, however the tasks, the
\* failures and the restarts interleave: indexes, terms and what requests carry of
\* them are naturals, and an answer that is counted names a node.  TypeInv, which
\* is proved with it, says that what persist is about to cut is long enough.
THEOREM TypeCorrect == Spec => []TypeOK
<1>1. Spec => []TypeInv
  BY InitTyped, NextTyped, PTL DEF Spec
<1>2. TypeInv => TypeOK
  BY DEF TypeInv
<1> QED  BY <1>1, <1>2, PTL
=============================================================================
