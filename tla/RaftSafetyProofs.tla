-------------------------- MODULE RaftSafetyProofs --------------------------
(***************************************************************************)
(* The safety properties that hold for every cluster, every connections    *)
(* map, every bound and every failure: LeaderHasQuorum,                    *)
(* RequestSpeaksForSender, LeaderAppendOnly, LeaderIndexBounds,            *)
(* DeliveredOnce and SomeoneCanAnswer; and OneLeaderPerTerm, in the        *)
(* behaviours in which no node takes a step of Lapse.                      *)
(*                                                                         *)
(* TypeInv /\ LeaderInv is inductive and carries the first three.  A step  *)
(* disturbs few of the variables that LeaderInv reads, and of one node:    *)
(* every step of the listener, and every step of another node's ticker,    *)
(* leaves a node Quiet, and LeaderInv survives that (QuietNode).  What is  *)
(* left to prove of each ticker action is the part of LeaderInv about its  *)
(* own node.  IndexInv, DeliveredInv and ElectionsInv are inductive        *)
(* relative to it.                                                         *)
(***************************************************************************)
EXTENDS RaftProofs, FiniteSetTheorems, FunctionTheorems

USE DEF persistent, indexes, flags, call, ticker

NodeInv(n) == OfficeInv(n) /\ VotesInv(n) /\ SpeaksFor(n)

\* No ticker step of m: m may be demoted if its lock is free, an answer to m
\* may arrive, the connection of m may break.
Quiet(m) ==
  /\ pc'[m] = pc[m] /\ conn'[m] = conn[m]
  /\ votes_recieved'[m] = votes_recieved[m]
  /\ node_type'[m] = node_type[m] \/ (node_type'[m] = "Follower" /\ LockFree(m))
  /\ serving'[m] => serving[m]
  /\ request'[m] = request[m]
  /\ wire'[m] = "replied" =>
       \/ wire[m] = "replied" /\ reply'[m] = reply[m]
       \/ reply'[m].node = Peer(m)
  /\ wire[m] = "idle" => wire'[m] = "idle"
  /\ \/ /\ node_term'[m] = node_term[m] /\ log'[m] = log[m]
        /\ next_index'[m] = next_index[m] /\ commited_index'[m] = commited_index[m]
     \/ LockFree(m)

LEMMA QuietNode ==
  ASSUME TypeInv, NEW m \in Node, NodeInv(m), Quiet(m)
  PROVE  NodeInv(m)'
<1>1. OfficeInv(m)'
  BY DEF NodeInv, OfficeInv, Quiet, LockFree
<1>2. CountedOnce(m) => CountedOnce(m)'
  BY DEF Quiet, CountedOnce
<1>3. Peer(m)' = Peer(m)
  BY DEF Quiet, Peer
<1>4. VotesInv(m)'
  <2>1. wire'[m] = "replied" => reply'[m].node = Peer(m)'
    BY <1>3 DEF NodeInv, VotesInv, Quiet
  <2>2. pc'[m] = "campaign" =>
          /\ CountedOnce(m)'
          /\ \A i \in 1..Len(votes_recieved'[m]) :
               votes_recieved'[m][i] \in {m} \union Visited(m)'
    BY <1>2 DEF NodeInv, VotesInv, Quiet, Visited
  <2>3. node_type'[m] = "Leader" \/ pc'[m] = "won" =>
          CountedOnce(m)' /\ Len(votes_recieved'[m]) >= QuorumLength(m)
    BY <1>2 DEF NodeInv, VotesInv, Quiet
  <2> QED  BY <2>1, <2>2, <2>3 DEF VotesInv, QuorumLength
<1>5. SpeaksFor(m)'
  <2>1. SUFFICES ASSUME wire'[m] # "idle"
                 PROVE  SpeaksFor(m)'
    BY DEF SpeaksFor
  <2>2. wire[m] # "idle"
    BY <2>1 DEF Quiet
  <2>3. pc[m] \in {"heartbeat", "campaign"} /\ ~LockFree(m)
    BY <2>2 DEF NodeInv, SpeaksFor, LockFree
  <2>4. /\ node_term'[m] = node_term[m] /\ log'[m] = log[m]
        /\ next_index'[m] = next_index[m] /\ commited_index'[m] = commited_index[m]
        /\ node_type'[m] = node_type[m] /\ request'[m] = request[m]
        /\ pc'[m] = pc[m] /\ conn'[m] = conn[m]
    BY <2>3 DEF Quiet
  <2> QED  BY <1>3, <2>2, <2>4 DEF NodeInv, SpeaksFor, InLoop
<1> QED  BY <1>1, <1>4, <1>5 DEF NodeInv

-----------------------------------------------------------------------------
(* Steps that leave a node quiet *)

\* A handler that answers or panics changes the calls of its callers only, and
\* an answer names the node that gives it.
LEMMA AnswerQuiet ==
  ASSUME TypeInv, NEW k \in Node, NEW msg \in Inbox(k), NEW ok \in BOOLEAN,
         Respond(k, msg, ok) \/ Panic(k, msg), NEW m \in Node
  PROVE  /\ serving'[m] => serving[m]
         /\ request'[m] = request[m]
         /\ wire'[m] = "replied" =>
              \/ wire[m] = "replied" /\ reply'[m] = reply[m]
              \/ reply'[m].node = Peer(m)
         /\ wire[m] = "idle" => wire'[m] = "idle"
<1>1. CASE Panic(k, msg)
  <2>1. PICK f \in [Callers(k) -> {"closed", "failed", "reset"}] :
          wire' = [n \in Node |-> IF n \in Callers(k) THEN f[n] ELSE wire[n]]
    BY <1>1 DEF Panic
  <2>2. wire'[m] # wire[m] => wire[m] = "sent" /\ wire'[m] # "replied"
    BY <2>1 DEF Callers
  <2> QED  BY <1>1, <2>2 DEF Panic, TypeInv, TypeOK
<1>2. CASE /\ msg.from # NoNode
           /\ wire' = [wire EXCEPT ![msg.from] = "replied"]
           /\ reply' = [reply EXCEPT ![msg.from] =
                          [node |-> k, term |-> node_term'[k], ok |-> ok]]
           /\ UNCHANGED <<request, orphans, serving>>
  <2>1. msg.from \in Callers(k)
    <3>1. msg \in orphans => msg.from = NoNode
      BY DEF TypeInv, TypeOK, Orphans
    <3> QED  BY <1>2, <3>1 DEF Inbox
  <2>2. wire[msg.from] = "sent" /\ Peer(msg.from) = k /\ msg.from \in Node
    BY <2>1 DEF Callers
  <2>3. CASE m = msg.from
    BY <1>2, <2>2, <2>3 DEF TypeInv, TypeOK
  <2>4. CASE m # msg.from
    BY <1>2, <2>2, <2>4 DEF TypeInv, TypeOK
  <2> QED  BY <2>3, <2>4
<1>3. CASE UNCHANGED <<wire, request, reply, serving>>
  BY <1>3
<1> QED  BY <1>1, <1>2, <1>3 DEF Respond

LEMMA ListenerQuiet ==
  ASSUME TypeInv, NEW k \in Node, Listener(k), NEW m \in Node
  PROVE  Quiet(m)
<1>1. PICK msg \in Inbox(k) :
        \/ GrantVote(k, msg) \/ DenyVote(k, msg)
        \/ AcceptAppend(k, msg) \/ RejectAppend(k, msg)
        \/ TornRequest(k, msg) \/ HoldConnection(k, msg)
  BY DEF Listener
<1>2. CASE GrantVote(k, msg)
  <2>1. Respond(k, msg, TRUE)
    BY <1>2 DEF GrantVote
  <2> QED  BY <1>2, <2>1, AnswerQuiet DEF GrantVote, Quiet, TypeInv, TypeOK, CanServe
<1>3. CASE DenyVote(k, msg)
  <2>1. Respond(k, msg, FALSE)
    BY <1>3 DEF DenyVote
  <2> QED  BY <1>3, <2>1, AnswerQuiet DEF DenyVote, Quiet
<1>4. CASE AcceptAppend(k, msg)
  <2>1. Respond(k, msg, TRUE) \/ Panic(k, msg)
    BY <1>4 DEF AcceptAppend
  <2>2. /\ LockFree(k)
        /\ node_type' = [node_type EXCEPT ![k] = "Follower"]
        /\ node_term' = [node_term EXCEPT ![k] = msg.req.term]
        /\ log' = [log EXCEPT ![k] = MergedLog(log[k], msg.req)]
        /\ UNCHANGED <<votes_recieved, next_index, match_index, pc, conn>>
    BY <1>4 DEF AcceptAppend, CanServe, RoleAfterAppend
  <2>3. m # k => commited_index'[m] = commited_index[m]
    BY <1>4 DEF AcceptAppend, TypeInv, TypeOK
  <2> QED  BY <2>1, <2>2, <2>3, AnswerQuiet DEF Quiet, TypeInv, TypeOK
<1>5. CASE RejectAppend(k, msg)
  <2>1. Respond(k, msg, FALSE) \/ Panic(k, msg)
    BY <1>5 DEF RejectAppend
  <2> QED  BY <1>5, <2>1, AnswerQuiet DEF RejectAppend, Quiet
<1>6. CASE TornRequest(k, msg)
  <2>1. Respond(k, msg, FALSE) \/ Panic(k, msg)
    BY <1>6 DEF TornRequest
  <2> QED  BY <1>6, <2>1, AnswerQuiet DEF TornRequest, Quiet
<1>7. CASE HoldConnection(k, msg)
  BY <1>7 DEF HoldConnection, Quiet
<1> QED  BY <1>1, <1>2, <1>3, <1>4, <1>5, <1>6, <1>7

LEMMA AppendEntryQuiet ==
  ASSUME TypeInv, NEW k \in Node, NEW v \in Value, AppendEntry(k, v), NEW m \in Node
  PROVE  Quiet(m)
BY DEF AppendEntry, Quiet, TypeInv, TypeOK

LEMMA BreakCallQuiet ==
  ASSUME TypeInv, NEW k \in Node, BreakCall(k), NEW m \in Node
  PROVE  Quiet(m)
BY DEF BreakCall, Quiet, TypeInv, TypeOK

\* A ticker, a crash and a restart are noticed by other nodes only as callers.
LEMMA OthersQuiet ==
  ASSUME TypeInv, NEW k \in Node, Ticker(k) \/ Crash(k) \/ Restart(k),
         NEW m \in Node, m # k
  PROVE  Quiet(m)
<1> USE DEF TypeInv, TypeOK, Quiet, Goto
<1>1. CASE RemoveFile(k)  BY <1>1 DEF RemoveFile
<1>2. CASE CreateFile(k)  BY <1>2 DEF CreateFile
<1>3. CASE WriteFile(k)  BY <1>3 DEF WriteFile
<1>4. CASE HeartbeatBegin(k)  BY <1>4 DEF HeartbeatBegin
<1>5. CASE HeartbeatSend(k)
  <2>1. /\ wire' = wire \/ wire' = [wire EXCEPT ![k] = "sent"]
        /\ conn' = conn \/ conn' = [conn EXCEPT ![k] = @ + 1]
        /\ request' = request \/ \E req : request' = [request EXCEPT ![k] = req]
        /\ pc' = pc \/ pc' = [pc EXCEPT ![k] = "dead"]
        /\ reply' = reply
    BY <1>5 DEF HeartbeatSend, Dial
  <2> QED  BY ZenonT(60), <1>5, <2>1 DEF HeartbeatSend
<1>6. CASE HeartbeatReceive(k)  BY <1>6 DEF HeartbeatReceive, HangUp
<1>7. CASE HeartbeatEnd(k)  BY <1>7 DEF HeartbeatEnd
<1>8. CASE CommitEntries(k)
  <2>1. pc'[m] = pc[m] /\ commited_index'[m] = commited_index[m]
    <3>1. PICK j \in CommitTargets(k) :
            \/ Goto(k, "dead") /\ UNCHANGED commited_index
            \/ /\ Goto(k, "check")
               /\ commited_index' = [commited_index EXCEPT ![k] = j]
      BY <1>8 DEF CommitEntries
    <3> QED  BY <3>1
  <2> QED  BY <1>8, <2>1 DEF CommitEntries
<1>9. CASE ElectionTimeout(k)  BY <1>9 DEF ElectionTimeout
<1>10. CASE BecomeCandidate(k)  BY <1>10 DEF BecomeCandidate
<1>11. CASE CampaignBegin(k)  BY <1>11 DEF CampaignBegin
<1>12. CASE CampaignSend(k)  BY ZenonT(60), <1>12 DEF CampaignSend, Dial
<1>13. CASE CampaignSlow(k)  BY <1>13 DEF CampaignSlow
<1>14. CASE VoteReceived(k)  BY ZenonT(60), <1>14 DEF VoteReceived, HangUp
<1>15. CASE VoteDenied(k)  BY ZenonT(60), <1>15 DEF VoteDenied, HangUp
<1>16. CASE VoteMissing(k)  BY <1>16 DEF VoteMissing, HangUp
<1>17. CASE CampaignEnd(k)  BY <1>17 DEF CampaignEnd
<1>18. CASE BecomeLeader(k)  BY <1>18 DEF BecomeLeader
<1>19. CASE StepDown(k)  BY <1>19 DEF StepDown
<1>20. CASE TickEnd(k)  BY <1>20 DEF TickEnd
<1>21. CASE Crash(k)
  <2>1. PICK f \in [Callers(k) -> {"closed", "failed", "reset", "lost"}] :
          wire' = [n \in Node |-> IF n = k THEN "idle"
                                  ELSE IF n \in Callers(k) THEN f[n] ELSE wire[n]]
    BY <1>21 DEF Crash
  <2>2. wire'[m] # wire[m] => wire[m] = "sent" /\ wire'[m] # "replied"
    BY <2>1 DEF Callers
  <2> QED  BY <1>21, <2>2 DEF Crash
<1>22. CASE Restart(k)  BY <1>22 DEF Restart
<1> QED  BY <1>1, <1>2, <1>3, <1>4, <1>5, <1>6, <1>7, <1>8, <1>9, <1>10, <1>11, <1>12, <1>13, <1>14, <1>15, <1>16, <1>17, <1>18, <1>19, <1>20, <1>21, <1>22 DEF Ticker

-----------------------------------------------------------------------------
(* The ticker's own node *)

\* A step that leaves the votes of its node alone and ends outside the loops
\* over the peers, with no call.
Outside(n) ==
  /\ wire'[n] = "idle"
  /\ pc'[n] \notin {"heartbeat", "campaign", "down"}
  /\ votes_recieved'[n] = votes_recieved[n]

LEMMA OutsideLoops ==
  ASSUME NEW n \in Node, NodeInv(n), Outside(n),
         node_type'[n] = "Leader" \/ pc'[n] = "won" =>
           node_type[n] = "Leader" \/ pc[n] = "won",
         pc'[n] \in {"expired", "candidate", "won", "lost", "late"} =>
           node_type'[n] # "Leader"
  PROVE  NodeInv(n)'
<1>1. OfficeInv(n)'
  BY DEF Outside, OfficeInv
<1>2. VotesInv(n)'
  BY DEF Outside, NodeInv, VotesInv, CountedOnce, QuorumLength
<1>3. SpeaksFor(n)'
  BY DEF Outside, SpeaksFor
<1> QED  BY <1>1, <1>2, <1>3 DEF NodeInv

\* A ticker outside its loops over the peers has no call.
LEMMA IdleOutside ==
  ASSUME TypeInv, NEW n \in Node, pc[n] \notin {"heartbeat", "campaign"}
  PROVE  wire[n] = "idle"
BY DEF TypeInv, CallInv

LEMMA PlainTickerSteps ==
  ASSUME TypeInv, NEW n \in Node, NodeInv(n),
         \/ RemoveFile(n) \/ CreateFile(n) \/ WriteFile(n) \/ CommitEntries(n)
         \/ ElectionTimeout(n) \/ BecomeCandidate(n) \/ BecomeLeader(n)
         \/ StepDown(n) \/ TickEnd(n)
  PROVE  NodeInv(n)'
<1> USE DEF TypeInv, TypeOK, Outside, Goto
<1>1. CASE RemoveFile(n)
  <2>1. Outside(n) /\ pc'[n] \in {"dead", "persist"} /\ node_type' = node_type
    BY ZenonT(60), <1>1, IdleOutside DEF RemoveFile
  <2> QED  BY <2>1, OutsideLoops
<1>2. CASE CreateFile(n)
  <2>1. Goto(n, "create") \/ Goto(n, "beat")
    BY <1>2 DEF CreateFile
  <2>2. Outside(n) /\ pc'[n] \in {"create", "beat"} /\ node_type' = node_type
    BY ZenonT(60), <1>2, <2>1, IdleOutside DEF CreateFile
  <2> QED  BY <2>2, OutsideLoops
<1>3. CASE WriteFile(n)
  <2>1. Outside(n) /\ pc'[n] = "beat" /\ node_type' = node_type
    BY <1>3, IdleOutside DEF WriteFile
  <2> QED  BY <2>1, OutsideLoops
<1>4. CASE CommitEntries(n)
  <2>1. PICK k \in CommitTargets(n) : pc' = [pc EXCEPT ![n] = "dead"]
                                     \/ pc' = [pc EXCEPT ![n] = "check"]
    BY <1>4 DEF CommitEntries
  <2>2. Outside(n) /\ pc'[n] \in {"dead", "check"} /\ node_type' = node_type
    BY ZenonT(60), <1>4, <2>1, IdleOutside DEF CommitEntries, AwaitsCommit
  <2> QED  BY <2>2, OutsideLoops
<1>5. CASE ElectionTimeout(n)
  <2>1. Outside(n) /\ pc'[n] = "expired" /\ node_type' = node_type
        /\ node_type[n] # "Leader"
    BY <1>5, IdleOutside DEF ElectionTimeout, AwaitsElection, AwaitsCommit
  <2> QED  BY <2>1, OutsideLoops
<1>6. CASE BecomeCandidate(n)
  <2>1. Outside(n) /\ pc'[n] \in {"candidate", "clear"} /\ node_type'[n] = "Candidate"
    BY <1>6, IdleOutside DEF BecomeCandidate
  <2> QED  BY <2>1, OutsideLoops
<1>7. CASE BecomeLeader(n)
  <2>1. Outside(n) /\ pc[n] = "won" /\ pc'[n] = "clear"
    BY <1>7, IdleOutside DEF BecomeLeader
  <2> QED  BY <2>1, OutsideLoops
<1>8. CASE StepDown(n)
  <2>1. Outside(n) /\ pc'[n] = "clear" /\ node_type'[n] = "Follower"
    BY <1>8, IdleOutside DEF StepDown
  <2> QED  BY <2>1, OutsideLoops
<1>9. CASE TickEnd(n)
  <2>1. Outside(n) /\ pc'[n] = "top" /\ node_type' = node_type
    BY <1>9, IdleOutside DEF TickEnd, AwaitsElection, AwaitsCommit
  <2> QED  BY <2>1, OutsideLoops
<1> QED  BY <1>1, <1>2, <1>3, <1>4, <1>5, <1>6, <1>7, <1>8, <1>9

\* A step from one peer to the next.
NextPeer(n) ==
  /\ pc[n] \in {"heartbeat", "campaign"} /\ pc'[n] = pc[n]
  /\ wire'[n] = "idle"
  /\ conn'[n] = conn[n] + 1
  /\ votes_recieved'[n] = votes_recieved[n] /\ node_type'[n] = node_type[n]

LEMMA InsideLoops ==
  ASSUME TypeInv, NEW n \in Node, NodeInv(n), NextPeer(n)
  PROVE  NodeInv(n)'
<1>1. OfficeInv(n)'
  BY DEF NextPeer, NodeInv, OfficeInv
<1>2. VotesInv(n)'
  <2>1. Visited(n) \subseteq Visited(n)'
    <3>1. conn[n] \in Nat \ {0}
      BY DEF TypeInv, TypeOK
    <3>2. 1..conn[n]-1 \subseteq 1..conn'[n]-1
      BY <3>1 DEF NextPeer
    <3> QED  BY <3>2 DEF Visited
  <2>2. CountedOnce(n) => CountedOnce(n)'
    BY DEF NextPeer, CountedOnce
  <2>4. pc'[n] = "campaign" =>
          /\ CountedOnce(n)'
          /\ \A i \in 1..Len(votes_recieved'[n]) :
               votes_recieved'[n][i] \in {n} \union Visited(n)'
    BY <2>1, <2>2 DEF NextPeer, NodeInv, VotesInv
  <2>5. node_type'[n] = "Leader" \/ pc'[n] = "won" =>
          CountedOnce(n)' /\ Len(votes_recieved'[n]) >= QuorumLength(n)
    BY <2>2 DEF NextPeer, NodeInv, VotesInv
  <2> QED  BY <2>4, <2>5 DEF NextPeer, VotesInv, QuorumLength
<1>3. SpeaksFor(n)'
  BY DEF NextPeer, SpeaksFor
<1> QED  BY <1>1, <1>2, <1>3 DEF NodeInv

LEMMA HeartbeatSteps ==
  ASSUME TypeInv, NEW n \in Node, NodeInv(n),
         \/ HeartbeatBegin(n) \/ HeartbeatSend(n) \/ HeartbeatReceive(n)
         \/ HeartbeatEnd(n)
  PROVE  NodeInv(n)'
<1> USE DEF TypeInv, TypeOK, Goto
<1>1. CASE HeartbeatBegin(n)
  <2>1. wire'[n] = "idle"
    BY <1>1, IdleOutside DEF HeartbeatBegin, AwaitsHeartbeat
  <2>2. /\ pc'[n] = "heartbeat" /\ node_type' = node_type /\ node_type[n] = "Leader"
        /\ votes_recieved' = votes_recieved
    BY <1>1 DEF HeartbeatBegin
  <2>3. VotesInv(n)'
    BY <2>1, <2>2 DEF NodeInv, VotesInv, CountedOnce, QuorumLength
  <2> QED  BY <2>1, <2>2, <2>3 DEF NodeInv, OfficeInv, SpeaksFor
<1>2. CASE HeartbeatSend(n)
  <2> DEFINE req == AppendRequestOf(n, node_term[n], log[n], next_index[n][Peer(n)],
                                    commited_index[n])
  <2>0. /\ pc[n] = "heartbeat" /\ InLoop(n) /\ wire[n] = "idle"
        /\ node_type[n] = "Leader"
        /\ UNCHANGED <<node_term, log, node_type, votes_recieved, next_index,
                       commited_index, serving>>
    BY <1>2 DEF HeartbeatSend, NodeInv, OfficeInv
  <2>1. CASE pc' = [pc EXCEPT ![n] = "dead"] /\ UNCHANGED <<wire, conn>>
    <3>1. Outside(n) /\ pc'[n] = "dead"
      BY <2>0, <2>1 DEF Outside
    <3> QED  BY <2>0, <3>1, OutsideLoops
  <2>2. CASE /\ wire' = [wire EXCEPT ![n] = "sent"]
             /\ request' = [request EXCEPT ![n] = req]
             /\ UNCHANGED <<conn, pc>>
    <3>1. Peer(n)' = Peer(n)
      BY <2>2 DEF Peer
    <3>2. SpeaksFor(n)'
      <4>1. request'[n] = req
        BY <2>2
      <4> HIDE DEF req
      <4>2. InLoop(n)' /\ pc'[n] = "heartbeat"
        BY <2>0, <2>2 DEF InLoop
      <4> QED  BY <2>0, <3>1, <4>1, <4>2 DEF SpeaksFor, req
    <3>3. VotesInv(n)'
      <4>1. wire'[n] = "sent"
        BY <2>2
      <4> QED  BY <2>0, <2>2, <4>1 DEF NodeInv, VotesInv, CountedOnce, QuorumLength
    <3> QED  BY <2>0, <2>2, <3>2, <3>3 DEF NodeInv, OfficeInv
  <2>3. CASE /\ conn' = [conn EXCEPT ![n] = @ + 1]
             /\ UNCHANGED <<pc, wire>>
    <3>1. NextPeer(n)
      BY <2>0, <2>3 DEF NextPeer
    <3> QED  BY <3>1, InsideLoops
  <2> QED  BY <1>2, <2>1, <2>2, <2>3 DEF HeartbeatSend, Dial
<1>3. CASE HeartbeatReceive(n)
  <2>1. /\ wire'[n] = "idle" /\ pc[n] = "heartbeat"
        /\ UNCHANGED <<votes_recieved, node_type>>
    BY <1>3 DEF HeartbeatReceive, HangUp
  <2>2. CASE pc'[n] = "dead"
    BY <2>1, <2>2, OutsideLoops DEF Outside
  <2>3. CASE UNCHANGED pc /\ conn' = [conn EXCEPT ![n] = @ + 1]
    <3>1. NextPeer(n)
      BY <2>1, <2>3 DEF NextPeer
    <3> QED  BY <3>1, InsideLoops
  <2> QED  BY <1>3, <2>2, <2>3 DEF HeartbeatReceive
<1>4. CASE HeartbeatEnd(n)
  <2>1. wire[n] = "idle"
    BY <1>4 DEF HeartbeatEnd, NodeInv, SpeaksFor
  <2>2. Outside(n) /\ pc'[n] = "commit" /\ node_type' = node_type
    BY <1>4, <2>1 DEF HeartbeatEnd, Outside
  <2> QED  BY <2>2, OutsideLoops
<1> QED  BY <1>1, <1>2, <1>3, <1>4

LEMMA CampaignBeginStep ==
  ASSUME TypeInv, NEW n \in Node, NodeInv(n), CampaignBegin(n)
  PROVE  NodeInv(n)'
<1> USE DEF TypeInv, TypeOK, Goto
<1>1. /\ pc'[n] = "campaign" /\ conn'[n] = 1 /\ wire'[n] = "idle"
      /\ node_type'[n] = node_type[n] /\ node_type[n] # "Leader"
  BY IdleOutside DEF CampaignBegin, NodeInv, OfficeInv
<1>2. votes_recieved'[n] = <<n>>
  BY DEF CampaignBegin, FirstVotes
<1>3. \A i \in 1..Len(votes_recieved'[n]) : i = 1 /\ votes_recieved'[n][i] = n
  BY <1>2
<1>4. CountedOnce(n)'
  BY <1>2, <1>3 DEF CountedOnce
<1>5. VotesInv(n)'
  BY <1>1, <1>3, <1>4 DEF VotesInv
<1> QED  BY <1>1, <1>5 DEF NodeInv, OfficeInv, SpeaksFor

LEMMA CampaignSendStep ==
  ASSUME TypeInv, NEW n \in Node, NodeInv(n), CampaignSend(n)
  PROVE  NodeInv(n)'
<1> USE DEF TypeInv, TypeOK
<1> DEFINE req == VoteRequestOf(n, node_term[n], log[n])
<1>1. /\ pc[n] = "campaign" /\ InLoop(n) /\ wire[n] = "idle"
      /\ UNCHANGED <<node_term, log, node_type, votes_recieved, pc>>
  BY DEF CampaignSend
<1>2. CASE /\ wire' = [wire EXCEPT ![n] = "sent"]
           /\ request' = [request EXCEPT ![n] = req]
           /\ UNCHANGED conn
  <2>1. wire'[n] = "sent" /\ request'[n] = req
    BY <1>2
  <2>2. VotesInv(n)'
    BY <1>1, <1>2, <2>1 DEF NodeInv, VotesInv, CountedOnce, QuorumLength, Visited
  <2>3. SpeaksFor(n)'
    <3> HIDE DEF req
    <3> QED  BY <1>1, <1>2, <2>1 DEF SpeaksFor, InLoop, req
  <2> QED  BY <1>1, <2>2, <2>3 DEF NodeInv, OfficeInv
<1>3. CASE conn' = [conn EXCEPT ![n] = @ + 1] /\ UNCHANGED wire
  <2>1. NextPeer(n)
    BY <1>1, <1>3 DEF NextPeer
  <2> QED  BY <2>1, InsideLoops
<1> QED  BY <1>2, <1>3 DEF CampaignSend, Dial

\* The heart of the argument: a vote that is counted comes from the peer that
\* the campaign has just come to, which no earlier vote came from.
LEMMA VoteReceivedStep ==
  ASSUME TypeInv, NEW n \in Node, NodeInv(n), VoteReceived(n)
  PROVE  NodeInv(n)'
<1> DEFINE votes == votes_recieved[n]
           c == conn[n]
<1>1. /\ pc[n] = "campaign" /\ wire[n] = "replied"
      /\ wire'[n] = "idle" /\ node_type'[n] = node_type[n]
  BY DEF VoteReceived, HangUp, TypeInv, TypeOK
<1>2. votes_recieved'[n] = Append(votes, Peer(n))
  <2>1. reply[n].node = Peer(n)
    BY <1>1 DEF NodeInv, VotesInv
  <2> QED  BY <2>1 DEF VoteReceived, TypeInv, TypeOK
<1>3. /\ votes \in Seq(Node) /\ c \in Nat \ {0} /\ c <= Len(connections[n])
  BY <1>1 DEF TypeInv, TypeOK, CallInv, InLoop
<1>4. Peer(n) \in Node /\ Peer(n) # n
  BY <1>3, PeerIsNode DEF Peer
<1>5. \A j \in 1..c-1 : connections[n][j] # Peer(n)
  <2>1. ASSUME NEW j \in 1..c-1
        PROVE  connections[n][j] # Peer(n)
    <3>1. j \in 1..Len(connections[n]) /\ c \in 1..Len(connections[n]) /\ j # c
      BY <1>3, ConnectionsLength
    <3> QED  BY <3>1, ConnectionsAssumption DEF Peer
  <2> QED  BY <2>1
<1>6. /\ CountedOnce(n)
      /\ \A i \in 1..Len(votes) :
           votes[i] \in {n} \union Visited(n)
  BY <1>1 DEF NodeInv, VotesInv
<1>7. \A i \in 1..Len(votes) : votes[i] # Peer(n)
  BY <1>4, <1>5, <1>6 DEF Visited
<1>8. /\ Len(votes_recieved'[n]) = Len(votes) + 1
      /\ votes_recieved'[n][Len(votes) + 1] = Peer(n)
      /\ \A i \in 1..Len(votes) : votes_recieved'[n][i] = votes[i]
      /\ Len(votes) \in Nat
  <2> HIDE DEF votes
  <2> QED  BY <1>2, <1>3, <1>4, AppendProperties, LenProperties
<1>9. CountedOnce(n)'
  <2>1. PICK i \in 1..Len(votes) : votes[i] = n
    BY <1>6 DEF CountedOnce
  <2>2. i \in 1..Len(votes_recieved'[n]) /\ votes_recieved'[n][i] = n
    BY <1>8, <2>1
  <2>3. ASSUME NEW a \in 1..Len(votes_recieved'[n]), NEW b \in 1..Len(votes_recieved'[n]),
               votes_recieved'[n][a] = votes_recieved'[n][b]
        PROVE  a = b
    <3>1. CASE a \in 1..Len(votes) /\ b \in 1..Len(votes)
      BY <1>6, <1>8, <2>3, <3>1 DEF CountedOnce
    <3>2. CASE a = Len(votes) + 1 /\ b \in 1..Len(votes)
      BY <1>7, <1>8, <2>3, <3>2
    <3>3. CASE a \in 1..Len(votes) /\ b = Len(votes) + 1
      BY <1>7, <1>8, <2>3, <3>3
    <3>4. CASE a = Len(votes) + 1 /\ b = Len(votes) + 1
      BY <3>4
    <3>5. a \in 1..Len(votes) \union {Len(votes) + 1}
          /\ b \in 1..Len(votes) \union {Len(votes) + 1}
      BY <1>8
    <3> QED  BY <3>1, <3>2, <3>3, <3>4, <3>5
  <2> QED  BY <2>2, <2>3 DEF CountedOnce
<1>10. CASE /\ Len(votes_recieved'[n]) >= QuorumLength(n)
            /\ pc' = [pc EXCEPT ![n] = "won"]
  <2>1. pc'[n] = "won" /\ node_type[n] # "Leader"
    BY <1>1, <1>10 DEF NodeInv, OfficeInv, TypeInv, TypeOK
  <2>2. VotesInv(n)'
    BY <1>1, <1>9, <1>10, <2>1 DEF VotesInv, QuorumLength
  <2> QED  BY <1>1, <2>1, <2>2 DEF NodeInv, OfficeInv, SpeaksFor
<1>11. CASE conn' = [conn EXCEPT ![n] = @ + 1] /\ UNCHANGED pc
  <2>1. conn'[n] = c + 1 /\ pc'[n] = "campaign" /\ node_type'[n] # "Leader"
    BY <1>1, <1>11 DEF TypeInv, TypeOK, NodeInv, OfficeInv
  <2>2. ASSUME NEW i \in 1..Len(votes_recieved'[n])
        PROVE  votes_recieved'[n][i] \in {n} \union Visited(n)'
    <3>0. 1..c-1 \subseteq 1..conn'[n]-1 /\ c \in 1..conn'[n]-1
      BY <1>3, <2>1
    <3>1. CASE i \in 1..Len(votes)
      <4>1. votes_recieved'[n][i] = votes[i]
        BY <1>8, <3>1
      <4>2. Visited(n) \subseteq Visited(n)'
        BY <3>0 DEF Visited
      <4> QED  BY <1>6, <3>1, <4>1, <4>2
    <3>2. CASE i = Len(votes) + 1
      <4>1. Peer(n) \in Visited(n)'
        BY <3>0 DEF Peer, Visited
      <4> QED  BY <1>8, <3>2, <4>1
    <3>3. i \in 1..Len(votes) \/ i = Len(votes) + 1
      BY <1>8
    <3> QED  BY <3>1, <3>2, <3>3
  <2>3. VotesInv(n)'
    BY <1>1, <1>9, <2>1, <2>2 DEF VotesInv
  <2> QED  BY <1>1, <2>1, <2>3 DEF NodeInv, OfficeInv, SpeaksFor
<1> QED  BY <1>10, <1>11 DEF VoteReceived, Goto

LEMMA CampaignGoesOnOrEnds ==
  ASSUME TypeInv, NEW n \in Node, NodeInv(n),
         CampaignSlow(n) \/ VoteDenied(n) \/ VoteMissing(n) \/ CampaignEnd(n)
  PROVE  NodeInv(n)'
<1> USE DEF TypeInv, TypeOK, Goto
<1>1. /\ pc[n] = "campaign" /\ node_type[n] # "Leader" /\ node_type' = node_type
      /\ wire'[n] = "idle" /\ votes_recieved' = votes_recieved
  <2>1. pc[n] = "campaign" /\ node_type' = node_type /\ votes_recieved' = votes_recieved
    BY DEF CampaignSlow, VoteDenied, VoteMissing, CampaignEnd
  <2>2. CampaignEnd(n) => wire[n] = "idle"
    BY DEF CampaignEnd, NodeInv, SpeaksFor
  <2>3. wire'[n] = "idle"
    BY ZenonT(60), <2>2 DEF CampaignSlow, VoteDenied, VoteMissing, CampaignEnd, HangUp
  <2> QED  BY <2>1, <2>3 DEF NodeInv, OfficeInv
<1>2. CASE pc'[n] \in {"late", "lost", "dead", "clear"}
  BY <1>1, <1>2, OutsideLoops DEF Outside
<1>3. CASE UNCHANGED pc /\ conn' = [conn EXCEPT ![n] = @ + 1]
  <2>1. NextPeer(n)
    BY <1>1, <1>3 DEF NextPeer
  <2> QED  BY <2>1, InsideLoops
<1>4. \/ pc'[n] \in {"late", "lost", "dead", "clear"}
      \/ UNCHANGED pc /\ conn' = [conn EXCEPT ![n] = @ + 1]
  BY DEF CampaignSlow, VoteDenied, VoteMissing, CampaignEnd
<1> QED  BY <1>2, <1>3, <1>4

LEMMA CrashStep ==
  ASSUME TypeInv, NEW n \in Node, Crash(n)
  PROVE  NodeInv(n)'
<1>1. pc'[n] = "down" /\ node_type'[n] = "Follower" /\ ~serving'[n]
  BY DEF Crash, Goto, TypeInv, TypeOK
<1>2. wire'[n] = "idle"
  BY DEF Crash
<1> QED  BY <1>1, <1>2 DEF NodeInv, OfficeInv, VotesInv, SpeaksFor

LEMMA RestartStep ==
  ASSUME TypeInv, NEW n \in Node, NodeInv(n), Restart(n)
  PROVE  NodeInv(n)'
<1>1. pc'[n] = "top" /\ node_type'[n] = "Follower"
  BY DEF Restart, Goto, TypeInv, TypeOK, NodeInv, OfficeInv
<1>2. wire'[n] = "idle"
  BY IdleOutside DEF Restart
<1> QED  BY <1>1, <1>2 DEF NodeInv, OfficeInv, VotesInv, SpeaksFor

-----------------------------------------------------------------------------
LEMMA InitLeader == Init => LeaderInv
BY DEF Init, LeaderInv, OfficeInv, VotesInv, SpeaksFor

LEMMA NextLeader == TypeInv /\ LeaderInv /\ [Next]_vars => LeaderInv'
<1> SUFFICES ASSUME TypeInv, LeaderInv, [Next]_vars, NEW m \in Node
             PROVE  NodeInv(m)'
  BY DEF LeaderInv, NodeInv
<1>1. NodeInv(m)
  BY DEF LeaderInv, NodeInv
<1>2. ASSUME NEW n \in Node, Ticker(n)
      PROVE  NodeInv(m)'
  <2>1. CASE m # n
    BY <1>1, <1>2, <2>1, OthersQuiet, QuietNode
  <2>2. CASE m = n
    BY <1>1, <1>2, <2>2, PlainTickerSteps, HeartbeatSteps, CampaignBeginStep,
       CampaignSendStep, VoteReceivedStep, CampaignGoesOnOrEnds
    DEF Ticker
  <2> QED  BY <2>1, <2>2
<1>3. ASSUME NEW n \in Node, Listener(n)
      PROVE  NodeInv(m)'
  BY <1>1, <1>3, ListenerQuiet, QuietNode
<1>4. ASSUME NEW n \in Node, NEW v \in Value, AppendEntry(n, v)
      PROVE  NodeInv(m)'
  BY <1>1, <1>4, AppendEntryQuiet, QuietNode
<1>5. ASSUME NEW n \in Node, BreakCall(n)
      PROVE  NodeInv(m)'
  BY <1>1, <1>5, BreakCallQuiet, QuietNode
<1>6. ASSUME NEW n \in Node, Crash(n) \/ Restart(n)
      PROVE  NodeInv(m)'
  <2>1. CASE m # n
    BY <1>1, <1>6, <2>1, OthersQuiet, QuietNode
  <2>2. CASE m = n
    BY <1>1, <1>6, <2>2, CrashStep, RestartStep
  <2> QED  BY <2>1, <2>2
<1>7. CASE UNCHANGED vars
  <2>1. Quiet(m)
    BY <1>7 DEF vars, Quiet
  <2> QED  BY <1>1, <2>1, QuietNode
<1> QED  BY <1>2, <1>3, <1>4, <1>5, <1>6, <1>7 DEF Next

LEMMA LeaderInvHolds == Spec => [](TypeInv /\ LeaderInv)
<1>1. Init => TypeInv /\ LeaderInv
  BY InitTyped, InitLeader
<1>2. TypeInv /\ LeaderInv /\ [Next]_vars => (TypeInv /\ LeaderInv)'
  BY NextTyped, NextLeader
<1> QED  BY <1>1, <1>2, PTL DEF Spec

\* Whoever leads, or has just won, holds the votes of a quorum of distinct
\* nodes, its own among them: handle_candidate_election counts no vote twice,
\* keeps none from an earlier campaign, and no handler that runs between its
\* unlock and transition_wrapper takes one away.
THEOREM LeaderIsElected == Spec => []LeaderHasQuorum
<1>1. LeaderInv => LeaderHasQuorum
  BY DEF LeaderInv, VotesInv, LeaderHasQuorum
<1> QED  BY <1>1, LeaderInvHolds, PTL

\* Every answer that maybe_send_heartbeat or handle_candidate_election reads is
\* an answer to the request that it would send in its present state: the lock
\* held across Client::send keeps the listener and the KV task out.
THEOREM RequestStaysTrue == Spec => []RequestSpeaksForSender
<1>1. LeaderInv => RequestSpeaksForSender
  BY DEF LeaderInv, RequestSpeaksForSender
<1> QED  BY <1>1, LeaderInvHolds, PTL

-----------------------------------------------------------------------------
(* A leader's log *)

LEMMA PrefixOfItself ==
  ASSUME NEW l \in Seq(Entry)
  PROVE  IsPrefixOf(l, l)
<1>1. Len(l) \in Nat /\ SubSeq(l, 1, Len(l)) = l
  BY LenProperties, SubSeqFull
<1> QED  BY <1>1 DEF IsPrefixOf

LEMMA PrefixOfAppend ==
  ASSUME NEW l \in Seq(Entry), NEW e \in Entry
  PROVE  IsPrefixOf(l, Append(l, e))
<1>1. /\ Append(l, e) \in Seq(Entry) /\ Len(Append(l, e)) = Len(l) + 1
      /\ \A i \in 1..Len(l) : Append(l, e)[i] = l[i]
      /\ Len(l) \in Nat
  BY AppendProperties, LenProperties
<1>2. /\ SubSeq(Append(l, e), 1, Len(l)) \in Seq(Entry)
      /\ Len(SubSeq(Append(l, e), 1, Len(l))) = Len(l)
      /\ \A i \in 1..Len(l) : SubSeq(Append(l, e), 1, Len(l))[i] = l[i]
  BY <1>1, SubSeqProperties
<1>3. SubSeq(Append(l, e), 1, Len(l)) = l
  BY <1>1, <1>2, SeqEqual
<1> QED  BY <1>1, <1>3 DEF IsPrefixOf

\* Of the steps that change a log, append_entry appends, an accepted append
\* leaves a follower, and neither a crash nor a restart leaves a leader.
LEMMA LogStep ==
  ASSUME TypeInv, LeaderInv, [Next]_vars, NEW m \in Node,
         node_type[m] = "Leader", node_type'[m] = "Leader"
  PROVE  \/ log'[m] = log[m]
         \/ \E v \in Value : log'[m] = Append(log[m], [value |-> v, term |-> node_term[m]])
<1> USE DEF TypeInv, TypeOK
<1>1. ASSUME NEW n \in Node, Ticker(n)
      PROVE  log'[m] = log[m]
  BY <1>1 DEF Ticker, RemoveFile, CreateFile, WriteFile, HeartbeatBegin,
     HeartbeatSend, HeartbeatReceive, HeartbeatEnd, CommitEntries,
     ElectionTimeout, BecomeCandidate, CampaignBegin, CampaignSend, CampaignSlow,
     VoteReceived, VoteDenied, VoteMissing, CampaignEnd, BecomeLeader, StepDown,
     TickEnd
<1>2. ASSUME NEW n \in Node, Listener(n)
      PROVE  log'[m] = log[m]
  <2>1. PICK msg \in Inbox(n) :
          \/ GrantVote(n, msg) \/ DenyVote(n, msg)
          \/ AcceptAppend(n, msg) \/ RejectAppend(n, msg)
          \/ TornRequest(n, msg) \/ HoldConnection(n, msg)
    BY <1>2 DEF Listener
  <2>2. CASE AcceptAppend(n, msg)
    <3>1. /\ node_type' = [node_type EXCEPT ![n] = "Follower"]
          /\ log' = [log EXCEPT ![n] = MergedLog(log[n], msg.req)]
      BY <2>2 DEF AcceptAppend, RoleAfterAppend
    <3>2. m # n
      BY <3>1
    <3> QED  BY <3>1, <3>2
  <2> QED  BY <2>1, <2>2 DEF GrantVote, DenyVote, RejectAppend, TornRequest, HoldConnection
<1>3. ASSUME NEW n \in Node, NEW v \in Value, AppendEntry(n, v)
      PROVE  \/ log'[m] = log[m]
             \/ log'[m] = Append(log[m], [value |-> v, term |-> node_term[m]])
  BY <1>3 DEF AppendEntry
<1>4. ASSUME NEW n \in Node, BreakCall(n)
      PROVE  log'[m] = log[m]
  BY <1>4 DEF BreakCall
<1>5. ASSUME NEW n \in Node, Crash(n) \/ Restart(n)
      PROVE  log'[m] = log[m]
  <2>1. CASE m = n
    <3>1. Restart(n) => node_type'[n] = "Follower"
      BY DEF Restart, LeaderInv, OfficeInv
    <3>2. Crash(n) => node_type'[n] = "Follower"
      BY DEF Crash
    <3> QED  BY <1>5, <2>1, <3>1, <3>2
  <2>2. CASE m # n
    BY <1>5, <2>2 DEF Crash, Restart
  <2> QED  BY <2>1, <2>2
<1>6. CASE UNCHANGED vars
  BY <1>6 DEF vars
<1> QED  BY <1>1, <1>2, <1>3, <1>4, <1>5, <1>6 DEF Next

\* A node that leads before and after a step has not lost an entry of its log:
\* what the truncation of append_entries removes is never a leader's, although
\* append_entries may run at a leader between any two of its ticks.
THEOREM LeaderLogGrows == Spec => LeaderAppendOnly
<1>1. ASSUME TypeInv, LeaderInv, [Next]_vars, NEW n \in Node,
             node_type[n] = "Leader", node_type'[n] = "Leader"
      PROVE  IsPrefixOf(log[n], log'[n])
  <2>1. log[n] \in Seq(Entry) /\ node_term[n] \in Nat
    BY <1>1 DEF TypeInv, TypeOK
  <2>2. CASE log'[n] = log[n]
    BY <2>1, <2>2, PrefixOfItself
  <2>3. ASSUME NEW v \in Value,
               log'[n] = Append(log[n], [value |-> v, term |-> node_term[n]])
        PROVE  IsPrefixOf(log[n], log'[n])
    <3>1. [value |-> v, term |-> node_term[n]] \in Entry
      BY <2>1 DEF Entry
    <3> QED  BY <2>1, <2>3, <3>1, PrefixOfAppend
  <2> QED  BY <1>1, <2>2, <2>3, LogStep
<1>2. TypeInv /\ LeaderInv /\ [Next]_vars =>
        [\A n \in Node : node_type[n] = "Leader" /\ node_type'[n] = "Leader" =>
           IsPrefixOf(log[n], log'[n])]_vars
  BY <1>1
<1> QED  BY <1>2, LeaderInvHolds, PTL DEF Spec, LeaderAppendOnly

-----------------------------------------------------------------------------
(* A leader's indexes *)

\* No step of n's own that writes its indexes.
KeepsIndexes(n) ==
  /\ next_index'[n] = next_index[n] /\ match_index'[n] = match_index[n]
  /\ pc'[n] = "won" => pc[n] = "won"
  /\ node_type'[n] = "Leader" => node_type[n] = "Leader" \/ pc[n] = "won"

NoOffice(n) == node_type[n] # "Leader" /\ pc[n] # "won"

LEMMA IndexesKept ==
  ASSUME TypeInv, LeaderInv, [Next]_vars, NEW m \in Node,
         ~VoteReceived(m), ~HeartbeatReceive(m), ~HeartbeatEnd(m)
  PROVE  KeepsIndexes(m) \/ NoOffice(m)'
<1> USE DEF TypeInv, TypeOK, KeepsIndexes, NoOffice, Goto
<1>1. ASSUME NEW n \in Node, Ticker(n)
      PROVE  KeepsIndexes(m) \/ NoOffice(m)'
  <2>1. CASE m # n
    <3>1. Quiet(m)
      BY <1>1, <2>1, OthersQuiet
    <3>2. next_index'[m] = next_index[m] /\ match_index'[m] = match_index[m]
      BY ZenonT(60), <1>1, <2>1 DEF Ticker, RemoveFile, CreateFile, WriteFile, HeartbeatBegin,
         HeartbeatSend, HeartbeatReceive, HeartbeatEnd, CommitEntries,
         ElectionTimeout, BecomeCandidate, CampaignBegin, CampaignSend,
         CampaignSlow, VoteReceived, VoteDenied, VoteMissing, CampaignEnd,
         BecomeLeader, StepDown, TickEnd
    <3> QED  BY <3>1, <3>2 DEF Quiet
  <2>2. CASE m = n
    <3>1. UNCHANGED <<next_index, match_index>>
      BY <1>1, <2>2 DEF Ticker, RemoveFile, CreateFile, WriteFile, HeartbeatBegin,
         HeartbeatSend, CommitEntries, ElectionTimeout, BecomeCandidate,
         CampaignBegin, CampaignSend, CampaignSlow, VoteDenied, VoteMissing,
         CampaignEnd, BecomeLeader, StepDown, TickEnd
    <3>2. pc'[n] = "won" => pc[n] = "won"
      BY <1>1, <2>2 DEF Ticker, RemoveFile, CreateFile, WriteFile, HeartbeatBegin,
         HeartbeatSend, CommitEntries, ElectionTimeout, BecomeCandidate,
         CampaignBegin, CampaignSend, CampaignSlow, VoteDenied, VoteMissing,
         CampaignEnd, BecomeLeader, StepDown, TickEnd
    <3>3. node_type'[n] = "Leader" => node_type[n] = "Leader" \/ pc[n] = "won"
      BY <1>1, <2>2 DEF Ticker, RemoveFile, CreateFile, WriteFile, HeartbeatBegin,
         HeartbeatSend, CommitEntries, ElectionTimeout, BecomeCandidate,
         CampaignBegin, CampaignSend, CampaignSlow, VoteDenied, VoteMissing,
         CampaignEnd, BecomeLeader, StepDown, TickEnd
    <3> QED  BY <2>2, <3>1, <3>2, <3>3
  <2> QED  BY <2>1, <2>2
<1>2. ASSUME NEW n \in Node, Listener(n)
      PROVE  KeepsIndexes(m)
  <2>1. UNCHANGED <<next_index, match_index>>
    BY <1>2 DEF Listener, GrantVote, DenyVote, AcceptAppend, RejectAppend, TornRequest, HoldConnection
  <2>2. Quiet(m)
    BY <1>2, ListenerQuiet
  <2> QED  BY <2>1, <2>2 DEF Quiet
<1>3. ASSUME NEW n \in Node, NEW v \in Value, AppendEntry(n, v)
      PROVE  KeepsIndexes(m)
  BY <1>3 DEF AppendEntry
<1>4. ASSUME NEW n \in Node, BreakCall(n)
      PROVE  KeepsIndexes(m)
  BY <1>4 DEF BreakCall
<1>5. ASSUME NEW n \in Node, Crash(n)
      PROVE  KeepsIndexes(m) \/ NoOffice(m)'
  BY <1>5 DEF Crash
<1>6. ASSUME NEW n \in Node, Restart(n)
      PROVE  KeepsIndexes(m)
  BY <1>6 DEF Restart
<1>7. CASE UNCHANGED vars
  BY <1>7 DEF vars
<1> QED  BY <1>1, <1>2, <1>3, <1>4, <1>5, <1>6, <1>7 DEF Next

LEMMA IndexReplaced ==
  ASSUME NEW f \in [Node -> [Node -> Nat]], NEW m \in Node, NEW p \in Node,
         NEW x \in Nat
  PROVE  \A q \in Node :
           [f EXCEPT ![m][p] = x][m][q] = IF q = p THEN x ELSE f[m][q]
OBVIOUS

LEMMA NextIndexes ==
  ASSUME TypeInv, LeaderInv, [Next]_vars, NEW m \in Node, IndexInv(m)
  PROVE  IndexInv(m)'
<1>0. /\ log[m] \in Seq(Entry) /\ Len(log[m]) \in Nat
      /\ log'[m] \in Seq(Entry) /\ Len(log'[m]) \in Nat
      /\ next_index[m] \in [Node -> Nat] /\ match_index[m] \in [Node -> Nat]
      /\ node_term[m] \in Nat
  <2>1. TypeOK /\ TypeOK'
    BY NextTyped DEF TypeInv
  <2> QED  BY <2>1, LenProperties DEF TypeOK
<1>1. CASE NoOffice(m)'
  BY <1>1 DEF NoOffice, IndexInv
<1>2. CASE KeepsIndexes(m)
  <2>1. node_type'[m] = "Leader" => \A p \in Node : match_index'[m][p] <= Len(log'[m])
    <3>1. SUFFICES ASSUME node_type'[m] = "Leader"
                   PROVE  \A p \in Node : match_index[m][p] <= Len(log'[m])
      BY <1>2 DEF KeepsIndexes
    <3>3. CASE pc[m] = "won"
      BY <1>0, <3>3 DEF IndexInv
    <3>4. CASE node_type[m] = "Leader"
      <4>1. Len(log[m]) <= Len(log'[m])
        <5>1. ASSUME NEW v \in Value,
                     log'[m] = Append(log[m], [value |-> v, term |-> node_term[m]])
              PROVE  Len(log'[m]) = Len(log[m]) + 1
          <6>1. [value |-> v, term |-> node_term[m]] \in Entry
            BY <1>0 DEF Entry
          <6> QED  BY <1>0, <5>1, <6>1, AppendProperties
        <5>2. \/ log'[m] = log[m]
              \/ \E v \in Value :
                   log'[m] = Append(log[m], [value |-> v, term |-> node_term[m]])
          BY <3>1, <3>4, LogStep
        <5>3. CASE log'[m] = log[m]
          BY <1>0, <5>3
        <5>4. CASE \E v \in Value :
                     log'[m] = Append(log[m], [value |-> v, term |-> node_term[m]])
          <6>1. Len(log'[m]) = Len(log[m]) + 1
            BY <5>1, <5>4
          <6> QED  BY <1>0, <6>1
        <5> QED  BY <5>2, <5>3, <5>4
      <4>2. \A p \in Node : match_index[m][p] \in Nat /\ match_index[m][p] <= Len(log[m])
        BY <1>0, <3>4 DEF IndexInv
      <4> QED  BY <1>0, <4>1, <4>2
    <3> QED  BY <1>2, <3>1, <3>3, <3>4 DEF KeepsIndexes
  <2> QED  BY <1>2, <2>1 DEF KeepsIndexes, IndexInv
<1>3. CASE VoteReceived(m)
  <2>1. node_type'[m] # "Leader"
    BY <1>3 DEF VoteReceived, LeaderInv, OfficeInv
  <2>2. CASE pc'[m] = "won"
    <3>1. /\ next_index'[m] = FreshNextIndex(m)
          /\ match_index'[m] = [p \in Node |-> 0]
      <4>1. \/ /\ next_index' = [next_index EXCEPT ![m] = FreshNextIndex(m)]
               /\ match_index' = [match_index EXCEPT ![m] = [p \in Node |-> 0]]
            \/ pc' = pc
        BY <1>3 DEF VoteReceived
      <4>2. pc' # pc
        BY <1>3, <2>2 DEF VoteReceived
      <4> QED  BY <4>1, <4>2 DEF TypeInv, TypeOK
    <3>2. \A p \in Node \ {m} : next_index'[m][p] = Len(log[m]) + 1
      BY <3>1 DEF FreshNextIndex
    <3>3. \A p \in Node : match_index'[m][p] = 0
      BY <3>1
    <3> QED  BY <1>0, <2>1, <3>2, <3>3 DEF IndexInv
  <2>3. CASE pc'[m] # "won"
    BY <2>1, <2>3 DEF IndexInv
  <2> QED  BY <2>2, <2>3
<1>4. CASE HeartbeatReceive(m)
  <2> DEFINE p == Peer(m)
  <2>1. /\ pc'[m] # "won" /\ node_type' = node_type /\ log' = log
        /\ node_type[m] = "Leader"
    BY <1>4 DEF HeartbeatReceive, Goto, LeaderInv, OfficeInv, TypeInv, TypeOK
  <2>3. p \in Node
    BY <1>4, PeerIsNode
    DEF HeartbeatReceive, Answered, CallInv, InLoop, Peer, TypeInv, TypeOK
  <2>4. /\ \A q \in Node \ {m} : next_index[m][q] >= 1
        /\ \A q \in Node : match_index[m][q] <= Len(log[m])
    BY <2>1 DEF IndexInv
  <2> DEFINE lower == IF next_index[m][p] > 1 THEN next_index[m][p] - 1
                      ELSE next_index[m][p]
             upper == IF log[m] = <<>> THEN match_index[m][p] ELSE Len(log[m])
             higher == Len(log[m]) + 1
  <2>5. /\ \/ next_index' = [next_index EXCEPT ![m][p] = higher]
           \/ next_index' = [next_index EXCEPT ![m][p] = lower]
           \/ next_index' = next_index
        /\ \/ match_index' = [match_index EXCEPT ![m][p] = upper]
           \/ match_index' = match_index
    BY <1>4 DEF HeartbeatReceive
  <2>6. /\ lower \in Nat /\ (p # m => lower >= 1)
        /\ higher \in Nat /\ higher >= 1
        /\ upper \in Nat /\ upper <= Len(log[m])
    <3>1. next_index[m][p] \in Nat /\ match_index[m][p] \in Nat
      BY <1>0, <2>3
    <3>2. p # m => next_index[m][p] >= 1
      BY <2>3, <2>4
    <3>3. match_index[m][p] <= Len(log[m])
      BY <2>3, <2>4
    <3> HIDE DEF p
    <3> QED  BY <1>0, <3>1, <3>2, <3>3
  <2>10. /\ next_index \in [Node -> [Node -> Nat]]
        /\ match_index \in [Node -> [Node -> Nat]]
    BY DEF TypeInv, TypeOK
  <2> HIDE DEF p, lower, higher, upper
  <2>7. \A q \in Node \ {m} : next_index'[m][q] >= 1
    <3>1. CASE next_index' = [next_index EXCEPT ![m][p] = higher]
      <4>1. \A q \in Node : next_index'[m][q] = IF q = p THEN higher ELSE next_index[m][q]
        BY <2>3, <2>6, <2>10, <3>1, IndexReplaced
      <4> QED  BY <2>4, <2>6, <4>1
    <3>2. CASE next_index' = [next_index EXCEPT ![m][p] = lower]
      <4>1. \A q \in Node : next_index'[m][q] = IF q = p THEN lower ELSE next_index[m][q]
        BY <2>3, <2>6, <2>10, <3>2, IndexReplaced
      <4> QED  BY <2>4, <2>6, <4>1
    <3> QED  BY <2>4, <2>5, <3>1, <3>2
  <2>8. \A q \in Node : match_index'[m][q] <= Len(log[m])
    <3>1. CASE match_index' = [match_index EXCEPT ![m][p] = upper]
      <4>1. \A q \in Node : match_index'[m][q] = IF q = p THEN upper ELSE match_index[m][q]
        BY <2>3, <2>6, <2>10, <3>1, IndexReplaced
      <4> QED  BY <2>4, <2>6, <4>1
    <3> QED  BY <2>4, <2>5, <3>1
  <2> QED  BY <2>1, <2>7, <2>8 DEF IndexInv
<1>5. CASE HeartbeatEnd(m)
  <2>1. /\ pc'[m] # "won" /\ node_type' = node_type /\ log' = log
        /\ node_type[m] = "Leader"
    BY <1>5 DEF HeartbeatEnd, Goto, LeaderInv, OfficeInv, TypeInv, TypeOK
  <2>3. /\ next_index'[m] = [next_index[m] EXCEPT ![m] = Len(log[m]) + 1]
        /\ match_index'[m] = [match_index[m] EXCEPT ![m] = Len(log[m])]
    BY <1>5 DEF HeartbeatEnd, TypeInv, TypeOK
  <2>4. \A q \in Node \ {m} : next_index'[m][q] >= 1
    BY <1>0, <2>1, <2>3 DEF IndexInv
  <2>5. \A q \in Node : match_index'[m][q] <= Len(log[m])
    BY <1>0, <2>1, <2>3 DEF IndexInv
  <2> QED  BY <2>1, <2>4, <2>5 DEF IndexInv
<1> QED  BY <1>1, <1>2, <1>3, <1>4, <1>5, IndexesKept

LEMMA IndexInvHolds == Spec => [](\A n \in Node : IndexInv(n))
<1> DEFINE Indexed == \A n \in Node : IndexInv(n)
<1>1. Init => Indexed
  BY DEF Init, IndexInv
<1>2. (TypeInv /\ LeaderInv) /\ Indexed /\ [Next]_vars => Indexed'
  BY NextIndexes
<1>3. Spec => []Indexed
  <2> HIDE DEF Indexed
  <2> QED  BY <1>1, <1>2, LeaderInvHolds, PTL DEF Spec
<1> QED  BY <1>3

\* The indexes of a leader stay in bounds over refusals, step-downs and further
\* elections: next_index never falls below 1 for a peer, and match_index never
\* points past the leader's own log.
THEOREM LeaderIndexesBounded == Spec => []LeaderIndexBounds
<1>1. (\A n \in Node : IndexInv(n)) => LeaderIndexBounds
  BY DEF IndexInv, LeaderIndexBounds
<1> QED  BY <1>1, IndexInvHolds, PTL

-----------------------------------------------------------------------------
(* Deliveries *)

DeliveredInv(n) ==
  /\ commited_index[n] <= Len(delivered[n])
  /\ serving[n] => commited_index[n] = Len(delivered[n])
  /\ pc[n] = "down" => commited_index[n] = 0 /\ delivered[n] = <<>>

\* The length of what one handler sends.
LEMMA DeliveredSliceLength ==
  ASSUME NEW l \in Seq(Entry), NEW from \in Nat, NEW to \in Nat
  PROVE  /\ Len(DeliveredSlice(l, from, to)) \in Nat
         /\ ~DeliveryPanics(l, from, to) =>
              Len(DeliveredSlice(l, from, to)) = IF from < to THEN to - from ELSE 0
<1> DEFINE last == IF to <= Len(l) THEN to ELSE Len(l)
<1>1. Len(l) \in Nat /\ last \in Nat /\ last <= Len(l)
  BY LenProperties
<1>2. \A i \in from+1 .. last : l[i] \in Entry
  BY <1>1, ElementOfSeq
<1>3. Len(SubSeq(l, from + 1, last)) = IF from + 1 <= last THEN last - from ELSE 0
  BY <1>1, <1>2, SubSeqProperties
<1> QED  BY <1>1, <1>3 DEF DeliveredSlice, DeliveryPanics

\* commited_index and the deliveries of a node are not touched.
KeepsDelivered(n) ==
  /\ commited_index'[n] = commited_index[n] /\ delivered'[n] = delivered[n]
  /\ serving'[n] => serving[n]
  /\ pc'[n] = "down" => pc[n] = "down"

LEMMA CommitDelivers ==
  ASSUME TypeInv, NEW n \in Node, IndexInv(n), DeliveredInv(n), CommitEntries(n)
  PROVE  DeliveredInv(n)'
<1>1. /\ log[n] \in Seq(Entry) /\ Len(log[n]) \in Nat
      /\ delivered[n] \in Seq(Entry) /\ Len(delivered[n]) \in Nat
      /\ commited_index[n] \in Nat /\ match_index[n] \in [Node -> Nat]
  BY LenProperties DEF TypeInv, TypeOK
<1>2. PICK k \in CommitTargets(n) :
        /\ delivered' = [delivered EXCEPT ![n] =
                           @ \o DeliveredSlice(log[n], commited_index[n], k)]
        /\ IF DeliveryPanics(log[n], commited_index[n], k)
           THEN Goto(n, "dead") /\ UNCHANGED commited_index
           ELSE /\ Goto(n, "check")
                /\ commited_index' = [commited_index EXCEPT ![n] = k]
  BY DEF CommitEntries
<1>3. k \in Nat /\ k > commited_index[n] /\ k <= Len(log[n])
  BY <1>1 DEF CommitTargets, QuorumMatches, IndexInv
<1>4. ~DeliveryPanics(log[n], commited_index[n], k)
  BY <1>1, <1>3 DEF DeliveryPanics
<1> DEFINE slice == DeliveredSlice(log[n], commited_index[n], k)
<1>5. slice \in Seq(Entry) /\ Len(slice) = k - commited_index[n]
  BY <1>1, <1>3, <1>4, DeliveredSliceType, DeliveredSliceLength
<1> HIDE DEF slice
<1>6. delivered'[n] = delivered[n] \o slice
  BY <1>2 DEF TypeInv, TypeOK, slice
<1>7. Len(delivered'[n]) = Len(delivered[n]) + Len(slice)
  BY <1>1, <1>5, <1>6, ConcatProperties
<1>8. commited_index'[n] = k /\ pc'[n] # "down" /\ serving'[n] = serving[n]
  BY <1>2, <1>4 DEF Goto, CommitEntries, TypeInv, TypeOK
<1> QED  BY <1>1, <1>3, <1>5, <1>7, <1>8 DEF DeliveredInv

LEMMA AppendDelivers ==
  ASSUME TypeInv, LeaderInv, NEW n \in Node, DeliveredInv(n),
         NEW msg \in Inbox(n), AcceptAppend(n, msg)
  PROVE  DeliveredInv(n)'
<1> DEFINE merged == MergedLog(log[n], msg.req)
           from == commited_index[n]
           to == msg.req.leaderCommit
           slice == DeliveredSlice(merged, from, to)
<1>1. msg.req \in AppendRequest
  BY InboxTyped DEF AcceptAppend, CanServe, Requests, VoteRequest
<1>2. merged \in Seq(Entry) /\ from \in Nat /\ to \in Nat
  <2>1. log[n] \in Seq(Entry) /\ from \in Nat /\ to \in Nat
    BY <1>1 DEF TypeInv, TypeOK, AppendRequest
  <2>2. msg.req.prevLogIndex <= Len(log[n])
    BY DEF AcceptAppend, AppendAccepted
  <2> QED  BY <1>1, <2>1, <2>2, MergedLogType
<1>3. delivered[n] \in Seq(Entry) /\ Len(delivered[n]) \in Nat
  BY LenProperties DEF TypeInv, TypeOK
<1>4. delivered'[n] = delivered[n] \o slice
  BY DEF AcceptAppend, TypeInv, TypeOK
<1>5. /\ serving[n] /\ pc[n] # "down" /\ pc'[n] = pc[n]
  BY DEF AcceptAppend, CanServe, Listening, LeaderInv, OfficeInv
<1>6. \/ /\ ~DeliveryPanics(merged, from, to)
         /\ commited_index'[n] = IF to > from THEN to ELSE from
      \/ commited_index'[n] = from /\ ~serving'[n]
  BY DEF AcceptAppend, Panic, TypeInv, TypeOK
<1> HIDE DEF merged, from, to
<1>7. /\ slice \in Seq(Entry) /\ Len(slice) \in Nat
      /\ ~DeliveryPanics(merged, from, to) =>
           Len(slice) = IF from < to THEN to - from ELSE 0
  BY <1>2, DeliveredSliceType, DeliveredSliceLength
<1> HIDE DEF slice
<1>8. Len(delivered'[n]) = Len(delivered[n]) + Len(slice)
  BY <1>3, <1>4, <1>7, ConcatProperties
<1>9. from = Len(delivered[n])
  BY <1>5 DEF DeliveredInv, from
<1> QED  BY <1>2, <1>3, <1>5, <1>6, <1>7, <1>8, <1>9 DEF DeliveredInv

LEMMA DeliveredKept ==
  ASSUME TypeInv, LeaderInv, [Next]_vars, NEW m \in Node, DeliveredInv(m),
         ~CommitEntries(m), \A msg \in Inbox(m) : ~AcceptAppend(m, msg)
  PROVE  KeepsDelivered(m) \/ DeliveredInv(m)'
<1> USE DEF TypeInv, TypeOK, KeepsDelivered, Goto
<1>1. ASSUME NEW n \in Node, Ticker(n)
      PROVE  KeepsDelivered(m)
  <2>1. CASE CommitEntries(n)
    <3>1. n # m
      BY <2>1
    <3> QED  BY ZenonT(60), <1>1, <2>1, <3>1, OthersQuiet DEF CommitEntries, Quiet
  <2>2. CASE ~CommitEntries(n)
    <3>1. UNCHANGED <<commited_index, delivered, serving>>
      BY <1>1, <2>2 DEF Ticker, RemoveFile, CreateFile, WriteFile, HeartbeatBegin,
         HeartbeatSend, HeartbeatReceive, HeartbeatEnd, ElectionTimeout,
         BecomeCandidate, CampaignBegin, CampaignSend, CampaignSlow, VoteReceived,
         VoteDenied, VoteMissing, CampaignEnd, BecomeLeader, StepDown, TickEnd
    <3>2. pc'[m] = "down" => pc[m] = "down"
      <4>1. CASE m # n
        BY <1>1, <4>1, OthersQuiet DEF Quiet
      <4>2. CASE \/ RemoveFile(m) \/ CreateFile(m) \/ WriteFile(m)
                 \/ HeartbeatBegin(m) \/ HeartbeatSend(m) \/ HeartbeatReceive(m)
                 \/ HeartbeatEnd(m) \/ ElectionTimeout(m) \/ TickEnd(m)
        BY ZenonT(60), <4>2 DEF RemoveFile, CreateFile, WriteFile, HeartbeatBegin,
           HeartbeatSend, HeartbeatReceive, HeartbeatEnd, ElectionTimeout, TickEnd
      <4>3. CASE \/ BecomeCandidate(m) \/ CampaignBegin(m) \/ CampaignSend(m)
                 \/ CampaignSlow(m) \/ CampaignEnd(m) \/ BecomeLeader(m) \/ StepDown(m)
        BY ZenonT(60), <4>3 DEF BecomeCandidate, CampaignBegin, CampaignSend, CampaignSlow,
           CampaignEnd, BecomeLeader, StepDown
      <4>4. CASE VoteReceived(m) \/ VoteDenied(m) \/ VoteMissing(m)
        BY ZenonT(60), <4>4 DEF VoteReceived, VoteDenied, VoteMissing
      <4> QED  BY <1>1, <2>2, <4>1, <4>2, <4>3, <4>4 DEF Ticker
    <3> QED  BY <3>1, <3>2
  <2> QED  BY <2>1, <2>2
<1>2. ASSUME NEW n \in Node, Listener(n)
      PROVE  KeepsDelivered(m)
  <2>1. commited_index'[m] = commited_index[m] /\ delivered'[m] = delivered[m]
    <3>1. PICK msg \in Inbox(n) :
            \/ GrantVote(n, msg) \/ DenyVote(n, msg)
            \/ AcceptAppend(n, msg) \/ RejectAppend(n, msg)
            \/ TornRequest(n, msg) \/ HoldConnection(n, msg)
      BY <1>2 DEF Listener
    <3>2. CASE AcceptAppend(n, msg)
      <4>1. n # m
        BY <3>2
      <4> QED  BY <3>2, <4>1 DEF AcceptAppend
    <3> QED  BY <3>1, <3>2 DEF GrantVote, DenyVote, RejectAppend, TornRequest, HoldConnection
  <2> QED  BY <1>2, <2>1, ListenerQuiet DEF Quiet
<1>3. ASSUME NEW n \in Node, NEW v \in Value, AppendEntry(n, v)
      PROVE  KeepsDelivered(m)
  BY <1>3 DEF AppendEntry
<1>4. ASSUME NEW n \in Node, BreakCall(n)
      PROVE  KeepsDelivered(m)
  BY <1>4 DEF BreakCall
<1>5. ASSUME NEW n \in Node, Crash(n)
      PROVE  KeepsDelivered(m) \/ DeliveredInv(m)'
  <2>1. CASE m = n
    <3>1. commited_index'[m] = 0 /\ delivered'[m] = <<>> /\ ~serving'[m]
      BY <1>5, <2>1 DEF Crash
    <3> QED  BY <3>1 DEF DeliveredInv
  <2>2. CASE m # n
    BY <1>5, <2>2 DEF Crash
  <2> QED  BY <2>1, <2>2
<1>6. ASSUME NEW n \in Node, Restart(n)
      PROVE  KeepsDelivered(m) \/ DeliveredInv(m)'
  <2>1. CASE m = n
    <3>1. commited_index'[m] = 0 /\ delivered'[m] = <<>>
      BY <1>6, <2>1 DEF Restart, DeliveredInv
    <3> QED  BY <3>1 DEF DeliveredInv
  <2>2. CASE m # n
    BY <1>6, <2>2 DEF Restart
  <2> QED  BY <2>1, <2>2
<1>7. CASE UNCHANGED vars
  BY <1>7 DEF vars
<1> QED  BY <1>1, <1>2, <1>3, <1>4, <1>5, <1>6, <1>7 DEF Next

\* Every index up to commited_index is delivered exactly once since the start:
\* whether maybe_commit_log_entries or append_entries delivers, in whatever
\* order a node leads, follows, crashes and restarts.  No leader panics while
\* it delivers; only a follower's listener may, and it ends with that.
THEOREM DeliversOnce == Spec => []DeliveredOnce
<1> DEFINE Delivering == \A n \in Node : DeliveredInv(n)
<1>1. Init => Delivering
  BY DEF Init, DeliveredInv
<1>2. (TypeInv /\ LeaderInv) /\ (\A n \in Node : IndexInv(n)) /\ Delivering /\ [Next]_vars
        => Delivering'
  <2>1. SUFFICES ASSUME TypeInv, LeaderInv, \A n \in Node : IndexInv(n), Delivering,
                        [Next]_vars, NEW m \in Node
                 PROVE  DeliveredInv(m)'
    OBVIOUS
  <2>2. KeepsDelivered(m) => DeliveredInv(m)'
    BY <2>1 DEF KeepsDelivered, DeliveredInv
  <2> QED  BY <2>1, <2>2, CommitDelivers, AppendDelivers, DeliveredKept
<1>3. Spec => []Delivering
  <2> HIDE DEF Delivering
  <2> QED  BY <1>1, <1>2, LeaderInvHolds, IndexInvHolds, PTL DEF Spec
<1>4. Delivering => DeliveredOnce
  BY DEF DeliveredInv, DeliveredOnce
<1> QED  BY <1>3, <1>4, PTL

-----------------------------------------------------------------------------
(* One leader per term, while votes stand *)

\* The step of a listener that answers n's campaign with an ok: it grants n a
\* vote in n's term.
Grants(x, n) ==
  /\ node_term'[x] = node_term[n] /\ voted_for'[x] = n
  /\ node_term[n] >= node_term[x]
  /\ node_term[n] = node_term[x] => voted_for[x] \in {NoNode, n}
  /\ pc'[x] = pc[x] /\ pc[x] # "down"
  /\ \E msg \in Inbox(x) : GrantVote(x, msg)

\* An answer to n that comes while n campaigns is that of a voter.
LEMMA OkIsGrant ==
  ASSUME TypeInv, LeaderInv, NEW k \in Node, Listener(k), NEW n \in Node,
         pc[n] = "campaign", wire'[n] = "replied", reply'[n].ok,
         wire[n] # "replied"
  PROVE  Peer(n) = k /\ Grants(k, n)
<1>1. PICK msg \in Inbox(k) :
        \/ GrantVote(k, msg) \/ DenyVote(k, msg)
        \/ AcceptAppend(k, msg) \/ RejectAppend(k, msg)
        \/ TornRequest(k, msg) \/ HoldConnection(k, msg)
  BY DEF Listener
<1>2. PICK ok \in BOOLEAN :
        /\ Respond(k, msg, ok) \/ Panic(k, msg)
        /\ Respond(k, msg, ok) /\ ok => GrantVote(k, msg) \/ AcceptAppend(k, msg)
  <2>1. CASE GrantVote(k, msg)
    BY <2>1 DEF GrantVote
  <2>2. CASE DenyVote(k, msg)
    BY <2>2 DEF DenyVote
  <2>3. CASE AcceptAppend(k, msg)
    BY <2>3 DEF AcceptAppend
  <2>4. CASE RejectAppend(k, msg)
    BY <2>4 DEF RejectAppend
  <2>5. CASE TornRequest(k, msg)
    BY <2>5 DEF TornRequest
  <2>6. ~HoldConnection(k, msg)
    BY DEF HoldConnection
  <2> QED  BY <1>1, <2>1, <2>2, <2>3, <2>4, <2>5, <2>6
<1>3. /\ msg.from = n /\ n \in Callers(k)
      /\ reply'[n].ok = ok /\ Respond(k, msg, ok)
  <2>1. ~Panic(k, msg)
    <3>1. SUFFICES ASSUME Panic(k, msg)
                   PROVE  FALSE
      OBVIOUS
    <3>2. PICK f \in [Callers(k) -> {"closed", "failed", "reset"}] :
            wire' = [i \in Node |-> IF i \in Callers(k) THEN f[i] ELSE wire[i]]
      BY <3>1 DEF Panic
    <3> QED  BY <3>2
  <2>2. Respond(k, msg, ok)
    BY <1>2, <2>1
  <2>3. /\ msg.from # NoNode
        /\ wire' = [wire EXCEPT ![msg.from] = "replied"]
        /\ reply' = [reply EXCEPT ![msg.from] =
                       [node |-> k, term |-> node_term'[k], ok |-> ok]]
    BY <2>1, <2>2 DEF Respond
  <2>4. msg.from = n
    BY <2>3 DEF TypeInv, TypeOK
  <2>5. msg.from \in Callers(k)
    <3>1. msg \in orphans => msg.from = NoNode
      BY DEF TypeInv, TypeOK, Orphans
    <3> QED  BY <2>3, <3>1 DEF Inbox
  <2> QED  BY <2>2, <2>3, <2>4, <2>5 DEF TypeInv, TypeOK
<1>4. msg.req = VoteRequestOf(n, node_term[n], log[n]) /\ Peer(n) = k
  <2>1. wire[n] = "sent" /\ Peer(n) = k
    BY <1>3 DEF Callers
  <2>2. msg.req = request[n]
    <3>1. msg \in orphans => msg.from = NoNode
      BY DEF TypeInv, TypeOK, Orphans
    <3>2. msg \notin orphans
      BY <1>3, <3>1, NodeAssumption
    <3> QED  BY <1>3, <3>2 DEF Inbox
  <2>3. SpeaksFor(n)
    BY DEF LeaderInv
  <2> QED  BY <2>1, <2>2, <2>3 DEF SpeaksFor
<1>5. msg.req.type = "RequestVote" /\ msg.req.term = node_term[n] /\ msg.req.candidate = n
  BY <1>4 DEF VoteRequestOf
<1>6. GrantVote(k, msg)
  BY <1>2, <1>3, <1>5 DEF AcceptAppend, CanServe
<1>7. /\ node_term' = [node_term EXCEPT ![k] = node_term[n]]
      /\ voted_for' = [voted_for EXCEPT ![k] = n]
      /\ serving[k] /\ pc' = pc
      /\ ~VoteRefused(node_term[k], voted_for[k], msg.req)
  BY <1>5, <1>6 DEF GrantVote, CanServe, Listening, GrantsVote
<1>8. pc[k] # "down"
  BY <1>7 DEF LeaderInv, OfficeInv
<1>9. node_term[n] \in Nat /\ node_term[k] \in Nat
  BY DEF TypeInv, TypeOK
<1>10. /\ node_term'[k] = node_term[n] /\ voted_for'[k] = n /\ pc'[k] = pc[k]
       /\ node_term[n] >= node_term[k]
       /\ node_term[n] = node_term[k] => voted_for[k] \in {NoNode, n}
  <2>1. node_term'[k] = node_term[n] /\ voted_for'[k] = n /\ pc'[k] = pc[k]
    BY <1>7 DEF TypeInv, TypeOK
  <2>2. ~(node_term[n] < node_term[k])
    BY <1>5, <1>7 DEF VoteRefused
  <2>3. node_term[n] = node_term[k] => voted_for[k] \in {NoNode, n}
    BY <1>5, <1>7 DEF VoteRefused
  <2> QED  BY <1>9, <2>1, <2>2, <2>3
<1> QED  BY <1>4, <1>6, <1>8, <1>10 DEF Grants

\* n stands as it stood, and nobody has joined whom it counts on.
StandsAsBefore(n) ==
  /\ Stands(n) /\ node_term'[n] = node_term[n]
  /\ Supporters(n)' \subseteq Supporters(n)

\* The steps of the ticker that count no vote.
LEMMA UncountedSteps ==
  ASSUME TypeInv, NEW n \in Node, Ticker(n), Stands(n)',
         ~CampaignBegin(n), ~VoteReceived(n)
  PROVE  /\ Stands(n) /\ node_term'[n] = node_term[n]
         /\ votes_recieved'[n] = votes_recieved[n]
         /\ pc'[n] = "campaign" => wire'[n] # "replied"
<1> USE DEF TypeInv, TypeOK, Goto, Stands
<1>1. CASE RemoveFile(n)  BY <1>1 DEF RemoveFile
<1>2. CASE CreateFile(n)  BY <1>2 DEF CreateFile
<1>3. CASE WriteFile(n)  BY <1>3 DEF WriteFile
<1>4. CASE HeartbeatBegin(n)  BY <1>4 DEF HeartbeatBegin
<1>5. CASE HeartbeatSend(n)
  <2>1. pc'[n] # "campaign" /\ pc'[n] # "won"
    BY <1>5 DEF HeartbeatSend
  <2> QED  BY <1>5, <2>1 DEF HeartbeatSend
<1>6. CASE HeartbeatReceive(n)
  <2>1. pc'[n] # "campaign" /\ pc'[n] # "won"
    BY <1>6 DEF HeartbeatReceive
  <2> QED  BY <1>6, <2>1 DEF HeartbeatReceive
<1>7. CASE HeartbeatEnd(n)  BY <1>7 DEF HeartbeatEnd
<1>8. CASE CommitEntries(n)
  <2>1. pc'[n] # "campaign" /\ pc'[n] # "won"
    BY <1>8 DEF CommitEntries
  <2> QED  BY <1>8, <2>1 DEF CommitEntries
<1>9. CASE ElectionTimeout(n)  BY <1>9 DEF ElectionTimeout
<1>10. CASE BecomeCandidate(n)
  <2>1. pc'[n] \in {"candidate", "clear"} /\ node_type'[n] = "Candidate"
    BY <1>10 DEF BecomeCandidate
  <2> QED  BY <2>1
<1>11. CASE CampaignSend(n)
  <2>1. wire'[n] # "replied"
    BY <1>11 DEF CampaignSend, Dial
  <2> QED  BY <1>11, <2>1 DEF CampaignSend
<1>12. CASE CampaignSlow(n)  BY <1>12 DEF CampaignSlow
<1>13. CASE VoteDenied(n)
  <2>1. wire'[n] = "idle"
    BY <1>13 DEF VoteDenied, HangUp
  <2> QED  BY <1>13, <2>1 DEF VoteDenied
<1>14. CASE VoteMissing(n)
  <2>1. wire'[n] = "idle"
    BY <1>14 DEF VoteMissing, HangUp
  <2> QED  BY <1>14, <2>1 DEF VoteMissing
<1>15. CASE CampaignEnd(n)  BY <1>15 DEF CampaignEnd
<1>16. CASE BecomeLeader(n)  BY <1>16 DEF BecomeLeader
<1>17. CASE StepDown(n)
  <2>1. pc'[n] = "clear" /\ node_type'[n] = "Follower"
    BY <1>17 DEF StepDown
  <2> QED  BY <2>1
<1>18. CASE TickEnd(n)  BY <1>18 DEF TickEnd
<1> QED  BY <1>1, <1>2, <1>3, <1>4, <1>5, <1>6, <1>7, <1>8, <1>9, <1>10, <1>11, <1>12, <1>13, <1>14, <1>15, <1>16, <1>17, <1>18 DEF Ticker

LEMMA TickerStands ==
  ASSUME TypeInv, LeaderInv, NEW n \in Node, Ticker(n), Stands(n)',
         ~CampaignBegin(n)
  PROVE  StandsAsBefore(n)
<1>1. CASE VoteReceived(n)
  <2>1. pc[n] = "campaign" /\ wire[n] = "replied" /\ reply[n].ok /\ node_term' = node_term
    BY <1>1 DEF VoteReceived
  <2>2. wire'[n] = "idle"
    BY <1>1 DEF VoteReceived, HangUp, TypeInv, TypeOK
  <2>3. votes_recieved'[n] = Append(votes_recieved[n], Peer(n))
    <3>1. reply[n].node = Peer(n)
      BY <2>1 DEF LeaderInv, VotesInv
    <3> QED  BY <1>1, <3>1 DEF VoteReceived, TypeInv, TypeOK
  <2>4. Peer(n) \in Node
    <3>1. InLoop(n) /\ conn[n] \in Nat \ {0}
      BY <2>1 DEF TypeInv, TypeOK, CallInv
    <3> QED  BY <3>1, PeerIsNode, ConnectionsLength DEF Peer, InLoop
  <2>5. Voters(n)' \subseteq Voters(n) \union {Peer(n)}
    <3>1. votes_recieved[n] \in Seq(Node)
      BY DEF TypeInv, TypeOK
    <3>2. \A i \in 1..Len(votes_recieved'[n]) :
            \/ i \in 1..Len(votes_recieved[n]) /\ votes_recieved'[n][i] = votes_recieved[n][i]
            \/ votes_recieved'[n][i] = Peer(n)
      BY <2>3, <2>4, <3>1, AppendProperties, LenProperties
    <3> QED  BY <3>2 DEF Voters
  <2>6. Supporters(n)' = Voters(n)'
    BY <2>2 DEF Supporters
  <2>7. Supporters(n)' \subseteq Supporters(n)
    BY <2>1, <2>4, <2>5, <2>6 DEF Supporters
  <2> QED  BY <2>1, <2>7 DEF StandsAsBefore, Stands
<1>2. CASE ~VoteReceived(n)
  <2>1. /\ Stands(n) /\ node_term'[n] = node_term[n]
        /\ votes_recieved'[n] = votes_recieved[n]
        /\ pc'[n] = "campaign" => wire'[n] # "replied"
    BY <1>2, UncountedSteps
  <2>2. Voters(n)' = Voters(n)
    BY <2>1 DEF Voters
  <2>3. Supporters(n)' = Voters(n)'
    BY <2>1 DEF Supporters
  <2> QED  BY <2>1, <2>2, <2>3 DEF StandsAsBefore, Supporters
<1> QED  BY <1>1, <1>2

\* n stands as it stood, and x has joined whom it counts on.
JoinedBy(x, n) ==
  /\ Stands(n) /\ node_term'[n] = node_term[n]
  /\ Grants(x, n) /\ Supporters(n)' \subseteq Supporters(n) \union {x}

\* A node that another task's step leaves standing stood in that term before.
LEMMA QuietStands ==
  ASSUME NEW n \in Node, Quiet(n), Stands(n)', TermUntilOffice(n),
         node_term'[n] # node_term[n] => node_type'[n] # "Leader"
  PROVE  /\ Stands(n) /\ node_term'[n] = node_term[n]
         /\ pc'[n] = pc[n] /\ Voters(n)' = Voters(n) /\ Peer(n)' = Peer(n)
<1>1. Stands(n) /\ pc'[n] = pc[n]
  BY DEF Quiet, Stands
<1>2. node_term'[n] = node_term[n]
  <2>1. CASE pc[n] = "campaign"
    BY <2>1 DEF Quiet, LockFree
  <2>2. CASE pc[n] = "won"
    BY <2>2, <1>1 DEF TermUntilOffice
  <2>3. CASE pc[n] \notin {"campaign", "won"}
    BY <2>3, <1>1 DEF Stands
  <2> QED  BY <2>1, <2>2, <2>3
<1>3. Voters(n)' = Voters(n) /\ Peer(n)' = Peer(n)
  BY DEF Quiet, Voters, Peer
<1> QED  BY <1>1, <1>2, <1>3

\* The listener changes the term only of a node that it makes a follower, and
\* overwrites no answer.
LEMMA ListenerTerms ==
  ASSUME TypeInv, NEW k \in Node, Listener(k), NEW n \in Node
  PROVE  /\ node_term'[n] # node_term[n] => node_type'[n] # "Leader"
         /\ wire[n] = "replied" => reply'[n] = reply[n]
<1>1. PICK msg \in Inbox(k) :
        \/ GrantVote(k, msg) \/ DenyVote(k, msg)
        \/ AcceptAppend(k, msg) \/ RejectAppend(k, msg)
        \/ TornRequest(k, msg) \/ HoldConnection(k, msg)
  BY DEF Listener
<1>2. node_term'[n] # node_term[n] => node_type'[n] # "Leader"
  <2>1. CASE GrantVote(k, msg)
    BY <2>1 DEF GrantVote, TypeInv, TypeOK
  <2>2. CASE AcceptAppend(k, msg)
    BY <2>2 DEF AcceptAppend, RoleAfterAppend, TypeInv, TypeOK
  <2>3. CASE DenyVote(k, msg) \/ RejectAppend(k, msg) \/ TornRequest(k, msg) \/ HoldConnection(k, msg)
    BY <2>3 DEF DenyVote, RejectAppend, TornRequest, HoldConnection
  <2> QED  BY <1>1, <2>1, <2>2, <2>3
<1>3. PICK ok \in BOOLEAN : UNCHANGED reply \/ Respond(k, msg, ok) \/ Panic(k, msg)
  <2>1. \/ UNCHANGED reply \/ Panic(k, msg)
        \/ Respond(k, msg, TRUE) \/ Respond(k, msg, FALSE)
    BY <1>1 DEF GrantVote, DenyVote, AcceptAppend, RejectAppend, TornRequest, HoldConnection
  <2> QED  BY <2>1
<1>4. wire[n] = "replied" => reply'[n] = reply[n]
  <2>1. CASE UNCHANGED reply
    BY <2>1
  <2>2. CASE /\ msg.from # NoNode
             /\ reply' = [reply EXCEPT ![msg.from] =
                            [node |-> k, term |-> node_term'[k], ok |-> ok]]
    <3>1. msg \in orphans => msg.from = NoNode
      BY DEF TypeInv, TypeOK, Orphans
    <3>2. msg.from \in Callers(k)
      BY <2>2, <3>1 DEF Inbox
    <3>3. wire[n] = "replied" => n # msg.from
      BY <3>2 DEF Callers
    <3> QED  BY <2>2, <3>3 DEF TypeInv, TypeOK
  <2> QED  BY <1>3, <2>1, <2>2 DEF Respond, Panic
<1> QED  BY <1>2, <1>4

\* What else runs leaves the term of n alone, and answers nobody.
LEMMA OthersTerms ==
  ASSUME TypeInv, NEW n \in Node, NEW k \in Node,
         \/ (Ticker(k) \/ Crash(k) \/ Restart(k)) /\ k # n
         \/ BreakCall(k) \/ \E v \in Value : AppendEntry(k, v)
  PROVE  /\ node_term'[n] = node_term[n]
         /\ wire'[n] = "replied" => wire[n] = "replied" /\ reply'[n] = reply[n]
<1> USE DEF TypeInv, TypeOK
<1>1. CASE Ticker(k) /\ k # n
  <2>1. CASE \/ RemoveFile(k) \/ CreateFile(k) \/ WriteFile(k) \/ HeartbeatBegin(k)
             \/ HeartbeatEnd(k) \/ CommitEntries(k) \/ ElectionTimeout(k)
             \/ BecomeCandidate(k) \/ CampaignBegin(k) \/ CampaignSlow(k)
             \/ CampaignEnd(k) \/ BecomeLeader(k) \/ StepDown(k) \/ TickEnd(k)
    BY <1>1, <2>1 DEF RemoveFile, CreateFile, WriteFile, HeartbeatBegin, HeartbeatEnd,
       CommitEntries, ElectionTimeout, BecomeCandidate, CampaignBegin, CampaignSlow,
       CampaignEnd, BecomeLeader, StepDown, TickEnd
  <2>2. CASE \/ HeartbeatReceive(k) \/ VoteReceived(k) \/ VoteDenied(k)
             \/ VoteMissing(k)
    <3>1. HangUp(k) /\ node_term' = node_term
      BY <2>2 DEF HeartbeatReceive, VoteReceived, VoteDenied, VoteMissing
    <3> QED  BY <1>1, <3>1 DEF HangUp
  <2>3. CASE HeartbeatSend(k) \/ CampaignSend(k)
    <3>1. /\ node_term' = node_term /\ reply' = reply
          /\ wire' = wire \/ wire' = [wire EXCEPT ![k] = "sent"]
      BY <2>3 DEF HeartbeatSend, CampaignSend, Dial
    <3> QED  BY <1>1, <3>1
  <2> QED  BY <1>1, <2>1, <2>2, <2>3 DEF Ticker
<1>2. CASE Crash(k) /\ k # n
  <2>1. PICK f \in [Callers(k) -> {"closed", "failed", "reset", "lost"}] :
          wire' = [i \in Node |-> IF i = k THEN "idle"
                                  ELSE IF i \in Callers(k) THEN f[i] ELSE wire[i]]
    BY <1>2 DEF Crash
  <2>2. wire'[n] = "replied" => wire[n] = "replied"
    BY <2>1, <1>2
  <2> QED  BY <1>2, <2>2 DEF Crash
<1>3. CASE Restart(k) /\ k # n
  BY <1>3 DEF Restart
<1>4. CASE BreakCall(k)
  BY <1>4 DEF BreakCall
<1>5. CASE \E v \in Value : AppendEntry(k, v)
  BY <1>5 DEF AppendEntry
<1> QED  BY <1>1, <1>2, <1>3, <1>4, <1>5

\* Who stands after a step begins to, stands as before, or has won a supporter.
LEMMA StandsStep ==
  ASSUME TypeInv, LeaderInv, [Next]_vars, NEW n \in Node, Stands(n)',
         TermUntilOffice(n)
  PROVE  \/ CampaignBegin(n)
         \/ StandsAsBefore(n)
         \/ \E x \in Node : JoinedBy(x, n)
<1>1. ASSUME Quiet(n), node_term'[n] = node_term[n],
             wire'[n] = "replied" => wire[n] = "replied" /\ reply'[n] = reply[n]
      PROVE  StandsAsBefore(n)
  <2>1. /\ Stands(n) /\ pc'[n] = pc[n] /\ Voters(n)' = Voters(n)
        /\ Peer(n)' = Peer(n)
    BY <1>1, QuietStands
  <2>2. Supporters(n)' \subseteq Supporters(n)
    BY <1>1, <2>1 DEF Supporters
  <2> QED  BY <1>1, <2>1, <2>2 DEF StandsAsBefore
<1>2. ASSUME NEW k \in Node, Ticker(k)
      PROVE  CampaignBegin(n) \/ StandsAsBefore(n)
  <2>1. CASE k = n
    BY <1>2, <2>1, TickerStands
  <2>2. CASE k # n
    BY <1>1, <1>2, <2>2, OthersQuiet, OthersTerms
  <2> QED  BY <2>1, <2>2
<1>3. ASSUME NEW k \in Node, Listener(k)
      PROVE  StandsAsBefore(n) \/ JoinedBy(k, n)
  <2>1. Quiet(n)
    BY <1>3, ListenerQuiet
  <2>2. /\ node_term'[n] # node_term[n] => node_type'[n] # "Leader"
        /\ wire[n] = "replied" => reply'[n] = reply[n]
    BY <1>3, ListenerTerms
  <2>3. /\ Stands(n) /\ node_term'[n] = node_term[n]
        /\ pc'[n] = pc[n] /\ Voters(n)' = Voters(n) /\ Peer(n)' = Peer(n)
    BY <2>1, <2>2, QuietStands
  <2>4. CASE pc[n] = "campaign" /\ wire'[n] = "replied" /\ reply'[n].ok /\ wire[n] # "replied"
    <3>1. Peer(n) = k /\ Grants(k, n)
      BY <1>3, <2>4, OkIsGrant
    <3>2. Supporters(n)' \subseteq Supporters(n) \union {k}
      BY <2>3, <3>1 DEF Supporters
    <3> QED  BY <2>3, <3>1, <3>2 DEF JoinedBy
  <2>5. CASE ~(pc[n] = "campaign" /\ wire'[n] = "replied" /\ reply'[n].ok /\ wire[n] # "replied")
    <3>1. Supporters(n)' \subseteq Supporters(n)
      BY <2>2, <2>3, <2>5 DEF Supporters
    <3> QED  BY <2>3, <3>1 DEF StandsAsBefore
  <2> QED  BY <2>4, <2>5
<1>4. ASSUME NEW k \in Node, BreakCall(k) \/ \E v \in Value : AppendEntry(k, v)
      PROVE  StandsAsBefore(n)
  <2>1. Quiet(n)
    BY <1>4, BreakCallQuiet, AppendEntryQuiet
  <2> QED  BY <1>1, <1>4, <2>1, OthersTerms
<1>5. ASSUME NEW k \in Node, Crash(k) \/ Restart(k)
      PROVE  StandsAsBefore(n)
  <2>1. CASE k = n
    <3>1. pc'[n] \in {"top", "down"} /\ node_type'[n] = "Follower"
      BY <1>5, <2>1 DEF Crash, Restart, Goto, TypeInv, TypeOK, LeaderInv, OfficeInv
    <3> QED  BY <3>1 DEF Stands
  <2>2. CASE k # n
    BY <1>1, <1>5, <2>2, OthersQuiet, OthersTerms
  <2> QED  BY <2>1, <2>2
<1>6. CASE UNCHANGED vars
  BY <1>6 DEF vars, StandsAsBefore, Stands, Supporters, Voters, Peer
<1> QED  BY <1>2, <1>3, <1>4, <1>5, <1>6 DEF Next

\* A node that stays up and in its term changes a vote only for its own
\* campaign, or for want of one.
LEMMA VoteChange ==
  ASSUME TypeInv, [Next]_vars, NEW m \in Node, Up(m), Up(m)',
         node_term'[m] = node_term[m], voted_for[m] # NoNode,
         ~CampaignBegin(m), ~VoteDenied(m)
  PROVE  voted_for'[m] = voted_for[m]
<1> USE DEF TypeInv, TypeOK
<1>1. ASSUME NEW n \in Node, Ticker(n)
      PROVE  voted_for'[m] = voted_for[m]
  <2>1. CASE CampaignBegin(n)
    BY <2>1 DEF CampaignBegin
  <2>2. CASE VoteDenied(n)
    BY <2>2 DEF VoteDenied
  <2>3. CASE ~CampaignBegin(n) /\ ~VoteDenied(n)
    BY <1>1, <2>3 DEF Ticker, RemoveFile, CreateFile, WriteFile, HeartbeatBegin,
       HeartbeatSend, HeartbeatReceive, HeartbeatEnd, CommitEntries,
       ElectionTimeout, BecomeCandidate, CampaignSend, CampaignSlow,
       VoteReceived, VoteMissing, CampaignEnd, BecomeLeader, StepDown, TickEnd
  <2> QED  BY <2>1, <2>2, <2>3
<1>2. ASSUME NEW n \in Node, Listener(n)
      PROVE  voted_for'[m] = voted_for[m]
  <2>1. PICK msg \in Inbox(n) :
          \/ GrantVote(n, msg) \/ DenyVote(n, msg)
          \/ AcceptAppend(n, msg) \/ RejectAppend(n, msg)
          \/ TornRequest(n, msg) \/ HoldConnection(n, msg)
    BY <1>2 DEF Listener
  <2>2. CASE GrantVote(n, msg) /\ m = n
    <3>1. node_term'[n] = msg.req.term /\ voted_for'[n] = msg.req.candidate
      BY <2>2 DEF GrantVote
    <3>2. voted_for[n] \in {NoNode, msg.req.candidate}
      BY <2>2, <3>1 DEF GrantVote, GrantsVote, VoteRefused
    <3> QED  BY <2>2, <3>1, <3>2
  <2>3. CASE AcceptAppend(n, msg) /\ m = n
    <3>1. /\ node_term'[n] = msg.req.term
          /\ voted_for'[n] = IF msg.req.term > node_term[n] THEN msg.req.leader
                             ELSE voted_for[n]
      BY <2>3 DEF AcceptAppend
    <3>2. msg.req.term = node_term[n] /\ node_term[n] \in Nat
      BY <2>3, <3>1
    <3>3. ~(msg.req.term > node_term[n])
      BY <3>2
    <3> QED  BY <2>3, <3>1, <3>3
  <2>4. CASE (GrantVote(n, msg) \/ AcceptAppend(n, msg)) /\ m # n
    BY <2>4 DEF GrantVote, AcceptAppend
  <2>5. CASE DenyVote(n, msg) \/ RejectAppend(n, msg) \/ TornRequest(n, msg) \/ HoldConnection(n, msg)
    BY <2>5 DEF DenyVote, RejectAppend, TornRequest, HoldConnection
  <2> QED  BY <2>1, <2>2, <2>3, <2>4, <2>5
<1>3. ASSUME NEW n \in Node, NEW v \in Value, AppendEntry(n, v)
      PROVE  voted_for'[m] = voted_for[m]
  BY <1>3 DEF AppendEntry
<1>4. ASSUME NEW n \in Node, BreakCall(n) \/ Crash(n) \/ Restart(n)
      PROVE  voted_for'[m] = voted_for[m]
  BY <1>4 DEF BreakCall, Crash, Restart, Up, Goto
<1>5. CASE UNCHANGED vars
  BY <1>5 DEF vars
<1> QED  BY <1>1, <1>2, <1>3, <1>4, <1>5 DEF Next

\* Only a restart brings a node up.
LEMMA ComesUp ==
  ASSUME TypeInv, LeaderInv, [Next]_vars, NEW m \in Node, ~Up(m), Up(m)'
  PROVE  Restart(m)
<1> USE DEF TypeInv, TypeOK, Up, Goto
<1>1. ASSUME NEW n \in Node, Ticker(n)
      PROVE  FALSE
  <2>1. CASE m # n
    BY <1>1, <2>1, OthersQuiet DEF Quiet
  <2>2. CASE m = n
    BY <1>1, <2>2 DEF Ticker, RemoveFile, CreateFile, WriteFile, HeartbeatBegin,
       HeartbeatSend, HeartbeatReceive, HeartbeatEnd, CommitEntries, AwaitsHeartbeat,
       AwaitsCommit, AwaitsElection, CampaignBegin, VoteDenied,
       ElectionTimeout, BecomeCandidate, CampaignSend, CampaignSlow,
       VoteReceived, VoteMissing, CampaignEnd, BecomeLeader, StepDown, TickEnd
  <2> QED  BY <2>1, <2>2
<1>2. ASSUME NEW n \in Node, \/ Listener(n) \/ BreakCall(n)
                             \/ \E v \in Value : AppendEntry(n, v)
      PROVE  FALSE
  BY <1>2, ListenerQuiet, BreakCallQuiet, AppendEntryQuiet DEF Quiet
<1>3. ASSUME NEW n \in Node, Crash(n) \/ Restart(n)
      PROVE  Restart(m)
  <2>1. CASE m # n
    BY <1>3, <2>1, OthersQuiet DEF Quiet
  <2>2. CASE m = n
    BY <1>3, <2>2 DEF Crash
  <2> QED  BY <2>1, <2>2
<1>4. CASE UNCHANGED vars
  BY <1>4 DEF vars
<1> QED  BY <1>1, <1>2, <1>3, <1>4 DEF Next

LEMMA RecordTyped ==
  ASSUME TypeInv, NEW m \in Node
  PROVE  TermOf(m) \in Nat
BY DEF TypeInv, TypeOK, TermOf, Disks

\* So its record of a vote, over crashes and restarts.
LEMMA RecordStep ==
  ASSUME TypeInv, LeaderInv, [Next]_vars, NEW m \in Node, KeepsRecord(m),
         TermOf(m)' = TermOf(m), VoteOf(m) # NoNode,
         ~CampaignBegin(m), ~VoteDenied(m)
  PROVE  VoteOf(m)' = VoteOf(m)
<1>1. CASE pc'[m] = "down"
  BY <1>1 DEF KeepsRecord
<1>2. CASE Up(m) /\ Up(m)'
  <2>1. TermOf(m) = node_term[m] /\ VoteOf(m) = voted_for[m]
        /\ TermOf(m)' = node_term'[m] /\ VoteOf(m)' = voted_for'[m]
    BY <1>2 DEF TermOf, VoteOf
  <2> QED  BY <1>2, <2>1, VoteChange
<1>3. CASE ~Up(m) /\ Up(m)'
  <2>1. Restart(m)
    BY <1>3, ComesUp
  <2>2. voted_for'[m] = disk[m].votedFor
    BY <2>1 DEF Restart, TypeInv, TypeOK
  <2> QED  BY <1>3, <2>2 DEF VoteOf
<1> QED  BY <1>1, <1>2, <1>3 DEF Up

ElectionsInv == \A n \in Node : ElectionInv(n)

\* Whom n counts on stays so: it has nobody else to vote for in that term, and
\* campaigns itself only in a later one.
LEMMA VotedKept ==
  ASSUME TypeInv, LeaderInv, ElectionsInv, [Next]_vars, VotesStandStep,
         NEW n \in Node, Stands(n), Stands(n)', node_term'[n] = node_term[n],
         NEW m \in Supporters(n), m \in Node
  PROVE  Voted(m, n, node_term[n])'
<1>1. Voted(m, n, node_term[n])
  BY DEF ElectionsInv, ElectionInv
<1>2. TermOf(m)' >= TermOf(m) /\ KeepsRecord(m)
  BY DEF VotesStandStep, KeepsRecord
<1>3. /\ TermOf(m) \in Nat /\ TermOf(m)' \in Nat /\ node_term[n] \in Nat
  <2>1. TypeInv'
    BY NextTyped
  <2>2. TermOf(m)' \in Nat
    BY <2>1 DEF TypeInv, TypeOK, TermOf, Disks
  <2> QED  BY <2>2, RecordTyped DEF TypeInv, TypeOK
<1>4. CASE TermOf(m)' > node_term[n]
  BY <1>4 DEF Voted
<1>5. CASE ~(TermOf(m)' > node_term[n])
  <2>1. TermOf(m)' = TermOf(m) /\ TermOf(m) = node_term[n] /\ VoteOf(m) = n
    <3>1. TermOf(m) > node_term[n] \/ (TermOf(m) = node_term[n] /\ VoteOf(m) = n)
      BY <1>1 DEF Voted
    <3> QED  BY <1>2, <1>3, <1>5, <3>1
  <2>2. ~CampaignBegin(m)
    <3>1. SUFFICES ASSUME CampaignBegin(m)
                   PROVE  FALSE
      OBVIOUS
    <3>2. pc[m] = "candidate" /\ TermOf(m) = node_term[m]
      BY <3>1 DEF CampaignBegin, TermOf, Up
    <3> QED  BY <2>1, <3>2 DEF ElectionsInv, ElectionInv
  <2>3. ~VoteDenied(m) \/ VoteOf(m)' = VoteOf(m)
    <3>1. SUFFICES ASSUME VoteDenied(m)
                   PROVE  VoteOf(m)' = VoteOf(m)
      OBVIOUS
    <3>2. pc[m] = "campaign" /\ node_type' = node_type
      BY <3>1 DEF VoteDenied
    <3>3. Stands(m) /\ m \in Supporters(m) /\ node_type[m] # "Leader"
      BY <3>2 DEF Stands, Supporters, Voters, LeaderInv, VotesInv, CountedOnce, OfficeInv
    <3>4. Voted(m, m, node_term[m]) /\ TermOf(m) = node_term[m]
      BY <3>2, <3>3 DEF ElectionsInv, ElectionInv, TermOf, Up
    <3>5. m = n
      BY <1>3, <2>1, <3>4 DEF Voted
    <3>6. CASE pc' = [pc EXCEPT ![m] = "lost"]
      BY <3>2, <3>3, <3>5, <3>6 DEF Stands, TypeInv, TypeOK
    <3>7. CASE UNCHANGED <<pc, voted_for>>
      BY <3>2, <3>7 DEF VoteOf, Up
    <3> QED  BY <3>1, <3>6, <3>7 DEF VoteDenied, Goto
  <2>4. VoteOf(m)' = VoteOf(m)
    BY <1>2, <2>1, <2>2, <2>3, RecordStep, NodeAssumption
  <2> QED  BY <2>1, <2>4 DEF Voted
<1> QED  BY <1>4, <1>5

LEMMA SupportersTyped ==
  ASSUME TypeInv, NEW n \in Node
  PROVE  Supporters(n) \subseteq Node
<1>1. votes_recieved[n] \in Seq(Node)
  BY DEF TypeInv, TypeOK
<1>2. Voters(n) \subseteq Node
  BY <1>1, ElementOfSeq DEF Voters
<1> QED  BY <1>2 DEF Supporters

\* A step that begins a campaign grants no vote.
LEMMA OneThingAtATime ==
  ASSUME TypeInv, NEW n \in Node, NEW k \in Node, CampaignBegin(k)
  PROVE  /\ ~(\E x \in Node : JoinedBy(x, n))
         /\ n # k => ~CampaignBegin(n)
<1>1. pc'[k] = "campaign" /\ pc[k] = "candidate"
  BY DEF CampaignBegin, Goto, TypeInv, TypeOK
<1>2. ~(\E x \in Node : JoinedBy(x, n))
  BY <1>1 DEF JoinedBy, Grants, GrantVote
<1>3. n # k => ~CampaignBegin(n)
  BY <1>1 DEF CampaignBegin, Goto, TypeInv, TypeOK
<1> QED  BY <1>2, <1>3

\* Nobody who counts for another in that term joins, and nobody for two.
LEMMA JoinsAlone ==
  ASSUME TypeInv, LeaderInv, ElectionsInv,
         NEW n \in Node, NEW k \in Node, n # k, NEW x \in Node, JoinedBy(x, n),
         Stands(k), node_term[k] = node_term[n]
  PROVE  /\ x \notin Supporters(k)
         /\ \A y \in Node : JoinedBy(y, k) => x # y
<1>1. x \notin Supporters(k)
  <2>1. SUFFICES ASSUME x \in Supporters(k)
                 PROVE  FALSE
    OBVIOUS
  <2>2. Voted(x, k, node_term[n])
    BY <2>1 DEF ElectionsInv, ElectionInv
  <2>3. TermOf(x) = node_term[x] /\ VoteOf(x) = voted_for[x]
    BY DEF JoinedBy, Grants, TermOf, VoteOf, Up
  <2>4. node_term[n] >= node_term[x]
        /\ (node_term[n] = node_term[x] => voted_for[x] \in {NoNode, n})
    BY DEF JoinedBy, Grants
  <2>5. node_term[x] \in Nat /\ node_term[n] \in Nat /\ k # NoNode
    BY NodeAssumption DEF TypeInv, TypeOK
  <2> QED  BY <2>2, <2>3, <2>4, <2>5 DEF Voted
<1>2. \A y \in Node : JoinedBy(y, k) => x # y
  BY DEF JoinedBy, Grants
<1> QED  BY <1>1, <1>2

LEMMA NextVoted ==
  ASSUME TypeInv, LeaderInv, ElectionsInv, [Next]_vars, VotesStandStep,
         NEW n \in Node, Stands(n)', NEW m \in Supporters(n)'
  PROVE  Voted(m, n, node_term[n])'
<1>1. m \in Node
  <2>1. TypeInv'
    BY NextTyped
  <2>2. votes_recieved'[n] \in Seq(Node)
    BY <2>1 DEF TypeInv, TypeOK
  <2>3. Voters(n)' \subseteq Node
    BY <2>2, ElementOfSeq DEF Voters
  <2> QED  BY <2>3 DEF Supporters
<1>2. CASE CampaignBegin(n)
  <2>1. /\ votes_recieved'[n] = <<n>> /\ wire'[n] = "idle" /\ pc'[n] = "campaign"
        /\ voted_for'[n] = n
    BY <1>2, IdleOutside DEF CampaignBegin, FirstVotes, Goto, TypeInv, TypeOK
  <2>2. m = n
    <3>1. \A i \in 1..Len(votes_recieved'[n]) : votes_recieved'[n][i] = n
      BY <2>1
    <3> QED  BY <2>1, <3>1 DEF Supporters, Voters
  <2> QED  BY <2>1, <2>2 DEF Voted, TermOf, VoteOf, Up
<1>3. CASE StandsAsBefore(n)
  BY <1>1, <1>3, VotedKept DEF StandsAsBefore
<1>4. ASSUME NEW x \in Node, JoinedBy(x, n)
      PROVE  Voted(m, n, node_term[n])'
  <2>1. CASE m = x
    <3>1. node_term'[x] = node_term'[n] /\ voted_for'[x] = n /\ pc'[x] # "down"
      BY <1>4 DEF JoinedBy, Grants
    <3> QED  BY <2>1, <3>1 DEF Voted, TermOf, VoteOf, Up
  <2>2. CASE m # x
    BY <1>1, <1>4, <2>2, VotedKept DEF JoinedBy
  <2> QED  BY <2>1, <2>2
<1> QED  BY <1>2, <1>3, <1>4, StandsStep DEF VotesStandStep

\* Two nodes that stand in one term stood in it before the step, or one begins.
LEMMA NextApart ==
  ASSUME TypeInv, LeaderInv, ElectionsInv, [Next]_vars, VotesStandStep,
         NEW n \in Node, NEW k \in Node, n # k, Stands(n)', Stands(k)',
         node_term'[n] = node_term'[k]
  PROVE  Supporters(n)' \cap Supporters(k)' = {}
<1>1. ASSUME NEW a \in Node, NEW b \in Node, a # b, Stands(a)', Stands(b)',
             node_term'[a] = node_term'[b], CampaignBegin(a)
      PROVE  Supporters(a)' \cap Supporters(b)' = {}
  <2>1. /\ votes_recieved'[a] = <<a>> /\ wire'[a] = "idle" /\ node_term' = node_term
        /\ pc[a] = "candidate"
    BY <1>1, IdleOutside DEF CampaignBegin, FirstVotes, TypeInv, TypeOK
  <2>2. Supporters(a)' \subseteq {a}
    <3>1. \A i \in 1..Len(votes_recieved'[a]) : votes_recieved'[a][i] = a
      BY <2>1
    <3> QED  BY <2>1, <3>1 DEF Supporters, Voters
  <2>3. StandsAsBefore(b)
    BY <1>1, StandsStep, OneThingAtATime DEF VotesStandStep
  <2>4. a \notin Supporters(b)
    BY <1>1, <2>1, <2>3 DEF ElectionsInv, ElectionInv, StandsAsBefore
  <2> QED  BY <2>2, <2>3, <2>4 DEF StandsAsBefore
<1>2. CASE CampaignBegin(n) \/ CampaignBegin(k)
  BY <1>1, <1>2
<1>3. CASE ~CampaignBegin(n) /\ ~CampaignBegin(k)
  <2>1. StandsAsBefore(n) \/ \E x \in Node : JoinedBy(x, n)
    BY <1>3, StandsStep DEF VotesStandStep
  <2>2. StandsAsBefore(k) \/ \E x \in Node : JoinedBy(x, k)
    BY <1>3, StandsStep DEF VotesStandStep
  <2>3. /\ Stands(n) /\ Stands(k) /\ node_term[n] = node_term[k]
    BY <2>1, <2>2 DEF StandsAsBefore, JoinedBy
  <2>4. Supporters(n) \cap Supporters(k) = {}
    BY <2>3 DEF ElectionsInv, ElectionInv
  <2>5. CASE StandsAsBefore(n) /\ StandsAsBefore(k)
    BY <2>4, <2>5 DEF StandsAsBefore
  <2>6. ASSUME NEW x \in Node, JoinedBy(x, n), StandsAsBefore(k)
        PROVE  Supporters(n)' \cap Supporters(k)' = {}
    <3>1. x \notin Supporters(k)
      BY <2>3, <2>6, JoinsAlone
    <3>2. Supporters(n)' \subseteq Supporters(n) \union {x}
          /\ Supporters(k)' \subseteq Supporters(k)
      BY <2>6 DEF JoinedBy, StandsAsBefore
    <3> QED  BY <2>4, <3>1, <3>2
  <2>7. ASSUME NEW x \in Node, JoinedBy(x, k), StandsAsBefore(n)
        PROVE  Supporters(n)' \cap Supporters(k)' = {}
    <3>1. x \notin Supporters(n)
      BY <2>3, <2>7, JoinsAlone
    <3>2. Supporters(k)' \subseteq Supporters(k) \union {x}
          /\ Supporters(n)' \subseteq Supporters(n)
      BY <2>7 DEF JoinedBy, StandsAsBefore
    <3> QED  BY <2>4, <3>1, <3>2
  <2>8. ASSUME NEW x \in Node, JoinedBy(x, n), NEW y \in Node, JoinedBy(y, k)
        PROVE  Supporters(n)' \cap Supporters(k)' = {}
    <3>1. x \notin Supporters(k) /\ x # y
      BY <2>3, <2>8, JoinsAlone
    <3>2. y \notin Supporters(n)
      BY <2>3, <2>8, JoinsAlone
    <3>3. Supporters(n)' \subseteq Supporters(n) \union {x}
          /\ Supporters(k)' \subseteq Supporters(k) \union {y}
      BY <2>8 DEF JoinedBy
    <3> QED  BY <2>4, <3>1, <3>2, <3>3
  <2> QED  BY <2>1, <2>2, <2>5, <2>6, <2>7, <2>8
<1> QED  BY <1>2, <1>3

\* A ticker comes to the campaign only from the transition that raises its term.
LEMMA ComesToCandidate ==
  ASSUME TypeInv, [Next]_vars, NEW n \in Node, pc'[n] = "candidate"
  PROVE  pc[n] = "candidate" \/ BecomeCandidate(n)
<1> USE DEF TypeInv, TypeOK, Goto
<1>1. ASSUME NEW k \in Node, Ticker(k)
      PROVE  pc[n] = "candidate" \/ BecomeCandidate(n)
  <2>1. CASE n # k
    BY <1>1, <2>1, OthersQuiet DEF Quiet
  <2>2. CASE n = k
    BY <1>1, <2>2 DEF Ticker, RemoveFile, CreateFile, WriteFile, HeartbeatBegin,
       HeartbeatSend, HeartbeatReceive, HeartbeatEnd, CommitEntries,
       CampaignBegin, VoteDenied, ElectionTimeout, CampaignSend, CampaignSlow,
       VoteReceived, VoteMissing, CampaignEnd, BecomeLeader, StepDown, TickEnd
  <2> QED  BY <2>1, <2>2
<1>2. ASSUME NEW k \in Node, \/ Listener(k) \/ BreakCall(k)
                             \/ \E v \in Value : AppendEntry(k, v)
      PROVE  pc[n] = "candidate"
  BY <1>2, ListenerQuiet, BreakCallQuiet, AppendEntryQuiet DEF Quiet
<1>3. ASSUME NEW k \in Node, Crash(k) \/ Restart(k)
      PROVE  pc[n] = "candidate"
  <2>1. CASE n # k
    BY <1>3, <2>1, OthersQuiet DEF Quiet
  <2>2. CASE n = k
    BY <1>3, <2>2 DEF Crash, Restart
  <2> QED  BY <2>1, <2>2
<1>4. CASE UNCHANGED vars
  BY <1>4 DEF vars
<1> QED  BY <1>1, <1>2, <1>3, <1>4 DEF Next

\* A candidate that has yet to begin counts for nobody: it has just come to its
\* term, and grants no vote in the gap.
LEMMA NextFree ==
  ASSUME TypeInv, LeaderInv, ElectionsInv, [Next]_vars, VotesStandStep,
         NEW n \in Node, pc'[n] = "candidate", NEW k \in Node, Stands(k)',
         node_term'[n] = node_term'[k]
  PROVE  n \notin Supporters(k)'
<1>1. pc[n] # "down" /\ (pc[n] = "candidate" \/ BecomeCandidate(n))
  BY ComesToCandidate DEF BecomeCandidate
<1>2. /\ node_term'[n] >= node_term[n]
      /\ node_term[n] \in Nat /\ node_term'[n] \in Nat /\ node_term[k] \in Nat
  <2>1. KeepsRecord(n) /\ TypeInv'
    BY NextTyped DEF VotesStandStep
  <2> QED  BY <1>1, <2>1 DEF KeepsRecord, TermOf, Up, TypeInv, TypeOK
<1>3. pc[n] = "candidate" \/ node_term'[n] > node_term[n]
  BY <1>1 DEF BecomeCandidate, TypeInv, TypeOK
<1>4. CASE CampaignBegin(k)
  <2>1. /\ votes_recieved'[k] = <<k>> /\ wire'[k] = "idle" /\ pc'[k] = "campaign"
    BY <1>4, IdleOutside DEF CampaignBegin, FirstVotes, Goto, TypeInv, TypeOK
  <2>2. \A i \in 1..Len(votes_recieved'[k]) : votes_recieved'[k][i] = k
    BY <2>1
  <2> QED  BY <2>1, <2>2 DEF Supporters, Voters
<1>5. ASSUME Stands(k), node_term'[k] = node_term[k]
      PROVE  n \notin Supporters(k)
  <2>1. CASE node_term'[n] = node_term[n]
    BY <1>2, <1>3, <1>5, <2>1 DEF ElectionsInv, ElectionInv
  <2>2. CASE node_term'[n] # node_term[n]
    <3>1. SUFFICES ASSUME n \in Supporters(k)
                   PROVE  FALSE
      OBVIOUS
    <3>2. Voted(n, k, node_term[k]) /\ TermOf(n) = node_term[n]
      BY <1>1, <1>5, <3>1 DEF ElectionsInv, ElectionInv, TermOf, Up
    <3> QED  BY <1>2, <1>5, <2>2, <3>2 DEF Voted
  <2> QED  BY <2>1, <2>2
<1>6. CASE StandsAsBefore(k)
  BY <1>5, <1>6 DEF StandsAsBefore
<1>7. ASSUME NEW x \in Node, JoinedBy(x, k)
      PROVE  n \notin Supporters(k)'
  <2>1. x # n
    <3>1. pc[n] = "candidate" => x # n
      BY <1>7 DEF JoinedBy, Grants, VotesStandStep, NoVoteInGap
    <3>2. BecomeCandidate(n) => x # n
      BY <1>7 DEF JoinedBy, Grants, BecomeCandidate
    <3> QED  BY <1>1, <3>1, <3>2
  <2> QED  BY <1>5, <1>7, <2>1 DEF JoinedBy
<1> QED  BY <1>4, <1>6, <1>7, StandsStep DEF VotesStandStep

LEMMA NextElections ==
  TypeInv /\ LeaderInv /\ ElectionsInv /\ [Next]_vars /\ VotesStandStep
    => ElectionsInv'
<1> SUFFICES ASSUME TypeInv, LeaderInv, ElectionsInv, [Next]_vars, VotesStandStep,
                    NEW n \in Node
             PROVE  ElectionInv(n)'
  BY DEF ElectionsInv
<1>1. Stands(n)' => \A m \in Supporters(n)' : Voted(m, n, node_term[n])'
  BY NextVoted
<1>2. \A k \in Node \ {n} :
        Stands(n)' /\ Stands(k)' /\ node_term'[n] = node_term'[k] =>
          Supporters(n)' \cap Supporters(k)' = {}
  BY NextApart
<1>3. pc'[n] = "candidate" =>
        \A k \in Node :
          Stands(k)' /\ node_term'[n] = node_term'[k] => n \notin Supporters(k)'
  BY NextFree
<1> QED  BY <1>1, <1>2, <1>3 DEF ElectionInv

\* A stuttering step moves no votes, whatever NoLapse says of it.
LEMMA StutterStands ==
  ASSUME TypeInv, UNCHANGED vars
  PROVE  ElectionsInv => ElectionsInv'
BY DEF vars, ElectionsInv, ElectionInv, Stands, Supporters, Voters, Voted, TermOf,
   VoteOf, Up, Peer

LEMMA VotersAreQuorum ==
  ASSUME NEW n \in Node, votes_recieved[n] \in Seq(Node), CountedOnce(n),
         Len(votes_recieved[n]) >= QuorumLength(n)
  PROVE  /\ Voters(n) \subseteq Node
         /\ 2 * Cardinality(Voters(n)) > Cardinality(Node)
<1>1. PICK votes \in Seq(Node) : votes = votes_recieved[n]
  OBVIOUS
<1> DEFINE size == Len(votes)
           V == {votes[i] : i \in 1..size}
           f == [i \in 1..size |-> votes[i]]
<1>2. size \in Nat /\ V \subseteq Node
  BY LenProperties, ElementOfSeq
<1>3. \A i, j \in 1..size : votes[i] = votes[j] => i = j
  BY <1>1 DEF CountedOnce
<1>4. f \in Bijection(1..size, V)
  <2>1. f \in [1..size -> V] /\ \A i, j \in 1..size : f[i] = f[j] => i = j
    BY <1>3
  <2>2. \A v \in V : \E i \in 1..size : f[i] = v
    OBVIOUS
  <2> HIDE DEF f, V
  <2> QED  BY <2>1, <2>2, Fun_IsBij
<1>5. Cardinality(V) = size
  <2>1. ExistsBijection(1..size, V)
    BY <1>4, Fun_ExistsBij
  <2> HIDE DEF size, V
  <2> QED  BY <1>2, <2>1, FS_CountingElements
<1>6. V = Voters(n)
  BY <1>1 DEF Voters
<1>7. size >= QuorumLength(n)
  BY <1>1
<1>8. QuorumLength(n) \in Nat /\ 2 * QuorumLength(n) > Cardinality(Node)
      /\ Cardinality(Node) \in Nat
  BY QuorumIsMajority, NodeAssumption, FS_CardinalityType
<1> HIDE DEF size, V, f
<1>9. 2 * size > Cardinality(Node)
  BY <1>2, <1>7, <1>8
<1> QED  BY <1>2, <1>5, <1>6, <1>9

LEMMA QuorumsMeet ==
  ASSUME NEW S, NEW T, S \subseteq Node, T \subseteq Node,
         2 * Cardinality(S) > Cardinality(Node), 2 * Cardinality(T) > Cardinality(Node)
  PROVE  S \cap T # {}
<1>1. /\ Cardinality(S) \in Nat /\ Cardinality(T) \in Nat /\ Cardinality(Node) \in Nat
  BY NodeAssumption, FS_Subset, FS_CardinalityType
<1>2. Cardinality(S) + Cardinality(T) > Cardinality(Node)
  BY <1>1
<1> QED  BY <1>2, NodeAssumption, FS_MajoritiesIntersect

-----------------------------------------------------------------------------
(* Steps that are no lapse *)

\* n goes back to an earlier term, or to its term without its vote.
GoesBack(n) == CrashUnsaved(n) \/ StepDownStale(n) \/ AppendStale(n)

\* The file of a node that is down is left alone.
LEMMA FileKept ==
  ASSUME TypeInv, [Next]_vars, NEW m \in Node, ~Up(m)
  PROVE  disk'[m].term = disk[m].term /\ disk'[m].votedFor = disk[m].votedFor
<1> USE DEF TypeInv, TypeOK, Up
<1>1. ASSUME NEW n \in Node, Ticker(n)
      PROVE  disk'[m] = disk[m]
  <2>1. CASE RemoveFile(n)
    BY <2>1 DEF RemoveFile
  <2>2. CASE CreateFile(n)
    BY <2>2 DEF CreateFile
  <2>3. CASE WriteFile(n)
    BY <2>3 DEF WriteFile
  <2>4. CASE ~RemoveFile(n) /\ ~CreateFile(n) /\ ~WriteFile(n)
    BY <1>1, <2>4 DEF Ticker, HeartbeatBegin,
       HeartbeatSend, HeartbeatReceive, HeartbeatEnd, CommitEntries, CampaignBegin,
       VoteDenied, ElectionTimeout, BecomeCandidate, CampaignSend, CampaignSlow,
       VoteReceived, VoteMissing, CampaignEnd, BecomeLeader, StepDown, TickEnd
  <2> QED  BY <2>1, <2>2, <2>3, <2>4
<1>2. ASSUME NEW n \in Node, Listener(n)
      PROVE  disk' = disk
  BY <1>2 DEF Listener, GrantVote, DenyVote, AcceptAppend, RejectAppend, TornRequest, HoldConnection
<1>3. ASSUME NEW n \in Node, \/ \E v \in Value : AppendEntry(n, v)
                             \/ BreakCall(n) \/ Crash(n)
      PROVE  disk' = disk
  BY <1>3 DEF AppendEntry, BreakCall, Crash
<1>4. ASSUME NEW n \in Node, Restart(n)
      PROVE  disk'[m].term = disk[m].term /\ disk'[m].votedFor = disk[m].votedFor
  <2>1. disk' = [disk EXCEPT ![n].state = "saved"]
    BY <1>4 DEF Restart
  <2> QED  BY <2>1 DEF Disks
<1>5. CASE UNCHANGED vars
  BY <1>5 DEF vars
<1> QED  BY <1>1, <1>2, <1>3, <1>4, <1>5 DEF Next

\* A node that stays up lowers its term only at these two places.
LEMMA TermStep ==
  ASSUME TypeInv, [Next]_vars, NEW m \in Node, Up(m), Up(m)'
  PROVE  node_term'[m] >= node_term[m] \/ GoesBack(m)
<1>0. node_term \in [Node -> Nat] /\ seen_term[m] \in Nat
  BY DEF TypeInv, TypeOK
<1>1. ASSUME NEW n \in Node, Ticker(n)
      PROVE  node_term'[m] >= node_term[m] \/ GoesBack(m)
  <2>1. CASE BecomeCandidate(n)
    BY <1>0, <2>1 DEF BecomeCandidate
  <2>2. CASE StepDown(n)
    <3>1. node_term' = [node_term EXCEPT ![n] = seen_term[n]]
      BY <2>2 DEF StepDown
    <3>2. CASE m # n
      BY <1>0, <3>1, <3>2
    <3>3. CASE m = n
      BY <1>0, <2>2, <3>1, <3>3 DEF GoesBack, StepDownStale
    <3> QED  BY <3>2, <3>3
  <2>3. CASE ~BecomeCandidate(n) /\ ~StepDown(n)
    <3>1. node_term' = node_term
      BY <1>1, <2>3 DEF Ticker, RemoveFile, CreateFile, WriteFile, HeartbeatBegin,
         HeartbeatSend, HeartbeatReceive, HeartbeatEnd, CommitEntries, CampaignBegin,
         VoteDenied, ElectionTimeout, CampaignSend, CampaignSlow,
         VoteReceived, VoteMissing, CampaignEnd, BecomeLeader, TickEnd
    <3> QED  BY <1>0, <3>1
  <2> QED  BY <2>1, <2>2, <2>3
<1>2. ASSUME NEW n \in Node, Listener(n)
      PROVE  node_term'[m] >= node_term[m] \/ GoesBack(m)
  <2>1. PICK msg \in Inbox(n) :
          \/ GrantVote(n, msg) \/ DenyVote(n, msg)
          \/ AcceptAppend(n, msg) \/ RejectAppend(n, msg)
          \/ TornRequest(n, msg) \/ HoldConnection(n, msg)
    BY <1>2 DEF Listener
  <2>2. CASE GrantVote(n, msg)
    <3>1. node_term' = [node_term EXCEPT ![n] = msg.req.term]
          /\ ~(msg.req.term < node_term[n])
      BY <2>2 DEF GrantVote, GrantsVote, VoteRefused
    <3>2. msg.req.term \in Nat
      <4>1. msg.req \in Requests
        BY <2>2, InboxTyped DEF GrantVote, AcceptAppend, CanServe
      <4> QED  BY <4>1 DEF Requests, VoteRequest, AppendRequest
    <3> QED  BY <1>0, <3>1, <3>2
  <2>3. CASE AcceptAppend(n, msg)
    <3>1. node_term' = [node_term EXCEPT ![n] = msg.req.term]
      BY <2>3 DEF AcceptAppend
    <3>2. msg.req.term \in Nat
      <4>1. msg.req \in Requests
        BY <2>3, InboxTyped DEF GrantVote, AcceptAppend, CanServe
      <4> QED  BY <4>1 DEF Requests, VoteRequest, AppendRequest
    <3>3. CASE m # n
      BY <1>0, <3>1, <3>3
    <3>4. CASE m = n
      BY <1>0, <2>3, <3>1, <3>2, <3>4 DEF GoesBack, AppendStale
    <3> QED  BY <3>3, <3>4
  <2>4. CASE DenyVote(n, msg) \/ RejectAppend(n, msg) \/ TornRequest(n, msg) \/ HoldConnection(n, msg)
    <3>1. node_term' = node_term
      BY <2>4 DEF DenyVote, RejectAppend, TornRequest, HoldConnection
    <3> QED  BY <1>0, <3>1
  <2> QED  BY <2>1, <2>2, <2>3, <2>4
<1>3. ASSUME NEW n \in Node, \/ \E v \in Value : AppendEntry(n, v)
                             \/ BreakCall(n) \/ Crash(n) \/ Restart(n)
      PROVE  node_term'[m] >= node_term[m]
  <2>1. node_term'[m] = node_term[m]
    BY <1>3 DEF AppendEntry, BreakCall, Crash, Restart, Up, Goto, TypeInv, TypeOK
  <2> QED  BY <1>0, <2>1
<1>4. CASE UNCHANGED vars
  BY <1>0, <1>4 DEF vars
<1> QED  BY <1>0, <1>1, <1>2, <1>3, <1>4 DEF Next

\* Only a crash takes a node down.
LEMMA GoesDown ==
  ASSUME TypeInv, [Next]_vars, NEW m \in Node, Up(m), pc'[m] = "down"
  PROVE  Crash(m)
<1> USE DEF TypeInv, TypeOK, Up, Goto
<1>1. ASSUME NEW n \in Node, Ticker(n)
      PROVE  FALSE
  <2>1. CASE m # n
    BY <1>1, <2>1, OthersQuiet DEF Quiet
  <2>2. CASE m = n
    BY <1>1, <2>2 DEF Ticker, RemoveFile, CreateFile, WriteFile, HeartbeatBegin,
       HeartbeatSend, HeartbeatReceive, HeartbeatEnd, CommitEntries,
       CampaignBegin, VoteDenied, ElectionTimeout, BecomeCandidate, CampaignSend,
       CampaignSlow, VoteReceived, VoteMissing, CampaignEnd, BecomeLeader, StepDown,
       TickEnd
  <2> QED  BY <2>1, <2>2
<1>2. ASSUME NEW n \in Node, \/ Listener(n) \/ BreakCall(n)
                             \/ \E v \in Value : AppendEntry(n, v)
      PROVE  FALSE
  BY <1>2, ListenerQuiet, BreakCallQuiet, AppendEntryQuiet DEF Quiet
<1>3. ASSUME NEW n \in Node, Crash(n) \/ Restart(n)
      PROVE  Crash(m)
  <2>1. CASE m # n
    BY <1>3, <2>1, OthersQuiet DEF Quiet
  <2>2. CASE m = n
    BY <1>3, <2>2 DEF Restart
  <2> QED  BY <2>1, <2>2
<1>4. CASE UNCHANGED vars
  BY <1>4 DEF vars
<1> QED  BY <1>1, <1>2, <1>3, <1>4 DEF Next

\* A node goes back to an earlier term in three ways only.
LEMMA RecordKept ==
  ASSUME TypeInv, LeaderInv, [Next]_vars, NEW m \in Node
  PROVE  KeepsRecord(m) \/ GoesBack(m)
<1>1. /\ node_term[m] \in Nat /\ disk[m].term \in Nat
  BY DEF TypeInv, TypeOK, Disks
<1>2. CASE Up(m) /\ Up(m)'
  BY <1>2, TermStep DEF KeepsRecord, TermOf, Up
<1>3. CASE Up(m) /\ ~Up(m)'
  <2>1. Crash(m) /\ disk' = disk /\ pc'[m] = "down" /\ pc[m] # "down"
    BY <1>3, GoesDown DEF Up, Crash
  <2>2. /\ TermOf(m) = node_term[m] /\ VoteOf(m) = voted_for[m]
        /\ TermOf(m)' = disk[m].term /\ VoteOf(m)' = disk[m].votedFor
    BY <2>1 DEF TermOf, VoteOf, Up
  <2> QED  BY <1>1, <2>1, <2>2 DEF KeepsRecord, GoesBack, CrashUnsaved
<1>4. CASE ~Up(m) /\ Up(m)'
  <2>1. Restart(m)
    BY <1>4, ComesUp
  <2>2. TermOf(m)' = disk[m].term /\ TermOf(m) = disk[m].term /\ pc'[m] # "down"
    BY <1>4, <2>1 DEF Restart, TermOf, Up, TypeInv, TypeOK
  <2> QED  BY <1>1, <2>2 DEF KeepsRecord
<1>5. CASE ~Up(m) /\ ~Up(m)'
  <2>1. disk'[m].term = disk[m].term /\ disk'[m].votedFor = disk[m].votedFor
    BY <1>5, FileKept
  <2>2. TermOf(m)' = TermOf(m) /\ VoteOf(m)' = VoteOf(m) /\ TermOf(m) \in Nat
    BY <1>1, <1>5, <2>1 DEF TermOf, VoteOf, Up
  <2> QED  BY <2>2 DEF KeepsRecord
<1> QED  BY <1>2, <1>3, <1>4, <1>5

\* A node that has won leaves the term, while it is up, only at a listener's word.
LEMMA WonTermKept ==
  ASSUME TypeInv, LeaderInv, [Next]_vars, NEW m \in Node, pc[m] = "won"
  PROVE  node_term'[m] = node_term[m] \/ pc'[m] = "down" \/ WonTermLeft(m)
<1> USE DEF TypeInv, TypeOK
<1>1. ASSUME NEW n \in Node, Ticker(n)
      PROVE  node_term'[m] = node_term[m]
  <2>1. CASE BecomeCandidate(n)
    BY <2>1 DEF BecomeCandidate
  <2>2. CASE StepDown(n)
    BY <2>2 DEF StepDown
  <2>3. CASE ~BecomeCandidate(n) /\ ~StepDown(n)
    BY <1>1, <2>3 DEF Ticker, RemoveFile, CreateFile, WriteFile, HeartbeatBegin,
       HeartbeatSend, HeartbeatReceive, HeartbeatEnd, CommitEntries, CampaignBegin,
       VoteDenied, ElectionTimeout, CampaignSend, CampaignSlow,
       VoteReceived, VoteMissing, CampaignEnd, BecomeLeader, TickEnd
  <2> QED  BY <2>1, <2>2, <2>3
<1>2. ASSUME NEW n \in Node, Listener(n)
      PROVE  node_term'[m] = node_term[m] \/ WonTermLeft(m)
  <2>1. PICK msg \in Inbox(n) :
          \/ GrantVote(n, msg) \/ DenyVote(n, msg)
          \/ AcceptAppend(n, msg) \/ RejectAppend(n, msg)
          \/ TornRequest(n, msg) \/ HoldConnection(n, msg)
    BY <1>2 DEF Listener
  <2>2. CASE GrantVote(n, msg) \/ AcceptAppend(n, msg)
    <3>1. CASE m = n
      BY <2>2, <3>1 DEF WonTermLeft
    <3>2. CASE m # n
      BY <2>2, <3>2 DEF GrantVote, AcceptAppend
    <3> QED  BY <3>1, <3>2
  <2>3. CASE /\ ~GrantVote(n, msg) /\ ~AcceptAppend(n, msg)
    BY <2>1, <2>3 DEF DenyVote, RejectAppend, TornRequest, HoldConnection
  <2> QED  BY <2>2, <2>3
<1>3. ASSUME NEW n \in Node, \/ \E v \in Value : AppendEntry(n, v)
                             \/ BreakCall(n) \/ Restart(n)
      PROVE  node_term'[m] = node_term[m]
  BY <1>3 DEF AppendEntry, BreakCall, Restart
<1>4. ASSUME NEW n \in Node, Crash(n)
      PROVE  node_term'[m] = node_term[m] \/ pc'[m] = "down"
  BY <1>4 DEF Crash, Goto
<1>5. CASE UNCHANGED vars
  BY <1>5 DEF vars
<1> QED  BY <1>1, <1>2, <1>3, <1>4, <1>5 DEF Next

LEMMA NoLapseStands ==
  ASSUME TypeInv, LeaderInv, [Next]_vars, \A n \in Node : ~Lapse(n)
  PROVE  VotesStandStep
<1> SUFFICES ASSUME NEW n \in Node
             PROVE  KeepsRecord(n) /\ NoVoteInGap(n) /\ TermUntilOffice(n)
  BY DEF VotesStandStep
<1>1. KeepsRecord(n)
  BY RecordKept DEF GoesBack, Lapse
<1>2. NoVoteInGap(n)
  BY DEF Lapse, VoteInGap, NoVoteInGap
<1>3. TermUntilOffice(n)
  BY WonTermKept DEF Lapse, TermUntilOffice
<1> QED  BY <1>1, <1>2, <1>3

\* Whatever fails, and however many contend: if two nodes come to lead in one
\* term, a node has taken one of the five kinds of steps of Lapse before.  Of the
\* behaviours of request_vote and handle_candidate_election without those, none
\* breaks the promise of request_vote's comment.
THEOREM OneLeaderWhileNoLapse == Spec /\ NoLapse => []OneLeaderPerTerm
<1>1. Init => ElectionsInv
  BY DEF Init, ElectionsInv, ElectionInv, Stands
<1>2. /\ TypeInv /\ LeaderInv /\ ElectionsInv /\ [Next]_vars
      /\ [\A n \in Node : ~Lapse(n)]_vars
      => ElectionsInv'
  BY NextElections, NoLapseStands, StutterStands
<1>3. TypeInv /\ LeaderInv /\ ElectionsInv => OneLeaderPerTerm
  <2>1. SUFFICES ASSUME TypeInv, LeaderInv, ElectionsInv, NEW m \in Node, NEW n \in Node,
                        Leads(m), Leads(n), node_term[m] = node_term[n], m # n
                 PROVE  FALSE
    BY DEF OneLeaderPerTerm
  <2>2. ASSUME NEW k \in Node, Leads(k)
        PROVE  /\ Voters(k) \subseteq Node /\ Voters(k) \subseteq Supporters(k)
               /\ 2 * Cardinality(Voters(k)) > Cardinality(Node)
    <3>1. votes_recieved[k] \in Seq(Node)
      BY <2>1 DEF TypeInv, TypeOK
    <3>2. VotesInv(k) /\ node_type[k] = "Leader"
      BY <2>1, <2>2 DEF LeaderInv, Leads
    <3>3. CountedOnce(k) /\ Len(votes_recieved[k]) >= QuorumLength(k)
      BY <3>2 DEF VotesInv
    <3> QED  BY <3>1, <3>3, VotersAreQuorum DEF Supporters
  <2>3. Voters(m) \cap Voters(n) # {}
    BY <2>1, <2>2, QuorumsMeet
  <2>4. Supporters(m) \cap Supporters(n) = {}
    BY <2>1 DEF ElectionsInv, ElectionInv, Leads, Stands
  <2> QED  BY <2>1, <2>2, <2>3, <2>4
<1> QED  BY <1>1, <1>2, <1>3, LeaderInvHolds, PTL DEF Spec, NoLapse

-----------------------------------------------------------------------------
(* Who waits for whom *)

\* A ticker opens a call only to a listener that is alive, and moves on to
\* another peer only when it has none open.
LEMMA TickerCalls ==
  ASSUME TypeInv, NEW n \in Node, Ticker(n), NEW m \in Node, wire'[m] = "sent"
  PROVE  /\ serving' = serving /\ Peer(m)' = Peer(m)
         /\ wire[m] = "sent" \/ serving[Peer(m)]
<1>1. wire \in [Node -> Wires] /\ conn \in [Node -> Nat \ {0}]
  BY DEF TypeInv, TypeOK
<1>2. serving' = serving
  BY DEF Ticker, RemoveFile, CreateFile, WriteFile, HeartbeatBegin,
     HeartbeatSend, HeartbeatReceive, HeartbeatEnd, CommitEntries, CampaignBegin,
     VoteDenied, ElectionTimeout, BecomeCandidate, CampaignSend, CampaignSlow,
     VoteReceived, VoteMissing, CampaignEnd, BecomeLeader, StepDown, TickEnd
<1>3. CASE HeartbeatReceive(n) \/ VoteReceived(n) \/ VoteDenied(n) \/ VoteMissing(n)
  <2>1. wire' = [wire EXCEPT ![n] = "idle"]
    BY <1>3 DEF HeartbeatReceive, VoteReceived, VoteDenied, VoteMissing, HangUp
  <2>2. m # n /\ wire[m] = "sent"
    BY <1>1, <2>1
  <2> QED  BY <1>2, <2>2, OthersQuiet DEF Quiet, Peer
<1>4. CASE HeartbeatSend(n) \/ CampaignSend(n)
  <2>1. \/ /\ wire' = [wire EXCEPT ![n] = "sent"] /\ conn' = conn
           /\ serving[Peer(n)]
        \/ wire' = wire /\ wire[n] = "idle"
    BY <1>4 DEF HeartbeatSend, CampaignSend, Dial
  <2>2. CASE m = n
    BY <1>1, <1>2, <2>1, <2>2 DEF Peer
  <2>3. CASE m # n
    BY <1>1, <1>2, <2>1, <2>3, OthersQuiet DEF Quiet, Peer
  <2> QED  BY <2>2, <2>3
<1>5. CASE /\ ~HeartbeatReceive(n) /\ ~VoteReceived(n) /\ ~VoteDenied(n) /\ ~VoteMissing(n)
           /\ ~HeartbeatSend(n) /\ ~CampaignSend(n)
  <2>1. wire' = wire
    BY <1>5 DEF Ticker, RemoveFile, CreateFile, WriteFile, HeartbeatBegin,
       HeartbeatEnd, CommitEntries, CampaignBegin, ElectionTimeout,
       BecomeCandidate, CampaignSlow, CampaignEnd, BecomeLeader, StepDown, TickEnd
  <2>2. wire[n] # "sent"
    BY <1>5, IdleOutside DEF Ticker, RemoveFile, CreateFile, WriteFile,
       HeartbeatBegin, HeartbeatEnd, CommitEntries, CampaignBegin, ElectionTimeout,
       BecomeCandidate, CampaignSlow, CampaignEnd, BecomeLeader, StepDown, TickEnd,
       AwaitsHeartbeat, AwaitsCommit, AwaitsElection, TypeInv, CallInv
  <2> QED  BY <1>2, <2>1, <2>2, OthersQuiet DEF Quiet, Peer
<1> QED  BY <1>3, <1>4, <1>5

\* A listener that panics leaves no caller waiting.
LEMMA ListenerCalls ==
  ASSUME TypeInv, NEW k \in Node, Listener(k), NEW m \in Node, wire'[m] = "sent",
         wire[m] = "sent" => serving[Peer(m)]
  PROVE  serving'[Peer(m)] /\ Peer(m)' = Peer(m)
<1>1. PICK msg \in Inbox(k) :
        \/ GrantVote(k, msg) \/ DenyVote(k, msg)
        \/ AcceptAppend(k, msg) \/ RejectAppend(k, msg)
        \/ TornRequest(k, msg) \/ HoldConnection(k, msg)
  BY DEF Listener
<1>2. PICK ok \in BOOLEAN :
        Respond(k, msg, ok) \/ Panic(k, msg) \/ UNCHANGED <<wire, serving>>
  <2>1. \/ Respond(k, msg, TRUE) \/ Respond(k, msg, FALSE) \/ Panic(k, msg)
        \/ UNCHANGED <<wire, serving>>
    BY <1>1 DEF GrantVote, DenyVote, AcceptAppend, RejectAppend, TornRequest, HoldConnection
  <2> QED  BY <2>1
<1>3. Peer(m)' = Peer(m)
  BY ListenerQuiet DEF Quiet, Peer
<1>4. CASE Panic(k, msg)
  <2>1. PICK f \in [Callers(k) -> {"closed", "failed", "reset"}] :
          wire' = [n \in Node |-> IF n \in Callers(k) THEN f[n] ELSE wire[n]]
    BY <1>4 DEF Panic
  <2>2. m \notin Callers(k) /\ wire[m] = "sent"
    BY <2>1
  <2>3. Peer(m) # k
    BY <2>2 DEF Callers
  <2>4. serving' = [serving EXCEPT ![k] = FALSE] /\ serving \in [Node -> BOOLEAN]
    BY <1>4 DEF Panic, TypeInv, TypeOK
  <2>5. PICK p : p = Peer(m)
    OBVIOUS
  <2>6. p # k => serving'[p] = serving[p]
    BY <2>4
  <2> QED  BY <1>3, <2>2, <2>3, <2>5, <2>6
<1>5. CASE ~Panic(k, msg) /\ Respond(k, msg, ok)
  <2>1. /\ serving' = serving
        /\ wire' = wire \/ wire' = [wire EXCEPT ![msg.from] = "replied"]
    BY <1>5 DEF Respond
  <2>2. wire[m] = "sent"
    BY <2>1 DEF TypeInv, TypeOK
  <2> QED  BY <1>3, <2>1, <2>2
<1>6. CASE UNCHANGED <<wire, serving>>
  BY <1>3, <1>6
<1> QED  BY <1>2, <1>4, <1>5, <1>6

LEMMA AskedListens ==
  ASSUME TypeInv, AskedStillListens, [Next]_vars
  PROVE  AskedStillListens'
<1> SUFFICES ASSUME NEW m \in Node, wire'[m] = "sent"
             PROVE  serving'[Peer(m)']
  BY DEF AskedStillListens
<1>1. wire[m] = "sent" => serving[Peer(m)]
  BY DEF AskedStillListens
<1>2. ASSUME NEW n \in Node, Ticker(n)
      PROVE  serving'[Peer(m)']
  BY <1>1, <1>2, TickerCalls
<1>3. ASSUME NEW n \in Node, Listener(n)
      PROVE  serving'[Peer(m)']
  BY <1>1, <1>3, ListenerCalls
<1>4. ASSUME NEW n \in Node, BreakCall(n) \/ \E v \in Value : AppendEntry(n, v)
      PROVE  serving'[Peer(m)']
  <2>1. wire[m] = "sent" /\ conn' = conn /\ serving' = serving
    BY <1>4 DEF BreakCall, AppendEntry, TypeInv, TypeOK
  <2> QED  BY <1>1, <2>1 DEF Peer
<1>5. ASSUME NEW n \in Node, Crash(n)
      PROVE  serving'[Peer(m)']
  <2>1. PICK f \in [Callers(n) -> {"closed", "failed", "reset", "lost"}] :
          wire' = [k \in Node |-> IF k = n THEN "idle"
                                  ELSE IF k \in Callers(n) THEN f[k] ELSE wire[k]]
    BY <1>5 DEF Crash
  <2>2. m # n /\ m \notin Callers(n) /\ wire[m] = "sent"
    BY <2>1
  <2>3. Peer(m) # n /\ Peer(m)' = Peer(m)
    BY <1>5, <2>2, OthersQuiet DEF Callers, Quiet, Peer
  <2>4. serving' = [serving EXCEPT ![n] = FALSE] /\ serving \in [Node -> BOOLEAN]
    BY <1>5 DEF Crash, TypeInv, TypeOK
  <2>5. PICK p : p = Peer(m)
    OBVIOUS
  <2>6. p # n => serving'[p] = serving[p]
    BY <2>4
  <2> QED  BY <1>1, <2>2, <2>3, <2>5, <2>6
<1>6. ASSUME NEW n \in Node, Restart(n)
      PROVE  serving'[Peer(m)']
  <2>1. /\ serving' = [serving EXCEPT ![n] = TRUE] /\ wire' = wire /\ conn' = conn
        /\ serving \in [Node -> BOOLEAN]
    BY <1>6 DEF Restart, TypeInv, TypeOK
  <2>2. Peer(m)' = Peer(m)
    BY <2>1 DEF Peer
  <2>3. PICK p : p = Peer(m)
    OBVIOUS
  <2>4. serving[p] => serving'[p]
    BY <2>1
  <2> QED  BY <1>1, <2>1, <2>2, <2>3, <2>4
<1>7. CASE UNCHANGED vars
  BY <1>1, <1>7 DEF vars, Peer
<1> QED  BY <1>2, <1>3, <1>4, <1>5, <1>6, <1>7 DEF Next

\* Whatever panics, crashes, restarts or breaks, calls that nobody can answer wait
\* for each other in a circle, or for a node that a connection lost in silence has
\* cut off: the safety half of CallEndsUnlessStuck.
THEOREM CallsCanBeAnswered == Spec => []SomeoneCanAnswer
<1>1. Init => AskedStillListens
  BY DEF Init, AskedStillListens
<1>2. TypeInv /\ AskedStillListens /\ [Next]_vars => AskedStillListens'
  BY AskedListens
<1>3. TypeInv /\ AskedStillListens => SomeoneCanAnswer
  <2> SUFFICES ASSUME TypeInv, AskedStillListens, NEW n \in Node, wire[n] = "sent"
               PROVE  \/ Circle
                      \/ \E k \in Node : /\ wire[k] = "sent"
                                         /\ CanAnswer(Peer(k)) \/ CutOff(Peer(k))
    BY DEF SomeoneCanAnswer
  <2> SUFFICES ASSUME \A k \in Node :
                        wire[k] = "sent" => ~CanAnswer(Peer(k)) /\ ~CutOff(Peer(k))
               PROVE  Circle
    OBVIOUS
  <2> DEFINE S == {k \in Node : wire[k] = "sent"}
  <2>1. S \in (SUBSET Node) \ {{}}
    OBVIOUS
  <2>2. ASSUME NEW k \in S
        PROVE  wire[k] = "sent" /\ Peer(k) \in S
    <3>1. wire[k] = "sent" /\ serving[Peer(k)]
      BY DEF AskedStillListens
    <3>2. InLoop(k)
      BY <3>1 DEF TypeInv, CallInv
    <3>3. Peer(k) \in Node
      BY <3>2, PeerIsNode DEF InLoop, Peer, TypeInv, TypeOK
    <3>4. wire[Peer(k)] = "sent"
      BY <3>1 DEF CanAnswer, CutOff, Listening
    <3> QED  BY <3>1, <3>3, <3>4
  <2> QED  BY <2>1, <2>2 DEF Circle
<1> QED  BY <1>1, <1>2, <1>3, LeaderInvHolds, PTL DEF Spec
=============================================================================
