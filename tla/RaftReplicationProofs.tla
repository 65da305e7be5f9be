------------------------ MODULE RaftReplicationProofs ------------------------
(***************************************************************************)
(* Replication, for every cluster and every bound, while one node alone    *)
(* contends and does not crash, and no connection breaks under a call      *)
(* (SoleContender).  The others may crash and restart at any step, calls   *)
(* may be refused, and files written at any time.                          *)
(*                                                                         *)
(* Replicates(l) is inductive.  Its parts: l is the only caller            *)
(* (OnlyCaller); every log, every file and every delivery is a first part  *)
(* of the log of l (LogsInv); next_index of a peer lies beyond the log and *)
(* the file of the peer (NextInv).  By the last, a request that a follower *)
(* accepts starts exactly where its log ends, so that the merge of         *)
(* append_entries, which extends without looking, makes the leader's log   *)
(* of it (AcceptedMergeIsLeaders); and one that it refuses leaves a gap    *)
(* (RefusedForGap), so that the leader may go one back and NextInv stays.  *)
(* A restart brings back a shorter log, never another one, since persist   *)
(* saves only what is committed.  StepKinds says which steps touch logs;   *)
(* the lemmas after it take one kind each.                                 *)
(*                                                                         *)
(* So is Steady(l), by which acks and match_index stay true of the logs    *)
(* they speak of, but for nodes that may crash.                            *)
(***************************************************************************)
EXTENDS RaftSafetyProofs, FiniteSetTheorems

USE DEF persistent, indexes, flags, call, ticker

-----------------------------------------------------------------------------
(* First parts of sequences *)

LEMMA PrefixMeans ==
  ASSUME NEW s \in Seq(Entry), NEW t \in Seq(Entry)
  PROVE  IsPrefixOf(s, t) <=>
           Len(s) <= Len(t) /\ \A i \in 1..Len(s) : s[i] = t[i]
<1>1. CASE Len(s) <= Len(t)
  <2>1. /\ SubSeq(t, 1, Len(s)) \in Seq(Entry)
        /\ Len(SubSeq(t, 1, Len(s))) = Len(s)
        /\ \A i \in 1..Len(s) : SubSeq(t, 1, Len(s))[i] = t[i]
    BY <1>1
  <2>2. (\A i \in 1..Len(s) : s[i] = t[i]) => s = SubSeq(t, 1, Len(s))
    BY <2>1, SeqEqual
  <2> QED  BY <2>1, <2>2 DEF IsPrefixOf
<1>2. CASE ~(Len(s) <= Len(t))
  BY <1>2 DEF IsPrefixOf
<1> QED  BY <1>1, <1>2

LEMMA PrefixOfPrefix ==
  ASSUME NEW s \in Seq(Entry), NEW t \in Seq(Entry), NEW u \in Seq(Entry),
         IsPrefixOf(s, t), IsPrefixOf(t, u)
  PROVE  IsPrefixOf(s, u)
BY PrefixMeans

LEMMA EmptyPrefix ==
  ASSUME NEW s \in Seq(Entry)
  PROVE  IsPrefixOf(<<>>, s)
<1>0. <<>> \in Seq(Entry)
  BY EmptySeq
<1>1. PICK e \in Seq(Entry) : e = <<>>
  BY <1>0
<1>2. Len(e) <= Len(s) /\ \A i \in 1..Len(e) : e[i] = s[i]
  BY <1>1
<1>3. IsPrefixOf(e, s)
  BY <1>2, PrefixMeans
<1> QED  BY <1>1, <1>3

\* The first k entries.
LEMMA FirstPart ==
  ASSUME NEW s \in Seq(Entry), NEW k \in Nat, k <= Len(s)
  PROVE  /\ SubSeq(s, 1, k) \in Seq(Entry)
         /\ Len(SubSeq(s, 1, k)) = k
         /\ \A i \in 1..k : SubSeq(s, 1, k)[i] = s[i]
         /\ IsPrefixOf(SubSeq(s, 1, k), s)
<1>1. /\ SubSeq(s, 1, k) \in Seq(Entry)
      /\ Len(SubSeq(s, 1, k)) = k
      /\ \A i \in 1..k : SubSeq(s, 1, k)[i] = s[i]
  OBVIOUS
<1> QED  BY <1>1, PrefixMeans

\* They are those of every sequence that begins with it.
LEMMA FirstPartOfPrefix ==
  ASSUME NEW s \in Seq(Entry), NEW t \in Seq(Entry), NEW k \in Nat,
         IsPrefixOf(s, t), k <= Len(s)
  PROVE  SubSeq(s, 1, k) = SubSeq(t, 1, k)
<1>1. Len(s) <= Len(t) /\ \A i \in 1..Len(s) : s[i] = t[i]
  BY PrefixMeans
<1>2. k <= Len(t)
  BY <1>1
<1>3. \A i \in 1..k : SubSeq(s, 1, k)[i] = SubSeq(t, 1, k)[i]
  BY <1>1, <1>2, FirstPart
<1> QED  BY <1>2, <1>3, FirstPart, SeqEqual

LEMMA FirstPartsGrow ==
  ASSUME NEW s \in Seq(Entry), NEW j \in Nat, NEW k \in Nat, j <= k, k <= Len(s)
  PROVE  IsPrefixOf(SubSeq(s, 1, j), SubSeq(s, 1, k))
<1> DEFINE a == SubSeq(s, 1, j)
           b == SubSeq(s, 1, k)
<1>1. j <= Len(s)
  OBVIOUS
<1>2. a \in Seq(Entry) /\ Len(a) = j /\ \A i \in 1..j : a[i] = s[i]
  BY <1>1, FirstPart
<1>3. b \in Seq(Entry) /\ Len(b) = k /\ \A i \in 1..k : b[i] = s[i]
  BY FirstPart
<1> HIDE DEF a, b
<1>4. IsPrefixOf(a, b)
  BY <1>2, <1>3, PrefixMeans
<1> QED  BY <1>4 DEF a, b

\* Delivered are the entries up to commited_index; more of the same log follows.
LEMMA DeliveryGoesOn ==
  ASSUME NEW l \in Seq(Entry), NEW from \in Nat, NEW to \in Nat,
         from <= to, to <= Len(l)
  PROVE  SubSeq(l, 1, from) \o DeliveredSlice(l, from, to) = SubSeq(l, 1, to)
<1> DEFINE a == SubSeq(l, 1, from)
           b == SubSeq(l, from + 1, to)
<1>1. DeliveredSlice(l, from, to) = b
  BY DEF DeliveredSlice
<1>2. a \in Seq(Entry) /\ Len(a) = from /\ \A i \in 1..from : a[i] = l[i]
  BY FirstPart
<1>3. /\ b \in Seq(Entry) /\ Len(b) = to - from
      /\ \A i \in 1..(to - from) : b[i] = l[from + i]
  OBVIOUS
<1>4. SubSeq(l, 1, to) \in Seq(Entry) /\ Len(SubSeq(l, 1, to)) = to
      /\ \A i \in 1..to : SubSeq(l, 1, to)[i] = l[i]
  BY FirstPart
<1> HIDE DEF a, b
<1>5. /\ a \o b \in Seq(Entry) /\ Len(a \o b) = to
      /\ \A i \in 1..to : (a \o b)[i] = IF i <= from THEN a[i] ELSE b[i - from]
  <2>1. Len(a) + Len(b) = to
    BY <1>2, <1>3
  <2>2. /\ a \o b \in Seq(Entry) /\ Len(a \o b) = Len(a) + Len(b)
        /\ \A i \in 1..(Len(a) + Len(b)) :
             (a \o b)[i] = IF i <= Len(a) THEN a[i] ELSE b[i - Len(a)]
    BY <1>2, <1>3, ConcatProperties
  <2> QED  BY <1>2, <2>1, <2>2
<1>6. \A i \in 1..to : (a \o b)[i] = l[i]
  BY <1>2, <1>3, <1>5
<1>7. a \o b = SubSeq(l, 1, to)
  BY <1>4, <1>5, <1>6, SeqEqual
<1> QED  BY <1>1, <1>7 DEF a

-----------------------------------------------------------------------------
(* What a follower makes of a request whose next_index lies beyond its log *)

LEMMA RequestContents ==
  ASSUME NEW n \in Node, NEW t \in Nat, NEW lead \in Seq(Entry), NEW c \in Nat,
         NEW next \in Nat, 1 <= next, next <= Len(lead) + 1
  PROVE  LET req == AppendRequestOf(n, t, lead, next, c)
         IN  /\ req.term = t /\ req.leaderCommit = c /\ req.type = "AppendEntries"
             /\ req.prevLogIndex = IF lead # <<>> THEN next - 1 ELSE 0
             /\ req.prevLogIndex <= Len(lead)
             /\ req.prevLogIndex # 0 => req.prevLogTerm = lead[req.prevLogIndex].term
             /\ req.entries = SubSeq(lead, req.prevLogIndex + 1, Len(lead))
<1> DEFINE prev == PrevIndexFor(lead, next)
<1>1. prev = IF lead # <<>> THEN next - 1 ELSE 0
  BY DEF PrevIndexFor
<1>2. prev <= Len(lead)
  <2>1. Len(lead) \in Nat
    BY LenProperties
  <2> QED  BY <1>1, <2>1
<1> QED
  BY <1>1, <1>2 DEF AppendRequestOf

\* If it accepts, its log becomes the leader's.
LEMMA AcceptedMergeIsLeaders ==
  ASSUME NEW n \in Node, NEW t \in Nat, NEW lead \in Seq(Entry), NEW c \in Nat,
         NEW next \in Nat, 1 <= next, next <= Len(lead) + 1,
         NEW own \in Seq(Entry), IsPrefixOf(own, lead), Len(own) < next,
         NEW role, NEW term,
         AppendAccepted(role, term, own, AppendRequestOf(n, t, lead, next, c))
  PROVE  MergedLog(own, AppendRequestOf(n, t, lead, next, c)) = lead
<1> DEFINE req == AppendRequestOf(n, t, lead, next, c)
           prev == req.prevLogIndex
           rest == SubSeq(lead, prev + 1, Len(lead))
<1>1. /\ prev = IF lead # <<>> THEN next - 1 ELSE 0
      /\ prev <= Len(lead) /\ req.entries = rest
  BY RequestContents
<1>2. Len(own) <= Len(lead) /\ \A i \in 1..Len(own) : own[i] = lead[i]
  BY PrefixMeans
<1>3. prev <= Len(own)
  BY DEF AppendAccepted
<1>4. prev = Len(own)
  <2>1. lead = <<>> => Len(own) = 0
    BY <1>2
  <2>2. lead # <<>> => Len(own) <= next - 1
    OBVIOUS
  <2> HIDE DEF req, prev
  <2> QED  BY <1>1, <1>3, <2>1, <2>2
<1>5. /\ rest \in Seq(Entry) /\ Len(rest) = Len(lead) - prev
      /\ \A i \in 1..Len(rest) : rest[i] = lead[prev + i]
  <2>1. PICK p \in Nat : p = prev /\ p <= Len(lead)
    BY <1>1, <1>4
  <2>2. /\ SubSeq(lead, p + 1, Len(lead)) \in Seq(Entry)
        /\ Len(SubSeq(lead, p + 1, Len(lead))) = Len(lead) - p
        /\ \A i \in 1..(Len(lead) - p) :
             SubSeq(lead, p + 1, Len(lead))[i] = lead[p + i]
    BY <2>1
  <2> QED  BY <2>1, <2>2
<1>6. MergedLog(own, req) = own \o rest
  <2>1. ~(Len(req.entries) + req.prevLogIndex < Len(own))
    <3> HIDE DEF req, rest
    <3> QED  BY <1>1, <1>2, <1>4, <1>5
  <2> QED  BY <1>1, <2>1 DEF MergedLog
<1>7. own \o rest = lead
  <2> HIDE DEF req, prev, rest
  <2>1. /\ own \o rest \in Seq(Entry) /\ Len(own \o rest) = Len(lead)
        /\ \A i \in 1..Len(lead) :
             (own \o rest)[i] = IF i <= prev THEN own[i] ELSE rest[i - prev]
    BY <1>2, <1>4, <1>5
  <2>2. ASSUME NEW i \in 1..Len(lead)
        PROVE  (own \o rest)[i] = lead[i]
    <3>1. CASE i <= prev
      BY <1>2, <1>4, <2>1, <3>1
    <3>2. CASE ~(i <= prev)
      <4>1. i - prev \in 1..Len(rest) /\ prev + (i - prev) = i
        BY <1>4, <1>5, <3>2
      <4>2. rest[i - prev] = lead[i]
        BY <1>5, <4>1
      <4> QED  BY <2>1, <3>2, <4>2
    <3> QED  BY <3>1, <3>2
  <2> QED  BY <2>1, <2>2, SeqEqual
<1> QED  BY <1>6, <1>7

\* If it does not, there is a gap: prev_log_index lies beyond the end of its log.
\* So the handler does not underflow either.
LEMMA RefusedForGap ==
  ASSUME NEW n \in Node, NEW t \in Nat, NEW lead \in Seq(Entry), NEW c \in Nat,
         NEW next \in Nat, 1 <= next, next <= Len(lead) + 1,
         NEW own \in Seq(Entry), IsPrefixOf(own, lead), Len(own) < next,
         NEW role, role # "Leader", NEW term,
         ~AppendAccepted(role, term, own, AppendRequestOf(n, t, lead, next, c))
  PROVE  /\ Len(own) < next - 1
         /\ ~AppendUnderflows(role, term, own, AppendRequestOf(n, t, lead, next, c))
<1> DEFINE req == AppendRequestOf(n, t, lead, next, c)
           prev == req.prevLogIndex
<1>1. /\ prev = IF lead # <<>> THEN next - 1 ELSE 0
      /\ prev <= Len(lead)
      /\ prev # 0 => req.prevLogTerm = lead[prev].term
  BY RequestContents
<1>2. Len(own) <= Len(lead) /\ \A i \in 1..Len(own) : own[i] = lead[i]
  BY PrefixMeans
<1>3. ~StaleAppend(role, term, req)
  BY DEF StaleAppend
<1>4. own # <<>> => prev > 0
  <2>1. own # <<>> => Len(own) > 0 /\ lead # <<>>
    BY <1>2
  <2> HIDE DEF req, prev
  <2> QED  BY <1>1, <2>1
<1>5. prev > Len(own)
  <2>1. ASSUME prev <= Len(own)
        PROVE  FALSE
    <3>1. prev \in Nat
      <4> HIDE DEF prev, req
      <4> QED  BY <1>1
    <3>2. own # <<>> => own[prev] = lead[prev]
      <4> HIDE DEF prev, req
      <4> QED  BY <1>2, <1>4, <2>1, <3>1
    <3>3. own # <<>> => prev > 0 /\ own[prev].term = req.prevLogTerm
      <4> HIDE DEF prev, req
      <4> QED  BY <1>1, <1>4, <3>1, <3>2
    <3> QED  BY <1>3, <2>1, <3>3 DEF AppendAccepted
  <2>2. prev \in Nat /\ Len(own) \in Nat
    <3> HIDE DEF prev, req
    <3> QED  BY <1>1
  <2> QED  BY <2>1, <2>2
<1>6. Len(own) < next - 1
  <2>1. Len(own) \in Nat
    OBVIOUS
  <2> HIDE DEF prev, req
  <2> QED  BY <1>1, <1>5, <2>1
<1> QED  BY <1>3, <1>4, <1>6 DEF AppendUnderflows

-----------------------------------------------------------------------------
(* One node alone calls *)

\* What waits for a listener is the current request of l, and it waits at a peer.
LEMMA RequestIsReal ==
  ASSUME TypeInv, NEW n \in Node, wire[n] = "sent"
  PROVE  request[n] # Torn /\ request[n] # Silence
<1>1. PICK r \in Requests : r = request[n]
  BY DEF TypeInv, CallInv
<1>2. r.type \in {"RequestVote", "AppendEntries"}
  BY DEF Requests, VoteRequest, AppendRequest
<1>3. Torn.type = "Torn" /\ Silence.type = "Silence"
  BY DEF Torn, Silence
<1> QED  BY <1>1, <1>2, <1>3

LEMMA OnlyRequest ==
  ASSUME TypeInv, LeaderInv, NEW l \in Node, OnlyCaller(l),
         NEW m \in Node, NEW msg \in Inbox(m)
  PROVE  /\ m # l /\ m = Peer(l) /\ wire[l] = "sent" /\ l \in Callers(m)
         /\ msg.from = l /\ msg.req = request[l]
<1>1. PICK n \in Callers(m) : msg = [from |-> n, to |-> m, req |-> request[n]]
  BY DEF Inbox, OnlyCaller
<1>2. n \in Node /\ wire[n] = "sent" /\ Peer(n) = m
  BY DEF Callers
<1>3. pc[n] \in {"heartbeat", "campaign"} /\ InLoop(n)
  BY <1>2 DEF LeaderInv, SpeaksFor
<1>4. n = l
  BY <1>2, <1>3 DEF OnlyCaller
<1>5. m # n
  BY <1>2, <1>3, PeerIsNode DEF Peer, InLoop, TypeInv, TypeOK
<1> QED  BY <1>1, <1>2, <1>4, <1>5

LEMMA OnlyAppend ==
  ASSUME TypeInv, LeaderInv, NEW l \in Node, OnlyCaller(l),
         NEW m \in Node, NEW msg \in Inbox(m), msg.req.type = "AppendEntries"
  PROVE  /\ pc[l] = "heartbeat" /\ node_type[l] = "Leader"
         /\ msg.req = AppendRequestOf(l, node_term[l], log[l], next_index[l][m],
                                      commited_index[l])
<1>1. wire[l] = "sent" /\ msg.req = request[l] /\ m = Peer(l)
  BY OnlyRequest
<1>2. SpeaksFor(l)
  BY DEF LeaderInv
<1>3. pc[l] # "campaign"
  BY <1>1, <1>2 DEF SpeaksFor, VoteRequestOf
<1> QED  BY <1>1, <1>2, <1>3 DEF SpeaksFor

LEMMA OthersIdle ==
  ASSUME LeaderInv, NEW l \in Node, OnlyCaller(l), NEW m \in Node \ {l}
  PROVE  wire[m] = "idle"
BY DEF LeaderInv, SpeaksFor, OnlyCaller

\* The tickers of the others persist and wait.
LEMMA OthersTick ==
  ASSUME NEW l \in Node, SoleContender(l), OnlyCaller(l), NEW n \in Node \ {l},
         Ticker(n)
  PROVE  RemoveFile(n) \/ CreateFile(n) \/ WriteFile(n) \/ TickEnd(n)
<1>1. /\ node_type[n] # "Leader" /\ n \notin Contenders
      /\ pc[n] \in {"top", "persist", "create", "beat", "dead", "down"}
  BY DEF OnlyCaller, SoleContender
<1>2. ~HeartbeatBegin(n) /\ ~ElectionTimeout(n)
  BY <1>1 DEF HeartbeatBegin, ElectionTimeout
<1>3. ~CommitEntries(n)
  BY <1>1 DEF CommitEntries, CommitTargets
<1>4. ~HeartbeatSend(n) /\ ~HeartbeatReceive(n) /\ ~HeartbeatEnd(n)
  BY <1>1 DEF HeartbeatSend, HeartbeatReceive, HeartbeatEnd
<1>5. ~BecomeCandidate(n) /\ ~BecomeLeader(n) /\ ~StepDown(n) /\ ~CampaignBegin(n)
  BY <1>1 DEF BecomeCandidate, BecomeLeader, StepDown, CampaignBegin
<1>6. ~CampaignSend(n) /\ ~CampaignSlow(n) /\ ~CampaignEnd(n)
  BY <1>1 DEF CampaignSend, CampaignSlow, CampaignEnd
<1>7. ~VoteReceived(n) /\ ~VoteDenied(n) /\ ~VoteMissing(n)
  BY <1>1 DEF VoteReceived, VoteDenied, VoteMissing
<1> QED  BY <1>2, <1>3, <1>4, <1>5, <1>6, <1>7 DEF Ticker

\* What a ticker may do to places and roles.
LEMMA TickerFrame ==
  ASSUME TypeInv, NEW n \in Node, Ticker(n)
  PROVE  /\ UNCHANGED <<orphans, serving>>
         /\ pc[n] # "down" => pc'[n] # "down"
         /\ \A m \in Node \ {n} : pc'[m] = pc[m] /\ node_type'[m] = node_type[m]
<1> USE DEF TypeInv, TypeOK, Goto
<1>1. CASE RemoveFile(n) \/ CreateFile(n) \/ WriteFile(n)
  BY <1>1 DEF RemoveFile, CreateFile, WriteFile
<1>2. CASE HeartbeatBegin(n) \/ HeartbeatEnd(n)
  BY <1>2 DEF HeartbeatBegin, HeartbeatEnd
<1>3. CASE HeartbeatSend(n)
  BY <1>3 DEF HeartbeatSend
<1>4. CASE HeartbeatReceive(n)
  BY <1>4 DEF HeartbeatReceive
<1>5. CASE CommitEntries(n)
  BY <1>5 DEF CommitEntries
<1>6. CASE ElectionTimeout(n) \/ TickEnd(n) \/ BecomeLeader(n) \/ StepDown(n)
  BY <1>6 DEF ElectionTimeout, TickEnd, BecomeLeader, StepDown
<1>7. CASE BecomeCandidate(n)
  BY <1>7 DEF BecomeCandidate
<1>8. CASE CampaignBegin(n) \/ CampaignSend(n) \/ CampaignSlow(n) \/ CampaignEnd(n)
  BY <1>8 DEF CampaignBegin, CampaignSend, CampaignSlow, CampaignEnd
<1>9. CASE VoteReceived(n)
  BY <1>9 DEF VoteReceived
<1>10. CASE VoteDenied(n)
  BY <1>10 DEF VoteDenied
<1>11. CASE VoteMissing(n)
  BY <1>11 DEF VoteMissing
<1> QED
  BY <1>1, <1>2, <1>3, <1>4, <1>5, <1>6, <1>7, <1>8, <1>9, <1>10, <1>11 DEF Ticker

LEMMA OnlyCallerKept ==
  ASSUME TypeInv, LeaderInv, NEW l \in Node, SoleContender(l), OnlyCaller(l),
         [Next]_vars
  PROVE  OnlyCaller(l)'
<1>0. ASSUME NEW n \in Node, NEW msg \in Inbox(n)
      PROVE  n # l /\ msg.from = l /\ msg.from # NoNode
  BY OnlyRequest, NodeAssumption
<1> USE DEF TypeInv, TypeOK
<1>1. ASSUME NEW n \in Node, Ticker(n)
      PROVE  OnlyCaller(l)'
  <2>1. CASE n = l
    BY <1>1, <2>1, TickerFrame DEF OnlyCaller
  <2>2. CASE n # l
    <3>1. RemoveFile(n) \/ CreateFile(n) \/ WriteFile(n) \/ TickEnd(n)
      BY <1>1, <2>2, OthersTick
    <3>2. /\ pc'[n] \in {"top", "persist", "create", "beat", "dead"}
          /\ node_type'[n] = node_type[n]
      BY <3>1 DEF RemoveFile, CreateFile, WriteFile, TickEnd, Goto
    <3>3. /\ orphans' = orphans
          /\ \A m \in Node \ {n} : pc'[m] = pc[m] /\ node_type'[m] = node_type[m]
      BY <1>1, TickerFrame
    <3> QED  BY <2>2, <3>2, <3>3 DEF OnlyCaller
  <2> QED  BY <2>1, <2>2
<1>2. ASSUME NEW n \in Node, Listener(n)
      PROVE  OnlyCaller(l)'
  <2>1. PICK msg \in Inbox(n) :
          \/ GrantVote(n, msg) \/ DenyVote(n, msg)
          \/ AcceptAppend(n, msg) \/ RejectAppend(n, msg)
          \/ TornRequest(n, msg) \/ HoldConnection(n, msg)
    BY <1>2 DEF Listener
  <2>2. n # l /\ msg.from = l /\ msg.from # NoNode
    BY <1>0
  <2>3. UNCHANGED pc
    BY <2>1 DEF GrantVote, DenyVote, AcceptAppend, RejectAppend, TornRequest, HoldConnection
  <2>4. orphans' = {}
    <3>0. ~HoldConnection(n, msg)
      <4>1. wire[l] = "sent" /\ msg.req = request[l]
        BY OnlyRequest
      <4>2. request[l] # Silence
        BY <4>1, RequestIsReal
      <4> QED  BY <4>1, <4>2 DEF HoldConnection
    <3>1. \E ok \in BOOLEAN : Respond(n, msg, ok) \/ Panic(n, msg)
      BY <2>1, <3>0 DEF GrantVote, DenyVote, AcceptAppend, RejectAppend, TornRequest
    <3> QED  BY <2>2, <3>1 DEF Respond, Panic, OnlyCaller
  <2>5. \/ node_type' = node_type
        \/ node_type' = [node_type EXCEPT ![n] = "Follower"]
    BY <2>1 DEF GrantVote, DenyVote, AcceptAppend, RejectAppend, TornRequest, HoldConnection,
       RoleAfterAppend
  <2> QED  BY <2>2, <2>3, <2>4, <2>5 DEF OnlyCaller
<1>3. ASSUME NEW n \in Node, NEW v \in Value, AppendEntry(n, v)
      PROVE  OnlyCaller(l)'
  BY <1>3 DEF AppendEntry, OnlyCaller
<1>4. ASSUME NEW n \in Node, BreakCall(n)
      PROVE  FALSE
  BY <1>4 DEF BreakCall, Rarely, SoleContender
<1>5. ASSUME NEW n \in Node, Crash(n)
      PROVE  OnlyCaller(l)'
  <2>1. n # l
    BY <1>5 DEF Crash, SoleContender
  <2>2. \A reqs : LeftOf(n, reqs) = {{}}
    BY <2>1, OthersIdle DEF LeftOf
  <2>3. orphans' = {}
    BY <1>5, <2>2 DEF Crash, OnlyCaller
  <2>4. /\ pc' = [pc EXCEPT ![n] = "down"]
        /\ node_type' = [node_type EXCEPT ![n] = "Follower"]
    BY <1>5 DEF Crash, Goto
  <2> QED  BY <2>1, <2>3, <2>4 DEF OnlyCaller
<1>6. ASSUME NEW n \in Node, Restart(n)
      PROVE  OnlyCaller(l)'
  BY <1>6 DEF Restart, Goto, OnlyCaller
<1>7. CASE UNCHANGED vars
  BY <1>7 DEF vars, OnlyCaller
<1> QED  BY <1>1, <1>2, <1>3, <1>4, <1>5, <1>6, <1>7 DEF Next

-----------------------------------------------------------------------------
(* The steps that matter to the logs *)

LEMMA LeaderStays ==
  ASSUME TypeInv, LeaderInv, NEW l \in Node, SoleContender(l), OnlyCaller(l),
         [Next]_vars, node_type[l] = "Leader"
  PROVE  node_type'[l] = "Leader"
<1>0. pc[l] \notin {"expired", "candidate", "campaign", "won", "lost", "late"}
  BY DEF LeaderInv, OfficeInv
<1>a. ASSUME NEW n \in Node, NEW msg \in Inbox(n)
      PROVE  n # l
  BY <1>a, OnlyRequest
<1> USE DEF TypeInv, TypeOK
<1>1. ASSUME NEW n \in Node, Ticker(n)
      PROVE  node_type'[l] = "Leader"
  <2>1. CASE n # l
    BY <1>1, <2>1, TickerFrame
  <2>2. CASE n = l
    <3>1. ~BecomeCandidate(l) /\ ~StepDown(l)
      BY <1>0 DEF BecomeCandidate, StepDown
    <3> QED  BY <1>1, <2>2, <3>1 DEF Ticker, RemoveFile, CreateFile, WriteFile,
       HeartbeatBegin, HeartbeatSend, HeartbeatReceive, HeartbeatEnd, CommitEntries,
       ElectionTimeout, CampaignBegin, CampaignSend, CampaignSlow, VoteReceived,
       VoteDenied, VoteMissing, CampaignEnd, BecomeLeader, TickEnd
  <2> QED  BY <2>1, <2>2
<1>2. ASSUME NEW n \in Node, Listener(n)
      PROVE  node_type'[l] = "Leader"
  BY <1>2, <1>a DEF Listener, GrantVote, DenyVote, AcceptAppend, RejectAppend,
     TornRequest, HoldConnection
<1>3. ASSUME NEW n \in Node, NEW v \in Value, AppendEntry(n, v)
      PROVE  node_type'[l] = "Leader"
  BY <1>3 DEF AppendEntry
<1>4. ASSUME NEW n \in Node, BreakCall(n)
      PROVE  node_type'[l] = "Leader"
  BY <1>4 DEF BreakCall
<1>5. ASSUME NEW n \in Node, Crash(n)
      PROVE  node_type'[l] = "Leader"
  BY <1>5 DEF Crash, SoleContender
<1>6. ASSUME NEW n \in Node, Restart(n)
      PROVE  node_type'[l] = "Leader"
  BY <1>6 DEF Restart
<1>7. CASE UNCHANGED vars
  BY <1>7 DEF vars
<1> QED  BY <1>1, <1>2, <1>3, <1>4, <1>5, <1>6, <1>7 DEF Next

KeepsLogs ==
  /\ UNCHANGED <<log, disk, commited_index, delivered>>
  /\ \A m \in Node : pc'[m] # "down" => pc[m] # "down"

Persists(n) == RemoveFile(n) \/ CreateFile(n) \/ WriteFile(n)

LEMMA StepKinds ==
  ASSUME TypeInv, LeaderInv, NEW l \in Node, SoleContender(l), OnlyCaller(l),
         [Next]_vars
  PROVE  \/ KeepsLogs
         \/ \E n \in Node : Persists(n)
         \/ \E v \in Value : AppendEntry(l, v)
         \/ CommitEntries(l)
         \/ \E m \in Node \ {l} : \E msg \in Inbox(m) : AcceptAppend(m, msg)
         \/ \E m \in Node \ {l} : Crash(m) \/ Restart(m)
<1>a. ASSUME NEW n \in Node, NEW msg \in Inbox(n)
      PROVE  n # l
  BY <1>a, OnlyRequest
<1>b. ASSUME NEW n \in Node, Ticker(n), n # l
      PROVE  Persists(n) \/ TickEnd(n)
  BY <1>b, OthersTick DEF Persists
<1> USE DEF TypeInv, TypeOK
<1>1. ASSUME NEW n \in Node, Ticker(n)
      PROVE  Persists(n) \/ CommitEntries(l) \/ KeepsLogs
  <2>1. CASE Persists(n) \/ CommitEntries(n)
    <3>1. n # l => Persists(n) \/ TickEnd(n)
      BY <1>1, <1>b
    <3>2. TickEnd(n) => ~CommitEntries(n)
      BY DEF TickEnd, CommitEntries, AwaitsCommit, AwaitsElection
    <3> QED  BY <2>1, <3>1, <3>2
  <2>2. CASE ~Persists(n) /\ ~CommitEntries(n)
    <3>1. UNCHANGED <<log, disk, commited_index, delivered>>
      BY <1>1, <2>2 DEF Persists, Ticker, HeartbeatBegin, HeartbeatSend,
         HeartbeatReceive, HeartbeatEnd, ElectionTimeout, BecomeCandidate,
         CampaignBegin, CampaignSend, CampaignSlow, VoteReceived, VoteDenied,
         VoteMissing, CampaignEnd, BecomeLeader, StepDown, TickEnd
    <3>2. pc[n] # "down"
      BY <1>1 DEF Ticker, RemoveFile, CreateFile, WriteFile,
         HeartbeatBegin, HeartbeatSend, HeartbeatReceive, HeartbeatEnd, CommitEntries,
         ElectionTimeout, BecomeCandidate, CampaignBegin, CampaignSend, CampaignSlow,
         VoteReceived, VoteDenied, VoteMissing, CampaignEnd, BecomeLeader, StepDown,
         TickEnd, AwaitsHeartbeat, AwaitsCommit, AwaitsElection
    <3>3. \A m \in Node \ {n} : pc'[m] = pc[m]
      BY <1>1, TickerFrame
    <3> QED  BY <3>1, <3>2, <3>3 DEF KeepsLogs
  <2> QED  BY <2>1, <2>2
<1>2. ASSUME NEW n \in Node, Listener(n)
      PROVE  KeepsLogs \/ \E m \in Node \ {l} : \E msg \in Inbox(m) : AcceptAppend(m, msg)
  <2>1. PICK msg \in Inbox(n) :
          \/ GrantVote(n, msg) \/ DenyVote(n, msg)
          \/ AcceptAppend(n, msg) \/ RejectAppend(n, msg)
          \/ TornRequest(n, msg) \/ HoldConnection(n, msg)
    BY <1>2 DEF Listener
  <2>2. n # l
    BY <1>a
  <2>3. AcceptAppend(n, msg) \/ KeepsLogs
    BY <2>1 DEF GrantVote, DenyVote, RejectAppend, TornRequest, HoldConnection, KeepsLogs
  <2> QED  BY <2>2, <2>3
<1>3. ASSUME NEW n \in Node, NEW v \in Value, AppendEntry(n, v)
      PROVE  n = l
  BY <1>3 DEF AppendEntry, OnlyCaller
<1>4. ASSUME NEW n \in Node, BreakCall(n)
      PROVE  FALSE
  BY <1>4 DEF BreakCall, Rarely, SoleContender
<1>5. ASSUME NEW n \in Node, Crash(n) \/ Restart(n)
      PROVE  n # l
  BY <1>5 DEF Crash, Restart, SoleContender, OnlyCaller
<1>7. CASE UNCHANGED vars
  BY <1>7 DEF vars, KeepsLogs
<1> QED  BY <1>1, <1>2, <1>3, <1>4, <1>5, <1>7 DEF Next

\* What all these proofs assume of a state.
Replicates(l) ==
  /\ TypeInv /\ LeaderInv /\ IndexInv(l)
  /\ ReplicationInv(l)

LEMMA LogTypes ==
  ASSUME TypeOK, NEW m \in Node
  PROVE  /\ log[m] \in Seq(Entry) /\ Len(log[m]) \in Nat
         /\ disk[m].log \in Seq(Entry) /\ Len(disk[m].log) \in Nat
         /\ delivered[m] \in Seq(Entry) /\ Len(delivered[m]) \in Nat
         /\ commited_index[m] \in Nat
         /\ \A p \in Node : next_index[m][p] \in Nat /\ match_index[m][p] \in Nat
<1>1. disk[m] \in Disks
  BY DEF TypeOK
<1>2. disk[m].log \in Seq(Entry)
  BY <1>1 DEF Disks
<1> QED  BY <1>2, LenProperties DEF TypeOK

LEMMA AcceptStores ==
  ASSUME NEW l \in Node, Replicates(l), NEW m \in Node, NEW msg \in Inbox(m),
         AcceptAppend(m, msg)
  PROVE  /\ m # l /\ m = Peer(l) /\ node_type[l] = "Leader"
         /\ pc[l] = "heartbeat" /\ wire[l] = "sent"
         /\ log' = [log EXCEPT ![m] = log[l]]
         /\ commited_index' = [commited_index EXCEPT ![m] = commited_index[l]]
         /\ delivered' = [delivered EXCEPT ![m] = SubSeq(log[l], 1, commited_index[l])]
         /\ wire' = [wire EXCEPT ![l] = "replied"]
         /\ reply' = [reply EXCEPT ![l] =
                        [node |-> m, term |-> node_term'[m], ok |-> TRUE]]
         /\ UNCHANGED <<disk, next_index, match_index, pc, conn>>
<1> DEFINE req == msg.req
           lead == log[l]
           next == next_index[l][m]
           merged == MergedLog(log[m], req)
<1>1. m # l /\ m = Peer(l) /\ wire[l] = "sent" /\ msg.from = l
  BY OnlyRequest DEF Replicates, ReplicationInv
<1>2. /\ pc[l] = "heartbeat" /\ node_type[l] = "Leader"
      /\ req = AppendRequestOf(l, node_term[l], lead, next, commited_index[l])
  BY OnlyAppend DEF Replicates, ReplicationInv, AcceptAppend, CanServe
<1>3. TypeOK
  BY DEF Replicates, TypeInv
<1>4. /\ lead \in Seq(Entry) /\ log[m] \in Seq(Entry) /\ delivered[m] \in Seq(Entry)
      /\ commited_index[l] \in Nat /\ commited_index[m] \in Nat /\ next \in Nat
      /\ node_term[l] \in Nat /\ Len(lead) \in Nat
  BY <1>3, LogTypes DEF TypeOK
<1>5. 1 <= next /\ next <= Len(lead) + 1 /\ Len(log[m]) < next
  <2>1. next >= 1
    BY <1>1, <1>2 DEF Replicates, IndexInv
  <2>2. next <= Len(lead) + 1 /\ (StoredBelow(m, next) \/ Acked(l, m))
    BY <1>1, <1>2 DEF Replicates, ReplicationInv, NextInv
  <2> QED  BY <1>1, <1>4, <2>1, <2>2 DEF StoredBelow, Acked
<1>6. /\ IsPrefixOf(log[m], lead) /\ commited_index[l] <= Len(lead)
      /\ commited_index[m] <= commited_index[l]
      /\ delivered[m] = SubSeq(lead, 1, commited_index[m])
  BY DEF Replicates, ReplicationInv, LogsInv
<1>7. AppendAccepted(node_type[m], node_term[m], log[m], req)
  BY DEF AcceptAppend
<1>8. merged = lead
  <2> HIDE DEF lead, next
  <2>1. PICK own, ld \in Seq(Entry) : own = log[m] /\ ld = lead
    BY <1>4
  <2>2. PICK t, c, nx \in Nat : t = node_term[l] /\ c = commited_index[l] /\ nx = next
    BY <1>4
  <2>3. req = AppendRequestOf(l, t, ld, nx, c)
    BY <1>2, <2>1, <2>2
  <2>4. /\ 1 <= nx /\ nx <= Len(ld) + 1 /\ Len(own) < nx /\ IsPrefixOf(own, ld)
        /\ AppendAccepted(node_type[m], node_term[m], own, AppendRequestOf(l, t, ld, nx, c))
    BY <1>5, <1>6, <1>7, <2>1, <2>2, <2>3
  <2>5. PICK r, u : r = node_type[m] /\ u = node_term[m]
    OBVIOUS
  <2>6. MergedLog(own, AppendRequestOf(l, t, ld, nx, c)) = ld
    BY <2>4, <2>5, AcceptedMergeIsLeaders
  <2> QED  BY <2>1, <2>3, <2>6
<1>9. req.leaderCommit = commited_index[l]
  BY <1>2 DEF AppendRequestOf
<1> HIDE DEF merged, req, lead, next
<1>10. ~DeliveryPanics(merged, commited_index[m], req.leaderCommit)
  BY <1>4, <1>6, <1>8, <1>9 DEF DeliveryPanics
<1>11. delivered[m] \o DeliveredSlice(merged, commited_index[m], req.leaderCommit)
         = SubSeq(lead, 1, commited_index[l])
  <2>1. PICK ld \in Seq(Entry), from \in Nat, to \in Nat :
          ld = lead /\ from = commited_index[m] /\ to = commited_index[l]
    BY <1>4
  <2>2. from <= to /\ to <= Len(ld)
    BY <1>6, <2>1
  <2>3. SubSeq(ld, 1, from) \o DeliveredSlice(ld, from, to) = SubSeq(ld, 1, to)
    BY <2>2, DeliveryGoesOn
  <2> QED  BY <1>6, <1>8, <1>9, <2>1, <2>3
<1>12. /\ log' = [log EXCEPT ![m] = merged]
       /\ delivered' = [delivered EXCEPT ![m] =
            @ \o DeliveredSlice(merged, commited_index[m], req.leaderCommit)]
       /\ commited_index' = [commited_index EXCEPT ![m] =
            IF req.leaderCommit > @ THEN req.leaderCommit ELSE @]
       /\ Respond(m, msg, TRUE)
       /\ UNCHANGED <<disk, next_index, match_index, pc, conn>>
  BY <1>10 DEF AcceptAppend, merged, req
<1>13. commited_index' = [commited_index EXCEPT ![m] = commited_index[l]]
  <2>1. (IF req.leaderCommit > commited_index[m]
         THEN req.leaderCommit ELSE commited_index[m]) = commited_index[l]
    BY <1>4, <1>6, <1>9
  <2> QED  BY <1>12, <2>1
<1>14. delivered' = [delivered EXCEPT ![m] = SubSeq(lead, 1, commited_index[l])]
  BY <1>11, <1>12
<1>15. /\ wire' = [wire EXCEPT ![l] = "replied"]
       /\ reply' = [reply EXCEPT ![l] =
                      [node |-> m, term |-> node_term'[m], ok |-> TRUE]]
  <2>1. msg.from # NoNode
    BY <1>1, NodeAssumption
  <2> QED  BY <1>1, <1>12, <2>1 DEF Respond
<1> QED  BY <1>1, <1>2, <1>8, <1>12, <1>13, <1>14, <1>15 DEF lead

LEMMA CommitDecides ==
  ASSUME NEW l \in Node, Replicates(l), CommitEntries(l)
  PROVE  \E k \in Nat :
           /\ commited_index[l] < k /\ k <= Len(log[l]) /\ node_type[l] = "Leader"
           /\ \E m \in Node : match_index[l][m] = k
           /\ k \in QuorumMatches(l, match_index[l])
           /\ commited_index' = [commited_index EXCEPT ![l] = k]
           /\ delivered' = [delivered EXCEPT ![l] = SubSeq(log[l], 1, k)]
           /\ pc' = [pc EXCEPT ![l] = "check"] /\ pc[l] # "down"
           /\ UNCHANGED <<log, disk, next_index, match_index, wire, reply, conn>>
<1>1. PICK k \in CommitTargets(l) :
        /\ delivered' = [delivered EXCEPT ![l] =
                           @ \o DeliveredSlice(log[l], commited_index[l], k)]
        /\ IF DeliveryPanics(log[l], commited_index[l], k)
           THEN Goto(l, "dead") /\ UNCHANGED commited_index
           ELSE /\ Goto(l, "check")
                /\ commited_index' = [commited_index EXCEPT ![l] = k]
  BY DEF CommitEntries
<1>2. /\ node_type[l] = "Leader" /\ k > commited_index[l]
      /\ k \in QuorumMatches(l, match_index[l])
      /\ \E m \in Node : match_index[l][m] = k
  BY DEF CommitTargets, QuorumMatches
<1>3. /\ TypeOK /\ commited_index[l] <= Len(log[l])
      /\ delivered[l] = SubSeq(log[l], 1, commited_index[l])
  BY DEF Replicates, TypeInv, ReplicationInv, LogsInv
<1>4. log[l] \in Seq(Entry) /\ Len(log[l]) \in Nat /\ commited_index[l] \in Nat
  BY <1>3, LogTypes
<1>5. k \in Nat /\ k <= Len(log[l])
  <2>1. PICK m \in Node : match_index[l][m] = k
    BY <1>2
  <2>2. match_index[l][m] \in Nat
    BY <1>3, LogTypes
  <2> QED  BY <1>2, <2>1, <2>2 DEF Replicates, IndexInv
<1>6. ~DeliveryPanics(log[l], commited_index[l], k)
  BY <1>4, <1>5 DEF DeliveryPanics
<1>7. SubSeq(log[l], 1, commited_index[l]) \o DeliveredSlice(log[l], commited_index[l], k)
        = SubSeq(log[l], 1, k)
  <2>1. PICK ld \in Seq(Entry), from \in Nat :
          ld = log[l] /\ from = commited_index[l]
    BY <1>4
  <2>2. from <= k /\ k <= Len(ld)
    BY <1>2, <1>5, <2>1
  <2>3. SubSeq(ld, 1, from) \o DeliveredSlice(ld, from, k) = SubSeq(ld, 1, k)
    BY <1>5, <2>2, DeliveryGoesOn
  <2> QED  BY <2>1, <2>3
<1>8. delivered' = [delivered EXCEPT ![l] = SubSeq(log[l], 1, k)]
  BY <1>1, <1>3, <1>7
<1>9. /\ UNCHANGED <<log, disk, next_index, match_index, wire, reply, conn>>
      /\ pc[l] # "down"
  BY DEF CommitEntries, AwaitsCommit
<1> QED  BY <1>1, <1>2, <1>5, <1>6, <1>8, <1>9 DEF Goto

\* A step that leaves logs and deliveries alone, or what they are first parts of
\* longer.
LEMMA LogsGrow ==
  ASSUME NEW l \in Node, TypeOK, TypeOK', LogsInv(l), node_type'[l] = "Leader",
         IsPrefixOf(log[l], log'[l]), \A m \in Node \ {l} : log'[m] = log[m],
         UNCHANGED <<disk, commited_index, delivered, pc>>
  PROVE  LogsInv(l)'
<1>1. \A m \in Node : log[m] \in Seq(Entry) /\ log'[m] \in Seq(Entry)
                       /\ disk[m].log \in Seq(Entry) /\ commited_index[m] \in Nat
  BY LogTypes DEF TypeOK
<1>2. PICK old, new \in Seq(Entry) : old = log[l] /\ new = log'[l]
  BY <1>1
<1>3. Len(old) <= Len(new) /\ IsPrefixOf(old, new)
  BY <1>1, <1>2, PrefixMeans
<1>4. ASSUME NEW m \in Node
      PROVE  /\ IsPrefixOf(log'[m], log'[l])
             /\ IsPrefixOf(disk'[m].log, log'[l])
             /\ pc'[m] # "down" => Len(disk'[m].log) <= Len(log'[m])
             /\ delivered'[m] = SubSeq(log'[l], 1, commited_index'[m])
  <2>0. /\ IsPrefixOf(log[m], old) /\ IsPrefixOf(disk[m].log, old)
        /\ commited_index[m] <= commited_index[l] /\ commited_index[l] <= Len(old)
        /\ pc[m] # "down" => Len(disk[m].log) <= Len(log[m])
        /\ delivered[m] = SubSeq(old, 1, commited_index[m])
    BY <1>2 DEF LogsInv
  <2>1. PICK s, t \in Seq(Entry), c \in Nat :
          s = log[m] /\ t = disk[m].log /\ c = commited_index[m]
    BY <1>1
  <2>2. IsPrefixOf(s, new) /\ IsPrefixOf(t, new)
    BY <1>3, <2>0, <2>1, PrefixOfPrefix
  <2>3. SubSeq(old, 1, c) = SubSeq(new, 1, c)
    <3>1. c <= Len(old)
      BY <1>1, <2>0, <2>1
    <3> QED  BY <1>3, <3>1, FirstPartOfPrefix
  <2>4. IsPrefixOf(new, new)
    BY PrefixOfItself
  <2>5. m = l => log'[m] = new
    BY <1>2
  <2>6. Len(log[m]) <= Len(log'[m])
    <3>1. CASE m = l  BY <1>2, <1>3, <3>1
    <3>2. CASE m # l
      BY <1>1, <3>2
    <3> QED  BY <3>1, <3>2
  <2>7. Len(disk[m].log) \in Nat /\ Len(log[m]) \in Nat /\ Len(log'[m]) \in Nat
    BY <1>1, LenProperties
  <2> QED  BY <1>2, <2>0, <2>1, <2>2, <2>3, <2>4, <2>5, <2>6, <2>7
<1>5. commited_index[l] <= Len(log'[l])
  <2>1. commited_index[l] <= Len(old) /\ Len(old) \in Nat /\ Len(new) \in Nat
    BY <1>2, LenProperties DEF LogsInv
  <2> QED  BY <1>1, <1>2, <1>3, <2>1
<1> QED  BY <1>4, <1>5 DEF LogsInv

LEMMA PersistsLogs ==
  ASSUME NEW l \in Node, Replicates(l), NEW n \in Node, Persists(n),
         node_type'[l] = node_type[l]
  PROVE  LogsInv(l)'
<1>0. TypeOK /\ PersistInv /\ LogsInv(l)
  BY DEF Replicates, TypeInv, ReplicationInv
<1>1. /\ UNCHANGED <<log, commited_index, delivered>>
      /\ \A m \in Node : pc'[m] # "down" => pc[m] # "down"
  BY <1>0 DEF Persists, RemoveFile, CreateFile, WriteFile, Goto, TypeOK
<1>2. PICK file :
        /\ disk' = [disk EXCEPT ![n] = file]
        /\ \/ file.log = <<>> \/ file.log = disk[n].log
           \/ /\ file.log = SubSeq(log[n], 1, commited_index[n])
              /\ commited_index[n] <= Len(log[n])
  <2>1. CASE disk' = [disk EXCEPT ![n] = AbsentDisk]
    <3>1. AbsentDisk.log = <<>>
      BY DEF AbsentDisk, FreshDisk
    <3> QED  BY <2>1, <3>1
  <2>2. CASE disk' = disk
    <3>1. disk = [disk EXCEPT ![n] = disk[n]]
      BY <1>0 DEF TypeOK
    <3> QED  BY <2>2, <3>1
  <2>3. CASE disk' = [disk EXCEPT ![n] = TornDisk]
    <3>1. TornDisk.log = <<>>
      BY DEF TornDisk, FreshDisk
    <3> QED  BY <2>3, <3>1
  <2>4. CASE WriteFile(n) /\ disk' # disk
    <3> DEFINE new == [state |-> "saved", term |-> node_term[n],
                       votedFor |-> voted_for[n], log |-> PersistedLog(n)]
    <3>1. disk' = [disk EXCEPT ![n] = new] /\ commited_index[n] <= Len(log[n])
      BY <1>0, <2>4 DEF WriteFile, PersistInv
    <3>2. new.log = SubSeq(log[n], 1, commited_index[n])
      BY DEF PersistedLog
    <3> QED  BY <3>1, <3>2
  <2> QED  BY <2>1, <2>2, <2>3, <2>4 DEF Persists, RemoveFile, CreateFile
<1>3. \A m \in Node : /\ log[m] \in Seq(Entry) /\ Len(log[m]) \in Nat
                      /\ disk[m].log \in Seq(Entry) /\ Len(disk[m].log) \in Nat
                      /\ commited_index[m] \in Nat
  BY <1>0, LogTypes
<1>4. /\ IsPrefixOf(file.log, log[l])
      /\ Len(file.log) <= commited_index[l]
      /\ pc[n] # "down" => Len(file.log) <= Len(log[n])
  <2>1. PICK lead, own \in Seq(Entry), c \in Nat :
          lead = log[l] /\ own = log[n] /\ c = commited_index[n]
    BY <1>3
  <2>2. CASE file.log = <<>>
    <3>1. IsPrefixOf(<<>>, lead)
      BY EmptyPrefix
    <3>2. Len(<<>>) = 0
      OBVIOUS
    <3> QED  BY <1>3, <2>1, <2>2, <3>1, <3>2
  <2>3. CASE file.log = disk[n].log
    BY <1>0, <2>3 DEF LogsInv
  <2>4. CASE file.log = SubSeq(own, 1, c) /\ c <= Len(own)
    <3>1. PICK s \in Seq(Entry) :
            s = SubSeq(own, 1, c) /\ Len(s) = c /\ IsPrefixOf(s, own)
      BY <2>4, FirstPart
    <3>2. IsPrefixOf(own, lead) /\ c <= commited_index[l]
      BY <1>0, <2>1 DEF LogsInv
    <3>3. IsPrefixOf(s, lead)
      BY <3>1, <3>2, PrefixOfPrefix
    <3> QED  BY <2>1, <2>4, <3>1, <3>2, <3>3
  <2> QED  BY <1>2, <2>1, <2>2, <2>3, <2>4
<1>5. \A m \in Node : disk'[m] = IF m = n THEN file ELSE disk[m]
  BY <1>0, <1>2 DEF TypeOK
<1> QED  BY <1>0, <1>1, <1>4, <1>5 DEF LogsInv

LEMMA AcceptsLogs ==
  ASSUME NEW l \in Node, Replicates(l), NEW m \in Node, NEW msg \in Inbox(m),
         AcceptAppend(m, msg), node_type'[l] = "Leader"
  PROVE  LogsInv(l)'
<1>0. TypeOK /\ LogsInv(l)
  BY DEF Replicates, TypeInv, ReplicationInv
<1>1. /\ m # l
      /\ log' = [log EXCEPT ![m] = log[l]]
      /\ commited_index' = [commited_index EXCEPT ![m] = commited_index[l]]
      /\ delivered' = [delivered EXCEPT ![m] = SubSeq(log[l], 1, commited_index[l])]
      /\ UNCHANGED <<disk, pc>>
  BY AcceptStores
<1>2. \A p \in Node :
        /\ log'[p] = IF p = m THEN log[l] ELSE log[p]
        /\ commited_index'[p] = IF p = m THEN commited_index[l] ELSE commited_index[p]
        /\ delivered'[p] = IF p = m THEN SubSeq(log[l], 1, commited_index[l])
                                    ELSE delivered[p]
  BY <1>0, <1>1 DEF TypeOK
<1>3. \A p \in Node : log[p] \in Seq(Entry) /\ Len(log[p]) \in Nat
                      /\ disk[p].log \in Seq(Entry) /\ Len(disk[p].log) \in Nat
                      /\ commited_index[p] \in Nat
  BY <1>0, LogTypes
<1>4. IsPrefixOf(log[l], log[l])
  BY <1>3, PrefixOfItself
<1>5. \A p \in Node : Len(disk[p].log) <= commited_index[l] /\ commited_index[l] <= Len(log[l])
  BY <1>0 DEF LogsInv
<1>6. Len(disk[m].log) <= Len(log[l])
  BY <1>3, <1>5
<1>7. log'[l] = log[l] /\ commited_index'[l] = commited_index[l] /\ disk' = disk /\ pc' = pc
  BY <1>1, <1>2
<1>8. ASSUME NEW p \in Node
      PROVE  /\ IsPrefixOf(log'[p], log[l])
             /\ commited_index'[p] <= commited_index[l]
             /\ pc[p] # "down" => Len(disk[p].log) <= Len(log'[p])
             /\ delivered'[p] = SubSeq(log[l], 1, commited_index'[p])
  <2>1. CASE p = m
    <3>1. /\ log'[p] = log[l] /\ commited_index'[p] = commited_index[l]
          /\ delivered'[p] = SubSeq(log[l], 1, commited_index[l])
      BY Zenon, <1>2, <2>1
    <3>2. delivered'[p] = SubSeq(log[l], 1, commited_index'[p])
      BY Zenon, <3>1
    <3>3. commited_index'[p] <= commited_index[l]
      BY <1>3, <3>1
    <3> QED  BY <1>4, <1>6, <2>1, <3>1, <3>2, <3>3
  <2>2. CASE p # m  BY <1>0, <1>2, <2>2 DEF LogsInv
  <2> QED  BY <2>1, <2>2
<1>9. \A p \in Node : IsPrefixOf(disk[p].log, log[l])
  BY <1>0 DEF LogsInv
<1> QED  BY <1>5, <1>7, <1>8, <1>9 DEF LogsInv

LEMMA CommitsLogs ==
  ASSUME NEW l \in Node, Replicates(l), CommitEntries(l), node_type'[l] = "Leader"
  PROVE  LogsInv(l)'
<1>0. TypeOK /\ LogsInv(l)
  BY DEF Replicates, TypeInv, ReplicationInv
<1>1. PICK k \in Nat :
        /\ commited_index[l] < k /\ k <= Len(log[l])
        /\ commited_index' = [commited_index EXCEPT ![l] = k]
        /\ delivered' = [delivered EXCEPT ![l] = SubSeq(log[l], 1, k)]
        /\ pc' = [pc EXCEPT ![l] = "check"] /\ pc[l] # "down"
        /\ UNCHANGED <<log, disk>>
  BY CommitDecides
<1>2. \A p \in Node :
        /\ commited_index'[p] = IF p = l THEN k ELSE commited_index[p]
        /\ delivered'[p] = IF p = l THEN SubSeq(log[l], 1, k) ELSE delivered[p]
        /\ pc'[p] # "down" => pc[p] # "down"
  BY <1>0, <1>1 DEF TypeOK
<1>3. \A p \in Node : commited_index[p] \in Nat /\ Len(disk[p].log) \in Nat
  BY <1>0, LogTypes
<1>4. \A p \in Node : commited_index'[p] <= k /\ Len(disk[p].log) <= k
  BY <1>0, <1>1, <1>2, <1>3 DEF LogsInv
<1> QED  BY <1>0, <1>1, <1>2, <1>4 DEF LogsInv

LEMMA CrashesLogs ==
  ASSUME NEW l \in Node, Replicates(l), NEW m \in Node \ {l}, Crash(m) \/ Restart(m)
  PROVE  LogsInv(l)'
<1>0. TypeOK /\ LogsInv(l)
  BY DEF Replicates, TypeInv, ReplicationInv
<1>3. \A p \in Node : log[p] \in Seq(Entry) /\ Len(log[p]) \in Nat
                      /\ disk[p].log \in Seq(Entry) /\ Len(disk[p].log) \in Nat
                      /\ commited_index[p] \in Nat
  BY <1>0, LogTypes
<1>1. CASE Crash(m)
  <2>1. \A p \in Node :
          /\ log'[p] = IF p = m THEN <<>> ELSE log[p]
          /\ commited_index'[p] = IF p = m THEN 0 ELSE commited_index[p]
          /\ delivered'[p] = IF p = m THEN <<>> ELSE delivered[p]
          /\ pc'[p] = IF p = m THEN "down" ELSE pc[p]
          /\ node_type'[p] = IF p = m THEN "Follower" ELSE node_type[p]
    BY <1>0, <1>1 DEF Crash, Goto, TypeOK
  <2>2. disk' = disk
    BY <1>1 DEF Crash
  <2>3. PICK lead \in Seq(Entry) : lead = log[l]
    BY <1>3
  <2>4. IsPrefixOf(<<>>, lead) /\ SubSeq(lead, 1, 0) = <<>>
    BY EmptyPrefix
  <2>5. log'[l] = lead /\ commited_index'[l] = commited_index[l]
        /\ node_type'[l] = node_type[l]
    BY <2>1, <2>3
  <2>6. ASSUME NEW p \in Node
        PROVE  /\ IsPrefixOf(log'[p], lead)
               /\ commited_index'[p] <= commited_index[l]
               /\ pc'[p] # "down" => Len(disk[p].log) <= Len(log'[p])
               /\ delivered'[p] = SubSeq(lead, 1, commited_index'[p])
    <3>1. CASE p = m
      <4>1. log'[p] = <<>> /\ commited_index'[p] = 0 /\ delivered'[p] = <<>>
            /\ pc'[p] = "down"
        BY <2>1, <3>1
      <4>2. delivered'[p] = SubSeq(lead, 1, commited_index'[p])
        BY Zenon, <2>4, <4>1
      <4>3. commited_index'[p] <= commited_index[l]
        BY <1>3, <4>1
      <4> QED  BY <2>4, <4>1, <4>2, <4>3
    <3>2. CASE p # m  BY <1>0, <2>1, <2>3, <3>2 DEF LogsInv
    <3> QED  BY <3>1, <3>2
  <2> QED  BY <1>0, <2>2, <2>3, <2>5, <2>6 DEF LogsInv
<1>2. CASE Restart(m)
  <2>1. \A p \in Node :
          /\ log'[p] = IF p = m THEN disk[m].log ELSE log[p]
          /\ pc'[p] = IF p = m THEN "top" ELSE pc[p]
    BY <1>0, <1>2 DEF Restart, Goto, TypeOK
  <2>2. UNCHANGED <<commited_index, delivered, node_type>>
    BY <1>2 DEF Restart
  <2>3. \A p \in Node : disk'[p].log = disk[p].log
    <3>1. disk' = [disk EXCEPT ![m].state = "saved"]
      BY <1>2 DEF Restart
    <3>2. disk \in [Node -> Disks]
      BY <1>0 DEF TypeOK
    <3> QED  BY <3>1, <3>2 DEF Disks
  <2>4. log'[l] = log[l]
    BY <2>1
  <2>5. ASSUME NEW p \in Node
        PROVE  /\ IsPrefixOf(log'[p], log[l])
               /\ pc'[p] # "down" => Len(disk[p].log) <= Len(log'[p])
    <3>1. CASE p = m  BY <1>0, <1>3, <2>1, <3>1 DEF LogsInv
    <3>2. CASE p # m  BY <1>0, <2>1, <3>2 DEF LogsInv
    <3> QED  BY <3>1, <3>2
  <2> QED  BY <1>0, <2>2, <2>3, <2>4, <2>5 DEF LogsInv
<1> QED  BY <1>1, <1>2

LEMMA NextLogs ==
  ASSUME NEW l \in Node, SoleContender(l), Replicates(l), [Next]_vars
  PROVE  LogsInv(l)'
<1>0. TypeInv /\ LeaderInv /\ OnlyCaller(l) /\ LogsInv(l)
  BY DEF Replicates, ReplicationInv
<1>1. node_type[l] = "Leader" => node_type'[l] = "Leader"
  BY <1>0, LeaderStays
<1>2. TypeOK /\ TypeOK'
  BY <1>0, NextTyped DEF TypeInv
<1>3. CASE KeepsLogs
  BY <1>0, <1>1, <1>3 DEF KeepsLogs, LogsInv
<1>4. ASSUME NEW n \in Node, Persists(n)
      PROVE  LogsInv(l)'
  <2>1. node_type' = node_type
    BY <1>4 DEF Persists, RemoveFile, CreateFile, WriteFile
  <2> QED  BY <1>4, <2>1, PersistsLogs
<1>5. ASSUME NEW v \in Value, AppendEntry(l, v)
      PROVE  LogsInv(l)'
  <2>1. /\ log' = [log EXCEPT ![l] = Append(@, [value |-> v, term |-> node_term[l]])]
        /\ node_type[l] = "Leader"
        /\ UNCHANGED <<disk, commited_index, delivered, pc>>
    BY <1>5 DEF AppendEntry
  <2>2. PICK s \in Seq(Entry), e \in Entry :
          s = log[l] /\ e = [value |-> v, term |-> node_term[l]]
    BY <1>2 DEF TypeOK, Entry
  <2>3. IsPrefixOf(s, Append(s, e))
    BY PrefixOfAppend
  <2>4. log'[l] = Append(s, e) /\ \A m \in Node \ {l} : log'[m] = log[m]
    BY <1>2, <2>1, <2>2 DEF TypeOK
  <2> QED  BY <1>0, <1>1, <1>2, <2>1, <2>2, <2>3, <2>4, LogsGrow
<1>6. CASE CommitEntries(l)
  <2>1. node_type[l] = "Leader"
    BY <1>6, CommitDecides
  <2> QED  BY <1>1, <1>6, <2>1, CommitsLogs
<1>7. ASSUME NEW m \in Node \ {l}, NEW msg \in Inbox(m), AcceptAppend(m, msg)
      PROVE  LogsInv(l)'
  <2>1. node_type[l] = "Leader"
    BY <1>7, AcceptStores
  <2> QED  BY <1>1, <1>7, <2>1, AcceptsLogs
<1>8. ASSUME NEW m \in Node \ {l}, Crash(m) \/ Restart(m)
      PROVE  LogsInv(l)'
  BY <1>8, CrashesLogs
<1> QED  BY <1>0, <1>3, <1>4, <1>5, <1>6, <1>7, <1>8, StepKinds

-----------------------------------------------------------------------------
(* next_index and the answers of the peers *)

\* Nothing but the handlers of append requests gives l an answer to a heartbeat,
\* and nothing but HeartbeatReceive takes it away.
AnswerKept(l) ==
  /\ Acked(l, Peer(l)) => pc'[l] = pc[l] /\ wire'[l] = wire[l]
                          /\ reply'[l] = reply[l] /\ conn'[l] = conn[l]
  /\ pc'[l] = "heartbeat" /\ wire'[l] = "replied" =>
       /\ pc'[l] = pc[l] /\ wire'[l] = wire[l]
       /\ reply'[l] = reply[l] /\ conn'[l] = conn[l]

LEMMA AnswersKept ==
  ASSUME TypeInv, LeaderInv, NEW l \in Node, SoleContender(l), OnlyCaller(l),
         [Next]_vars, ~HeartbeatReceive(l),
         \A m \in Node : \A msg \in Inbox(m) :
           ~AcceptAppend(m, msg) /\ ~RejectAppend(m, msg)
  PROVE  AnswerKept(l)
<1>a. ASSUME NEW n \in Node, NEW msg \in Inbox(n)
      PROVE  /\ n # l /\ msg.from = l /\ wire[l] = "sent" /\ msg.req = request[l]
             /\ msg.from # NoNode
  BY <1>a, OnlyRequest, NodeAssumption
<1>b. SpeaksFor(l) /\ OfficeInv(l)
  BY DEF LeaderInv
<1> DEFINE Same == /\ pc'[l] = pc[l] /\ wire'[l] = wire[l]
                   /\ reply'[l] = reply[l] /\ conn'[l] = conn[l]
<1>s. Same => AnswerKept(l)
  BY DEF AnswerKept
<1>t. wire[l] \notin {"replied"} /\ (wire'[l] # "replied" \/ pc'[l] # "heartbeat")
        => AnswerKept(l)
  BY DEF AnswerKept, Acked
<1> HIDE DEF Same
<1> USE DEF TypeInv, TypeOK
<1>1. ASSUME NEW n \in Node, Ticker(n)
      PROVE  AnswerKept(l)
  <2>1. CASE n # l
    <3>1. Persists(n) \/ TickEnd(n)
      BY <1>1, <2>1, OthersTick DEF Persists
    <3>2. Same
      BY <2>1, <3>1 DEF Persists, RemoveFile, CreateFile, WriteFile, TickEnd, Goto, Same
    <3> QED  BY <3>2, <1>s
  <2>2. CASE n = l
    <3>1. CASE HeartbeatSend(l)
      <4>1. wire[l] = "idle" /\ (wire'[l] = "sent" \/ wire'[l] = "idle")
        BY <3>1 DEF HeartbeatSend, Dial
      <4> QED  BY <4>1, <1>t
    <3>2. CASE HeartbeatEnd(l)
      <4>1. wire[l] = "idle" /\ wire' = wire
        BY <3>2, <1>b DEF HeartbeatEnd, SpeaksFor
      <4> QED  BY <4>1, <1>t
    <3>3. CASE ~HeartbeatSend(l) /\ ~HeartbeatEnd(l)
      <4>1. pc[l] # "heartbeat"
        BY <1>1, <2>2, <3>3 DEF Ticker, RemoveFile, CreateFile, WriteFile,
           HeartbeatBegin, CommitEntries, ElectionTimeout, BecomeCandidate,
           CampaignBegin, CampaignSend, CampaignSlow, VoteReceived, VoteDenied,
           VoteMissing, CampaignEnd, BecomeLeader, StepDown, TickEnd,
           AwaitsHeartbeat, AwaitsCommit, AwaitsElection
      <4>2. pc'[l] = "heartbeat" => HeartbeatBegin(l)
        BY <1>1, <2>2, <3>3 DEF Ticker, RemoveFile, CreateFile, WriteFile,
           CommitEntries, ElectionTimeout, BecomeCandidate, Goto,
           CampaignBegin, CampaignSend, CampaignSlow, VoteReceived, VoteDenied,
           VoteMissing, CampaignEnd, BecomeLeader, StepDown, TickEnd
      <4>3. HeartbeatBegin(l) => wire'[l] = "idle"
        BY IdleOutside DEF HeartbeatBegin, AwaitsHeartbeat
      <4> QED  BY <4>1, <4>2, <4>3 DEF AnswerKept, Acked
    <3> QED  BY <1>1, <2>2, <3>1, <3>2, <3>3 DEF Ticker
  <2> QED  BY <2>1, <2>2
<1>2. ASSUME NEW n \in Node, Listener(n)
      PROVE  AnswerKept(l)
  <2>1. PICK msg \in Inbox(n) :
          \/ GrantVote(n, msg) \/ DenyVote(n, msg)
          \/ AcceptAppend(n, msg) \/ RejectAppend(n, msg)
          \/ TornRequest(n, msg) \/ HoldConnection(n, msg)
    BY <1>2 DEF Listener
  <2>2. ~TornRequest(n, msg) /\ ~HoldConnection(n, msg)
    <3>1. msg.req = request[l] /\ wire[l] = "sent"
      BY <1>a
    <3> QED  BY <3>1, RequestIsReal DEF TornRequest, HoldConnection
  <2>3. msg.req.type = "RequestVote" /\ pc' = pc
    BY <2>1, <2>2 DEF GrantVote, DenyVote, CanServe
  <2>4. wire[l] = "sent" /\ pc[l] # "heartbeat"
    <3>1. wire[l] = "sent" /\ msg.req = request[l]
      BY <1>a
    <3>2. AppendRequestOf(l, node_term[l], log[l], next_index[l][Peer(l)],
                          commited_index[l]).type = "AppendEntries"
      BY DEF AppendRequestOf
    <3>3. pc[l] = "heartbeat" => request[l].type = "AppendEntries"
      BY <1>b, <3>1, <3>2 DEF SpeaksFor
    <3> QED  BY <2>3, <3>1, <3>3
  <2> QED  BY <2>3, <2>4, <1>t
<1>3. ASSUME NEW n \in Node, NEW v \in Value, AppendEntry(n, v)
      PROVE  AnswerKept(l)
  BY <1>3, <1>s DEF AppendEntry, Same
<1>4. ASSUME NEW n \in Node, BreakCall(n)
      PROVE  FALSE
  BY <1>4 DEF BreakCall, Rarely, SoleContender
<1>5. ASSUME NEW n \in Node, Crash(n)
      PROVE  AnswerKept(l)
  <2>1. n # l
    BY <1>5 DEF Crash, SoleContender
  <2>2. PICK f \in [Callers(n) -> {"closed", "failed", "reset", "lost"}] :
          wire' = [m \in Node |-> IF m = n THEN "idle"
                                  ELSE IF m \in Callers(n) THEN f[m] ELSE wire[m]]
    BY <1>5 DEF Crash
  <2>3. pc'[l] = pc[l] /\ conn'[l] = conn[l] /\ reply'[l] = reply[l]
    BY <1>5, <2>1 DEF Crash, Goto
  <2>4. CASE l \in Callers(n)
    <3>1. wire[l] = "sent" /\ wire'[l] # "replied"
      BY <2>1, <2>2, <2>4 DEF Callers
    <3> QED  BY <3>1, <1>t
  <2>5. CASE l \notin Callers(n)
    <3>1. wire'[l] = wire[l]
      BY <2>1, <2>2, <2>5
    <3> QED  BY <2>3, <3>1, <1>s DEF Same
  <2> QED  BY <2>4, <2>5
<1>6. ASSUME NEW n \in Node, Restart(n)
      PROVE  AnswerKept(l)
  <2>1. n # l
    BY <1>6 DEF Restart, OnlyCaller
  <2> QED  BY <1>6, <2>1, <1>s DEF Restart, Goto, Same
<1>7. CASE UNCHANGED vars
  BY <1>7, <1>s DEF vars, Same
<1> QED  BY <1>1, <1>2, <1>3, <1>4, <1>5, <1>6, <1>7 DEF Next

\* Any step but the acceptance of a request leaves a follower below the same
\* index: its log stays, or comes from its file, or is lost, and its file is cut
\* from its log.
LEMMA StoredStays ==
  ASSUME NEW l \in Node, Replicates(l), SoleContender(l), [Next]_vars,
         NEW m \in Node \ {l}, NEW k \in Nat, StoredBelow(m, k),
         \A msg \in Inbox(m) : ~AcceptAppend(m, msg)
  PROVE  StoredBelow(m, k)'
<1>0. TypeInv /\ LeaderInv /\ OnlyCaller(l) /\ TypeOK /\ PersistInv
  BY DEF Replicates, ReplicationInv, TypeInv
<1>1. /\ log[m] \in Seq(Entry) /\ Len(log[m]) \in Nat
      /\ disk[m].log \in Seq(Entry) /\ Len(disk[m].log) \in Nat
      /\ commited_index[m] \in Nat
  BY <1>0, LogTypes
<1>2. Len(<<>>) = 0
  OBVIOUS
<1>3. 0 < k
  BY <1>1 DEF StoredBelow
<1>4. CASE log'[m] = log[m] /\ disk'[m].log = disk[m].log
  BY <1>4 DEF StoredBelow
<1>5. ASSUME NEW n \in Node, Persists(n)
      PROVE  StoredBelow(m, k)'
  <2>1. log' = log
    BY <1>5 DEF Persists, RemoveFile, CreateFile, WriteFile
  <2>2. CASE n # m
    <3>1. disk'[m] = disk[m]
      BY <1>0, <1>5, <2>2 DEF Persists, RemoveFile, CreateFile, WriteFile, TypeOK
    <3> QED  BY <1>4, <2>1, <3>1
  <2>3. CASE n = m /\ WriteFile(m) /\ disk' # disk
    <3>a. disk \in [Node -> Disks]
      BY <1>0 DEF TypeOK
    <3>1. /\ disk'[m].log = SubSeq(log[m], 1, commited_index[m])
          /\ commited_index[m] <= Len(log[m])
      BY <1>0, <2>3, <3>a DEF WriteFile, PersistedLog, PersistInv
    <3>2. Len(SubSeq(log[m], 1, commited_index[m])) = commited_index[m]
      BY <1>1, <3>1, FirstPart
    <3> QED  BY <1>1, <2>1, <3>1, <3>2 DEF StoredBelow
  <2>4. CASE n = m /\ (WriteFile(m) => disk' = disk)
    <3>1. \/ disk' = disk \/ disk' = [disk EXCEPT ![m] = AbsentDisk]
          \/ disk' = [disk EXCEPT ![m] = TornDisk]
      BY <1>5, <2>4 DEF Persists, RemoveFile, CreateFile
    <3>2. AbsentDisk.log = <<>> /\ TornDisk.log = <<>>
      BY DEF AbsentDisk, TornDisk, FreshDisk
    <3>3. disk'[m].log = disk[m].log \/ disk'[m].log = <<>>
      BY <1>0, <3>1, <3>2 DEF TypeOK
    <3> QED  BY <1>2, <1>3, <2>1, <3>3 DEF StoredBelow
  <2> QED  BY <2>2, <2>3, <2>4
<1>6. ASSUME NEW v \in Value, AppendEntry(l, v)
      PROVE  StoredBelow(m, k)'
  BY <1>0, <1>4, <1>6 DEF AppendEntry, TypeOK
<1>7. CASE CommitEntries(l)
  BY <1>4, <1>7 DEF CommitEntries
<1>8. ASSUME NEW n \in Node \ {l}, NEW msg \in Inbox(n), AcceptAppend(n, msg)
      PROVE  StoredBelow(m, k)'
  <2>1. n # m
    BY <1>8
  <2>2. log'[m] = log[m] /\ disk' = disk
    BY <1>0, <1>8, <2>1 DEF AcceptAppend, TypeOK
  <2> QED  BY <1>4, <2>2
<1>9. ASSUME NEW n \in Node \ {l}, Crash(n)
      PROVE  StoredBelow(m, k)'
  <2>1. /\ log'[m] = IF m = n THEN <<>> ELSE log[m]
        /\ disk' = disk
    BY <1>0, <1>9 DEF Crash, TypeOK
  <2> QED  BY <1>2, <1>3, <2>1 DEF StoredBelow
<1>10. ASSUME NEW n \in Node \ {l}, Restart(n)
       PROVE  StoredBelow(m, k)'
  <2>1. log'[m] = IF m = n THEN disk[m].log ELSE log[m]
    BY <1>0, <1>10 DEF Restart, TypeOK
  <2>2. disk'[m].log = disk[m].log
    <3>1. disk' = [disk EXCEPT ![n].state = "saved"] /\ disk \in [Node -> Disks]
      BY <1>0, <1>10 DEF Restart, TypeOK
    <3> QED  BY <3>1 DEF Disks
  <2> QED  BY <2>1, <2>2 DEF StoredBelow
<1>11. CASE KeepsLogs
  BY <1>4, <1>11 DEF KeepsLogs
<1> QED
  BY <1>0, <1>5, <1>6, <1>7, <1>8, <1>9, <1>10, <1>11, StepKinds

LEMMA ReceivesNext ==
  ASSUME NEW l \in Node, Replicates(l), HeartbeatReceive(l)
  PROVE  NextInv(l)'
<1> DEFINE p == Peer(l)
<1>0. TypeOK /\ NextInv(l) /\ LogsInv(l)
  BY DEF Replicates, TypeInv, ReplicationInv
<1>1. /\ pc[l] = "heartbeat" /\ node_type[l] = "Leader"
      /\ wire'[l] = "idle" /\ UNCHANGED <<log, disk, node_type>>
  BY <1>0 DEF HeartbeatReceive, HangUp, Replicates, LeaderInv, OfficeInv, TypeOK
<1>2. \A m \in Node : /\ log[m] \in Seq(Entry) /\ Len(log[m]) \in Nat
                      /\ disk[m].log \in Seq(Entry) /\ Len(disk[m].log) \in Nat
                      /\ next_index[l][m] \in Nat
                      /\ Len(log[m]) <= Len(log[l]) /\ Len(disk[m].log) <= Len(log[l])
  BY <1>0, LogTypes DEF LogsInv, IsPrefixOf
<1>p. p \in Node
  <2>1. InLoop(l) /\ conn[l] \in Nat \ {0}
    BY <1>0 DEF Replicates, TypeInv, CallInv, HeartbeatReceive, Answered, TypeOK
  <2> QED  BY <2>1, PeerIsNode DEF Peer, InLoop
<1>3. \A m \in Node \ {l} :
        /\ next_index[l][m] <= Len(log[l]) + 1
        /\ StoredBelow(m, next_index[l][m]) \/ Acked(l, m)
  BY <1>0, <1>1 DEF NextInv
<1>4. SUFFICES ASSUME NEW m \in Node \ {l}
               PROVE  /\ next_index'[l][m] <= Len(log[l]) + 1
                      /\ StoredBelow(m, next_index'[l][m])
  BY <1>1 DEF NextInv, StoredBelow
<1>5. StoredBelow(m, Len(log[l]) + 1)
  BY <1>2 DEF StoredBelow
<1>6. CASE wire[l] = "replied" /\ reply[l].ok
           /\ next_index' = [next_index EXCEPT ![l][p] = Len(log[l]) + 1]
  <2>1. next_index'[l][m] = IF m = p THEN Len(log[l]) + 1 ELSE next_index[l][m]
    BY <1>0, <1>6 DEF TypeOK
  <2>2. m # p => ~Acked(l, m)
    BY DEF Acked
  <2> HIDE DEF p
  <2> QED  BY <1>2, <1>3, <1>5, <2>1, <2>2
<1>7. CASE wire[l] = "replied" /\ ~reply[l].ok
           /\ next_index' = [next_index EXCEPT ![l][p] = IF @ > 1 THEN @ - 1 ELSE @]
  <2>1. next_index'[l][m] = IF m = p /\ next_index[l][m] > 1
                            THEN next_index[l][m] - 1 ELSE next_index[l][m]
    BY <1>0, <1>7 DEF TypeOK
  <2>2. m = p => StoredBelow(m, next_index[l][m] - 1)
    BY <1>0, <1>1, <1>7 DEF NextInv
  <2>3. ~Acked(l, m)
    BY <1>7 DEF Acked
  <2> HIDE DEF p
  <2> QED  BY <1>2, <1>3, <2>1, <2>2, <2>3 DEF StoredBelow
<1>8. CASE wire[l] # "replied" /\ next_index' = next_index
  BY <1>3, <1>8 DEF Acked
<1> QED  BY <1>6, <1>7, <1>8 DEF HeartbeatReceive

LEMMA EndsNext ==
  ASSUME NEW l \in Node, Replicates(l), HeartbeatEnd(l)
  PROVE  NextInv(l)'
<1>0. TypeOK /\ NextInv(l)
  BY DEF Replicates, TypeInv, ReplicationInv
<1>1. /\ pc[l] = "heartbeat" /\ node_type[l] = "Leader" /\ wire[l] = "idle"
      /\ pc'[l] = "commit" /\ UNCHANGED <<log, disk>>
  BY <1>0 DEF HeartbeatEnd, Replicates, LeaderInv, OfficeInv, SpeaksFor, TypeOK, Goto
<1>2. \A m \in Node \ {l} : next_index'[l][m] = next_index[l][m]
  BY <1>0 DEF HeartbeatEnd, TypeOK
<1>3. \A m \in Node : ~Acked(l, m)
  BY <1>1 DEF Acked
<1> QED  BY <1>0, <1>1, <1>2, <1>3 DEF NextInv, StoredBelow

LEMMA VotesNext ==
  ASSUME NEW l \in Node, Replicates(l), VoteReceived(l)
  PROVE  NextInv(l)'
<1>0. TypeOK /\ LogsInv(l)
  BY DEF Replicates, TypeInv, ReplicationInv
<1>1. /\ pc[l] = "campaign" /\ node_type[l] # "Leader" /\ node_type' = node_type
      /\ UNCHANGED <<log, disk>>
  BY <1>0 DEF VoteReceived, Replicates, LeaderInv, OfficeInv
<1>2. pc'[l] # "heartbeat"
  BY <1>0, <1>1 DEF VoteReceived, Goto, TypeOK
<1>3. CASE pc'[l] # "won"
  BY <1>1, <1>2, <1>3 DEF NextInv
<1>4. CASE next_index' = [next_index EXCEPT ![l] = FreshNextIndex(l)]
  <2>1. \A m \in Node \ {l} : next_index'[l][m] = Len(log[l]) + 1
    BY <1>0, <1>4 DEF FreshNextIndex, TypeOK
  <2>2. \A m \in Node : /\ Len(log[m]) \in Nat /\ Len(disk[m].log) \in Nat
                        /\ Len(log[m]) <= Len(log[l])
                        /\ Len(disk[m].log) <= Len(log[l])
    BY <1>0, LogTypes DEF LogsInv, IsPrefixOf
  <2>3. \A m \in Node \ {l} :
          /\ next_index'[l][m] <= Len(log[l]) + 1
          /\ Len(log[m]) < next_index'[l][m] /\ Len(disk[m].log) < next_index'[l][m]
    BY <2>1, <2>2
  <2> QED  BY <1>1, <1>2, <2>3 DEF NextInv, StoredBelow
<1>5. pc'[l] # "won" \/ next_index' = [next_index EXCEPT ![l] = FreshNextIndex(l)]
  BY <1>1 DEF VoteReceived
<1> QED  BY <1>3, <1>4, <1>5

LEMMA AcceptsNext ==
  ASSUME NEW l \in Node, Replicates(l), NEW m \in Node, NEW msg \in Inbox(m),
         AcceptAppend(m, msg)
  PROVE  NextInv(l)'
<1>0. TypeOK /\ NextInv(l)
  BY DEF Replicates, TypeInv, ReplicationInv
<1>1. /\ m # l /\ m = Peer(l) /\ node_type[l] = "Leader"
      /\ pc[l] = "heartbeat" /\ wire[l] = "sent"
      /\ log' = [log EXCEPT ![m] = log[l]]
      /\ wire' = [wire EXCEPT ![l] = "replied"]
      /\ reply' = [reply EXCEPT ![l] =
                     [node |-> m, term |-> node_term'[m], ok |-> TRUE]]
      /\ UNCHANGED <<disk, next_index, pc, conn>>
  BY AcceptStores
<1>2. /\ pc'[l] = "heartbeat" /\ wire'[l] = "replied" /\ reply'[l].ok
      /\ m = Peer(l)'
  BY <1>0, <1>1 DEF TypeOK, Peer
<1>3. Acked(l, m)'
  BY <1>2 DEF Acked
<1>4. \A p \in Node \ {l} : next_index[l][p] <= Len(log[l]) + 1
                            /\ (StoredBelow(p, next_index[l][p]) \/ Acked(l, p))
  BY <1>0, <1>1 DEF NextInv
<1>5. \A p \in Node \ {m} : log'[p] = log[p] /\ ~Acked(l, p)
  BY <1>0, <1>1 DEF TypeOK, Acked
<1> QED  BY <1>1, <1>2, <1>3, <1>4, <1>5 DEF NextInv, StoredBelow

LEMMA RejectsNext ==
  ASSUME NEW l \in Node, Replicates(l), NEW m \in Node, NEW msg \in Inbox(m),
         RejectAppend(m, msg)
  PROVE  NextInv(l)'
<1>0. TypeOK /\ NextInv(l) /\ LogsInv(l) /\ OnlyCaller(l)
  BY DEF Replicates, TypeInv, ReplicationInv
<1>1. m # l /\ m = Peer(l) /\ wire[l] = "sent" /\ msg.from = l
  BY OnlyRequest DEF Replicates, ReplicationInv
<1>2. /\ pc[l] = "heartbeat" /\ node_type[l] = "Leader"
      /\ msg.req = AppendRequestOf(l, node_term[l], log[l], next_index[l][m],
                                   commited_index[l])
  BY OnlyAppend DEF Replicates, ReplicationInv, RejectAppend, CanServe
<1>3. /\ log[l] \in Seq(Entry) /\ log[m] \in Seq(Entry)
      /\ commited_index[l] \in Nat /\ next_index[l][m] \in Nat /\ node_term[l] \in Nat
      /\ Len(log[l]) \in Nat /\ Len(log[m]) \in Nat /\ Len(disk[m].log) \in Nat
  BY <1>0, LogTypes DEF TypeOK
<1>4. /\ 1 <= next_index[l][m] /\ next_index[l][m] <= Len(log[l]) + 1
      /\ Len(log[m]) < next_index[l][m]
  <2>1. next_index[l][m] >= 1
    BY <1>1, <1>2 DEF Replicates, IndexInv
  <2>2. next_index[l][m] <= Len(log[l]) + 1
        /\ (StoredBelow(m, next_index[l][m]) \/ Acked(l, m))
    BY <1>0, <1>1, <1>2 DEF NextInv
  <2> QED  BY <1>1, <1>3, <2>1, <2>2 DEF StoredBelow, Acked
<1>5. /\ Len(log[m]) < next_index[l][m] - 1
      /\ ~AppendUnderflows(node_type[m], node_term[m], log[m], msg.req)
  <2>1. PICK own, lead \in Seq(Entry) : own = log[m] /\ lead = log[l]
    BY <1>3
  <2>2. PICK t, c, nx \in Nat :
          t = node_term[l] /\ c = commited_index[l] /\ nx = next_index[l][m]
    BY <1>3
  <2>3. PICK r, u : r = node_type[m] /\ u = node_term[m]
    OBVIOUS
  <2>4. r # "Leader" /\ IsPrefixOf(own, lead)
    BY <1>0, <1>1, <2>1, <2>3 DEF OnlyCaller, LogsInv
  <2>5. ~AppendAccepted(r, u, own, AppendRequestOf(l, t, lead, nx, c))
    BY <1>2, <2>1, <2>2, <2>3 DEF RejectAppend
  <2>6. 1 <= nx /\ nx <= Len(lead) + 1 /\ Len(own) < nx
    BY <1>4, <2>1, <2>2
  <2>7. /\ Len(own) < nx - 1
        /\ ~AppendUnderflows(r, u, own, AppendRequestOf(l, t, lead, nx, c))
    BY <2>4, <2>5, <2>6, RefusedForGap
  <2> QED  BY <1>2, <2>1, <2>2, <2>3, <2>7
<1>6. Len(disk[m].log) <= Len(log[m])
  <2>1. pc[m] # "down"
    BY DEF RejectAppend, CanServe, Listening, Replicates, LeaderInv, OfficeInv
  <2> QED  BY <1>0, <2>1 DEF LogsInv
<1>7. StoredBelow(m, next_index[l][m] - 1)
  BY <1>3, <1>5, <1>6 DEF StoredBelow
<1>8. /\ Respond(m, msg, FALSE)
      /\ UNCHANGED <<log, disk, node_type, next_index, pc, conn>>
  BY <1>5 DEF RejectAppend
<1>9. /\ wire'[l] = "replied" /\ ~reply'[l].ok
  <2>1. msg.from # NoNode
    BY <1>1, NodeAssumption
  <2>2. /\ wire' = [wire EXCEPT ![l] = "replied"]
        /\ reply' = [reply EXCEPT ![l] =
                       [node |-> m, term |-> node_term'[m], ok |-> FALSE]]
    BY <1>1, <1>8, <2>1 DEF Respond
  <2> QED  BY <1>0, <2>2 DEF TypeOK
<1>10. Peer(l)' = m
  BY <1>1, <1>8 DEF Peer
<1>11. \A p \in Node \ {l} : next_index[l][p] <= Len(log[l]) + 1
                             /\ StoredBelow(p, next_index[l][p])
  BY <1>0, <1>1, <1>2 DEF NextInv, Acked
<1> QED  BY <1>7, <1>8, <1>9, <1>10, <1>11 DEF NextInv, StoredBelow

LEMMA NextNext ==
  ASSUME NEW l \in Node, SoleContender(l), Replicates(l), [Next]_vars
  PROVE  NextInv(l)'
<1>0. /\ TypeInv /\ LeaderInv /\ OnlyCaller(l) /\ LogsInv(l) /\ NextInv(l)
      /\ TypeOK /\ IndexInv(l)
  BY DEF Replicates, ReplicationInv, TypeInv
<1>1. CASE HeartbeatReceive(l)
  BY <1>1, ReceivesNext
<1>2. CASE HeartbeatEnd(l)
  BY <1>2, EndsNext
<1>3. CASE VoteReceived(l)
  BY <1>3, VotesNext
<1>4. ASSUME NEW m \in Node, NEW msg \in Inbox(m),
             AcceptAppend(m, msg) \/ RejectAppend(m, msg)
      PROVE  NextInv(l)'
  BY <1>4, AcceptsNext, RejectsNext
<1>5. CASE /\ ~HeartbeatReceive(l) /\ ~HeartbeatEnd(l) /\ ~VoteReceived(l)
           /\ \A m \in Node : \A msg \in Inbox(m) :
                ~AcceptAppend(m, msg) /\ ~RejectAppend(m, msg)
  <2>1. AnswerKept(l)
    BY <1>0, <1>5, AnswersKept
  <2>2. KeepsIndexes(l) \/ NoOffice(l)'
    BY <1>0, <1>5, IndexesKept
  <2>3. \A m \in Node : /\ log[m] \in Seq(Entry) /\ Len(log[m]) \in Nat
                        /\ next_index[l][m] \in Nat
    BY <1>0, LogTypes
  <2>4. ASSUME NEW m \in Node \ {l}, NEW k \in Nat, StoredBelow(m, k)
        PROVE  StoredBelow(m, k)'
    BY <1>5, <2>4, StoredStays
  <2>5. ASSUME node_type'[l] = "Leader" \/ pc'[l] = "won", NEW m \in Node \ {l}
        PROVE  /\ next_index'[l][m] <= Len(log'[l]) + 1
               /\ StoredBelow(m, next_index[l][m])' \/ Acked(l, m)'
    <3>1. next_index'[l] = next_index[l] /\ (node_type[l] = "Leader" \/ pc[l] = "won")
      BY <2>2, <2>5 DEF KeepsIndexes, NoOffice
    <3>2. PICK k \in Nat : k = next_index[l][m]
      BY <2>3
    <3>3. k <= Len(log[l]) + 1 /\ (StoredBelow(m, k) \/ Acked(l, m))
      BY <1>0, <3>1, <3>2 DEF NextInv
    <3>4. next_index'[l][m] = k
      BY <3>1, <3>2
    <3>5. Len(log[l]) <= Len(log'[l]) /\ Len(log'[l]) \in Nat
      <4>1. TypeOK'
        BY <1>0, NextTyped DEF TypeInv
      <4>2. log'[l] \in Seq(Entry) /\ Len(log'[l]) \in Nat
        BY <4>1, LenProperties DEF TypeOK
      <4>3. CASE node_type[l] = "Leader"
        <5>1. node_type'[l] = "Leader"
          BY <1>0, <4>3, LeaderStays
        <5>2. \/ log'[l] = log[l]
              \/ \E v \in Value : log'[l] = Append(log[l], [value |-> v, term |-> node_term[l]])
          BY <1>0, <4>3, <5>1, LogStep
        <5>3. \A v \in Value : [value |-> v, term |-> node_term[l]] \in Entry
          BY <1>0 DEF TypeOK, Entry
        <5>4. PICK s \in Seq(Entry) : s = log[l] /\ Len(s) \in Nat
          BY <2>3
        <5>5. \A e \in Entry : Len(Append(s, e)) = Len(s) + 1
          BY AppendProperties
        <5>6. ASSUME NEW v \in Value,
                     log'[l] = Append(log[l], [value |-> v, term |-> node_term[l]])
              PROVE  Len(log'[l]) = Len(log[l]) + 1
          <6>1. PICK e \in Entry : e = [value |-> v, term |-> node_term[l]]
            BY <5>3
          <6> QED  BY <5>4, <5>5, <5>6, <6>1
        <5>7. Len(log'[l]) = Len(log[l]) \/ Len(log'[l]) = Len(log[l]) + 1
          BY <5>2, <5>6
        <5> QED  BY <2>3, <4>2, <5>7
      <4>4. CASE node_type[l] # "Leader"
        <5>1. log[l] = <<>>
          BY <1>0, <4>4 DEF LogsInv
        <5> QED  BY <4>2, <5>1
      <4> QED  BY <4>2, <4>3, <4>4
    <3>6. StoredBelow(m, k) => StoredBelow(m, next_index[l][m])'
      BY <2>4, <3>4 DEF StoredBelow
    <3>7. Acked(l, m) => Acked(l, m)'
      BY <2>1 DEF AnswerKept, Acked, Peer
    <3> QED  BY <2>3, <3>3, <3>4, <3>5, <3>6, <3>7
  <2>6. ASSUME pc'[l] = "heartbeat", wire'[l] = "replied", ~reply'[l].ok
        PROVE  StoredBelow(Peer(l), next_index[l][Peer(l)] - 1)'
    <3>1. /\ pc[l] = "heartbeat" /\ wire[l] = "replied" /\ ~reply[l].ok
          /\ conn'[l] = conn[l]
      BY <2>1, <2>6 DEF AnswerKept
    <3>2. Peer(l) \in Node \ {l} /\ Peer(l)' = Peer(l)
      <4>1. InLoop(l) /\ conn[l] \in Nat \ {0}
        BY <1>0, <3>1 DEF TypeInv, CallInv, TypeOK
      <4> QED  BY <3>1, <4>1, PeerIsNode DEF Peer, InLoop
    <3>3. PICK p \in Node \ {l} : p = Peer(l) /\ p = Peer(l)'
      BY <3>2
    <3>4. node_type[l] = "Leader"
      BY <1>0, <3>1 DEF LeaderInv, OfficeInv
    <3>5. next_index'[l] = next_index[l]
      <4>1. node_type'[l] = "Leader"
        BY <1>0, <3>4, LeaderStays
      <4> QED  BY <2>2, <4>1 DEF KeepsIndexes, NoOffice
    <3>6. PICK k \in Nat : k = next_index[l][p] - 1
      <4>1. next_index[l][p] >= 1
        BY <1>0, <3>4 DEF IndexInv
      <4> QED  BY <2>3, <4>1
    <3>7. StoredBelow(p, k)
      BY <1>0, <3>1, <3>3, <3>6 DEF NextInv
    <3>8. StoredBelow(p, k)'
      BY <2>4, <3>7
    <3>9. next_index'[l][p] - 1 = k
      BY <3>5, <3>6
    <3> QED  BY <3>3, <3>8, <3>9 DEF StoredBelow
  <2> QED  BY <2>5, <2>6 DEF NextInv
<1> QED  BY <1>1, <1>2, <1>3, <1>4, <1>5

-----------------------------------------------------------------------------
(* The invariant *)

LEMMA InitReplicates ==
  ASSUME NEW l \in Node, Init
  PROVE  ReplicationInv(l)
<1>1. OnlyCaller(l)
  BY DEF Init, OnlyCaller
<1>2. NextInv(l)
  BY DEF Init, NextInv
<1>3. LogsInv(l)
  <2>1. \A m \in Node : log[m] = <<>> /\ disk[m].log = <<>> /\ delivered[m] = <<>>
                        /\ commited_index[m] = 0
    BY DEF Init, FreshDisk
  <2>2. PICK e \in Seq(Entry) : e = <<>>
    BY EmptySeq
  <2>3. IsPrefixOf(e, e)
    BY PrefixOfItself
  <2>4. Len(e) = 0 /\ SubSeq(e, 1, 0) = e
    BY <2>2
  <2>5. ASSUME NEW m \in Node
        PROVE  /\ IsPrefixOf(log[m], log[l]) /\ IsPrefixOf(disk[m].log, log[l])
               /\ delivered[m] = SubSeq(log[l], 1, commited_index[m])
    <3>1. log[m] = e /\ log[l] = e /\ disk[m].log = e /\ delivered[m] = e
          /\ commited_index[m] = 0
      BY <2>1, <2>2
    <3> QED  BY Zenon, <2>3, <2>4, <3>1
  <2>6. \A m \in Node : /\ Len(log[m]) = 0 /\ Len(disk[m].log) = 0
                        /\ commited_index[m] = 0
    BY <2>1, <2>2, <2>4
  <2> QED  BY <2>1, <2>5, <2>6 DEF LogsInv
<1> QED  BY <1>1, <1>2, <1>3 DEF ReplicationInv

LEMMA NextReplicates ==
  ASSUME NEW l \in Node, SoleContender(l), Replicates(l), [Next]_vars
  PROVE  Replicates(l)'
<1>0. TypeInv /\ LeaderInv /\ OnlyCaller(l) /\ IndexInv(l)
  BY DEF Replicates, ReplicationInv
<1>1. TypeInv' /\ LeaderInv'
  BY <1>0, NextTyped, NextLeader
<1>2. IndexInv(l)'
  BY <1>0, NextIndexes
<1>3. OnlyCaller(l)'
  BY <1>0, OnlyCallerKept
<1> QED  BY <1>1, <1>2, <1>3, NextLogs, NextNext DEF Replicates, ReplicationInv

LEMMA ReplicatesHolds ==
  ASSUME NEW l \in Node, SoleContender(l)
  PROVE  Spec => []Replicates(l)
<1>1. Init => Replicates(l)
  <2>1. Init => IndexInv(l)
    BY DEF Init, IndexInv
  <2> QED  BY <2>1, InitTyped, InitLeader, InitReplicates DEF Replicates
<1>2. Replicates(l) /\ [Next]_vars => Replicates(l)'
  BY NextReplicates
<1> QED  BY <1>1, <1>2, PTL DEF Spec

-----------------------------------------------------------------------------
(* What follows of files and deliveries *)

\* While one node contends, whatever crashes, whichever calls are refused and
\* however slow it is: what persist has saved on any node, the leader has delivered.
THEOREM SavedIsCommitted ==
  ASSUME NEW l \in Node, SoleContender(l)
  PROVE  Spec => []DiskIsCommitted
<1>1. Replicates(l) => DiskIsCommitted
  <2>1. SUFFICES ASSUME Replicates(l), NEW n \in Node, NEW m \in Node, Leads(m)
                 PROVE  IsPrefixOf(disk[n].log, delivered[m])
    BY DEF DiskIsCommitted
  <2>2. TypeOK /\ OnlyCaller(l) /\ LogsInv(l)
    BY <2>1 DEF Replicates, TypeInv, ReplicationInv
  <2>3. m = l
    BY <2>1, <2>2 DEF OnlyCaller, Leads
  <2>4. PICK s, lead \in Seq(Entry), c \in Nat :
          s = disk[n].log /\ lead = log[l] /\ c = commited_index[l]
    BY <2>2, LogTypes
  <2>5. IsPrefixOf(s, lead) /\ Len(s) <= c /\ c <= Len(lead)
        /\ delivered[l] = SubSeq(lead, 1, c)
    BY <2>2, <2>4 DEF LogsInv
  <2>6. PICK j \in Nat : j = Len(s)
    BY <2>4, LenProperties
  <2>7. SubSeq(s, 1, j) = SubSeq(lead, 1, j) /\ s = SubSeq(s, 1, j)
    <3>1. s = SubSeq(s, 1, Len(s))
      BY SubSeqFull
    <3> QED  BY <2>5, <2>6, <3>1, FirstPartOfPrefix
  <2>8. IsPrefixOf(SubSeq(lead, 1, j), SubSeq(lead, 1, c))
    BY <2>5, <2>6, FirstPartsGrow
  <2> QED  BY <2>3, <2>4, <2>5, <2>7, <2>8
<1> QED  BY <1>1, ReplicatesHolds, PTL

LEMMA LongestIsLeaders ==
  ASSUME NEW l \in Node, Replicates(l)
  PROVE  LongestDelivered = delivered[l]
<1>0. TypeOK /\ LogsInv(l)
  BY DEF Replicates, TypeInv, ReplicationInv
<1>1. ASSUME NEW n \in Node
      PROVE  Len(delivered[n]) = commited_index[n] /\ commited_index[n] \in Nat
  <2>1. PICK lead \in Seq(Entry), c, d \in Nat :
          lead = log[l] /\ c = commited_index[n] /\ d = commited_index[l]
    BY <1>0, LogTypes
  <2>2. c <= Len(lead) /\ delivered[n] = SubSeq(lead, 1, c)
    <3>1. c <= d /\ d <= Len(lead) /\ delivered[n] = SubSeq(lead, 1, c)
      BY <1>0, <2>1 DEF LogsInv
    <3>2. Len(lead) \in Nat
      BY LenProperties
    <3> QED  BY <3>1, <3>2
  <2> QED  BY <2>1, <2>2, FirstPart
<1>2. \A n \in Node : /\ commited_index[n] <= commited_index[l]
                      /\ delivered[n] = SubSeq(log[l], 1, commited_index[n])
  BY <1>0 DEF LogsInv
<1> DEFINE All == {delivered[n] : n \in Node}
           IsLongest(s) == \A n \in Node : Len(delivered[n]) <= Len(s)
<1>3. delivered[l] \in All /\ IsLongest(delivered[l])
  BY <1>1, <1>2
<1>4. ASSUME NEW s \in All, IsLongest(s)
      PROVE  s = delivered[l]
  <2>1. PICK n \in Node : s = delivered[n]
    OBVIOUS
  <2>2. Len(delivered[l]) <= Len(delivered[n])
    BY <1>4, <2>1
  <2>3. commited_index[n] = commited_index[l]
    BY <1>1, <1>2, <2>2
  <2> QED  BY Zenon, <1>2, <2>1, <2>3
<1>5. LongestDelivered = CHOOSE s \in All : IsLongest(s)
  BY DEF LongestDelivered
<1> HIDE DEF All, IsLongest
<1> QED  BY <1>3, <1>4, <1>5

LEMMA DeliversOrRests ==
  ASSUME NEW l \in Node, SoleContender(l), Replicates(l), [Next]_vars
  PROVE  [Log!Next]_(Log!logvars)
<1>0. /\ TypeInv /\ LeaderInv /\ OnlyCaller(l) /\ LogsInv(l) /\ TypeOK
  BY DEF Replicates, ReplicationInv, TypeInv
<1>1. LongestDelivered = delivered[l] /\ LongestDelivered' = delivered'[l]
  <2>1. Replicates(l)'
    BY NextReplicates
  <2>2. LongestDelivered' = delivered'[l]
    <3>1. (Replicates(l) => LongestDelivered = delivered[l])'
      BY LongestIsLeaders, PTL
    <3> QED  BY <2>1, <3>1
  <2> QED  BY <2>2, LongestIsLeaders
<1>2. CASE delivered' = delivered
  BY <1>1, <1>2 DEF Log!logvars
<1>3. PICK lead \in Seq(Entry), c \in Nat :
        /\ lead = log[l] /\ c = commited_index[l]
        /\ c <= Len(lead) /\ delivered[l] = SubSeq(lead, 1, c)
  BY <1>0, LogTypes DEF LogsInv
<1>4. CASE CommitEntries(l)
  <2>1. PICK k \in Nat :
          /\ c < k /\ k <= Len(lead)
          /\ delivered' = [delivered EXCEPT ![l] = SubSeq(lead, 1, k)]
    BY <1>3, <1>4, CommitDecides
  <2>2. delivered'[l] = SubSeq(lead, 1, k)
    BY <1>0, <2>1 DEF TypeOK
  <2>3. PICK s, t \in Seq(Entry) :
          /\ s = SubSeq(lead, 1, c) /\ Len(s) = c
          /\ t = SubSeq(lead, 1, k) /\ Len(t) = k /\ IsPrefixOf(t, lead)
    BY <1>3, <2>1, FirstPart
  <2>4. SubSeq(t, 1, c) = s
    BY <2>1, <2>3, FirstPartOfPrefix
  <2>5. Log!Extends(s, t)
    BY <2>1, <2>3, <2>4 DEF Log!Extends
  <2>6. Log!Decide(l)
    BY <1>1, <1>3, <2>1, <2>2, <2>3, <2>5 DEF Log!Decide
  <2> QED  BY <2>6 DEF Log!Next
<1>5. ASSUME NEW m \in Node \ {l}, NEW msg \in Inbox(m), AcceptAppend(m, msg)
      PROVE  [Log!Next]_(Log!logvars)
  <2>1. delivered' = [delivered EXCEPT ![m] = delivered[l]]
    BY <1>3, <1>5, AcceptStores
  <2>2. delivered'[l] = delivered[l]
    BY <1>0, <2>1 DEF TypeOK
  <2>3. PICK d \in Nat : d = commited_index[m]
    BY <1>0, LogTypes
  <2>4. d <= c /\ delivered[m] = SubSeq(lead, 1, d)
    BY <1>0, <1>3, <2>3 DEF LogsInv
  <2>5. CASE d = c
    <3>1. delivered[m] = delivered[l]
      BY Zenon, <1>3, <2>4, <2>5
    <3>2. delivered' = delivered
      BY <1>0, <2>1, <3>1 DEF TypeOK
    <3> QED  BY <1>2, <3>2
  <2>6. CASE d # c
    <3>1. Len(delivered[m]) = d /\ Len(delivered[l]) = c
      <4>1. d <= Len(lead)
        BY <1>3, <2>4
      <4> QED  BY <1>3, <2>4, <4>1, FirstPart
    <3>2. delivered[l] = SubSeq(delivered[l], 1, c)
      <4>1. delivered[l] \in Seq(Entry)
        BY <1>0 DEF TypeOK
      <4>2. delivered[l] = SubSeq(delivered[l], 1, Len(delivered[l]))
        BY <4>1, SubSeqFull
      <4> QED  BY <3>1, <4>2
    <3>3. c \in Len(delivered[m]) + 1 .. Len(delivered[l])
      BY <2>4, <2>6, <3>1
    <3>4. delivered' = [delivered EXCEPT ![m] = SubSeq(delivered[l], 1, c)]
      BY Zenon, <2>1, <3>2
    <3>5. Log!Learn(m)
      BY <1>1, <2>2, <3>3, <3>4 DEF Log!Learn
    <3> QED  BY <3>5 DEF Log!Next
  <2> QED  BY <2>5, <2>6
<1>6. ASSUME NEW m \in Node \ {l}, Crash(m)
      PROVE  [Log!Next]_(Log!logvars)
  <2>1. delivered' = [delivered EXCEPT ![m] = <<>>]
    BY <1>6 DEF Crash
  <2>2. delivered'[l] = delivered[l]
    BY <1>0, <2>1 DEF TypeOK
  <2>3. Log!Restart(m)
    BY <1>1, <2>1, <2>2 DEF Log!Restart
  <2> QED  BY <2>3 DEF Log!Next
<1>7. \/ delivered' = delivered
      \/ CommitEntries(l)
      \/ \E m \in Node \ {l} : \E msg \in Inbox(m) : AcceptAppend(m, msg)
      \/ \E m \in Node \ {l} : Crash(m)
  BY <1>0, StepKinds DEF KeepsLogs, Persists, RemoveFile, CreateFile, WriteFile,
     AppendEntry, Restart
<1> QED  BY <1>2, <1>4, <1>5, <1>6, <1>7

\* While one node contends, the cluster is a replicated log: its CommitEntries
\* decides, append_entries teaches, a crash forgets, and what a restarted follower
\* delivers again is what was agreed upon, from the first entry on.
THEOREM ClusterIsReplicatedLog ==
  ASSUME NEW l \in Node, SoleContender(l)
  PROVE  Spec => ImplementsReplicatedLog
<1>1. Init => Log!Init
  <2>1. SUFFICES ASSUME Init PROVE Log!Init
    OBVIOUS
  <2>2. Replicates(l)
    BY <2>1, InitTyped, InitLeader, InitReplicates DEF Replicates, Init, IndexInv
  <2>3. LongestDelivered = delivered[l]
    BY <2>2, LongestIsLeaders
  <2> QED  BY <2>1, <2>3 DEF Init, Log!Init
<1>2. Replicates(l) /\ [Next]_vars => [Log!Next]_(Log!logvars)
  BY DeliversOrRests
<1> QED  BY <1>1, <1>2, ReplicatesHolds, PTL DEF Spec, ImplementsReplicatedLog, Log!Spec

\* So the two stores of any two nodes differ by what one has yet to deliver:
\* only a second contender, or an answer that is lost, can make them disagree.
THEOREM OneContenderAgrees ==
  ASSUME NEW l \in Node, SoleContender(l)
  PROVE  Spec => []DeliveriesAgree
<1>1. Replicates(l) => DeliveriesAgree
  <2>1. SUFFICES ASSUME Replicates(l), NEW m \in Node, NEW n \in Node
                 PROVE  \/ IsPrefixOf(delivered[m], delivered[n])
                        \/ IsPrefixOf(delivered[n], delivered[m])
    BY DEF DeliveriesAgree
  <2>2. TypeOK /\ LogsInv(l)
    BY <2>1 DEF Replicates, TypeInv, ReplicationInv
  <2>3. PICK lead \in Seq(Entry), c, d, e \in Nat :
          /\ lead = log[l] /\ e = commited_index[l]
          /\ c = commited_index[m] /\ d = commited_index[n]
    BY <2>2, LogTypes
  <2>4. /\ c <= e /\ d <= e /\ e <= Len(lead)
        /\ delivered[m] = SubSeq(lead, 1, c) /\ delivered[n] = SubSeq(lead, 1, d)
    BY <2>2, <2>3 DEF LogsInv
  <2>5. c <= Len(lead) /\ d <= Len(lead)
    BY <2>4, LenProperties
  <2>6. CASE c <= d
    BY <2>4, <2>5, <2>6, FirstPartsGrow
  <2>7. CASE d <= c
    BY <2>4, <2>5, <2>7, FirstPartsGrow
  <2> QED  BY <2>6, <2>7
<1> QED  BY <1>1, ReplicatesHolds, PTL

-----------------------------------------------------------------------------
(* Acknowledgements *)

\* Nothing is ever taken from the log of a node that does not crash.
Steady(l) ==
  Replicates(l) /\ AckInv(l) /\ \A m \in Node \ Fallible : pc[m] # "down"

LEMMA LargerSetIsQuorum ==
  ASSUME NEW S \in SUBSET Node, NEW T \in SUBSET Node, S \subseteq T, NEW q \in Nat,
         Cardinality(S) >= q
  PROVE  Cardinality(T) >= q
<1>1. IsFiniteSet(T) /\ IsFiniteSet(S)
  BY NodeAssumption, FS_Subset
<1>2. Cardinality(S) <= Cardinality(T) /\ Cardinality(S) \in Nat /\ Cardinality(T) \in Nat
  BY <1>1, FS_Subset, FS_CardinalityType
<1> QED  BY <1>2

LEMMA QuorumIsNat ==
  ASSUME NEW l \in Node
  PROVE  QuorumLength(l) \in Nat /\ QuorumLength(l) <= Cardinality(Node)
<1>1. PICK k \in Nat : k = Len(connections[l]) /\ k + 1 = Cardinality(Node)
  BY ConnectionsAssumption, ConnectionsLength
<1>2. (k + 1) \div 2 \in Nat /\ (k + 1) \div 2 <= k
  OBVIOUS
<1>3. PICK h \in Nat : h = (k + 1) \div 2 /\ h <= k
  BY <1>2
<1>4. QuorumLength(l) = h + 1
  BY Zenon, <1>1, <1>3 DEF QuorumLength
<1>5. h + 1 \in Nat /\ h + 1 <= k + 1
  BY <1>3
<1> QED  BY Zenon, <1>1, <1>4, <1>5

LEMMA CrashKeepsOthers ==
  ASSUME NEW l \in Node, SoleContender(l), Steady(l), NEW p \in Node,
         Crash(p) \/ Restart(p), NEW m \in Node \ Fallible
  PROVE  p # m /\ log'[m] = log[m] /\ commited_index'[m] = commited_index[m]
<1>1. p # m
  BY DEF Crash, Restart, Steady
<1> QED  BY <1>1 DEF Crash, Restart, Steady, Replicates, TypeInv, TypeOK

LEMMA LogsOnlyGrow ==
  ASSUME NEW l \in Node, SoleContender(l), Steady(l), [Next]_vars,
         NEW m \in Node \ Fallible
  PROVE  Len(log[m]) <= Len(log'[m])
<1>0. /\ TypeInv /\ LeaderInv /\ OnlyCaller(l) /\ LogsInv(l) /\ TypeOK
  BY DEF Steady, Replicates, ReplicationInv, TypeInv
<1>1. log[m] \in Seq(Entry) /\ log[l] \in Seq(Entry) /\ node_term[l] \in Nat
      /\ Len(log[m]) \in Nat
  BY <1>0, LogTypes DEF TypeOK
<1>2. CASE log' = log
  BY <1>1, <1>2
<1>3. ASSUME NEW v \in Value, AppendEntry(l, v)
      PROVE  Len(log[m]) <= Len(log'[m])
  <2>1. PICK e \in Entry : e = [value |-> v, term |-> node_term[l]]
    BY <1>1 DEF Entry
  <2>2. log' = [log EXCEPT ![l] = Append(@, e)]
    BY <1>3, <2>1 DEF AppendEntry
  <2>3. log'[m] = IF m = l THEN Append(log[m], e) ELSE log[m]
    BY <1>0, <2>2 DEF TypeOK
  <2>4. Len(Append(log[m], e)) = Len(log[m]) + 1
    BY <1>1, AppendProperties
  <2> QED  BY <1>1, <2>3, <2>4
<1>4. ASSUME NEW p \in Node \ {l}, NEW msg \in Inbox(p), AcceptAppend(p, msg)
      PROVE  Len(log[m]) <= Len(log'[m])
  <2>1. log' = [log EXCEPT ![p] = log[l]]
    BY <1>4, AcceptStores DEF Steady
  <2>2. log'[m] = IF m = p THEN log[l] ELSE log[m]
    BY <1>0, <2>1 DEF TypeOK
  <2>3. Len(log[m]) <= Len(log[l])
    BY <1>0 DEF LogsInv, IsPrefixOf
  <2> QED  BY <1>1, <2>2, <2>3
<1>5. ASSUME NEW p \in Node, Crash(p) \/ Restart(p)
      PROVE  Len(log[m]) <= Len(log'[m])
  <2>1. log'[m] = log[m]
    BY <1>5, CrashKeepsOthers
  <2> QED  BY <1>1, <2>1
<1>6. \/ log' = log
      \/ \E v \in Value : AppendEntry(l, v)
      \/ \E p \in Node \ {l} : \E msg \in Inbox(p) : AcceptAppend(p, msg)
      \/ \E p \in Node : Crash(p) \/ Restart(p)
  BY <1>0, StepKinds DEF KeepsLogs, Persists, RemoveFile, CreateFile, WriteFile,
     CommitEntries
<1> QED  BY <1>2, <1>3, <1>4, <1>5, <1>6

LEMMA NobodyDown ==
  ASSUME NEW l \in Node, SoleContender(l), Steady(l), [Next]_vars,
         NEW m \in Node \ Fallible
  PROVE  pc'[m] # "down"
<1>0. TypeInv /\ TypeOK
  BY DEF Steady, Replicates, TypeInv
<1>1. ASSUME NEW n \in Node, Ticker(n)
      PROVE  pc'[m] # "down"
  BY <1>0, <1>1, TickerFrame DEF Steady
<1>2. ASSUME NEW n \in Node, Listener(n)
      PROVE  pc'[m] # "down"
  BY <1>2 DEF Listener, GrantVote, DenyVote, AcceptAppend, RejectAppend, TornRequest, HoldConnection,
     Steady
<1>3. ASSUME NEW n \in Node, NEW v \in Value, AppendEntry(n, v)
      PROVE  pc'[m] # "down"
  BY <1>3 DEF AppendEntry, Steady
<1>4. ASSUME NEW n \in Node, BreakCall(n)
      PROVE  pc'[m] # "down"
  BY <1>4 DEF BreakCall, Steady
<1>5. ASSUME NEW n \in Node, Crash(n) \/ Restart(n)
      PROVE  pc'[m] # "down"
  <2>1. n # m /\ pc \in [Node -> Places]
    BY <1>0, <1>5, CrashKeepsOthers DEF TypeOK
  <2> QED  BY <1>5, <2>1 DEF Crash, Restart, Goto, Steady
<1>6. CASE UNCHANGED vars
  BY <1>6 DEF vars, Steady
<1> QED  BY <1>1, <1>2, <1>3, <1>4, <1>5, <1>6 DEF Next

\* An ok is true when it is given, and until it is read neither the log of the
\* leader, which waits, nor that of the peer changes.
LEMMA AcksStayTrue ==
  ASSUME NEW l \in Node, SoleContender(l), Steady(l), [Next]_vars,
         NEW m \in Node \ Fallible, Acked(l, m)'
  PROVE  log'[m] = log'[l]
<1>0. /\ TypeInv /\ LeaderInv /\ OnlyCaller(l) /\ LogsInv(l) /\ TypeOK
  BY DEF Steady, Replicates, ReplicationInv, TypeInv
<1>1. ASSUME NEW p \in Node, NEW msg \in Inbox(p), AcceptAppend(p, msg)
      PROVE  log'[m] = log'[l]
  <2>1. /\ p # l /\ p = Peer(l) /\ log' = [log EXCEPT ![p] = log[l]] /\ conn' = conn
    BY <1>1, AcceptStores DEF Steady
  <2>2. m = p
    BY <2>1 DEF Acked, Peer
  <2> QED  BY <1>0, <2>1, <2>2 DEF TypeOK
<1>2. ASSUME NEW p \in Node, NEW msg \in Inbox(p), RejectAppend(p, msg)
      PROVE  FALSE
  <2>1. wire[l] = "sent" /\ msg.from = l /\ msg.from # NoNode
    BY <1>0, OnlyRequest, NodeAssumption
  <2>2. CASE Panic(p, msg)
    <3>1. PICK f \in [Callers(p) -> {"closed", "failed", "reset"}] :
            wire' = [n \in Node |-> IF n \in Callers(p) THEN f[n] ELSE wire[n]]
      BY <2>2 DEF Panic
    <3>2. wire'[l] # "replied"
      BY <2>1, <3>1
    <3> QED  BY <3>2 DEF Acked
  <2>3. CASE Respond(p, msg, FALSE)
    <3>1. reply' = [reply EXCEPT ![l] =
                      [node |-> p, term |-> node_term'[p], ok |-> FALSE]]
      BY <2>1, <2>3 DEF Respond
    <3>2. ~reply'[l].ok
      BY <1>0, <3>1 DEF TypeOK
    <3> QED  BY <3>2 DEF Acked
  <2> QED  BY <1>2, <2>2, <2>3 DEF RejectAppend
<1>3. CASE HeartbeatReceive(l)
  <2>1. wire'[l] = "idle"
    BY <1>0, <1>3 DEF HeartbeatReceive, HangUp, TypeOK
  <2> QED  BY <2>1 DEF Acked
<1>4. CASE /\ ~HeartbeatReceive(l)
           /\ \A p \in Node : \A msg \in Inbox(p) :
                ~AcceptAppend(p, msg) /\ ~RejectAppend(p, msg)
  <2>1. AnswerKept(l)
    BY <1>0, <1>4, AnswersKept
  <2>2. Acked(l, m)
    BY <2>1 DEF AnswerKept, Acked, Peer
  <2>3. log[m] = log[l]
    BY <2>2 DEF Steady, AckInv
  <2>4. \A v \in Value : ~AppendEntry(l, v)
    BY <2>2 DEF AppendEntry, LockFree, Acked
  <2>5. ASSUME NEW p \in Node, Crash(p) \/ Restart(p)
        PROVE  log'[m] = log[m] /\ log'[l] = log[l]
    BY <2>5, CrashKeepsOthers DEF SoleContender
  <2>6. log' = log \/ \E p \in Node : Crash(p) \/ Restart(p)
    BY <1>0, <1>4, <2>4, StepKinds DEF KeepsLogs, Persists, RemoveFile,
       CreateFile, WriteFile, CommitEntries
  <2> QED  BY <2>3, <2>5, <2>6
<1> QED  BY <1>1, <1>2, <1>3, <1>4

\* So are the records that the leader keeps of them.
LEMMA RecordsStayTrue ==
  ASSUME NEW l \in Node, SoleContender(l), Steady(l), [Next]_vars,
         node_type'[l] = "Leader", NEW m \in Node \ Fallible
  PROVE  match_index'[l][m] <= Len(log'[m])
<1>0. /\ TypeInv /\ LeaderInv /\ OnlyCaller(l) /\ LogsInv(l) /\ TypeOK /\ AckInv(l)
      /\ IndexInv(l)
  BY DEF Steady, Replicates, ReplicationInv, TypeInv
<1>1. /\ match_index[l][m] \in Nat /\ Len(log[m]) \in Nat /\ Len(log'[m]) \in Nat
      /\ Len(log[l]) \in Nat
  <2>1. TypeOK'
    BY <1>0, NextTyped DEF TypeInv
  <2> QED  BY <1>0, <2>1, LogTypes, LenProperties DEF TypeOK
<1>2. Len(log[m]) <= Len(log'[m])
  BY LogsOnlyGrow
<1>3. CASE match_index'[l][m] = match_index[l][m] /\ node_type[l] = "Leader"
  BY <1>0, <1>1, <1>2, <1>3 DEF AckInv
<1>4. CASE HeartbeatReceive(l)
  <2>1. node_type[l] = "Leader" /\ pc[l] = "heartbeat"
    BY <1>0, <1>4 DEF HeartbeatReceive, LeaderInv, OfficeInv
  <2>2. CASE match_index' = match_index
    BY <1>3, <2>1, <2>2
  <2>3. CASE /\ wire[l] = "replied" /\ reply[l].ok
             /\ match_index' = [match_index EXCEPT ![l][Peer(l)] =
                                  IF log[l] = <<>> THEN @ ELSE Len(log[l])]
    <3>1. CASE m = Peer(l)
      <4>1. log[m] = log[l]
        BY <1>0, <2>1, <2>3, <3>1 DEF AckInv, Acked
      <4>2. match_index'[l][m] = IF log[l] = <<>> THEN match_index[l][m] ELSE Len(log[l])
        BY <1>0, <2>3, <3>1 DEF TypeOK
      <4> QED  BY <1>1, <1>2, <1>3, <2>1, <4>1, <4>2
    <3>2. CASE m # Peer(l)
      <4>1. match_index'[l][m] = match_index[l][m]
        BY <1>0, <2>3, <3>2 DEF TypeOK
      <4> QED  BY <1>3, <2>1, <4>1
    <3> QED  BY <3>1, <3>2
  <2> QED  BY <1>4, <2>2, <2>3 DEF HeartbeatReceive
<1>5. CASE HeartbeatEnd(l)
  <2>1. node_type[l] = "Leader"
    BY <1>0, <1>5 DEF HeartbeatEnd, LeaderInv, OfficeInv
  <2>2. match_index'[l][m] = IF m = l THEN Len(log[l]) ELSE match_index[l][m]
    BY <1>0, <1>5 DEF HeartbeatEnd, TypeOK
  <2> QED  BY <1>1, <1>2, <1>3, <2>1, <2>2
<1>6. CASE VoteReceived(l)
  BY <1>0, <1>6 DEF VoteReceived, LeaderInv, OfficeInv
<1>7. CASE ~HeartbeatReceive(l) /\ ~HeartbeatEnd(l) /\ ~VoteReceived(l)
  <2>1. KeepsIndexes(l)
    BY <1>0, <1>7, IndexesKept DEF NoOffice
  <2>2. CASE pc[l] = "won" /\ node_type[l] # "Leader"
    <3>1. match_index'[l][m] = 0
      BY <1>0, <2>1, <2>2 DEF KeepsIndexes, IndexInv
    <3> QED  BY <1>1, <3>1
  <2> QED  BY <1>3, <2>1, <2>2 DEF KeepsIndexes
<1> QED  BY <1>4, <1>5, <1>6, <1>7

\* And of the quorum that an index is committed for.
LEMMA QuorumStaysTrue ==
  ASSUME NEW l \in Node, SoleContender(l), Steady(l), [Next]_vars
  PROVE  Cardinality({m \in Node : m \in Fallible \/ commited_index'[l] <= Len(log'[m])})
           >= QuorumLength(l)
<1>0. /\ TypeInv /\ LeaderInv /\ OnlyCaller(l) /\ LogsInv(l) /\ TypeOK /\ AckInv(l)
  BY DEF Steady, Replicates, ReplicationInv, TypeInv
<1>1. \A m \in Node \ Fallible :
        Len(log[m]) <= Len(log'[m]) /\ Len(log[m]) \in Nat /\ Len(log'[m]) \in Nat
  <2>1. TypeOK'
    BY <1>0, NextTyped DEF TypeInv
  <2> QED  BY <1>0, <2>1, LogsOnlyGrow, LenProperties DEF TypeOK
<1>2. commited_index[l] \in Nat /\ QuorumLength(l) \in Nat
  BY <1>0, QuorumIsNat DEF TypeOK
<1> DEFINE Now == {m \in Node : m \in Fallible \/ commited_index[l] <= Len(log[m])}
           Then == {m \in Node : m \in Fallible \/ commited_index'[l] <= Len(log'[m])}
<1>3. CASE commited_index'[l] = commited_index[l]
  <2>1. Now \subseteq Then
    BY <1>1, <1>2, <1>3
  <2>2. Cardinality(Now) >= QuorumLength(l)
    BY <1>0 DEF AckInv
  <2>3. PICK S, T \in SUBSET Node, q \in Nat : S = Now /\ T = Then /\ q = QuorumLength(l)
    BY <1>2
  <2> HIDE DEF Now, Then
  <2>4. Cardinality(T) >= q
    BY <2>1, <2>2, <2>3, LargerSetIsQuorum
  <2> QED  BY <2>3, <2>4 DEF Then
<1>4. CASE CommitEntries(l)
  <2>1. PICK k \in Nat :
          /\ node_type[l] = "Leader"
          /\ k \in QuorumMatches(l, match_index[l])
          /\ commited_index' = [commited_index EXCEPT ![l] = k]
    BY <1>4, CommitDecides DEF Steady
  <2> DEFINE Equal == {m \in Node : match_index[l][m] = k}
  <2>2. Cardinality(Equal) >= QuorumLength(l)
    BY <2>1 DEF QuorumMatches, Frequency
  <2>3. Equal \subseteq Then
    <3>1. commited_index'[l] = k
      BY <1>0, <2>1 DEF TypeOK
    <3>2. ASSUME NEW m \in Node \ Fallible, match_index[l][m] = k
          PROVE  k <= Len(log'[m])
      <4>1. k <= Len(log[m])
        BY <1>0, <2>1, <3>2 DEF AckInv
      <4> QED  BY <1>1, <4>1
    <3> QED  BY <3>1, <3>2
  <2>4. PICK S, T \in SUBSET Node, q \in Nat : S = Equal /\ T = Then /\ q = QuorumLength(l)
    BY <1>2
  <2> HIDE DEF Equal, Then
  <2>5. Cardinality(T) >= q
    BY <2>2, <2>3, <2>4, LargerSetIsQuorum
  <2> QED  BY <2>4, <2>5 DEF Then
<1>5. ASSUME NEW p \in Node, Crash(p) \/ Restart(p)
      PROVE  commited_index'[l] = commited_index[l]
  BY <1>5, CrashKeepsOthers DEF SoleContender
<1>6. ASSUME NEW p \in Node \ {l}, NEW msg \in Inbox(p), AcceptAppend(p, msg)
      PROVE  commited_index'[l] = commited_index[l]
  <2>1. commited_index' = [commited_index EXCEPT ![p] = commited_index[l]]
    BY <1>6, AcceptStores DEF Steady
  <2> QED  BY <1>0, <2>1 DEF TypeOK
<1>7. CommitEntries(l) \/ commited_index'[l] = commited_index[l]
  BY <1>0, <1>5, <1>6, StepKinds DEF KeepsLogs, Persists, RemoveFile, CreateFile,
     WriteFile, AppendEntry
<1> QED  BY <1>3, <1>4, <1>7

LEMMA SteadyHolds ==
  ASSUME NEW l \in Node, SoleContender(l)
  PROVE  Spec => []Steady(l)
<1>1. Init => Steady(l)
  <2>1. SUFFICES ASSUME Init PROVE Steady(l)
    OBVIOUS
  <2>2. Replicates(l)
    BY <2>1, InitTyped, InitLeader, InitReplicates DEF Replicates, Init, IndexInv
  <2>3. \A m \in Node : pc[m] # "down" /\ ~Acked(l, m)
    BY <2>1 DEF Init, Acked
  <2>4. Cardinality({m \in Node : m \in Fallible \/ commited_index[l] <= Len(log[m])})
          >= QuorumLength(l)
    <3>1. \A m \in Node : commited_index[l] <= Len(log[m])
      BY <2>1 DEF Init
    <3>2. {m \in Node : m \in Fallible \/ commited_index[l] <= Len(log[m])} = Node
      BY <3>1
    <3>3. Cardinality(Node) \in Nat /\ QuorumLength(l) <= Cardinality(Node)
          /\ QuorumLength(l) \in Nat
      BY NodeAssumption, FS_CardinalityType, QuorumIsNat
    <3> QED  BY <3>2, <3>3
  <2>5. node_type[l] # "Leader"
    BY <2>1 DEF Init
  <2> QED  BY <2>2, <2>3, <2>4, <2>5 DEF Steady, AckInv
<1>2. Steady(l) /\ [Next]_vars => Steady(l)'
  <2>1. SUFFICES ASSUME Steady(l), [Next]_vars PROVE Steady(l)'
    OBVIOUS
  <2>2. Replicates(l)'
    BY <2>1, NextReplicates DEF Steady
  <2>3. AckInv(l)'
    <3>1. \A m \in Node \ Fallible : Acked(l, m)' => log'[m] = log'[l]
      BY <2>1, AcksStayTrue
    <3>2. \A m \in Node \ Fallible :
            node_type'[l] = "Leader" => match_index'[l][m] <= Len(log'[m])
      BY <2>1, RecordsStayTrue
    <3>3. Cardinality({m \in Node : \/ m \in Fallible
                                    \/ commited_index'[l] <= Len(log'[m])})
            >= QuorumLength(l)
      BY <2>1, QuorumStaysTrue
    <3> QED  BY <3>1, <3>2, <3>3 DEF AckInv, QuorumLength
  <2> QED  BY <2>1, <2>2, <2>3, NobodyDown DEF Steady
<1> QED  BY <1>1, <1>2, PTL DEF Spec

\* While one node contends, whatever else crashes and restarts: a follower that has
\* answered success holds the log of the leader, or the part of it that a restart
\* has left, until the leader has read the answer.
THEOREM AckIsStored ==
  ASSUME NEW l \in Node, SoleContender(l)
  PROVE  Spec => []AckMeansStored
<1>1. Steady(l) => AckMeansStored
  <2>1. SUFFICES ASSUME Steady(l), NEW n \in Node,
                        pc[n] = "heartbeat", wire[n] = "replied", reply[n].ok
                 PROVE  /\ IsPrefixOf(log[Peer(n)], log[n])
                        /\ Peer(n) \notin Fallible => log[Peer(n)] = log[n]
    BY DEF AckMeansStored
  <2>2. n = l /\ LogsInv(l) /\ AckInv(l)
    BY <2>1 DEF Steady, Replicates, ReplicationInv, OnlyCaller
  <2>3. Peer(l) \in Node
    <3>1. InLoop(l) /\ conn[l] \in Nat \ {0}
      BY <2>1, <2>2 DEF Steady, Replicates, TypeInv, CallInv, TypeOK
    <3> QED  BY <3>1, PeerIsNode DEF Peer, InLoop
  <2>4. IsPrefixOf(log[Peer(n)], log[n])
    BY <2>2, <2>3 DEF LogsInv
  <2>5. Peer(n) \notin Fallible => log[Peer(n)] = log[n]
    BY <2>1, <2>2, <2>3 DEF AckInv, Acked
  <2> QED  BY <2>4, <2>5
<1> QED  BY <1>1, SteadyHolds, PTL

\* And what the leader has committed is in the logs of a quorum, as far as its
\* members do not crash: the match_index map that maybe_commit_log_entries counts is
\* true of those nodes, not only a record.
THEOREM CommittedIsOnQuorum ==
  ASSUME NEW l \in Node, SoleContender(l)
  PROVE  Spec => []CommittedOnQuorum
<1>1. Steady(l) => CommittedOnQuorum
  <2>1. SUFFICES ASSUME Steady(l), NEW n \in Node, Leads(n)
                 PROVE  Cardinality({m \in Node :
                          \/ m \in Fallible
                          \/ IsPrefixOf(SubSeq(log[n], 1, commited_index[n]), log[m])})
                          >= QuorumLength(n)
    BY DEF CommittedOnQuorum
  <2>2. /\ TypeOK /\ LogsInv(l) /\ AckInv(l) /\ n = l
    BY <2>1 DEF Steady, Replicates, ReplicationInv, TypeInv, OnlyCaller, Leads
  <2> DEFINE Long == {m \in Node : m \in Fallible \/ commited_index[l] <= Len(log[m])}
             Holds == {m \in Node :
                         \/ m \in Fallible
                         \/ IsPrefixOf(SubSeq(log[l], 1, commited_index[l]), log[m])}
  <2>3. Long \subseteq Holds
    <3>1. SUFFICES ASSUME NEW m \in Node, commited_index[l] <= Len(log[m])
                   PROVE  IsPrefixOf(SubSeq(log[l], 1, commited_index[l]), log[m])
      OBVIOUS
    <3>2. PICK own, lead \in Seq(Entry), c \in Nat :
            own = log[m] /\ lead = log[l] /\ c = commited_index[l]
      BY <2>2, LogTypes
    <3>3. IsPrefixOf(own, lead) /\ c <= Len(own)
      BY <2>2, <3>1, <3>2 DEF LogsInv
    <3>4. SubSeq(own, 1, c) = SubSeq(lead, 1, c) /\ IsPrefixOf(SubSeq(own, 1, c), own)
      BY <3>3, FirstPart, FirstPartOfPrefix
    <3> QED  BY <3>2, <3>4
  <2>4. Cardinality(Long) >= QuorumLength(l)
    BY <2>2 DEF AckInv
  <2>5. PICK S, T \in SUBSET Node, q \in Nat : S = Long /\ T = Holds /\ q = QuorumLength(l)
    BY QuorumIsNat
  <2> HIDE DEF Long, Holds
  <2>6. Cardinality(T) >= q
    BY <2>3, <2>4, <2>5, LargerSetIsQuorum
  <2> QED  BY <2>2, <2>5, <2>6 DEF Holds
<1> QED  BY <1>1, SteadyHolds, PTL
=============================================================================
