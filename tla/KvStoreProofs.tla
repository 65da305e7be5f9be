--------------------------- MODULE KvStoreProofs ---------------------------
(***************************************************************************)
(* The invariants of KvStore, for any number of nodes, clients, keys and   *)
(* values, any commands, and any number of deliveries.  They are proved of *)
(* OpenSpec, in which raft is only asked to extend what it has delivered;  *)
(* Spec, with the bound that TLC needs, implements it.                     *)
(*                                                                         *)
(* First lemmas on ValueAfter, then StoreInv: one lemma for each of its    *)
(* parts, with one step for each action.                                   *)
(***************************************************************************)
EXTENDS KvStoreProperties, TLAPS, SequenceTheorems, WellFoundedInduction

-----------------------------------------------------------------------------
(* What ValueAfter returns *)

\* Some number is the least of a set; and the greatest, if the set is bounded.
LEMMA LeastNatural ==
  ASSUME NEW T, T \subseteq Nat, T # {}
  PROVE  \E x \in T : \A y \in T : x <= y
<1> DEFINE R == OpToRel(<, Nat)
<1>1. PICK x \in T : \A y \in T : ~(<<y, x>> \in R)
  BY WFMin, NatLessThanWellFounded
<1>2. ASSUME NEW y \in T PROVE x <= y
  <2>1. x \in Nat /\ y \in Nat
    OBVIOUS
  <2>2. ~(y < x)
    BY <1>1, <2>1 DEF OpToRel
  <2> QED  BY <2>1, <2>2
<1> QED  BY <1>2

LEMMA GreatestNatural ==
  ASSUME NEW k \in Nat, NEW W, W \subseteq 1..k, W # {}
  PROVE  \E x \in W : \A y \in W : y <= x
<1> DEFINE T == {k - x : x \in W}
<1>1. T \subseteq Nat /\ T # {}
  <2>1. \A x \in W : x \in 1..k /\ k - x \in Nat
    OBVIOUS
  <2> QED  BY <2>1
<1>2. PICK d \in T : \A e \in T : d <= e
  BY <1>1, LeastNatural, Zenon
<1>3. PICK x \in W : d = k - x
  OBVIOUS
<1>4. ASSUME NEW y \in W PROVE y <= x
  <2>1. d <= k - y
    BY <1>2
  <2> QED  BY <1>3, <2>1
<1> QED  BY <1>4

\* Before the first entry.
LEMMA ValueAtStart ==
  ASSUME NEW s, NEW key
  PROVE  ValueAfter(s, 0, key) = Undefined
BY DEF ValueAfter, WritesTo

\* It looks at the first k entries only.
LEMMA ValueOfPrefix ==
  ASSUME NEW s, NEW t, NEW k \in Nat, NEW key, \A i \in 1..k : s[i] = t[i]
  PROVE  ValueAfter(s, k, key) = ValueAfter(t, k, key)
<1> DEFINE W == WritesTo(s, k, key)
           last == CHOOSE i \in W : \A j \in W : j <= i
<1>1. W = WritesTo(t, k, key) /\ W \subseteq 1..k
  BY DEF WritesTo
<1>2. CASE W = {}
  BY <1>1, <1>2 DEF ValueAfter
<1>3. CASE W # {}
  <2>1. \E i \in W : \A j \in W : j <= i
    BY <1>1, <1>3, GreatestNatural, Zenon
  <2>2. last \in 1..k
    BY <1>1, <2>1
  <2>3. s[last] = t[last]
    BY <2>2
  <2>4. ValueAfter(s, k, key) =
          IF s[last].value.op = "Set" THEN s[last].value.text ELSE Undefined
    BY <1>3 DEF ValueAfter
  <2>5. ValueAfter(t, k, key) =
          IF t[last].value.op = "Set" THEN t[last].value.text ELSE Undefined
    BY <1>1, <1>3 DEF ValueAfter
  <2> QED  BY <2>3, <2>4, <2>5
<1> QED  BY <1>2, <1>3

\* One entry more: it decides for its own key, and for no other.
LEMMA ValueOfNext ==
  ASSUME NEW s, NEW k \in Nat, NEW key
  PROVE  ValueAfter(s, k + 1, key) =
           IF s[k + 1].value.key = key
           THEN IF s[k + 1].value.op = "Set" THEN s[k + 1].value.text ELSE Undefined
           ELSE ValueAfter(s, k, key)
<1>1. CASE s[k + 1].value.key = key
  <2> DEFINE W == WritesTo(s, k + 1, key)
             last == CHOOSE i \in W : \A j \in W : j <= i
  <2>1. k + 1 \in W /\ \A j \in W : j \in Nat /\ j <= k + 1
    BY <1>1 DEF WritesTo
  <2>2. last \in W /\ \A j \in W : j <= last
    BY <2>1
  <2>3. last = k + 1
    <3>1. last \in Nat /\ last <= k + 1 /\ k + 1 <= last
      BY <2>1, <2>2
    <3> QED  BY <3>1
  <2>4. ValueAfter(s, k + 1, key) =
          IF s[last].value.op = "Set" THEN s[last].value.text ELSE Undefined
    BY <2>1 DEF ValueAfter
  <2> HIDE DEF last, W
  <2>5. ValueAfter(s, k + 1, key) =
          IF s[k + 1].value.op = "Set" THEN s[k + 1].value.text ELSE Undefined
    BY <2>3, <2>4
  <2> QED  BY <1>1, <2>5
<1>2. CASE s[k + 1].value.key # key
  <2>1. WritesTo(s, k + 1, key) = WritesTo(s, k, key)
    BY <1>2 DEF WritesTo
  <2> DEFINE Decided(W) ==
               IF W = {} THEN Undefined
               ELSE LET last == CHOOSE i \in W : \A j \in W : j <= i
                    IN  IF s[last].value.op = "Set" THEN s[last].value.text
                        ELSE Undefined
  <2>2. \A j : ValueAfter(s, j, key) = Decided(WritesTo(s, j, key))
    BY DEF ValueAfter
  <2> HIDE DEF Decided
  <2>3. ValueAfter(s, k + 1, key) = ValueAfter(s, k, key)
    BY <2>1, <2>2
  <2> QED  BY <1>2, <2>3
<1> QED  BY <1>1, <1>2

-----------------------------------------------------------------------------
(* Every step is one of these. *)

USE DEF raftvars, taskvars, session, storevars, vars

\* What a session or its client does leaves raft and the KV task alone, and
\* every other session.
LEMMA SessionFrame ==
  ASSUME TypeOK, NEW c \in Client, Session(c) \/ User(c)
  PROVE  /\ UNCHANGED <<raftvars, taskvars>>
         /\ \A d \in Client \ {c} :
              /\ at'[d] = at[d] /\ phase'[d] = phase[d] /\ asked'[d] = asked[d]
              /\ value'[d] = value[d] /\ gone'[d] = gone[d]
<1> USE DEF TypeOK, Proceed, Forget, ReadNext, EndSession
<1>1. CASE ReadStorage(c)   BY <1>1 DEF ReadStorage
<1>2. CASE CheckLeader(c)   BY <1>2 DEF CheckLeader
<1>3. CASE Enqueue(c)       BY <1>3 DEF Enqueue
<1>4. CASE AnswerValue(c)   BY <1>4 DEF AnswerValue
<1>5. CASE AnswerOk(c)      BY <1>5 DEF AnswerOk
<1>6. CASE AnswerError(c)   BY <1>6 DEF AnswerError
<1>7. CASE Close(c)         BY <1>7 DEF Close
<1>8. ASSUME NEW n \in Node, Connect(c, n)
      PROVE  UNCHANGED <<raftvars, taskvars, asked, value, gone>>
             /\ \A d \in Client \ {c} : at'[d] = at[d] /\ phase'[d] = phase[d]
  BY <1>8 DEF Connect
<1>9. ASSUME NEW cmd \in Command, Ask(c, cmd)
      PROVE  /\ UNCHANGED <<raftvars, taskvars>>
             /\ \A d \in Client \ {c} :
                  /\ at'[d] = at[d] /\ phase'[d] = phase[d] /\ asked'[d] = asked[d]
                  /\ value'[d] = value[d] /\ gone'[d] = gone[d]
  BY <1>9 DEF Ask
<1>10. CASE Leave(c)        BY <1>10 DEF Leave
<1> QED
  BY <1>1, <1>2, <1>3, <1>4, <1>5, <1>6, <1>7, <1>8, <1>9, <1>10 DEF Session, User

-----------------------------------------------------------------------------
(* Types *)

LEMMA InitialTypes == Init => TypeOK
BY EmptySeq DEF Init, TypeOK, EmptyMap, Tasks, Phases

LEMMA SessionTypes ==
  ASSUME TypeOK, NEW c \in Client, SessionInv(c), Session(c)
  PROVE  TypeOK'
<1> USE DEF TypeOK, Phases, Proceed, Forget, ReadNext, EndSession
<1>1. CASE ReadStorage(c)
  <2>1. asked[c].key \in Key /\ at[c] \in Node
    BY <1>1 DEF ReadStorage, SessionInv, GetOp
  <2> QED  BY <1>1, <2>1 DEF ReadStorage
<1>2. CASE CheckLeader(c)
  BY <1>2 DEF CheckLeader
<1>3. CASE Enqueue(c)
  <2>1. [from |-> c, op |-> asked[c]] \in Sent
    BY <1>3 DEF Enqueue, SessionInv, Sent, Operation
  <2>2. queued' \in [Node -> Seq(Sent)]
    BY <1>3, <2>1, AppendProperties DEF Enqueue
  <2> QED  BY <1>3, <2>2 DEF Enqueue
<1>4. CASE AnswerValue(c)
  BY <1>4 DEF AnswerValue
<1>5. CASE AnswerOk(c)
  <2>1. [from |-> c, op |-> asked[c]] \in Sent
    BY <1>5 DEF AnswerOk, SessionInv, Sent, Operation
  <2>2. acked' \in [Node -> Seq(Sent)]
    BY <1>5, <2>1, AppendProperties DEF AnswerOk
  <2> QED  BY <1>5, <2>2 DEF AnswerOk
<1>6. CASE AnswerError(c)
  BY <1>6 DEF AnswerError
<1>7. CASE Close(c)
  BY <1>7 DEF Close
<1> QED  BY <1>1, <1>2, <1>3, <1>4, <1>5, <1>6, <1>7 DEF Session

LEMMA UserTypes ==
  ASSUME TypeOK, NEW c \in Client, User(c)
  PROVE  TypeOK'
<1> USE DEF TypeOK, Phases, Proceed, Forget, EndSession
<1>1. ASSUME NEW n \in Node, Connect(c, n) PROVE TypeOK'
  BY <1>1 DEF Connect
<1>2. ASSUME NEW cmd \in Command, Ask(c, cmd) PROVE TypeOK'
  <2>1. CASE cmd \in ShortOp
    BY <1>2, <2>1 DEF Ask
  <2>2. CASE cmd \notin ShortOp
    BY <1>2, <2>2 DEF Ask
  <2> QED  BY <2>1, <2>2
<1>3. CASE Leave(c)
  BY <1>3 DEF Leave
<1> QED  BY <1>1, <1>2, <1>3 DEF User

LEMMA KvTaskTypes ==
  ASSUME TypeOK, NEW n \in Node, DeliveryInv(n), KvTask(n)
  PROVE  TypeOK'
<1> USE DEF TypeOK
<1>1. CASE TakeCommand(n)
  <2> DEFINE op == queued[n][handled[n] + 1].op
  <2>1. op \in Command \intersect (WriteOp \union InvalidOp)
    <3>1. handled[n] + 1 \in 1..Len(queued[n])
      BY <1>1 DEF TakeCommand
    <3>2. queued[n][handled[n] + 1] \in Sent
      BY <3>1, ElementOfSeq
    <3> QED  BY <3>2 DEF Sent
  <2>2. (IF op \in WriteOp THEN Appending(op) ELSE Idle) \in Tasks
    BY <2>1 DEF Tasks, Appending
  <2>3. task' \in [Node -> Tasks]
    BY <1>1, <2>2 DEF TakeCommand
  <2> QED  BY <1>1, <2>3 DEF TakeCommand
<1>2. CASE TakeDelivery(n)
  <2>1. delivered[n][received[n] + 1] \in Entry
    <3>1. received[n] + 1 \in 1..Len(delivered[n])
      BY <1>2 DEF TakeDelivery
    <3> QED  BY <3>1, ElementOfSeq
  <2>2. Applying(delivered[n][received[n] + 1].value) \in Tasks
    BY <2>1, StoreAssumption DEF Tasks, Applying
  <2> QED  BY <1>2, <2>2 DEF TakeDelivery
<1>3. CASE Apply(n)
  <2>1. task[n].op \in WriteOp
    BY <1>3 DEF Apply, Tasks, Idle
  <2>2. Applied(storage[n], task[n].op) \in [Key -> Text \union {Undefined}]
    BY <2>1 DEF Applied, WriteOp, SetOp, DeleteOp
  <2>3. Idle \in Tasks
    BY DEF Tasks
  <2> QED  BY <1>3, <2>2, <2>3 DEF Apply
<1> QED  BY <1>1, <1>2, <1>3 DEF KvTask

LEMMA CrashTypes ==
  ASSUME TypeOK, NEW n \in Node, CrashStore(n),
         is_leader' \in [Node -> BOOLEAN], delivered' \in [Node -> Seq(Entry)]
  PROVE  TypeOK'
BY EmptySeq DEF TypeOK, CrashStore, EmptyMap, Tasks, Phases

LEMMA RaftTypes ==
  ASSUME TypeOK, NEW n \in Node,
         (AppendReturns(n) /\ UNCHANGED raftvars) \/ RaftFlags(n) \/ RaftExtends(n)
  PROVE  TypeOK'
<1>1. CASE AppendReturns(n) /\ UNCHANGED raftvars
  BY <1>1 DEF TypeOK, AppendReturns, Tasks
<1>2. CASE RaftFlags(n)
  BY <1>2 DEF TypeOK, RaftFlags
<1>3. CASE RaftExtends(n)
  BY <1>3 DEF TypeOK, RaftExtends
<1> QED  BY <1>1, <1>2, <1>3

-----------------------------------------------------------------------------
(* Sessions *)

LEMMA OwnSessionKept ==
  ASSUME TypeOK, NEW c \in Client, SessionInv(c), Session(c) \/ User(c)
  PROVE  SessionInv(c)'
<1> USE DEF TypeOK, SessionInv, Proceed, Forget, ReadNext, EndSession
<1>1. CASE ReadStorage(c)   BY <1>1 DEF ReadStorage
<1>2. CASE CheckLeader(c)   BY <1>2 DEF CheckLeader
<1>3. CASE Enqueue(c)       BY <1>3 DEF Enqueue
<1>4. CASE AnswerValue(c)   BY <1>4 DEF AnswerValue
<1>5. CASE AnswerOk(c)      BY <1>5 DEF AnswerOk
<1>6. CASE AnswerError(c)   BY <1>6 DEF AnswerError
<1>7. CASE Close(c)         BY <1>7 DEF Close
<1>8. ASSUME NEW n \in Node, Connect(c, n) PROVE SessionInv(c)'
  BY <1>8 DEF Connect
<1>9. ASSUME NEW cmd \in Command, Ask(c, cmd) PROVE SessionInv(c)'
  <2>1. CASE cmd \in ShortOp
    BY <1>9, <2>1 DEF Ask
  <2>2. CASE cmd \notin ShortOp
    BY <1>9, <2>2, StoreAssumption DEF Ask
  <2> QED  BY <2>1, <2>2
<1>10. CASE Leave(c)        BY <1>10 DEF Leave
<1> QED
  BY <1>1, <1>2, <1>3, <1>4, <1>5, <1>6, <1>7, <1>8, <1>9, <1>10 DEF Session, User

LEMMA SessionsKept ==
  ASSUME TypeOK, \A c \in Client : SessionInv(c), [OpenNext]_vars
  PROVE  \A c \in Client : SessionInv(c)'
<1> SUFFICES ASSUME NEW d \in Client PROVE SessionInv(d)'
  OBVIOUS
<1>1. ASSUME NEW c \in Client, Session(c) \/ User(c) PROVE SessionInv(d)'
  <2>1. CASE d = c
    BY <1>1, <2>1, OwnSessionKept
  <2>2. CASE d # c
    BY <1>1, <2>2, SessionFrame DEF SessionInv
  <2> QED  BY <2>1, <2>2
<1>2. CASE UNCHANGED session
  BY <1>2 DEF SessionInv
<1>3. ASSUME NEW n \in Node, KvTask(n) \/ AppendReturns(n) \/ RaftFlags(n) \/ RaftExtends(n)
      PROVE  UNCHANGED session
  BY <1>3 DEF KvTask, TakeCommand, TakeDelivery, Apply, AppendReturns, RaftFlags, RaftExtends
<1>4. ASSUME NEW n \in Node, Crash(n) PROVE SessionInv(d)'
  BY <1>4 DEF Crash, CrashStore, SessionInv, TypeOK
<1>5. CASE UNCHANGED vars
  BY <1>2, <1>5
<1> QED  BY <1>1, <1>2, <1>3, <1>4, <1>5 DEF OpenNext, StoreNext

-----------------------------------------------------------------------------
(* client_tx *)

\* Steps of the node's own sessions.
LEMMA OwnChannelKept ==
  ASSUME TypeOK, NEW c \in Client, SessionInv(c), Session(c) \/ User(c),
         NEW n \in Node, ChannelInv(n), at[c] = n
  PROVE  ChannelInv(n)'
<1> USE DEF TypeOK, Proceed, Forget, ReadNext, EndSession
<1>1. CASE Enqueue(c)
  <2>1. Confirming(n) = {}
    BY <1>1 DEF Enqueue, SenderFree, Confirming
  <2>2. Confirming(n)' = {c}
    BY <1>1, <2>1 DEF Enqueue, Confirming
  <2>3. queued'[n] = Append(acked[n], [from |-> c, op |-> asked[c]])
    BY <1>1, <2>1 DEF Enqueue, ChannelInv
  <2> QED  BY <1>1, <2>2, <2>3 DEF Enqueue, ChannelInv
<1>2. CASE AnswerOk(c)
  <2>1. c \in Confirming(n)
    BY <1>2 DEF AnswerOk, Confirming
  <2>2. Confirming(n) = {c} /\ queued[n] = Append(acked[n], [from |-> c, op |-> asked[c]])
    BY <2>1 DEF ChannelInv
  <2>3. Confirming(n)' = {}
    BY <1>2, <2>2 DEF AnswerOk, Confirming
  <2>4. queued'[n] = acked'[n]
    BY <1>2, <2>2 DEF AnswerOk
  <2> QED  BY <2>3, <2>4 DEF ChannelInv
<1>3. ASSUME Confirming(n)' = Confirming(n), UNCHANGED <<queued, acked>>,
             c \notin Confirming(n) \/ asked'[c] = asked[c]
      PROVE  ChannelInv(n)'
  <2>1. \A d \in Confirming(n) : asked'[d] = asked[d]
    BY <1>3, SessionFrame DEF Confirming
  <2> QED  BY <1>3, <2>1 DEF ChannelInv
<1>4. CASE ReadStorage(c)   BY <1>3, <1>4 DEF ReadStorage, Confirming
<1>5. CASE CheckLeader(c)   BY <1>3, <1>5 DEF CheckLeader, Confirming
<1>6. CASE AnswerValue(c)   BY <1>3, <1>6 DEF AnswerValue, Confirming
<1>7. CASE AnswerError(c)   BY <1>3, <1>7 DEF AnswerError, Confirming
<1>8. CASE Close(c)         BY <1>3, <1>8 DEF Close, Confirming
<1>9. CASE Leave(c)         BY <1>3, <1>9 DEF Leave, Confirming
<1>10. ASSUME NEW m \in Node, Connect(c, m) PROVE ChannelInv(n)'
  BY <1>3, <1>10 DEF Connect, Confirming
<1>11. ASSUME NEW cmd \in Command, Ask(c, cmd) PROVE ChannelInv(n)'
  BY <1>3, <1>11 DEF Ask, Confirming
<1> QED
  BY <1>1, <1>2, <1>4, <1>5, <1>6, <1>7, <1>8, <1>9, <1>10, <1>11 DEF Session, User

LEMMA ChannelsKept ==
  ASSUME StoreInv, [OpenNext]_vars
  PROVE  \A n \in Node : ChannelInv(n)'
<1> SUFFICES ASSUME NEW n \in Node PROVE ChannelInv(n)'
  OBVIOUS
<1> USE DEF StoreInv
<1>1. ASSUME NEW c \in Client, Session(c) \/ User(c) PROVE ChannelInv(n)'
  <2>1. CASE at[c] = n
    BY <1>1, <2>1, OwnChannelKept
  <2>2. CASE at[c] # n
    <3>1. c \notin Confirming(n) /\ c \notin Confirming(n)'
      BY <1>1, <2>2 DEF Confirming, TypeOK, SessionInv, Session, User, ReadStorage, CheckLeader,
           Enqueue, AnswerValue, AnswerOk, AnswerError, Close, Leave, Connect, Ask,
           Proceed, Forget, ReadNext, EndSession
    <3>2. Confirming(n)' = Confirming(n)
      BY <1>1, <3>1, SessionFrame DEF Confirming
    <3>3. queued'[n] = queued[n] /\ acked'[n] = acked[n]
      BY <1>1, <2>2 DEF TypeOK, Session, User, ReadStorage, CheckLeader,
           Enqueue, AnswerValue, AnswerOk, AnswerError, Close, Leave, Connect, Ask
    <3>4. \A d \in Confirming(n) : asked'[d] = asked[d]
      BY <1>1, <3>1, SessionFrame DEF Confirming
    <3> QED  BY <3>2, <3>3, <3>4 DEF ChannelInv
  <2> QED  BY <2>1, <2>2
<1>2. CASE UNCHANGED <<session, queued, acked>>
  BY <1>2 DEF ChannelInv, Confirming
<1>3. ASSUME NEW m \in Node, KvTask(m) \/ AppendReturns(m) \/ RaftFlags(m) \/ RaftExtends(m)
      PROVE  UNCHANGED <<session, queued, acked>>
  BY <1>3 DEF KvTask, TakeCommand, TakeDelivery, Apply, AppendReturns, RaftFlags, RaftExtends
<1>4. ASSUME NEW m \in Node, Crash(m) PROVE ChannelInv(n)'
  <2>1. CASE m = n
    <3>1. Confirming(n)' = {}
      BY <1>4, <2>1, StoreAssumption DEF Crash, CrashStore, Confirming
    <3> QED  BY <1>4, <2>1, <3>1 DEF Crash, CrashStore, ChannelInv, TypeOK
  <2>2. CASE m # n
    <3>1. Confirming(n)' = Confirming(n)
      BY <1>4, <2>2, StoreAssumption DEF Crash, CrashStore, Confirming
    <3>2. \A c \in Confirming(n) : asked'[c] = asked[c]
      BY <1>4, <2>2 DEF Crash, CrashStore, Confirming
    <3>3. queued'[n] = queued[n] /\ acked'[n] = acked[n]
      BY <1>4, <2>2 DEF Crash, CrashStore, TypeOK
    <3> QED  BY <3>1, <3>2, <3>3 DEF ChannelInv
  <2> QED  BY <2>1, <2>2
<1>5. CASE UNCHANGED vars
  BY <1>2, <1>5
<1> QED  BY <1>1, <1>2, <1>3, <1>4, <1>5 DEF OpenNext, StoreNext

-----------------------------------------------------------------------------
(* deliver_tx and the map *)

\* What is applied, and to what, when the map and the deliveries so far stay.
LEMMA StorageFrame ==
  ASSUME TypeOK, NEW n \in Node, DeliveryInv(n),
         storage'[n] = storage[n], received'[n] = received[n], task'[n] = task[n],
         Len(delivered'[n]) \in Nat, Len(delivered[n]) <= Len(delivered'[n]),
         \A i \in 1..Len(delivered[n]) : delivered'[n][i] = delivered[n][i]
  PROVE  /\ DeliveryInv(n)'
         /\ (\A key \in Key : storage[n][key] = ValueAfter(delivered[n], AppliedCount(n), key))
            => \A key \in Key :
                 storage'[n][key] = ValueAfter(delivered'[n], AppliedCount(n)', key)
<1>1. received[n] \in Nat /\ Len(delivered[n]) \in Nat
  BY DEF TypeOK
<1>2. received[n] > 0 => delivered'[n][received[n]] = delivered[n][received[n]]
  BY <1>1 DEF DeliveryInv
<1>3. DeliveryInv(n)'
  BY <1>1, <1>2 DEF DeliveryInv
<1>4. AppliedCount(n)' = AppliedCount(n)
  BY DEF AppliedCount
<1>5. AppliedCount(n) \in Nat /\ AppliedCount(n) <= Len(delivered[n])
  BY <1>1 DEF AppliedCount, DeliveryInv
<1>6. \A key \in Key :
        ValueAfter(delivered'[n], AppliedCount(n), key)
          = ValueAfter(delivered[n], AppliedCount(n), key)
  <2> SUFFICES ASSUME NEW key \in Key
               PROVE  ValueAfter(delivered'[n], AppliedCount(n), key)
                        = ValueAfter(delivered[n], AppliedCount(n), key)
    OBVIOUS
  <2>1. PICK k \in Nat : k = AppliedCount(n) /\ k <= Len(delivered[n])
    BY <1>5
  <2>2. \A i \in 1..k : delivered'[n][i] = delivered[n][i]
    BY <1>1, <2>1
  <2>3. ValueAfter(delivered'[n], k, key) = ValueAfter(delivered[n], k, key)
    BY <2>2, ValueOfPrefix
  <2> QED  BY <2>1, <2>3
<1> QED  BY <1>3, <1>4, <1>6

StorageOf(n) ==
  \A key \in Key : storage[n][key] = ValueAfter(delivered[n], AppliedCount(n), key)

LEMMA StorageUnchanged ==
  ASSUME TypeOK, NEW n \in Node, DeliveryInv(n), StorageOf(n),
         storage'[n] = storage[n], received'[n] = received[n], task'[n] = task[n],
         delivered'[n] = delivered[n]
  PROVE  DeliveryInv(n)' /\ StorageOf(n)'
<1>1. Len(delivered[n]) \in Nat /\ Len(delivered'[n]) = Len(delivered[n])
  BY LenProperties DEF TypeOK
<1>2. Len(delivered[n]) <= Len(delivered'[n])
  BY <1>1
<1> QED  BY <1>1, <1>2, StorageFrame, Zenon DEF StorageOf

LEMMA TakeDeliveryKeepsStorage ==
  ASSUME TypeOK, NEW n \in Node, DeliveryInv(n), StorageOf(n), TakeDelivery(n)
  PROVE  DeliveryInv(n)' /\ StorageOf(n)'
<1> USE DEF TypeOK
<1>1. received[n] \in Nat /\ Len(delivered[n]) \in Nat
  OBVIOUS
<1>2. /\ received'[n] = received[n] + 1 /\ delivered' = delivered /\ storage' = storage
      /\ task[n] = Idle /\ task'[n] = Applying(delivered[n][received[n] + 1].value)
      /\ received[n] < Len(delivered[n])
  BY DEF TakeDelivery
<1>3. DeliveryInv(n)'
  BY <1>1, <1>2 DEF DeliveryInv, Applying
<1>4. AppliedCount(n) = received[n] /\ AppliedCount(n)' = received[n]
  BY <1>1, <1>2 DEF AppliedCount, Idle, Applying
<1>5. StorageOf(n)'
  BY <1>2, <1>4 DEF StorageOf
<1> QED  BY <1>3, <1>5

\* The one step that changes the map: one delivery more has been applied.
LEMMA ApplyKeepsStorage ==
  ASSUME TypeOK, NEW n \in Node, DeliveryInv(n), StorageOf(n), Apply(n)
  PROVE  DeliveryInv(n)' /\ StorageOf(n)'
<1> USE DEF TypeOK
<1> DEFINE k == received[n] - 1
           e == delivered[n][received[n]].value
<1>1. /\ received[n] \in Nat /\ received[n] > 0 /\ task[n].op = e
      /\ received[n] <= Len(delivered[n])
  BY DEF Apply, DeliveryInv
<1>2. /\ received' = received /\ delivered' = delivered
      /\ storage'[n] = Applied(storage[n], e) /\ task'[n] = Idle
  BY <1>1 DEF Apply
<1>3. DeliveryInv(n)'
  BY <1>1, <1>2 DEF DeliveryInv, Idle
<1>4. AppliedCount(n) = k /\ AppliedCount(n)' = k + 1 /\ k \in Nat
  BY <1>1, <1>2 DEF Apply, AppliedCount, Idle
<1>5. k + 1 = received[n]
  BY <1>1
<1> HIDE DEF k
<1>6. ASSUME NEW key \in Key
      PROVE  storage'[n][key] = ValueAfter(delivered'[n], k + 1, key)
  <2>1. storage[n][key] = ValueAfter(delivered[n], k, key)
    BY <1>4 DEF StorageOf
  <2>2. e \in WriteOp
    <3>1. received[n] \in 1..Len(delivered[n])
      BY <1>1
    <3> QED  BY <3>1, ElementOfSeq, StoreAssumption
  <2>3. Applied(storage[n], e)[key] =
          IF e.key = key THEN IF e.op = "Set" THEN e.text ELSE Undefined
          ELSE storage[n][key]
    BY <2>2 DEF Applied
  <2>4. ValueAfter(delivered[n], k + 1, key) =
          IF e.key = key THEN IF e.op = "Set" THEN e.text ELSE Undefined
          ELSE ValueAfter(delivered[n], k, key)
    <3>1. PICK d : d = delivered[n] /\ e = d[k + 1].value
      BY <1>5
    <3>2. ValueAfter(d, k + 1, key) =
            IF d[k + 1].value.key = key
            THEN IF d[k + 1].value.op = "Set" THEN d[k + 1].value.text ELSE Undefined
            ELSE ValueAfter(d, k, key)
      BY <1>4, ValueOfNext, ZenonT(30)
    <3> HIDE DEF e
    <3> QED  BY <3>1, <3>2, ZenonT(30)
  <2> HIDE DEF e
  <2> QED  BY <1>2, <2>1, <2>3, <2>4
<1>7. StorageOf(n)'
  BY <1>4, <1>6 DEF StorageOf
<1> QED  BY <1>3, <1>7

LEMMA StorageKept ==
  ASSUME StoreInv, [OpenNext]_vars
  PROVE  \A n \in Node : DeliveryInv(n)' /\ StorageOf(n)'
<1> SUFFICES ASSUME NEW n \in Node PROVE DeliveryInv(n)' /\ StorageOf(n)'
  OBVIOUS
<1>1. TypeOK /\ DeliveryInv(n) /\ StorageOf(n)
  BY DEF StoreInv, StorageIsLastWrite, StorageOf
<1> USE DEF TypeOK
<1>2. ASSUME NEW c \in Client, Session(c) \/ User(c)
      PROVE  DeliveryInv(n)' /\ StorageOf(n)'
  BY <1>1, <1>2, SessionFrame, StorageUnchanged
<1>3. ASSUME NEW m \in Node, KvTask(m) PROVE DeliveryInv(n)' /\ StorageOf(n)'
  <2>1. CASE m # n
    BY <1>1, <1>3, <2>1, StorageUnchanged DEF KvTask, TakeCommand, TakeDelivery, Apply
  <2>2. CASE m = n /\ TakeDelivery(n)
    BY <1>1, <2>2, TakeDeliveryKeepsStorage
  <2>3. CASE m = n /\ Apply(n)
    BY <1>1, <2>3, ApplyKeepsStorage
  <2>4. CASE m = n /\ TakeCommand(n)
    <3>1. task[n].doing # "apply" /\ task'[n].doing # "apply"
      BY <2>4 DEF TakeCommand, Idle, Appending
    <3>2. /\ storage'[n] = storage[n] /\ received'[n] = received[n]
          /\ delivered'[n] = delivered[n]
      BY <2>4 DEF TakeCommand
    <3> QED  BY <1>1, <3>1, <3>2 DEF DeliveryInv, StorageOf, AppliedCount
  <2> QED  BY <1>3, <2>1, <2>2, <2>3, <2>4 DEF KvTask
<1>4. ASSUME NEW m \in Node, AppendReturns(m), UNCHANGED raftvars
      PROVE  DeliveryInv(n)' /\ StorageOf(n)'
  <2>1. CASE m # n
    BY <1>1, <1>4, <2>1, StorageUnchanged DEF AppendReturns
  <2>2. CASE m = n
    <3>1. task[n].doing # "apply" /\ task'[n].doing # "apply"
      BY <1>4, <2>2 DEF AppendReturns, Idle
    <3>2. /\ storage'[n] = storage[n] /\ received'[n] = received[n]
          /\ delivered'[n] = delivered[n]
      BY <1>4 DEF AppendReturns
    <3> QED  BY <1>1, <3>1, <3>2 DEF DeliveryInv, StorageOf, AppliedCount
  <2> QED  BY <2>1, <2>2
<1>5. ASSUME NEW m \in Node, RaftFlags(m) PROVE DeliveryInv(n)' /\ StorageOf(n)'
  BY <1>1, <1>5, StorageUnchanged DEF RaftFlags
<1>6. ASSUME NEW m \in Node, RaftExtends(m) PROVE DeliveryInv(n)' /\ StorageOf(n)'
  <2>1. CASE m # n
    BY <1>1, <1>6, <2>1, StorageUnchanged DEF RaftExtends
  <2>2. CASE m = n
    <3>1. /\ storage'[n] = storage[n] /\ received'[n] = received[n] /\ task'[n] = task[n]
          /\ delivered'[n] \in Seq(Entry) /\ Len(delivered[n]) <= Len(delivered'[n])
          /\ delivered[n] = SubSeq(delivered'[n], 1, Len(delivered[n]))
      BY <1>6, <2>2 DEF RaftExtends
    <3>2. \A i \in 1..Len(delivered[n]) : delivered'[n][i] = delivered[n][i]
      <4>1. Len(delivered[n]) \in Nat /\ Len(delivered'[n]) \in Nat
        BY <1>1, <3>1, LenProperties
      <4>2. \A i \in 1..Len(delivered[n]) : delivered'[n][i] \in Entry
        BY <3>1, <4>1, ElementOfSeq
      <4> QED  BY <3>1, <4>1, <4>2, SubSeqProperties
    <3> QED  BY <1>1, <3>1, <3>2, LenProperties, StorageFrame DEF StorageOf
  <2> QED  BY <2>1, <2>2
<1>7. ASSUME NEW m \in Node, Crash(m) PROVE DeliveryInv(n)' /\ StorageOf(n)'
  <2>1. CASE m # n
    BY <1>1, <1>7, <2>1, StorageUnchanged DEF Crash, CrashStore
  <2>2. CASE m = n
    <3>1. /\ delivered'[n] = <<>> /\ received'[n] = 0 /\ storage'[n] = EmptyMap
          /\ task'[n] = Idle
      BY <1>1, <1>7, <2>2 DEF Crash, CrashStore
    <3>2. AppliedCount(n)' = 0
      BY <3>1 DEF AppliedCount, Idle
    <3>3. StorageOf(n)'
      BY <3>1, <3>2, ValueAtStart DEF StorageOf, EmptyMap
    <3> QED  BY <3>1, <3>3, EmptySeq DEF DeliveryInv, Idle
  <2> QED  BY <2>1, <2>2
<1>8. CASE UNCHANGED vars
  BY <1>1, <1>8, StorageUnchanged
<1> QED  BY <1>2, <1>3, <1>4, <1>5, <1>6, <1>7, <1>8 DEF OpenNext, StoreNext

-----------------------------------------------------------------------------
(* The value that is on its way *)

Answered(c) == phase[c] = "value" => value[c] = storage[at[c]][asked[c].key]

LEMMA AnswersKept ==
  ASSUME StoreInv, [OpenNext]_vars
  PROVE  \A d \in Client : Answered(d)'
<1> SUFFICES ASSUME NEW d \in Client PROVE Answered(d)'
  OBVIOUS
<1>1. TypeOK /\ SessionInv(d) /\ Answered(d)
  BY DEF StoreInv, AnswerStillTrue, Answered
<1> USE DEF TypeOK
<1>2. ASSUME NEW c \in Client, Session(c) \/ User(c) PROVE Answered(d)'
  <2>1. storage' = storage
    BY <1>1, <1>2, SessionFrame
  <2>2. CASE c # d
    BY <1>1, <1>2, <2>1, <2>2, SessionFrame DEF Answered
  <2>3. CASE c = d /\ ReadStorage(c)
    BY <1>1, <2>1, <2>3 DEF ReadStorage, Answered, Proceed
  <2>4. CASE c = d /\ Leave(c)
    BY <1>1, <2>1, <2>4 DEF Leave, Answered
  <2>5. CASE c = d /\ ~ReadStorage(c) /\ ~Leave(c)
    <3>1. phase'[d] # "value"
      BY <1>1, <1>2, <2>5 DEF Session, User, CheckLeader, Enqueue, AnswerValue, AnswerOk,
           AnswerError, Close, Connect, Ask, Proceed, ReadNext, EndSession
    <3> QED  BY <3>1 DEF Answered
  <2> QED  BY <2>2, <2>3, <2>4, <2>5
<1>3. CASE UNCHANGED <<session, storage>>
  BY <1>1, <1>3 DEF Answered
<1>4. ASSUME NEW m \in Node, KvTask(m) PROVE Answered(d)'
  <2>1. CASE Apply(m)
    <3>1. UNCHANGED session /\ storage' = [storage EXCEPT ![m] = Applied(@, task[m].op)]
      BY <2>1 DEF Apply
    <3>2. CASE phase[d] = "value"
      <4>1. at[d] # m /\ at[d] \in Node
        BY <1>1, <2>1, <3>2 DEF Apply, StorageFree, SessionInv
      <4> QED  BY <1>1, <3>1, <4>1 DEF Answered
    <3>3. CASE phase[d] # "value"
      BY <3>1, <3>3 DEF Answered
    <3> QED  BY <3>2, <3>3
  <2>2. CASE TakeCommand(m) \/ TakeDelivery(m)
    BY <1>3, <2>2 DEF TakeCommand, TakeDelivery
  <2> QED  BY <1>4, <2>1, <2>2 DEF KvTask
<1>5. ASSUME NEW m \in Node, AppendReturns(m) \/ RaftFlags(m) \/ RaftExtends(m)
      PROVE  Answered(d)'
  BY <1>3, <1>5 DEF AppendReturns, RaftFlags, RaftExtends
<1>6. ASSUME NEW m \in Node, Crash(m) PROVE Answered(d)'
  <2>1. CASE at[d] = m
    BY <1>6, <2>1 DEF Crash, CrashStore, Answered
  <2>2. CASE at[d] # m
    <3>1. /\ at'[d] = at[d] /\ phase'[d] = phase[d] /\ asked'[d] = asked[d]
          /\ value'[d] = value[d]
      BY <1>6, <2>2 DEF Crash, CrashStore
    <3>2. phase[d] = "value" => storage'[at[d]] = storage[at[d]]
      BY <1>1, <1>6, <2>2 DEF Crash, CrashStore, SessionInv
    <3> QED  BY <1>1, <3>1, <3>2 DEF Answered
  <2> QED  BY <2>1, <2>2
<1>7. CASE UNCHANGED vars
  BY <1>3, <1>7
<1> QED  BY <1>2, <1>4, <1>5, <1>6, <1>7 DEF OpenNext, StoreNext

-----------------------------------------------------------------------------
(* All together *)

LEMMA StoreInvAtStart == Init => StoreInv
<1> SUFFICES ASSUME Init PROVE StoreInv
  OBVIOUS
<1>1. \A c \in Client : SessionInv(c)
  BY DEF Init, SessionInv
<1>2. \A n \in Node : ChannelInv(n)
  BY DEF Init, ChannelInv, Confirming
<1>3. \A n \in Node : DeliveryInv(n)
  BY EmptySeq DEF Init, DeliveryInv, Idle
<1>4. StorageIsLastWrite
  BY ValueAtStart DEF Init, StorageIsLastWrite, AppliedCount, Idle, EmptyMap
<1>5. AnswerStillTrue
  BY DEF Init, AnswerStillTrue
<1> QED  BY <1>1, <1>2, <1>3, <1>4, <1>5, InitialTypes DEF StoreInv

LEMMA StoreInvKept == StoreInv /\ [OpenNext]_vars => StoreInv'
<1> SUFFICES ASSUME StoreInv, [OpenNext]_vars PROVE StoreInv'
  OBVIOUS
<1>1. TypeOK'
  <2>1. TypeOK /\ (\A c \in Client : SessionInv(c)) /\ \A n \in Node : DeliveryInv(n)
    BY DEF StoreInv
  <2>2. ASSUME NEW n \in Node, Crash(n) PROVE TypeOK'
    BY <2>1, <2>2, EmptySeq, CrashTypes DEF Crash, TypeOK
  <2>3. CASE UNCHANGED vars
    BY <2>1, <2>3 DEF TypeOK
  <2> QED
    BY <2>1, <2>2, <2>3, SessionTypes, UserTypes, KvTaskTypes, RaftTypes DEF OpenNext, StoreNext
<1>2. \A c \in Client : SessionInv(c)'
  BY SessionsKept DEF StoreInv
<1>3. \A n \in Node : ChannelInv(n)'
  BY ChannelsKept
<1>4. (\A n \in Node : DeliveryInv(n)') /\ StorageIsLastWrite'
  BY StorageKept DEF StorageOf, StorageIsLastWrite
<1>5. AnswerStillTrue'
  BY AnswersKept DEF Answered, AnswerStillTrue
<1> QED  BY <1>1, <1>2, <1>3, <1>4, <1>5 DEF StoreInv

LEMMA StoreInvHolds == OpenSpec => []StoreInv
BY StoreInvAtStart, StoreInvKept, PTL DEF OpenSpec

\* KvStore as TLC explores it is one of the systems that OpenSpec stands for.
LEMMA BoundedStepIsOpen ==
  ASSUME StoreInv, [Next]_vars
  PROVE  [OpenNext]_vars
<1>1. ASSUME NEW n \in Node, RaftDelivers(n) PROVE RaftExtends(n)
  <2>1. PICK k \in 1..(MaxDelivered - Len(delivered[n])) : \E s \in [1..k -> Entry] :
          delivered' = [delivered EXCEPT ![n] = @ \o s]
    BY <1>1 DEF RaftDelivers
  <2>2. PICK s \in [1..k -> Entry] : delivered' = [delivered EXCEPT ![n] = @ \o s]
    BY <2>1
  <2>3. delivered[n] \in Seq(Entry) /\ delivered'[n] = delivered[n] \o s
    BY <2>2 DEF StoreInv, TypeOK
  <2>4. s \in Seq(Entry)
    BY SeqDef
  <2>5. PICK old \in Seq(Entry) : old = delivered[n]
    BY <2>3
  <2>6. /\ old \o s \in Seq(Entry) /\ Len(old) \in Nat /\ Len(s) \in Nat
        /\ Len(old \o s) = Len(old) + Len(s)
        /\ \A i \in 1..Len(old) + Len(s) :
             (old \o s)[i] = IF i <= Len(old) THEN old[i] ELSE s[i - Len(old)]
    BY <2>4, <2>5, ConcatProperties, LenProperties
  <2>7. SubSeq(old \o s, 1, Len(old)) = old
    <3>1. \A i \in 1..Len(old) : (old \o s)[i] = old[i] /\ old[i] \in Entry
      BY <2>6, ElementOfSeq
    <3>2. /\ SubSeq(old \o s, 1, Len(old)) \in Seq(Entry)
          /\ Len(SubSeq(old \o s, 1, Len(old))) = Len(old)
          /\ \A i \in 1..Len(old) : SubSeq(old \o s, 1, Len(old))[i] = old[i]
      BY <2>6, <3>1, SubSeqProperties
    <3> QED  BY <3>2, SeqEqual
  <2>8. delivered' = [delivered EXCEPT ![n] = delivered'[n]]
    BY <2>2 DEF StoreInv, TypeOK
  <2>9. delivered'[n] \in Seq(Entry) /\ SubSeq(delivered'[n], 1, Len(delivered[n])) = delivered[n]
    BY <2>3, <2>5, <2>6, <2>7
  <2>10. Len(delivered[n]) <= Len(delivered'[n])
    <3>1. Len(old) <= Len(old \o s)
      BY <2>6
    <3> QED  BY <2>3, <2>5, <3>1
  <2> QED  BY <1>1, <2>8, <2>9, <2>10 DEF RaftDelivers, RaftExtends
<1> QED  BY <1>1 DEF Next, OpenNext

\* So what holds in OpenSpec holds in every run of the bounded model.
LEMMA SpecIsOpen == Spec => OpenSpec
<1>1. StoreInv /\ [Next]_vars => StoreInv'
  BY BoundedStepIsOpen, StoreInvKept
<1>2. StoreInv /\ [Next]_vars => [OpenNext]_vars
  BY BoundedStepIsOpen
<1> QED  BY StoreInvAtStart, <1>1, <1>2, PTL DEF Spec, OpenSpec

LEMMA StoreInvAlways == Spec \/ OpenSpec => []StoreInv
BY StoreInvHolds, SpecIsOpen, PTL

\* Every variable keeps its type: handle_cmd is never sent a Get, append_entry
\* only what a client has asked for, whatever clients send and raft delivers.
THEOREM StoreTypeCorrect == Spec \/ OpenSpec => []TypeOK
<1>1. StoreInv => TypeOK
  BY DEF StoreInv
<1> QED  BY <1>1, StoreInvAlways, PTL

\* The map of each node is exactly what its deliveries say, up to the one being
\* applied: for any number of entries, sessions and restarts, every delivery is
\* applied once and in order, whatever select! takes in between.
THEOREM StorageFollowsDeliveries == Spec \/ OpenSpec => []StorageIsLastWrite
<1>1. StoreInv => StorageIsLastWrite
  BY DEF StoreInv
<1> QED  BY <1>1, StoreInvAlways, PTL

\* While a client reads the value of its Get, the key keeps that value: no
\* delivery gets between the look at the map and the answer.
THEOREM AnswerNeverStale == Spec \/ OpenSpec => []AnswerStillTrue
<1>1. StoreInv => AnswerStillTrue
  BY DEF StoreInv
<1> QED  BY <1>1, StoreInvAlways, PTL

\* Of any number of sessions of a node, one at a time stands between the channel
\* and its "OK.", so commands are acknowledged in the order in which they are sent
\* to raft.
THEOREM AcksFollowChannel == Spec \/ OpenSpec => []AcksInOrder
<1>1. StoreInv => AcksInOrder
  <2> SUFFICES ASSUME StoreInv, NEW n \in Node
               PROVE  /\ Len(queued[n]) \in {Len(acked[n]), Len(acked[n]) + 1}
                      /\ acked[n] = SubSeq(queued[n], 1, Len(acked[n]))
    BY DEF AcksInOrder
  <2>1. PICK old \in Seq(Sent) : old = acked[n]
    BY DEF StoreInv, TypeOK
  <2>2. queued[n] \in Seq(Sent) /\ Len(old) \in Nat
    BY LenProperties DEF StoreInv, TypeOK
  <2>3. CASE queued[n] = old
    BY <2>1, <2>3, SubSeqFull
  <2>4. ASSUME NEW c \in Client, queued[n] = Append(old, [from |-> c, op |-> asked[c]])
        PROVE  Len(queued[n]) = Len(old) + 1 /\ SubSeq(queued[n], 1, Len(old)) = old
    <3>1. PICK all \in Seq(Sent) : all = queued[n]
      BY <2>2
    <3>2. /\ Len(all) = Len(old) + 1
          /\ \A i \in 1..Len(old) : all[i] = old[i] /\ old[i] \in Sent
      BY <2>4, <3>1, ElementOfSeq
    <3>3. SubSeq(all, 1, Len(old)) = old
      <4>1. /\ SubSeq(all, 1, Len(old)) \in Seq(Sent)
            /\ Len(SubSeq(all, 1, Len(old))) = Len(old)
            /\ \A i \in 1..Len(old) : SubSeq(all, 1, Len(old))[i] = old[i]
        BY <2>2, <3>2, SubSeqProperties
      <4> QED  BY <4>1, SeqEqual
    <3> QED  BY <3>1, <3>2, <3>3
  <2>5. ChannelInv(n)
    BY DEF StoreInv
  <2> QED  BY <2>1, <2>3, <2>4, <2>5 DEF ChannelInv, Confirming
<1> QED  BY <1>1, StoreInvAlways, PTL
=============================================================================
