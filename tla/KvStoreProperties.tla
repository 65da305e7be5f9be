-------------------------- MODULE KvStoreProperties --------------------------
(***************************************************************************)
(* What the store of a node should do and not do, whatever raft does to it *)
(* and whatever its clients send.                                          *)
(***************************************************************************)
EXTENDS KvStore

-----------------------------------------------------------------------------
Phases == {"closed", "reading", "asked", "allowed", "refused", "value", "ok"}
Sent == [from : Client, op : Command \intersect (WriteOp \union InvalidOp)]
Tasks == {Idle} \union [doing : {"append"}, op : Command \intersect WriteOp]
                \union [doing : {"apply"}, op : WriteOp]

\* Every variable holds a value of the Rust type it stands for; no Get is ever
\* sent down client_tx, so that handle_cmd has none to answer, and nothing goes to
\* append_entry that no client has sent.
TypeOK ==
  /\ is_leader \in [Node -> BOOLEAN]
  /\ delivered \in [Node -> Seq(Entry)]
  /\ received \in [Node -> Nat]
  /\ storage \in [Node -> [Key -> Text \union {Undefined}]]
  /\ queued \in [Node -> Seq(Sent)]
  /\ handled \in [Node -> Nat]
  /\ task \in [Node -> Tasks]
  /\ at \in [Client -> Node \union {NoNode}]
  /\ phase \in [Client -> Phases]
  /\ asked \in [Client -> Command \union {NoCommand}]
  /\ value \in [Client -> Text \union {Undefined}]
  /\ gone \in [Client -> BOOLEAN]
  /\ acked \in [Node -> Seq(Sent)]

-----------------------------------------------------------------------------
\* How many deliveries have reached the map: not the one being applied.
AppliedCount(n) ==
  IF task[n].doing = "apply" THEN received[n] - 1 ELSE received[n]

\* The map of a node is what its deliveries say and nothing else: each is
\* applied once and in order, over waits for the lock, over commands that
\* select! takes in between, and over restarts, which begin with an empty map.
StorageIsLastWrite ==
  \A n \in Node : \A key \in Key :
    storage[n][key] = ValueAfter(delivered[n], AppliedCount(n), key)

\* Clients are told "OK." in the order in which their commands stand in the
\* channel, and at most one command stands there unanswered: handle_client
\* sends and answers under one hold of client_tx.
AcksInOrder ==
  \A n \in Node :
    /\ Len(queued[n]) \in {Len(acked[n]), Len(acked[n]) + 1}
    /\ acked[n] = SubSeq(queued[n], 1, Len(acked[n]))

\* The value that is on its way to a client is still the value in the map when
\* the client takes it, however slowly it reads.
AnswerStillTrue ==
  \A c \in Client :
    phase[c] = "value" => value[c] = storage[at[c]][asked[c].key]

\* The last three are not inductive.  What they rest on, for a client: its session
\* is at a node as long as there is one, and what it works on is what may come
\* this far.
SessionInv(c) ==
  /\ IF phase[c] = "closed" THEN at[c] = NoNode ELSE at[c] \in Node
  /\ phase[c] \in {"asked", "allowed", "ok"} => asked[c] \in Command \intersect Operation
  /\ phase[c] \in {"allowed", "ok"} => asked[c] \notin GetOp
  /\ phase[c] = "value" => asked[c] \in GetOp

\* The sessions of a node that are being told "OK.".
Confirming(n) == {c \in Client : at[c] = n /\ phase[c] = "ok"}

\* One at a time, and the last command of the channel is its own.
ChannelInv(n) ==
  \/ Confirming(n) = {} /\ queued[n] = acked[n]
  \/ \E c \in Confirming(n) :
       /\ Confirming(n) = {c}
       /\ queued[n] = Append(acked[n], [from |-> c, op |-> asked[c]])

\* What is being applied is the last delivery that has been received.
DeliveryInv(n) ==
  /\ received[n] <= Len(delivered[n])
  /\ task[n].doing = "apply" =>
       received[n] > 0 /\ task[n].op = delivered[n][received[n]].value

StoreInv ==
  /\ TypeOK
  /\ \A c \in Client : SessionInv(c)
  /\ \A n \in Node : ChannelInv(n) /\ DeliveryInv(n)
  /\ StorageIsLastWrite
  /\ AnswerStillTrue

-----------------------------------------------------------------------------
\* What is delivered reaches the map, unless the node restarts, whatever its
\* clients send, and although commands compete with deliveries in select!.  Two
\* things alone can hold it up: a client that does not take the value of its
\* Get, and an append_entry that waits for raft.
DeliveredIsApplied ==
  \A n \in Node :
    []<>StorageFree(n) /\ []<>(task[n].doing # "append") =>
      \A k \in 1..MaxDelivered :
        Len(delivered[n]) >= k ~> AppliedCount(n) >= k \/ Len(delivered[n]) < k

\* A command is answered or its connection closed, if the clients of the node
\* read what they are sent: no session waits for ever on a lock that another
\* one or the KV task holds.
Reading == \A c \in Client : []<>(phase[c] \notin {"value", "ok"})

AskedIsAnswered ==
  Reading =>
    \A c \in Client :
      phase[c] = "asked" ~> phase[c] \in {"reading", "closed"}
=============================================================================
