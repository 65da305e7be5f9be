------------------------------- MODULE KvStore -------------------------------
(***************************************************************************)
(* The key-value store of each node: the sessions of its clients           *)
(* (handle_client, one task for each connection), the KV task              *)
(* (generic_handler_interface), the two channels and two locks between     *)
(* them.  What raft does to the store is left open: it raises and lowers   *)
(* is_leader and sends entries down deliver_tx as it likes.  KvCluster     *)
(* puts Raft in its place.                                                 *)
(*                                                                         *)
(* A channel is the sequence of all that was sent and an index into it, so *)
(* that properties can speak of what has been received.  An await on a     *)
(* lock, a channel or a socket ends an action.  A lock is held by whoever  *)
(* is at a place where the code holds it: a Get keeps the storage lock,    *)
(* and a write the lock of client_tx, until the client has the answer.     *)
(***************************************************************************)
EXTENDS KvHistory, Sequences, FiniteSets

CONSTANTS
  Node,         \* the machines
  Client,       \* the connections that clients open, one after the other each
  Key, Text,    \* keys and values of the map
  Command,      \* what clients send: operations as parse_command returns them
  Entry,        \* what raft delivers: records with the operation in .value
  NoNode,       \* no connection
  MaxQueued,    \* bound: commands for client_tx that a node is asked in all
  MaxDelivered  \* bound: entries that raft delivers to a node in all

SetOp == [op : {"Set"}, key : Key, text : Text]
DeleteOp == [op : {"Delete"}, key : Key]
GetOp == [op : {"Get"}, key : Key]
InvalidOp == [op : {"Invalid"}]
\* "set" with a key and nothing else: parse_command panics.
ShortOp == [op : {"Short"}]

WriteOp == SetOp \union DeleteOp
Operation == WriteOp \union GetOp \union InvalidOp

ASSUME StoreAssumption ==
  /\ NoNode \notin Node
  /\ Undefined \notin Text
  /\ Command \subseteq Operation \union ShortOp
  /\ \A e \in Entry : e.value \in WriteOp
  /\ MaxQueued \in Nat /\ MaxDelivered \in Nat

VARIABLES
  is_leader,    \* the flag that raft shares with the store
  delivered,    \* all that raft has sent down deliver_tx
  received,     \* how many of these the KV task has taken
  storage,      \* StorageLayer.map
  queued,       \* all that sessions have sent down client_tx, with the sender
  handled,      \* how many of these the KV task has taken
  task,         \* what the KV task is in the middle of
  at,           \* the node that a client is connected to
  phase,        \* how far its session is, or what it is writing to the client
  asked,        \* the command that its session works on
  value,        \* the value that is being written to it
  gone,         \* it has closed its end
  acked         \* the writes of queued that clients have an "OK." for

raftvars == <<is_leader, delivered>>
taskvars == <<received, storage, handled, task>>
session  == <<at, phase, asked, value, gone>>
storevars == <<received, storage, queued, handled, task, at, phase, asked,
               value, gone, acked>>
vars == <<is_leader, delivered, received, storage, queued, handled, task, at,
          phase, asked, value, gone, acked>>

-----------------------------------------------------------------------------
Idle == [doing |-> "nothing"]
Appending(op) == [doing |-> "append", op |-> op]
Applying(op) == [doing |-> "apply", op |-> op]

NoCommand == [op |-> "None"]

EmptyMap == [k \in Key |-> Undefined]

\* Mutant of StorageFree: the guard is dropped before the value is written.
StorageNotHeld(n) == TRUE

\* handle_client holds the guard of the StorageLayer while it writes a value.
StorageFree(n) == \A c \in Client : at[c] = n => phase[c] # "value"

\* Mutant of SenderFree: the guard is dropped before "OK." is written.
SenderNotHeld(n) == TRUE

\* Mutant of SenderFree: a session that has been told "OK." keeps the guard.
SenderKept(n) ==
  \A c \in Client :
    at[c] = n => phase[c] # "ok" /\ \A i \in 1..Len(acked[n]) : acked[n][i].from # c

\* It holds the guard of client_tx while it writes "OK.".
SenderFree(n) == \A c \in Client : at[c] = n => phase[c] # "ok"

\* Mutant of Applied: a Delete is left out.
AppliedWithoutDelete(map, op) ==
  IF op.op = "Set" THEN [map EXCEPT ![op.key] = op.text] ELSE map

\* KVStore::apply, with StorageLayer::set and StorageLayer::delete.
Applied(map, op) ==
  [map EXCEPT ![op.key] = IF op.op = "Set" THEN op.text ELSE Undefined]

-----------------------------------------------------------------------------
Init ==
  /\ is_leader = [n \in Node |-> FALSE]
  /\ delivered = [n \in Node |-> <<>>]
  /\ received = [n \in Node |-> 0]
  /\ storage = [n \in Node |-> EmptyMap]
  /\ queued = [n \in Node |-> <<>>]
  /\ handled = [n \in Node |-> 0]
  /\ task = [n \in Node |-> Idle]
  /\ at = [c \in Client |-> NoNode]
  /\ phase = [c \in Client |-> "closed"]
  /\ asked = [c \in Client |-> NoCommand]
  /\ value = [c \in Client |-> Undefined]
  /\ gone = [c \in Client |-> FALSE]
  /\ acked = [n \in Node |-> <<>>]

-----------------------------------------------------------------------------
(* A client and its session.  A client sends its next command when it has  *)
(* the answer to the last one, as quaso-cli does.                          *)

Proceed(c, p) == phase' = [phase EXCEPT ![c] = p]

\* The buffer and the value are locals of the loop's body.
Forget(c) ==
  /\ asked' = [asked EXCEPT ![c] = NoCommand]
  /\ value' = [value EXCEPT ![c] = Undefined]

ReadNext(c) == Proceed(c, "reading") /\ Forget(c) /\ UNCHANGED <<at, gone>>

EndSession(c) ==
  /\ at' = [at EXCEPT ![c] = NoNode]
  /\ Proceed(c, "closed")
  /\ Forget(c)
  /\ gone' = [gone EXCEPT ![c] = FALSE]

\* main accepts, writes its greeting, and spawns the session.
Connect(c, n) ==
  /\ phase[c] = "closed"
  /\ at' = [at EXCEPT ![c] = n]
  /\ Proceed(c, "reading")
  /\ UNCHANGED <<raftvars, taskvars, queued, acked, asked, value, gone>>

\* The sessions of n that may yet send something down client_tx.
Writing(n) ==
  {c \in Client : at[c] = n /\ phase[c] \in {"asked", "allowed"} /\ asked[c] \notin GetOp}

\* A command is read and parsed.  Where parse_command panics the task is gone,
\* and the connection with it.
Ask(c, cmd) ==
  /\ phase[c] = "reading" /\ ~gone[c]
  /\ \/ cmd \in GetOp \union ShortOp
     \/ Len(queued[at[c]]) + Cardinality(Writing(at[c])) < MaxQueued
  /\ IF cmd \in ShortOp
     THEN EndSession(c)
     ELSE /\ Proceed(c, "asked")
          /\ asked' = [asked EXCEPT ![c] = cmd]
          /\ UNCHANGED <<at, value, gone>>
  /\ UNCHANGED <<raftvars, taskvars, queued, acked>>

\* A Get looks at the map of its own node, without the KV task and without raft.
ReadStorage(c) ==
  /\ phase[c] = "asked" /\ asked[c] \in GetOp
  /\ StorageFree(at[c])
  /\ Proceed(c, "value")
  /\ value' = [value EXCEPT ![c] = storage[at[c]][asked[c].key]]
  /\ UNCHANGED <<raftvars, taskvars, queued, acked, at, asked, gone>>

\* Mutant of CheckLeader: a Get may go down the channel too.
CheckLeaderOfAll(c) ==
  /\ phase[c] = "asked"
  /\ Proceed(c, IF is_leader[at[c]] THEN "allowed" ELSE "refused")
  /\ UNCHANGED <<raftvars, taskvars, queued, acked, at, asked, value, gone>>

\* Mutant of CheckLeader: the flag is not looked at.
CheckNothing(c) ==
  /\ phase[c] = "asked" /\ asked[c] \notin GetOp
  /\ Proceed(c, "allowed")
  /\ UNCHANGED <<raftvars, taskvars, queued, acked, at, asked, value, gone>>

\* Everything else, an Invalid too, goes by the flag.
CheckLeader(c) ==
  /\ phase[c] = "asked" /\ asked[c] \notin GetOp
  /\ Proceed(c, IF is_leader[at[c]] THEN "allowed" ELSE "refused")
  /\ UNCHANGED <<raftvars, taskvars, queued, acked, at, asked, value, gone>>

\* The flag is not looked at again: what it was is enough.
Enqueue(c) ==
  /\ phase[c] = "allowed"
  /\ SenderFree(at[c])
  /\ Proceed(c, "ok")
  /\ queued' = [queued EXCEPT ![at[c]] =
                  Append(@, [from |-> c, op |-> asked[c]])]
  /\ UNCHANGED <<raftvars, taskvars, acked, at, asked, value, gone>>

\* The client takes the value, and the storage lock is dropped.  If the client is
\* gone the write may fail and panic (unwrap), which drops the lock as well.
AnswerValue(c) ==
  /\ phase[c] = "value"
  /\ ReadNext(c) \/ (gone[c] /\ EndSession(c))
  /\ UNCHANGED <<raftvars, taskvars, queued, acked>>

\* The client takes the "OK.", and the lock of client_tx is dropped.  A failed
\* write goes unnoticed.
AnswerOk(c) ==
  /\ phase[c] = "ok"
  /\ ReadNext(c)
  /\ acked' = [acked EXCEPT ![at[c]] = Append(@, [from |-> c, op |-> asked[c]])]
  /\ UNCHANGED <<raftvars, taskvars, queued>>

\* "ERR. Not Leader"
AnswerError(c) ==
  /\ phase[c] = "refused"
  /\ ReadNext(c)
  /\ UNCHANGED <<raftvars, taskvars, queued, acked>>

\* A client closes its end whenever it likes.
Leave(c) ==
  /\ phase[c] # "closed" /\ ~gone[c]
  /\ gone' = [gone EXCEPT ![c] = TRUE]
  /\ UNCHANGED <<raftvars, taskvars, queued, acked, at, phase, asked, value>>

\* The session reads an end of file.
Close(c) ==
  /\ phase[c] = "reading" /\ gone[c]
  /\ EndSession(c)
  /\ UNCHANGED <<raftvars, taskvars, queued, acked>>

-----------------------------------------------------------------------------
(* The KV task: select! takes from either channel. *)

\* handle_cmd: a Set or a Delete goes to append_entry, an Invalid nowhere.
TakeCommand(n) ==
  /\ task[n] = Idle
  /\ handled[n] < Len(queued[n])
  /\ handled' = [handled EXCEPT ![n] = @ + 1]
  /\ LET op == queued[n][handled[n] + 1].op
     IN  task' = [task EXCEPT ![n] =
                    IF op \in WriteOp THEN Appending(op) ELSE Idle]
  /\ UNCHANGED <<is_leader, delivered, received, storage, queued, session, acked>>

\* append_entry returns: the entry is in raft's log, or dropped.
AppendReturns(n) ==
  /\ task[n].doing = "append"
  /\ task' = [task EXCEPT ![n] = Idle]
  /\ UNCHANGED <<received, storage, queued, handled, session, acked>>

TakeDelivery(n) ==
  /\ task[n] = Idle
  /\ received[n] < Len(delivered[n])
  /\ received' = [received EXCEPT ![n] = @ + 1]
  /\ task' = [task EXCEPT ![n] = Applying(delivered[n][received[n] + 1].value)]
  /\ UNCHANGED <<is_leader, delivered, storage, queued, handled, session, acked>>

\* Mutant of Apply: what remove returns is unwrapped.
ApplyUnwraps(n) ==
  /\ task[n].doing = "apply"
  /\ StorageFree(n)
  /\ storage' = [storage EXCEPT ![n] = Applied(@, task[n].op)]
  /\ task' = [task EXCEPT ![n] =
                 IF task[n].op \in DeleteOp /\ storage[n][task[n].op.key] = Undefined
                 THEN [doing |-> "dead"] ELSE Idle]
  /\ UNCHANGED <<is_leader, delivered, received, queued, handled, session, acked>>

Apply(n) ==
  /\ task[n].doing = "apply"
  /\ StorageFree(n)
  /\ storage' = [storage EXCEPT ![n] = Applied(@, task[n].op)]
  /\ task' = [task EXCEPT ![n] = Idle]
  /\ UNCHANGED <<is_leader, delivered, received, queued, handled, session, acked>>

-----------------------------------------------------------------------------
(* The process ends, and with it the map, the channels and the sessions.   *)
(* A restarted node begins with an empty map; raft delivers anew.          *)

CrashStore(n) ==
  /\ received' = [received EXCEPT ![n] = 0]
  /\ storage' = [storage EXCEPT ![n] = EmptyMap]
  /\ queued' = [queued EXCEPT ![n] = <<>>]
  /\ handled' = [handled EXCEPT ![n] = 0]
  /\ task' = [task EXCEPT ![n] = Idle]
  /\ acked' = [acked EXCEPT ![n] = <<>>]
  /\ at' = [c \in Client |-> IF at[c] = n THEN NoNode ELSE at[c]]
  /\ phase' = [c \in Client |-> IF at[c] = n THEN "closed" ELSE phase[c]]
  /\ asked' = [c \in Client |-> IF at[c] = n THEN NoCommand ELSE asked[c]]
  /\ value' = [c \in Client |-> IF at[c] = n THEN Undefined ELSE value[c]]
  /\ gone' = [c \in Client |-> IF at[c] = n THEN FALSE ELSE gone[c]]

-----------------------------------------------------------------------------
(* Raft, as far as the store can tell. *)

RaftFlags(n) ==
  /\ \E b \in BOOLEAN : is_leader' = [is_leader EXCEPT ![n] = b]
  /\ UNCHANGED <<delivered, storevars>>

RaftDelivers(n) ==
  /\ \E k \in 1..(MaxDelivered - Len(delivered[n])) : \E s \in [1..k -> Entry] :
       delivered' = [delivered EXCEPT ![n] = @ \o s]
  /\ UNCHANGED <<is_leader, storevars>>

\* RaftDelivers for any number of entries.
RaftExtends(n) ==
  /\ delivered'[n] \in Seq(Entry)
  /\ Len(delivered[n]) <= Len(delivered'[n])
  /\ SubSeq(delivered'[n], 1, Len(delivered[n])) = delivered[n]
  /\ delivered' = [delivered EXCEPT ![n] = delivered'[n]]
  /\ UNCHANGED <<is_leader, storevars>>

Crash(n) ==
  /\ is_leader' = [is_leader EXCEPT ![n] = FALSE]
  /\ delivered' = [delivered EXCEPT ![n] = <<>>]
  /\ CrashStore(n)

-----------------------------------------------------------------------------
Session(c) ==
  \/ ReadStorage(c) \/ CheckLeader(c) \/ Enqueue(c)
  \/ AnswerValue(c) \/ AnswerOk(c) \/ AnswerError(c) \/ Close(c)

User(c) ==
  \/ \E n \in Node : Connect(c, n)
  \/ \E cmd \in Command : Ask(c, cmd)
  \/ Leave(c)

KvTask(n) == TakeCommand(n) \/ TakeDelivery(n) \/ Apply(n)

StoreNext ==
  \/ \E c \in Client : Session(c) \/ User(c)
  \/ \E n \in Node :
       \/ KvTask(n)
       \/ AppendReturns(n) /\ UNCHANGED raftvars
       \/ RaftFlags(n) \/ Crash(n)

Next == StoreNext \/ \E n \in Node : RaftDelivers(n)

Spec == Init /\ [][Next]_vars

\* The same with no bound on what raft delivers: what any raft has to keep to.
OpenNext == StoreNext \/ \E n \in Node : RaftExtends(n)

OpenSpec == Init /\ [][OpenNext]_vars

\* Tokio polls what can run, its mutexes serve in the order of asking, and
\* select! picks at random: what may go on again and again goes on, a session up
\* to where it waits for its client, and the KV task with what raft delivers.
\* append_entry returns if raft lets it.  Nothing is assumed of users or of raft.
Proceeds(c) ==
  ReadStorage(c) \/ CheckLeader(c) \/ Enqueue(c) \/ AnswerError(c) \/ Close(c)

FairSpec ==
  /\ Spec
  /\ \A n \in Node : SF_vars(TakeDelivery(n) \/ Apply(n))
  /\ \A c \in Client : SF_vars(Proceeds(c))
=============================================================================
