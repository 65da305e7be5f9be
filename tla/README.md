# quaso in TLA+

quaso is a Raft library in Rust (`src/raft`) with a replicated key-value store
as its example application (`src/kv`). This directory holds a TLA+ model of both,
translated from the code, the TLC runs that check it on small clusters, and
proofs for clusters of any size. Where the code breaks what one of its comments
promises, in a way that clients or the cluster suffer from, a run shows it.

To repeat a check: `tlc -config MCElections.cfg MCElections.tla` (section 3 names the
module of each `.cfg`); `tlapm RaftProofs.tla`, and so for each of the modules whose
name ends in `Proofs` or `Lemmas`.

## 1. Inventory

### The parts, their state and their operations

| Part | Source | State | Operations |
|---|---|---|---|
| Ticker (`Raft::tick`) | `raft/src/server/state.rs` | where the loop is; the call to a peer it waits for | `try_persist_state`, `maybe_send_heartbeat`, `maybe_commit_log_entries`, `maybe_transition_candidate`, `handle_candidate_election`, `transition_wrapper`, `transition_to_term` |
| Listener (`Server::start_listener`) | `raft/src/server/rpc.rs` | alive or panicked; connections not yet accepted | `request_vote`, `append_entries`, `ping_node` (never called) |
| Shared state (`State`) | `state.rs` | `node_term`, `voted_for`, `log`; `node_type`, `votes_recieved`, `commited_index`, `next_index`, `match_index`, three timeouts; `recieved_leader_heartbeat` | behind one `tokio::sync::Mutex` |
| `is_leader` | `state.rs`, `kv.rs` | an `AtomicBool` that `Raft` shares with the store | stored by `transition_wrapper` and `Raft::transition_to_term` only |
| RPC client (`Client::send`) | `rpc.rs` | one TCP connection per call | connect, write (unwrapped), read one answer; no timeout |
| State file (`PersistentState`) | `state.rs` | bincode at `persist_path` | `persist`: remove, create, write; `init_state` at start |
| Delivery (`deliver_tx`) | `state.rs`, `rpc.rs` | an unbounded channel | sent to by the leader's commit and by `append_entries` |
| Client session (`handle_client`) | `kv/src/storage/kv.rs` | the command it works on; what it is writing to its client; the lock it has meanwhile | read and parse, Get from the map, write to `client_tx`, answer |
| KV task (`generic_handler_interface`) | `kv.rs` | what it is in the middle of | `select!` between `handle_cmd` (`append_entry`) and `apply` |
| Storage (`StorageLayer`) | `kv.rs` | a `HashMap` behind a mutex | `set`, `get`, `delete` |
| Command channel (`client_tx`) | `kv.rs` | an unbounded queue, its sender behind a mutex | send, receive |
| Command parser | `kv.rs`, `kv/src/storage/util.rs` | none | `parse_command`, `validate`, `parse_opr` |
| CLI client | `kv/src/bin/client.rs` | whether it waits for the greeting, a line or an answer | read the greeting, send a line, read an answer |
| Configuration | `raft/src/utils.rs` | none | `parse_config`, once at start |

### How they interact

The ticker, the listener and the KV task of a node share `State` through its
mutex. The ticker of one node calls the listener of another over TCP; the
listener serves one connection at a time. Both send committed entries down
`deliver_tx` to the KV task, which sends client commands back with
`append_entry`. Nothing else connects the nodes. A client has a connection to one
node; its session reads the map itself, and sends writes down `client_tx` to the
KV task of that node if `is_leader` is up there.

What makes the behaviour hard is where the lock is and is not held:

- The ticker **keeps the lock while it awaits a peer's answer**, so its own
  listener is shut out until then. Requests stay truthful; nodes can wait for
  each other in a circle.
- The ticker **drops the lock** between the timeout check, the transition to
  candidate, the campaign, and the transition that ends the campaign. The
  listener may run in each of these gaps.
- `State::transition_to_term`, used by the listener, does not touch `is_leader`;
  `Raft::transition_to_term`, used by the ticker, does.
- A save is three steps on disk, and covers only the committed log.
- A session **keeps the map's lock while it writes the value of a Get** to its
  client, and the lock of `client_tx` while it writes an "OK.": a client that
  does not read holds up the KV task, or every other write of the node.
- `is_leader` is read once, before the command waits for `client_tx`; "OK." is
  written before `append_entry` has seen the command.
- The map lives in memory only: a node starts with an empty one and depends on
  raft to deliver everything again.
- A call has no timeout and a listener reads a connection to its end: a connection
  that is lost without either side being told holds up the ticker that waits for an
  answer, with its lock, or the listener that waits for a request.
- Nothing on a client's connection says where a message ends. A read takes at
  most 64 bytes (`read_buf` into an empty `Vec`).
- A panic ends one task, not the process: a node can go on ticking with a dead
  listener, or listening with a dead ticker.

### What makes each part correct

| Part | Correct when | Property |
|---|---|---|
| Elections | who leads was elected by distinct nodes; no term has two leaders | `LeaderHasQuorum`; `OneLeaderPerTerm` is violated, `OneLeaderUnlessLapse` says by what |
| Votes | votes are granted as in the Raft paper | `VotesAsPaper` |
| Calls | an answer is judged in the state its question was asked in; a call ends, and until then somebody can answer | `RequestSpeaksForSender`, `CallEndsUnlessStuck`, `SomeoneCanAnswer` |
| Leader's log and indexes | append-only; indexes within the log | `LeaderAppendOnly`, `LeaderIndexBounds` |
| Appends | accepted and merged as in the paper; an acknowledged log is the leader's log | `AcceptsAsPaper`, `MergesAsPaperAtEnd`, `AckMeansStored`; `StaleAppendRefused` is violated |
| Commit | what is committed is on a quorum; the index is the greatest one a quorum has reached | `CommittedOnQuorum`, `PicksGreatestReached` |
| Delivery | each index once, in order, the same everywhere | `DeliveredOnce`, `ImplementsReplicatedLog`; `DeliveriesAgree` is violated |
| State file | a restart brings back nothing that could differ | `DiskIsCommitted` |
| Progress of raft | a leader is found; its entries reach all | `LeaderElected`, `AppendedIsDelivered` |
| Storage | the map is what the deliveries say, however sessions and the KV task interleave | `StorageIsLastWrite`, `DeliveredIsApplied` |
| Sessions | each command is answered, in the order of the channel, with a value that is still true | `AskedIsAnswered`, `AcksInOrder`, `AnswerStillTrue` |
| The whole | what clients read is one history of writes; what is acknowledged is logged and applied | `ImplementsReplicatedStore`, `StoreAssumptionMet`, `AcknowledgedIsLogged`, `AcknowledgedIsApplied` |
| Parser | a line means what stands between its blanks | `ParsesAsWritten` |
| CLI client | shows the answer to the line that was typed; goes on if its session does | `AnswersPaired`, `TerminalGoesOn` |

## 2. Modules

| Module | What it is |
|---|---|
| `RaftRules` | Pure decisions: whether a vote is granted, an append accepted, how a log is merged, what is delivered, what a heartbeat carries, which index a quorum agrees on. Constants `Node`, `Value`, `connections` and their assumptions. |
| `Raft` | The cluster: one action per handler or critical section; constants that bound an instance. |
| `ReplicatedLog` | The abstract specification of raft: one agreed sequence that only grows, applied by every node from its start. |
| `RaftProperties` | Properties of `Raft`, and the inductive invariants. |
| `MCRaft` | Instances for TLC: the three machines of `kv/data`, with their `connections` in the order of their yml files. |
| `MCElections` | `MCRaft` with a history: has a node taken a step that elections do not survive? |
| `RaftRulesProperties` | The rules against those of the Raft paper, over logs and match indexes that grow in any way. |
| `KvHistory` | What a key holds after a sequence of writes, defined without going through them. |
| `KvStore`, `KvStoreProperties` | The store of the nodes: sessions, channels, locks, KV task, map; raft does what it likes. |
| `ReplicatedStore` | The abstract specification of the whole: one history of writes, of which each node has applied some first part and answers a Get by that part. |
| `KvCluster` | `Raft` and `KvStore` composed, and that they implement `ReplicatedStore`. |
| `KvCommands`, `KvCommandsProperties` | The parser, and what a line says when it is read as a whole. |
| `KvTerminal` | `quaso-cli` and the session it talks to, on a wire without message boundaries. |
| `MCKvStore`, `MCKvCluster`, `MCRules`, `MCKvTerminal` | Instances of these for TLC. |
| `RaftRulesLemmas` | What the rules return: types and lengths, for the proofs. |
| `RulesProofs` | The functions of both programs against their references, proved: raft's rules against the paper's, the parser against what a line says. |
| `RaftProofs` | Type correctness of `Raft`, proved. |
| `RaftSafetyProofs` | The safety properties of `Raft` that hold for every cluster, and one leader per term where no node lapses, proved. |
| `RaftReplicationProofs` | With one contender: `Raft` implements `ReplicatedLog`, and four invariants, proved. |
| `KvStoreProofs`, `KvTerminalProofs` | The invariants of the store and of the terminal, proved. |
| `KvClusterProofs` | Both halves in one program: what is proved of each carries over, and the program implements `ReplicatedStore`, proved. |

`KvCluster` is `EXTENDS RaftProperties` with `INSTANCE KvStoreProperties`: the two
share `is_leader` and `delivered`. It replaces what `KvStore` leaves open
(`RaftFlags`, `RaftDelivers`, `AppendReturns`, `Crash`) by actions of `Raft`;
`StoreAssumptionMet` says that each of those is one that `KvStore` allows.
`KvStore` has two specifications for that: `Spec`, in which raft delivers entries of
a finite set, one to `MaxDelivered`, so that TLC can list them, and `OpenSpec`, in
which it extends `delivered` by anything that entries may be. The theorems about the
store hold for both; what `KvCluster` meets is `OpenSpec`.

Definitions named "mutant" in a comment are wrong variants of the definition
below them, as a plausible bug would have it. They are used to see that each
property can fail.

### From code to model

**Variables** carry the names of the Rust fields. `next_index` and `match_index`
are maps from addresses in the code; here they are functions on `Node`, with 0
where the map has no entry. `pc` is the ticker's place, `conn` its position in
the list of peers, `seen_term` the term of a refusal that is carried over an
unlock. `wire`, `request`, `reply` are the one call a ticker can have open;
`orphans` are connections whose caller has gone and on which the listener still
finds something: a whole request, a piece of one (`Torn`), nothing and no end
either (`Silence`), the last being `Held` once the listener has come to it.
`disk` is the file, `delivered` everything sent down `deliver_tx` since
the node started. `rare` counts rare events for the bound.

**Atomicity.** A critical section without an await on a peer or a file is one
action. The ticker's loops over the peers are split at every `Client::send`:
`HeartbeatSend`/`HeartbeatReceive`, `CampaignSend`/`VoteReceived`, `VoteDenied`,
`VoteMissing`. `LockFree` names the places at which the ticker does not hold the
lock; handlers and `append_entry` need it. A handler is one action, with its
answer, since nothing else of its node can run meanwhile.

| Code | Actions |
|---|---|
| `try_persist_state`, `persist` | `RemoveFile`, `CreateFile`, `WriteFile` |
| `maybe_send_heartbeat` | `HeartbeatBegin`, `HeartbeatSend`, `HeartbeatReceive`, `HeartbeatEnd` |
| `maybe_commit_log_entries` | `CommitEntries` |
| `maybe_transition_candidate` | `ElectionTimeout`, `BecomeCandidate` |
| `handle_candidate_election` | `CampaignBegin`, `CampaignSend`, `CampaignSlow`, `VoteReceived`, `VoteDenied`, `VoteMissing`, `CampaignEnd`, then `BecomeLeader`, `StepDown` or `BecomeCandidate` |
| end of `tick` | `TickEnd` |
| `request_vote` | `GrantVote`, `DenyVote` |
| `append_entries` | `AcceptAppend`, `RejectAppend` |
| `start_listener`, unreadable request; a connection without an end | `TornRequest`; `HoldConnection` |
| `append_entry` | `AppendEntry` |
| `Client::send`, a broken connection; the process | `BreakCall`; `Crash`, `Restart` (with `init_state`) |

**The store.** A channel is the sequence of all that was sent and a count of what
has been received (`queued` and `handled`, `delivered` and `received`), so that a
property can speak of what is past. A lock is not a variable: `StorageFree` and
`SenderFree` name the places of a session at which it has the lock. An await on a
lock, a channel or a socket ends an action.

| Code | Actions |
|---|---|
| `main`, accept and greeting | `Connect` (`KvTerminal`: `Greet`) |
| `handle_client`, read and `parse_command` | `Ask`, with the panic of a set without a value; `Close` |
| `handle_client`, Get | `ReadStorage`, `AnswerValue` |
| `handle_client`, other commands | `CheckLeader`, `Enqueue`, `AnswerOk`, `AnswerError` |
| `handle_cmd` | `TakeCommand`, then `AppendReturns` (`KvCluster`: `AppendDone`, with `AppendEntry` or the drop at a node that is not leader) |
| `deliver_rx.recv`, `apply` | `TakeDelivery`, `Apply` |
| the client; the process | `Leave`; `CrashStore` in `Crash` or `CrashNode` |
| the session, as `quaso-cli` sees it | `ReadCommand`, `SessionPanics`, `Answer`, `SessionEnds` |
| `quaso-cli` | `ReadGreeting`, `TypeLine`, `TypeExit`, `ReadAnswer`, `ReadEnd` |

**Text.** Keys, values and words are model values. `KvCommands` has a line as a
sequence of words, blanks and other white space, which is all that `trim`, `split`
and `to_lowercase` tell apart. `KvTerminal` counts a message in units, of which a
read takes `ReadSize`.

**Panics** are outcomes of the actions they happen in. An index out of bounds
or an underflow in a handler ends the listener (`Panic`): its caller reads an
end of file, the other waiting connections are reset. An answer that does not
deserialize ends a ticker in `maybe_send_heartbeat` (the `unwrap`), but is only
a missing vote in `handle_candidate_election`.

**Failures.** A call may end in three ways beside an answer: the read fails (`None`,
and the loop goes on), the write fails (its `unwrap` ends the ticker), or the loss
is never signalled, and the caller waits for ever with its lock. Each may leave
something at the listener. Which of them a caller of a crashed or panicked node
gets is open (of a panic it is always told: the machine is still there). Each file
operation of a save may fail, which the code only logs: the old file stays, or none,
or a torn one.

**Time** is abstract: a heartbeat or persist timer may be found expired at any
tick, and an election timer too, at the nodes in `Contenders`. A call that
returns having changed nothing is merged with the next one.

## 3. What TLC checks

| Run | Module | Instance | Shows |
|---|---|---|---|
| `MCElections` | `MCElections` | 2 of 3 nodes contend over 2 terms; the third may crash; one rare event: a refused connection, a slow campaign or the crash; 2 entries, or 1 where something rare has happened | `TypeOK`, `LeaderHasQuorum`, `LeaderIndexBounds`, `RequestSpeaksForSender`, `DeliveredOnce`, `LeaderAppendOnly` hold although two leaders may arise; `OneLeaderUnlessLapse` says after what |
| `MCReplication` | `MCRaft` | 1 contender, 3 terms, 2 entries of 2 values, 2 refused connections, under fairness | `AckMeansStored`, `CommittedOnQuorum`; `Raft` implements `ReplicatedLog`; `LeaderElected`, `AppendedIsDelivered`; no deadlock |
| `MCRecovery` | `MCRaft` | 1 contender; two values; the others crash and restart, with saves at any tick, each step of which may fail | `DiskIsCommitted`, `DeliveredOnce`; `Raft` implements `ReplicatedLog` over restarts |
| `MCWaiting` | `MCRaft` | 2 contenders for one term; one lost or broken call or slow campaign; under `FifoSpec` | `SomeoneCanAnswer`, `CallEndsUnlessStuck` |
| `MCRules` | `MCRules` | 4 nodes, 2 terms, logs and indexes up to 4; lines of up to 6 pieces | `VotesAsPaper`, `AcceptsAsPaper`, `MergesAsPaperAtEnd`, `PicksGreatestReached`; `ParsesAsWritten` |
| `MCStore` | `MCKvStore` | 1 node, 2 clients, 1 key; sets, reads and bad lines; deliveries of sets and deletes; 2 commands in the channel, 2 deliveries; under fairness | `TypeOK`, `StorageIsLastWrite`, `AcksInOrder`, `AnswerStillTrue`, over restarts; `DeliveredIsApplied`, `AskedIsAnswered`; no deadlock |
| `MCCluster` | `MCKvCluster` | 2 machines, 1 contender, 1 client, 2 commands; a refused connection or a crash of the follower | `AcknowledgedIsLogged`, `StoreAssumptionMet`, `ImplementsReplicatedStore`; no deadlock |
| `MCClusterLiveness` | `MCKvCluster` | 2 machines, 1 contender, 1 client, 2 writes among reads and invalid commands, under fairness | `AcknowledgedIsApplied`: from the session through raft to the map of the other node |
| `MCTerminal` | `MCKvTerminal` | 4 lines; lines and answers of 1 or 3 units, reads of 2 | `AnswersPaired`, `TerminalGoesOn` |

`MCElections`, `MCWaiting`, `MCRules`, the run of the store alone and the one of
the terminal put no condition on what the rest does, but for the premises of their
liveness properties. `MCReplication`, `MCRecovery` and the
runs of the cluster are about the part of the design that the code does get right:
**one contender and no lost answer**. With two contenders, or with an answer
lost, replication is not correct, as `DeliveriesAgree` shows.

`OneLeaderUnlessLapse` lists five kinds of steps (`Lapse`): a crash with the term or
the vote unsaved, a step-down to a term that is over, an append of an earlier term, a
vote in the gap before the campaign, and a change of term between the election that
was won and the office. TLC finds two leaders of one term in the same instance if any
one of `CrashUnsaved`, `AppendStale`, `VoteInGap` or `WonTermLeft` is taken off the
list. For `StepDownStale` it does not, and neither did simulations with three
contenders and four terms: the proof uses it, but that it is needed is not shown.

`SomeoneCanAnswer` and `CallEndsUnlessStuck` have two exceptions, and both happen:
a circle of calls, and a node that is cut off (`CutOff`) because its ticker waits for
an answer, or its listener for a request, that was lost in silence.

The first refinement maps `applied` to `delivered` and `agreed` to the longest
`delivered`. It says that a commit only ever extends what any node has applied,
that no node skips, repeats or reorders, and that a restart starts over. The
second maps `version` to the number of deliveries that have reached the map and
`read` to the value that a session is writing. It says that what a client reads
at any node is what one common history leaves in the map up to some point, which
only a restart takes back.

The properties of the rules are equivalences, so that they also say where the
code and the Raft paper part: a voter with an empty log refuses for good once it
has voted; a first append, with `prev_log_index` 0, panics at a log that is not empty
(the index underflows), and nothing else does; a log is merged wrongly whenever the
follower has anything after `prev_log_index`. Counting equal match indexes instead of
indexes reached, on the other hand, picks no wrong index and never has two to pick
from. `AcceptsAsPaper` leaves out a term that is over at a node that does not lead,
which is `StaleAppendRefused`, violated below.

### Findings

Each of these runs checks one promise of the code, and TLC finds a behaviour of
the code that breaks it.

| Run | The code says | What happens |
|---|---|---|
| `MCOneLeaderPerTerm` | `rpc.rs:166` "check if voted for any other candidate in the same term"; `README.md` "[x] Leader Election" | A node grants its vote in the gap between its own transition to candidate and its campaign, then votes for itself in the same term (`state.rs:573`). Two candidates have a quorum each, and two nodes lead in term 1. |
| `MCStaleAppend` | `rpc.rs:267` "Reply falses if term < current term (5.1)" | Only a leader refuses (`rpc.rs:268`). A node that has become a candidate of term 2 takes a late append of term 1, answers success and goes back to term 1. |
| `MCDeliveriesAgree` | `rpc.rs:357-359` "If an existing entry conflicts with a new one ... delete the existing entry and all that follow it (5.3)"; `kv.rs:118-119` "having and agreement over the Opeartion" | A deposed leader keeps an uncommitted entry; the new leader's entry goes behind it (`rpc.rs:374`), and `leader_commit` delivers the old one at its index. Two nodes apply different writes at one index. |

Other places at which the code and a comment part, visible in the model but
without a run of their own:

- `truncate(prev_log_index - 1)` (`rpc.rs:369`) removes the matched, maybe
  committed entry too, and entries whose answer was lost are appended once more
  (`rpc.rs:374`, "not already in the log"): the cases in which `MergesAsPaperAtEnd`
  says that the merge is wrong.
- `state.rs:602`, "Election timed out for candidate!": two candidates that ask
  each other, each under its own lock, wait for ever (`Circle`).
- `kv.rs:231`, "ERR. Not Leader": `State::transition_to_term` leaves `is_leader`
  up, so a node that an append has demoted answers "OK." to writes that it drops.
- `state.rs:66`, "No persisted state for raft": a crash between the removal of the
  file and its creation makes a node with a saved state start afresh (`RemoveFile`).
- "set k" passes `validate`, in `quaso-cli` too, and panics `parse_command`
  (`kv.rs:57`), which ends the session (`Panics`, `Ask`, `SessionPanics`).
- A value or a line longer than 64 bytes leaves `quaso-cli` out of step with its
  session: hence the condition of `AnswersPaired`.

### Bounds, and why they are enough

Three nodes are the smallest cluster in which a quorum is not everybody and in
which two candidates compete for a third vote. Two terms give a term to go back
to; two entries a log that can be cut in the middle and a commit index behind
the end. `MaxRare` bounds how many rare events (refused or broken connections,
slow campaigns, crashes, saves) happen in a behaviour, `RareKinds` which; a
connection to a dead listener fails without counting, and so does a file operation
(`"disk"`) in a save that counts. `ShortLogs` keeps the logs of `MCElections` to one
entry after a rare event: two leaders of a term need no second entry, and stale
indexes of a leader, which do, no rare event. `MaxTerm` stops a ticker
from raising its term further; `MaxLog` stops `append_entry`. Both let the
interesting state be reached and only end the behaviour after it; the theorems
of section 4 hold for every value of all of them.

`MCRules` has four nodes, so that half of them are no quorum, and six pieces for
two blanks in a row before a key and a value. `MaxQueued` and `MaxDelivered` bound
what goes down a channel: two of each let one wait while another is on its way.
`MaxQueued` is asked when a client sends (`Ask`), of what may still come to the
channel: no session is stopped by it once it has a command, and reads are not
bounded at all. Two sessions are enough to compete for a lock, with the KV task as a third. The
cluster has two machines because the store only ever meets raft at its own node;
what three change is raft's business, and `KvStore` leaves raft free. `ReadSize`
2 with sizes 1 and 3 gives messages that fit, that do not, and two in one read.

Deadlock is not checked in the runs in which a model may stop: a ticker and a listener may have panicked, two
nodes wait for each other, or `BecomeCandidate` has met `MaxTerm`.

### Fairness

`FairSpec` has weak fairness of `Ticker(n)` and `Listener(n)`, each as a whole.
Tokio runs every task that can run, sleeps end, and timers expire. A tick that
does nothing changes no state of the model, so weak fairness of the ticker also
says that a timer that stays armed is found expired at some tick. Nothing is
assumed of clients, of failures, or of which alternative a task takes.

`FifoSpec` adds strong fairness of `ServeCaller(m, n)`: the listening socket and
the tokio mutex serve in order of arrival, so that no caller is passed over for
ever.

`KvStore!FairSpec` is strongly fair to the KV task taking and applying a delivery, and
to each session as far as it does not wait for its client (`Proceeds`). Strong,
since a mutex is free only now and then and `select!` picks at random among the arms
that are ready: tokio's mutexes serve in the order of asking, and an arm that is
ready again and again is taken. One condition for each task is enough, as each is
one thread of control. That a client takes its answer, and that `append_entry`
returns, is not assumed but a premise of the properties that need it.
`ClusterFairness` is that of both parts, with strong fairness for taking a command
and for `append_entry`'s lock; for its property a client is assumed to take the value
of a Get (`AnswerValue`), since one that does not stops the KV task.

`KvTerminal!Spec` is weakly fair to the session's reads and to quaso-cli, but not to
`Answer`: the session may wait for the storage lock or for `client_tx`, which a
client that does not read can hold for ever. `TerminalGoesOn` has it as a premise
that the session is not kept so.

## 4. What is proved

Every theorem holds for every finite `Node`, every `connections` that lists each
other node once, every `Value`, every set of clients, keys, texts and commands, and
every bound. They rest on the named assumptions of the modules alone
(`NodeAssumption`, `ConnectionsAssumption`, `BoundsAssumption`; `StoreAssumption`,
`ClusterAssumption`; that of the terminal), all of which TLC evaluates in the runs.

| Theorem | Module | States | Under |
|---|---|---|---|
| `VoteIsPaperVote` | `RulesProofs` | `Spec => []VotesAsPaper` | |
| `AppendIsPaperAppend` | `RulesProofs` | `Spec => []AcceptsAsPaper` | |
| `MergeIsPaperMergeAtEnd` | `RulesProofs` | `Spec => []MergesAsPaperAtEnd` | |
| `PickIsGreatestReached` | `RulesProofs` | `Spec => []PicksGreatestReached` | |
| `ParserReadsWhatIsWritten` | `RulesProofs` | `Typing => []ParsesAsWritten`, for lines of any length | |
| `TypeCorrect` | `RaftProofs` | `Spec => []TypeOK` | |
| `LeaderIsElected` | `RaftSafetyProofs` | `Spec => []LeaderHasQuorum` | |
| `RequestStaysTrue` | `RaftSafetyProofs` | `Spec => []RequestSpeaksForSender` | |
| `LeaderLogGrows` | `RaftSafetyProofs` | `Spec => LeaderAppendOnly` | |
| `LeaderIndexesBounded` | `RaftSafetyProofs` | `Spec => []LeaderIndexBounds` | |
| `DeliversOnce` | `RaftSafetyProofs` | `Spec => []DeliveredOnce` | |
| `CallsCanBeAnswered` | `RaftSafetyProofs` | `Spec => []SomeoneCanAnswer` | |
| `OneLeaderWhileNoLapse` | `RaftSafetyProofs` | `Spec => []OneLeaderPerTerm` | `NoLapse` |
| `ClusterIsReplicatedLog` | `RaftReplicationProofs` | `Spec => ImplementsReplicatedLog` | `SoleContender(l)` |
| `SavedIsCommitted` | `RaftReplicationProofs` | `Spec => []DiskIsCommitted` | `SoleContender(l)` |
| `OneContenderAgrees` | `RaftReplicationProofs` | `Spec => []DeliveriesAgree` | `SoleContender(l)` |
| `AckIsStored` | `RaftReplicationProofs` | `Spec => []AckMeansStored` | `SoleContender(l)` |
| `CommittedIsOnQuorum` | `RaftReplicationProofs` | `Spec => []CommittedOnQuorum` | `SoleContender(l)` |
| `StoreTypeCorrect` | `KvStoreProofs` | `Spec \/ OpenSpec => []TypeOK` | |
| `StorageFollowsDeliveries` | `KvStoreProofs` | `... => []StorageIsLastWrite` | |
| `AnswerNeverStale` | `KvStoreProofs` | `... => []AnswerStillTrue` | |
| `AcksFollowChannel` | `KvStoreProofs` | `... => []AcksInOrder` | |
| `AnswersStayPaired` | `KvTerminalProofs` | `Spec => []AnswersPaired` | |
| `RaftRunsInCluster` | `KvClusterProofs` | `ClusterSpec => Spec` (of `Raft`) | |
| `StoreRunsInCluster` | `KvClusterProofs` | `ClusterSpec => StoreAssumptionMet` | |
| `ReplicatedLogMakesReplicatedStore` | `KvClusterProofs` | `ClusterSpec /\ ImplementsReplicatedLog => ImplementsReplicatedStore` | |
| `ClusterIsReplicatedStore` | `KvClusterProofs` | `ClusterSpec => ImplementsReplicatedStore` | `SoleContender(l)` |
| `AcknowledgedStaysLogged` | `KvClusterProofs` | `ClusterSpec => [](Leads(l) => LogEndsWithChannel(l))` | `NeverDeposed(l)` |

**The conditions.** `SoleContender(l)` says that no node but `l` ever finds its
election timer expired, that `l` does not crash, and that no connection breaks but by
the end of the process at its other end. Refused connections, slow campaigns of `l`,
saves at any time, which may fail, and crashes and restarts of every other node stay
allowed. It is what the instances of
`MCReplication`, `MCRecovery` and `MCCluster` are chosen by; without it
`DeliveriesAgree` is violated, as `MCDeliveriesAgree` shows. A follower that restarts
from its file has forgotten what it has acknowledged and not saved; so `AckMeansStored`
and `CommittedOnQuorum` say of the nodes in `Fallible` only what is true of them.
`NoLapse` and `NeverDeposed(l)` are conditions on steps, explained below; they put no
condition on contenders, crashes or losses.

**The rules.** `RaftRulesLemmas` states once what each rule returns. A quorum picks
at most one index because two quorums meet: the sets of nodes at two different
match indexes would be disjoint and each larger than half. So the order in which
the code's `HashMap` is gone through does not matter.

**The parser.** `Split` is a fold over the line and `Written` speaks of positions in
it, so that an induction over the line stands between the two. It is done without an
induction rule: `CutsGrow` says that if the pieces after `i` steps are the stretches
between the blanks so far (`Cuts`), then so are those after `i + 1`; a least `i` at
which they are not (`LeastNatural`, from the well-foundedness of `<`) is then
impossible. `TrimTyped`, `LengthBetween` and `StretchIsWord` do for `trim` and for
lengths what `SplitCuts` does for the cuts, and `ParsedAsWritten` compares the two,
case by case.

**`TypeInv`** is `TypeOK`, which is not inductive, with `CallInv` (who has a call
open is in a loop, at a peer of its list, and a reply that is counted is a
node's) and `PersistInv` (between the removal of the file and the write of the
new one the log stays as long as `commited_index`, because the lock is held).
There is one lemma for each action.

**`LeaderInv`** adds, for each node: it is no leader while it campaigns and is
one while it sends heartbeats; an answer comes from the peer that was asked; the
votes of a campaign come from the node itself and from peers before `conn`, each
once; the open request is the one it would build now. The heart of the argument
is `VoteReceivedStep`: a new vote comes from the peer the loop has just come to,
and no earlier vote did. Everything that another node or the listener can do to
a node leaves it `Quiet`, and `QuietNode` shows once that `LeaderInv` survives
that; only the ticker's own actions need a look at each.

**`LeaderLogGrows`** follows from it by way of `LogStep`: an accepted append
leaves a follower, and a node that restarts does so as a follower.
**`IndexInv`** adds that a node that has won, but does not lead yet, has a
`match_index` of 0 throughout: an append accepted in that gap may still cut its
log. **`DeliveredInv`** rests on `IndexInv` in that a leader's commit never
indexes past its log.

**One leader per term.** `OneLeaderPerTerm` is violated; `OneLeaderWhileNoLapse` says
by which steps alone. If no node takes one of the five steps of `Lapse`, every step
lets votes stand (`VotesStandStep`): every node

- goes back to no earlier term, and on a restart finds its vote with its term
  (`KeepsRecord`). An append of an earlier term (`rpc.rs:268`), `StepDown` to the
  term of a refusal, when the listener has raised the term in the gap before it
  (`state.rs:625`), and a crash before `persist` do otherwise. Within a term a node
  may forget its vote: `VoteDenied` takes back the vote of a candidate for itself
  (`state.rs:624`). That does no harm, since its campaign is over, but it is why
  `KeepsRecord` looks at votes over a crash only;
- grants no vote between `BecomeCandidate` and `CampaignBegin`, where it has its new
  term and has not yet voted for itself (`NoVoteInGap`);
- does not change its term between the end of the campaign it has won and
  `BecomeLeader` (`TermUntilOffice`).

Section 3 says which of the five are known to be needed. Together they are enough,
whatever crashes, gets lost or comes late, and for any number of contenders. The
inductive invariant is `ElectionInv`: whoever a candidate or leader counts on, or is
about to (`Supporters`), has voted for it in its term or left that term behind; two
that stand in one term share no supporter; and a candidate that has yet to begin
supports nobody. Two leaders would have disjoint quorums (`QuorumsMeet`).

**Who waits for whom.** `CallsCanBeAnswered` rests on `AskedStillListens`: the callers
of a listener that dies, in a panic or with its process, all leave it in the same
step, so that no open call is with a dead listener. If then every node that is asked
itself waits for an answer, and none is cut off by a loss in silence, the nodes that
wait are the circle.

**Replication, with one contender.** The invariant `Replicates(l)` has three parts
besides those above. `OnlyCaller(l)`: no other node ever leaves its ticker's idle
places, so that every request in the cluster is one of `l`'s, and the one it
waits for. `LogsInv(l)`: every log, every file and every delivery is a first part of
the log of `l`, and nobody has delivered more than `l` has committed. `NextInv(l)`:
`next_index` of a peer lies beyond everything that the peer has in its log or its
file, but for an acknowledgement that is on its way, so that an append which is
accepted begins exactly where the follower's log ends: the one case in which
`MergesAsPaperAtEnd` says that the code merges as the paper does. That the file
counts in it is what makes it survive a restart. The steps are sorted once
(`StepKinds`: a step that leaves logs and files alone, a save, `AppendEntry`,
`CommitEntries`, `AcceptAppend` at another node, `Crash` or `Restart` of another
node) and each part is then shown kind by kind. The simulation of `ReplicatedLog`
follows: in such a state `LongestDelivered` is what `l` has delivered, so that
`CommitEntries` is the abstract `agreed` growing, and an `AcceptAppend` a node
catching up. `Steady(l)` adds `AckInv(l)`, of the nodes that do not crash: the
leader's `match_index` of such a node is no more than the length of that node's log,
so that a quorum of match indexes is one of logs, but for the nodes that do.

**The store.** `StoreInv` adds to the properties what each session may be doing
(`SessionInv`), that at most one session of a node stands between the channel and
its "OK.", with its command the last of the channel (`ChannelInv`), and that what
is being applied is the last delivery received (`DeliveryInv`). `ValueOfNext` and
`ValueOfPrefix` say of `ValueAfter`, which is defined without recursion, what one
more write does and that only the first entries matter. **The terminal** has
`Conversation` and `Exchange`: the line without an answer is nowhere but at one of
the places it passes through.

**The program.** `StepOfBoth` shows that a step of the cluster is a step of `Raft`
or nothing to it, and a step of `OpenNext` or nothing to it. Neither half gives that
alone: that deliveries are writes is raft's invariant, that `append_entry` is given
writes the store's; so the two invariants are carried along together. Hence
everything proved of one half is true of the program. The refinements compose the
same way: `AgreedInv`, a consequence of `ReplicatedLog` alone, says that every
delivery is a first part of what is agreed upon, and with `StorageIsLastWrite` a
`ReadStorage` becomes the abstract `Get`. That theorem puts no condition on
the cluster but that raft is a replicated log. `ChannelServed(l)` is what
`AcknowledgedStaysLogged` needs from both sides: before `l` leads its flag is down,
its channel empty, and no session of it past the flag; later its log ends with the
writes of the channel up to the one that waits in `append_entry`. A node that an
append or a vote demotes keeps its flag, and is where this ends: what its sessions
confirm from then on is dropped (`state.rs:274`). `NeverDeposed(l)` excludes that step
and no other.

Each of these invariants was checked with TLC, on instances like those of the runs,
before it was proved.

### Only model-checked

- Liveness: `LeaderElected`, `AppendedIsDelivered`, `CallEndsUnlessStuck`,
  `DeliveredIsApplied`, `AskedIsAnswered`, `AcknowledgedIsApplied`, `TerminalGoesOn`.
  The prover handles neither fairness nor `ENABLED`. `CallsCanBeAnswered` is the
  safety half of `CallEndsUnlessStuck`.
- `AcknowledgedIsLogged`, that with one contender the leader's log is the channel's
  writes and nothing before them; the theorem is `AcknowledgedStaysLogged`.
- `OneLeaderUnlessLapse`, which is `OneLeaderWhileNoLapse` with the past kept in a
  variable.
- The three violated promises are counterexamples. Two of them are theorems under
  conditions named above (`OneLeaderWhileNoLapse`, `OneContenderAgrees`).

## 5. What is not modelled

- `ping_node`, `ping_nodes` (the call is commented out and changes no state),
  `maybe_transition_leader`, `start_consensus`, and in the store `insert`,
  `display` and `start_deliver_interface`: no caller. `History` of `quaso-cli` is
  never used.
- Durations: the randomised timeouts, and that a heartbeat comes before an
  election timeout.
- A panic of `transition_to_term` or of a channel: their receivers live as long
  as the process.
- Start-up is one step: state is loaded before any task of the node runs. A
  node whose file was torn by a crash stays down, since `init_state` panics.
- Terms as 32-bit numbers: no instance, and no cluster that does not hold two
  thousand million elections, reaches the limit.
- `parse_config`: it reads a file once, before any task runs, and ends the
  program if it cannot. What it returns is the constant `connections`; that each
  machine lists every other one once (`ConnectionsAssumption`) it does not check.
- The memory that the unbounded channels may take, the colours and the wording
  of what is printed, the build files.

## 6. Plan

Done: all modules above, their runs, and the theorems of section 4. Left, in this
order:

1. `SoleContender(l)` weakened to let `l` itself crash before it has led.
2. `DeliveriesAgree` under a condition on steps, as `NoLapse` is for
   `OneLeaderPerTerm`: which merges and which commits would have to be excluded
   while several nodes contend.
