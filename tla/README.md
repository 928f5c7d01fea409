# Verification of kv-raft

TLA+ models of the two libraries in this repository and of the example that joins
them, the TLC runs that check them on small instances, and TLAPS proofs of what
matters most for clusters of any size:

* `raft-rs` (`src/raft-rs`): an asynchronous implementation of Raft, one
  `select!` loop per node, with pluggable storage, transport and state machine;
* `kv` (`src/kv`): an embedded key-value store, a copy-on-write b-tree in one
  file with a single writer, snapshot readers and two alternating commit slots;
* `example` (`src/example`): three raft nodes in one process. The state machine
  of each is a `kv::Database`, the transport a network in memory; a program puts
  a key, reads it, kills the leader and reads it again through the next one.

The libraries do not know each other: they meet in the example's
`KvStateMachine`, one write transaction or read transaction per applied command.

Run a configuration with `tlc -config X.cfg M`, a proof with `tlapm M.tla`.

## 1. Inventory

### raft-rs

| component | state | operations | talks to |
|---|---|---|---|
| `RaftNode` (`raft.rs`, `role.rs`) | role, `current_term`, `voted_for`, `log`, `commit_index`, `last_applied`, `next_index`, `match_index`, `votes_received`, leader hint, `pending_applies` | election timeout, heartbeat, the four message handlers, client commands | storage (blocking calls), transport workers (bounded channels), state machine, clients (oneshot channels) |
| `RaftStorage` (`storage.rs`) | the saved term, vote and log | `save_state`, `load_state` | called inside handlers |
| `RaftTransport` (`transport.rs`) and the per-peer workers | 128 messages per peer | `send` with a timeout; `try_send` drops what does not fit | other nodes |
| `RaftHandle` (`raft_handle.rs`) | one oneshot channel per command | `apply`, `is_leader`, `log`, `log_entry`, `status` | the node's command queue |
| `StateMachine` (`state_machine.rs`) | the user's | `apply(index, command)` | called by `apply_committed` |
| `RaftConfig` (`config.rs`) | timeouts and intervals | none | the loop's timers |

Hard here: late, lost and repeated messages in every state; a crash inside a
handler that saves twice; `commit_index` and the state machine starting from
nothing after a restart; counters (`votes_received`) that do not remember whom
they counted; index arithmetic at 0 and at the end of the log; reply channels
that outlive the leadership they were registered in; storage errors that are
only logged.

Correct means: one leader per term; what a state machine was given is never
contradicted; an acknowledged command is decided, and acknowledged to the client
that sent it; no slice panics; a leader that is left alone brings all logs to
its own.

### kv

| component | state | operations | talks to |
|---|---|---|---|
| `Database` (`db.rs`) | header in memory, published snapshot, writer lock | `open_new`, `open_existing` with recovery, `begin_read`, `begin_write`, `publish` | everything below |
| `WriteTransaction` | root, dirty pages, freed pages, `failed` | `insert`, `commit`, drop | page manager, `publish` |
| `ReadTransaction`, `ReadTracker`, `ReadGuard` | snapshot; readers per transaction id | register, `read`, drop | page manager; the allocator asks for the oldest reader |
| `PageAllocator`, `PageManager` | queue of freed pages, `next_page_id`, reserved length | allocate, free | file handler, cache, tracker |
| `PageIO`, `PageCache`, `FileHandler` | cache, file | read, write, sync, `set_len` | operating system |
| `DbHeader`, `CommitSlot` | two commit slots and which is active | `with_commit`, switch | header page |
| `Tree`, `LeafPage`, `BranchPage` and their builders and mutators | page bytes | `get`, `insert`, split, `verify_pages` | transactions, `PageIO` |

Hard here: readers without locks beside a writer that reuses pages; a cache that
is filled after the file was read; a crash between the writes of a commit, with
any subset of them surviving; a commit that fails half-way in a process that
goes on; recovery that must pick the right slot; panics that poison the writer
lock.

Correct means: a reader sees exactly the snapshot it began with; no page is
handed out that a tree still needs; after a crash the store holds the last
commit or the one in doubt; the file can always be opened; every inserted key is
found, and no page is lost or used twice while a transaction succeeds.

### example

| component | state | operations | talks to |
|---|---|---|---|
| `KvStateMachine` | a `kv::Database` | `apply`: a put is one committed transaction, a read returns the value | raft's `apply_committed` |
| `MemoryNetwork`, `MemoryTransport` | the handles of the nodes that run | `send` | every node's message queue |
| `main` | the leader it knows, the nodes it has not killed | `wait_for_leader`, `put`, `read`, `kill_node` | `RaftHandle` |

Hard here: the first node that says it leads need not be the one that leads; a
reply can be the reply to another command.

Correct means: a read finds the last put that has returned, whoever led in
between; commands are decided in the order in which the program waited for them.

The list of hazards, each at its line and with the properties that would catch
it, is in `PROJECT.json`.

## 2. Modules

| module | what it is |
|---|---|
| `RaftLog` | entries, `UpToDate`, and the merge of `append_request`: as one operator, which the cluster uses, and as the loop of the code |
| `RaftNode` | one node as a value, and what its helpers do to it: `become_follower`, `become_leader`, `advance_commit`, `apply_committed`, `restore_state`; the messages |
| `Raft` | the cluster: nodes, storage, transport, clients, crashes; every handler is an action; the properties |
| `ReplicatedLog` | abstract: one growing sequence, every state machine a prefix of it |
| `RaftInvariants` | the inductive invariants of the bounds and the election proofs |
| `RaftLogInvariants` | those of the log: which history of leaders' logs and acknowledgements explains a state, and the places of commands |
| `MCRaft`, `MCRaftLive`, `MCRaftInvariants` | instances for TLC |
| `RaftBoundsProofs` | lemmas about the operators of `RaftLog` and `RaftNode`; proofs: types, `BoundsInv`, the append loop |
| `RaftElectionProofs` | proofs: `ElectionInv` |
| `RaftLogSafetyProofs` | lemmas: what every step does to the history, action by action |
| `RaftSafetyProofs` | proofs: `LogSafe`, and what follows from it; the refinement of `ReplicatedLog`; commands, their places and their answers; a cluster of one node |
| `KvRaft` | composes `Raft` with the example: databases as state machines, the network, the program; end-to-end properties |
| `KvRaftInvariants` | the inductive invariant of the example |
| `KvRaftProofs` | proofs about the example, for every script and number of nodes |
| `KvSnapshots` | abstract: one map, a writer's draft, readers with their snapshots, crashes that keep what has returned |
| `KvPage` | pages as values, and the tree's operations on them |
| `KvStore` | the store: file, cache, allocator, header, writer, readers, crash, recovery; implements `KvSnapshots` |
| `KvStoreInvariants` | the inductive invariants of the store: whose every page is, what a crash leaves, and what the trees hold |
| `KvStoreProofs` | proofs about the store, for any number of readers, pages, keys, transactions and crashes |
| `KvSnapshotProofs` | proofs: what the store's trees hold, and that the store is `KvSnapshots` |
| `KvTree` | the b-tree page by page: byte layout, entries of any size, splits at every level, the pages a transaction holds |
| `KvTreeProofs` | proofs about the b-tree, for trees of any height and entries of any size |
| `MCKvRaft`, `MCKvStore`, `MCKvTree` | instances for TLC |

### How Raft corresponds to the code

`node[i]` has the fields of `RaftNode`, under the same names; `role` with
`votes_received`, `next_index` and `match_index` is the enum `Role`, whose
fields count only in their role. The code's `log[0]` is a sentinel, so its index
k is index k of the TLA+ sequence. `disk[i]` is what `save_state` was last
called with. `msgs` holds what a worker channel has accepted and the receiver
has not handled. `client[c]` is what the caller of `apply(c)` knows; a command
stands for its own output, so an answer names the command it answers. A client
that was refused may call again.

| action | code (`raft.rs`) |
|---|---|
| `become_candidate` | election timeout branch of `launch`, `become_candidate` |
| `heartbeat` | heartbeat branch of `launch`, `on_heartbeat` |
| `vote_request_stale`, `vote_request_grant`, `vote_request_reject` | `vote_request` |
| `count_vote`, `step_down`, `ignore` | `vote_response` (`step_down` and `ignore` also `append_response`) |
| `append_request_stale`, `append_request_mismatch`, `append_request_accept` | `append_request` |
| `append_response_handled` | `append_response` |
| `client_command_accept`, `client_command_refuse` | `client_command` for `apply` |
| `restart`, `crash_after_step_down` | a crash between or inside handlers, then `RaftNode::new` |

A handler runs to its end in one action because the loop awaits nothing inside
it; the one place where a crash inside it matters, between two saves, is the
action `crash_after_step_down`. The order of effects inside a handler (save,
then send; commit, apply, reply) is kept: what is sent is computed from the state
at that point, and under `StorageFaults` each save may fail while the handler
goes on.

`votes`, `counted` and `decided` are history: no guard reads them.

### How KvStore corresponds to the code

`file` is the file as the process sees it, `synced` what the last `sync_data`
made durable, `written` what was written since. `header` is both
`CommitState::header` and the published snapshot (they differ only inside
`publish`, under the writer lock). `writer` is the write transaction with its
dirty and freed pages, `reader[r]` a thread's read transaction.

| action | code |
|---|---|
| `begin_write`, `insert_*`, `abandon` | `Database::begin_write`, `Tree::insert` with `cow_page` and the allocator, drop of a `WriteTransaction` or a failed one |
| `commit`, `write_page`, `write_header`, `sync_data`, `publish`, `commit_fails` | `WriteTransaction::commit` and `CommitState::publish`, one action per write, since readers and crashes come in between |
| `begin_read`, `register` | the two steps of `Database::begin_read` |
| `read_cached`, `read_file`, `fill_cache` | `Tree::get` and `PageIO::read_page`; the cache may evict anything at any time |
| `end_read` | drop of the `ReadGuard` |
| `crash` | a crash and `Database::open_existing` with `recover_header` |

An `insert` is one action: it works on pages that only the writer sees, and the
allocator's question for the oldest reader is the only thing it shares; readers
that come or go between two allocations of one insert can be moved before or
after it. An insert that fails because the file cannot grow leaves what an
abandoned transaction leaves.

`stored`, `attempted`, `acked`, `writer.holds` and `reader[r].sees` are history:
maps read from the pages of a tree at the moment at which it comes into use, with
which the answers of later reads are compared.

`ImplementsSnapshots` maps this to `KvSnapshots`: `publish` is `Commit`, the
first write of a commit's header to the file is `StartCommit`, the copy of the
snapshot in `begin_read` is `BeginRead`, and allocation, caching, page
writes and syncs are stutters. A crash may leave the last commit that returned or
one in doubt; a commit that an earlier recovery has rolled back stays in doubt
until the next commit returns, because recovery falls back in memory only and
leaves the newer header in the file. A second crash can therefore bring it back.

### How KvTree corresponds to the code

A page is its kind, its entries in key order with the offset and size of their
bytes, and `end`, the lower end of the byte area. `pages` is the file, `slot` the
commit it is at, `tx` the write transaction with its dirty and freed pages, and
`call` the insert it is in: the frames of `insert_recursive`, one per level, each
of which is taken up on the way down and again on the way back. An insert is
therefore several steps, and each read or allocation in it may fail; `commit` and
the drop of a transaction are one step each, since `KvStore` has their parts. The mutators of leaves and branches (in place, appending bytes that
a replaced entry leaves unused), the builders (from the end of the page
downwards) and the splits by count are operators of their own, with the sizes
of `leaf_node.rs` and `branch_node.rs`. `split_lone_entry` and
`build_overflows` are the assertions of the builders that can fail (a half of a
split, or a new root, gets more than a page has room for): the process panics
inside the writer lock and no writer comes after.

### How KvRaft corresponds to the code

`launch` is any step of a node that has not been killed, with the state machine
run over the entries it applies; the output goes to the client that `Raft`
answers. `wait_for_leader` takes any node whose role is leader, since the
handles are asked in the order of a hash map. `kill_node` aborts the leader's
task and takes its handle away, so that what is sent to it fails
(`send_fails`, which is also `transport_timeout_ms`). `return` ends the program
on an error, as `?` does. `apply` is a whole transaction on the key: that a
transaction is atomic and a read sees the last commit is what `KvSnapshots` says
of the database, so the composition needs none of its pages.

## 3. Runs

Passing runs:

| run | instance | what it shows |
|---|---|---|
| `raft_terms` | 3 nodes, 3 terms, 2 messages in flight, loss and repetition | log matching, leader completeness, state machine safety and the refinement of `ReplicatedLog` when old entries are replicated, overwritten or committed by later leaders, and a longer log of an older term competes with a shorter one of a newer term; the merge operator equals the code's loop on every request in flight, and is idempotent |
| `raft_crash` | 3 nodes, 2 terms, 1 crash, inside a handler or between two | one leader per term, votes are saved, leader hints are right, saved votes are final, a state machine that starts again is given the same entries; the inductive invariant of the election proofs |
| `raft_single_node` | 1 node, 3 commands, 3 restarts | the short cut of a single node; each client is given its own output |
| `raft_stable_leader` | 3 nodes, the logs three elections can leave, 1 command, 3 messages in flight, 2 of them between the same two nodes | with requests and responses that overtake each other: types, no slice out of bounds, the inductive invariant of the bounds proofs, what the leader counts is saved, nothing committed is cut; liveness: the leader's log reaches everyone and is committed and applied |
| `kv_raft` | the example on 3 nodes, 3 terms; a put, the leader's death, a read | a read answered with its own output finds the put; commands are decided once and in order; Ok means decided; the refinement of `ReplicatedLog` with commands in the logs |
| `kv_readers` | 2 readers, 3 keys, 2 transactions | snapshot isolation (a reader between a branch and its leaf included), cache coherence, allocator safety, `StoreInv`, the refinement of `KvSnapshots` |
| `kv_crash` | 2 keys, 2 transactions, 2 crashes, 1 I/O error | the file opens again; allocator safety, `DurableInv`, `ContentInv` and the refinement of `KvSnapshots` across crashes, failed commits and earlier recoveries |
| `kv_tree` | 4 keys, leaves of two entries, branches of three children, 5 inserts in 2 transactions, 1 I/O error | trees of three levels: every key is found with its last value, in the transaction's tree and in the committed one, entries do not overlap, every checksum on the way down is right, every page has one use (in the committed tree, free, dirty, or lost with a transaction that failed or was dropped), and the bookkeeping of dirty pages never panics |

Violated, each a disagreement between the code and what its own comments or
assertions say:

| run | what happens |
|---|---|
| `kv_raft_reply` | after the leader's death the program reads through a stale leader; the next leader commits the put at the index of the read, the stale leader's `pending_applies` still has the read's channel there, and the read returns Ok with the output of the put: the program ends with "key was not found" although the put had returned |
| `raft_storage_fault` | a failed `save_state` is logged and the vote is sent; after a restart the node votes again, and one term has two leaders |
| `kv_preempted` | `begin_read` copies the snapshot before it registers; two commits in between reuse its pages and the reader sees other data |
| `kv_split_asserts` | updates of the only entry of a leaf use its page up, and the split, which asserts two entries, panics and poisons the writer lock |

The passing runs switch these situations off by constants (`StorageFaults`,
`PreemptedBegin`), or state what remains true: `ReadsFindTheLastPut` speaks of
reads that are given their own output, `ReplyIsDecided` says that an Ok names a
decided entry, if not the client's. `kv_tree` meets the panics of the builders,
of which `build_overflows` is the other one, as ordinary steps.

`LengthFirst` is an assumption on the file system in the same way: a file length
set by `set_len` is durable before the writes that follow it. The code does not
sync the length, and `recover_header` returns every error but a `DatabaseError`
at once. If a crash keeps the new header and loses the new length, the root page
of the active slot lies past the end of the file, the read fails with `IoError`
(in a debug build the `debug_assert!` of `read_at` fails) and the other slot,
which is intact, is not tried: with `LengthFirst = FALSE`, `KvCrash.cfg` violates
`StaysOpenable`.

The check of `advance_commit` that the entry to be committed is of the current
term cannot be shown to be needed: a new leader writes a NoOp before its first
request and a request always carries the whole suffix, so in this code no answer
of the current term can cover an older entry without covering the NoOp.

Every property has a mutant in `PROJECT.json`: a definition with the bug the
property is there to find.

### Bounds

* Three nodes are the smallest cluster with a majority that is not everyone and
  two majorities that overlap in a single node. Two terms give a deposed leader,
  three an entry of an old term that a third leader meets. `MaxInFlight = 2`
  lets a late message of one term meet one of the next; a message is never
  required to be in flight for a third one to be handled, since handlers answer
  one message with one.
* With `ChannelCapacity = 1` two messages of one sender to one receiver are not
  in flight together, except as a copy beside its original, so that messages
  overtake each other only between different pairs. `raft_stable_leader` has
  capacity 2: there a late request meets what a newer one of the same leader has
  done.
* A message that is lost is lost when it is sent, which is the same to every
  receiver. Delivered append traffic may leave a copy behind, since heartbeats
  repeat it.
* In `kv_raft` three terms are needed for a leader that does not know that it is
  deposed while its successor is killed, and for the leader that then overwrites
  its log. One message in flight is enough: who has answered whom is kept in the
  nodes. Two commands are the program's shortest script; `ReadsFindTheLastPut`
  and `DecidedInOrder` were also checked, at three terms, with a second put
  before the kill, and without loss with a put and a read on either side of it;
  these runs take several minutes each and are not kept.
* In `kv_tree` a key of 1400 bytes leaves a leaf of 4096 room for two entries
  and a branch for three children, so that four keys make a branch split under a
  new root: levels beyond the third would repeat what the second one does.
  Values of two sizes make an update that fits and one that does not. In
  `kv_split_asserts` a value is a third of a page.
* The views drop or identify what no action enabled later and no checked
  property tells apart (history, a leader hint, an idle and a refused client),
  or what the rest of the state determines; symmetry permutes nodes, commands,
  values and readers, which no definition tells apart.
* Two transactions are enough for a page to be written, freed and reused under a
  reader, since `new_file` has written the first; `kv_preempted` has three, one
  that frees the page and one that reuses it after the reader has begun. With
  leaves of two entries and three keys, a reader can be between a branch and its
  leaf while the leaf is replaced or split. The view of `MCKvStore` leaves out
  the pages that nobody can come to any more, identifies a cached page that
  equals the file's with an evicted one, and forgets the slots that only a
  recovery would read once no crash is left. Two crashes let a recovery that
  fell back be followed by a commit and another recovery.
* `MaxPages`, `MaxTx`, `MaxTerm`, `MaxInserts`, `MaxFaults`, `MaxCrashes` and
  `MaxRestarts` cap counters in guards. Because of them a state may have no
  successor, so deadlock is not checked: the code's loops never end and wait for
  timers that the bounds cut off.

### Fairness

`StableLeaderReplicates` assumes weak fairness of `heartbeat` and of the delivery
between each pair of nodes: the interval of a leader ticks for ever, and the loop
takes what has reached it out of its channel. The run has no loss; with
unbounded loss nothing could be promised. The property speaks of a leader that is
not deposed; that the random timeouts eventually produce one is not in the code's
hands and is not claimed. The initial states are those three elections leave.

## 4. Proofs

Proved for every value of the constants that the named assumptions allow: any
cluster, script and number of messages, any keys, pages and readers, any number of
crashes:

| theorem | statement |
|---|---|
| `BoundsAlways` | `BoundsInv` is an invariant |
| `TypeCorrect`, `HeartbeatsNeverPanic` | `TypeOK` and `HeartbeatInBounds` |
| `AppendLoopMerges` | `AppendEntriesIsTheLoop`: the loop of `append_request` is the merge, and idempotent |
| `ElectionAlways` | `ElectionInv` is an invariant |
| `OneLeaderPerTerm` | `ElectionSafety`: one leader per term, and the `unreachable!` of `append_request` is unreachable |
| `HintsAreRight`, `SavedVotesAreFinal`, `GrantedVotesAreSaved` | `LeaderHintIsRight`, `SavedVoteIsFinal`, `GrantedVoteIsSaved` |
| `LogSafeAlways` | `LogSafe` is an invariant, and every step is one of `Progresses`: no node takes back what it has committed |
| `LogsMatch`, `LeadersAreComplete`, `StateMachinesAgree`, `MatchesAreSaved`, `CommitsAreKept`, `RepliesAreDecided` | `LogMatching`, `LeaderCompleteness`, `StateMachineSafety`, `MatchIsSaved`, `CommittedIsKept`, `ReplyIsDecided` |
| `ClusterIsOneLog` | `ImplementsReplicatedLog` |
| `CommandsInPlaceAlways` | a command has one index at which it may ever be, and an Ok carries what was decided there |
| `AloneRepliesAreOwn` | `ReplyIsOwnOutput` when `ClusterSize = 1` |
| `ExampleKeepsRaft`, `ExampleIsConsistent`, `ExampleTypes` | the example takes steps of Raft or loses messages; `KvInv` is an invariant of it; `KvTypeOK` |
| `CommandsAreInOrder`, `ReadsAreLinear` | `DecidedInOrder` and `ReadsFindTheLastPut`, for every `Script`, `Put` and `KillAfter` |
| `ExampleRepliesAreDecided`, `ExampleIsOneLog` | `ReplyIsDecided` and `ImplementsReplicatedLog` for the example |
| `StoreIsConsistent` | `StoreInv` is an invariant of the kv store |
| `StoreTypesAreKept`, `CacheIsTheFile`, `PagesHaveOneUse`, `SnapshotsAreIsolated` | `TypeOK`, `CacheIsCurrent`, `AllocatedPagesAreUnused`, `SnapshotIsolation` of `KvStore` |
| `StoreIsDurable`, `AcknowledgedCommitsSurvive` | `DurableInv` is an invariant of the store; `StaysOpenable` |
| `StoreHoldsItsTrees` | `ContentInv` is an invariant of the store |
| `StoreIsSnapshots` | `ImplementsSnapshots` |
| `InductiveInv` | `IInv` is an invariant of the b-tree |
| `EveryKeyIsFound`, `TheLayoutIsSound`, `TheChecksumsMatch`, `EveryPageIsAccountedFor`, `TrackerIsQuiet` | `KeysAreFound`, `LayoutIsSound`, `ChecksumsMatch`, `PagesAreAccountedFor`, `TrackerNeverPanics` |
| `TypeCorrect` of `KvTreeProofs` | `TypeOK` of `KvTree` |

Assumptions: the named assumptions of the modules (`Node` is finite and not
empty, `Nil` and `NoOp` are values of their own, a script is not empty and sends
no command twice; `Key` and `Reader` are finite, there is room for more than the
header page, two entries and two children, `None` is none of
the values, headers and maps; in `KvTree` keys are positive numbers, 0 being
`NoKey`, keys and values have any sizes, and a page has at least
`MIN_PAGE_SIZE` bytes) and, for Raft, `StorageFaults = FALSE`; with failing storage the statements
are false (`raft_storage_fault`). The theorems about the store assume
`PreemptedBegin = FALSE`, since with a writer between the two steps of
`begin_read` they are false (`kv_preempted`), and those about what a crash leaves
also `LengthFirst = TRUE` (section 3). The constants that only bound TLC (`MaxTerm`,
`MaxInFlight`, `ChannelCapacity`, `MaxRestarts`, `MaxPages`, `MaxTx`, `MaxCrashes`,
`MaxFaults`, `MaxInserts`, `BranchCapacity`) are arbitrary in the proofs, `Lossy` is either value.

*Bounds.* `HeartbeatInBounds` is not inductive: a response that arrives late may
set `next_index` to anything. `BoundsInv` adds that every `AppendRequest` and
`AppendResponse` in flight, as long as its leader still leads that term, speaks
only of entries the leader has (`AppendsInBounds`), which holds because a leader's
log only grows within its term (`HoldsIsStable`), and that storage mirrors the
node between handlers (`Persisted`), which is what a restart needs.
`BoundsStep` says what a step must guarantee for the invariant to be kept;
each action has one lemma that shows it does.

*The append loop.* `AppendLoop` is a recursive function of the round, so nothing
but its equation is known of it. `Merged` says what the log is after k rounds:
unchanged up to the first conflict, cut there and continued with the request from
there on. It satisfies the same equation (`RoundMerges`), and the two functions
cannot differ in a least round (`LoopMerges`). After the merge there is no
conflict left (`AppendAgainChangesNothing`).

*Elections.* `ElectionSafety` needs that a majority stands behind every leader.
The code counts votes by a number, so the invariant carries the set of voters it
stands for (`CountIsExact`), that a granted vote in flight has not been counted
(`GrantsAreFresh`), that a vote request in flight has not been granted
(`RequestsAreFresh`), that each node votes once per term and stands by it across
crashes (`OneVotePerTerm`), and that leaders, senders of append requests and
named leaders were elected (`OnlyTheElectedLead`). Two majorities of a finite set
meet (`OneElected`). The transport must not deliver one vote request or response
twice: with a duplicating transport the counter would count a voter twice.

*Log safety.* None of `LogMatching`, `LeaderCompleteness` and
`StateMachineSafety` is inductive: a request that was sent three terms ago may
still arrive, and whether an entry can be lost depends on who held it when. The
state does not remember that, so the invariant speaks of two pieces of history,
`led[t]`, the log of the leader of term t, and `acks`, who has held how much of
it while in that term. `LogSafe` says that some history explains the
state; each lemma of `RaftLogSafetyProofs` takes a history for the state before a
step, extends it by what the step does (an election starts a log of a new
term, `client_command` makes it longer, a handler that accepts a request adds
an acknowledgement), and shows that it explains the state after. The parts are

* every log, request and decided sequence is, up to each of its entries, what the
  leader of that entry's term had (`Backed`, `Quotes`). Two logs with the same term
  at an index therefore agree up to it;
* what was acknowledged is still there, or the node has seen a later term, and
  even then its log wins against any log without the entry (`AckIsKept`);
* a candidate's log is at least as good as everything its voters had acknowledged
  (`VoteCompares`), so that a new leader has every entry of an earlier one unless
  a majority has left that term without holding it (`LaterLeadersKnow`,
  `Blocked`). An entry is `Chosen` when a majority has held it in the term that
  wrote it; an entry cannot be both, because two majorities meet;
* whatever is committed is chosen, which is where `advance_commit` counting only
  entries of its own term comes in (`CommitsAreChosen`). The majority it counts
  includes the leader itself, whose own `match_index` stays 0.

From this `ClusterIsOneLog` follows step by step: a step of Raft that
commits is a `Choose` or a `Learn` of `ReplicatedLog`, a restart is a `Forget`,
everything else a stutter (`StepRefines`).

*Commands.* A third piece of history, `place[c]`, is the index at which a leader
took the command: entries are never moved to another index, so that everything
about the command, the pending request included, speaks of this one index. It
does not make an Ok the client's own: another command may be decided at this
index (`kv_raft_reply`). With a single node nothing is ever overwritten, and
the output is the client's own (`AloneRepliesAreOwn`).

*Example.* A step of the example is a step of `Raft` or loses a message
(`KvSteps`), so all invariants above hold in it although a killed node takes no
step. `KvInv` adds what connects the three parties. A command is in the logs only
if the program has sent it, and the program sends one after all before it
were answered Ok (`SentInOrder`), hence was something decided at their places;
that makes the order of the program the order of the log. A database holds the
last put among the entries its state machine was given (`DatabasesFollow`), and a
read that is answered with its own output has returned the last put before
its place (`ResultsFollow`). That the fold of `apply` over a batch of entries is
the last put of the batch is not an induction over data in general but a
walk along one log, which `FoldIsLeft` proves by the least set of entries at which it would fail.

*Store.* None of the store's properties is inductive: that a reader's page is not
overwritten depends on the queue, the tag of every page in it and the counts of the
tracker, and on where in its descent the reader is. `StoreInv` says whose every
page is. A page below `next_page_id` is in the current tree, in the queue, the
transaction's, or lost, and only one of these (`PagesAreApart`). The draft is made
of the transaction's pages and of those of the current tree, and what it frees is
of the current tree and not in the draft (`DraftIsHeld`), so that `publish` may
queue it. A reader's snapshot is a tree that nobody writes to; a page of it that is
in the queue has a tag above the reader's transaction (`SnapshotIsKept`), and the
tracker counts exactly the registered readers (`ReadersAreTracked`), so that
`allocate` does not come to it. That is where the writer must not run between the
two steps of `begin_read`: the reader of such a moment is not counted.
`ReaderIsAt` follows it from the root to its leaf, with the copy it has read from
the file and not yet cached. Pages reach the file before the header
(`DirtyIsWritten`), and both slots of every header that memory or the disk may
have are trees (`SlotsAreTrees`). The work is in `insert`: `Grafts` says what a
piece of tree must be to take the place of a part of the draft, one lemma shows
that such a step keeps the invariant (`Grafted`), and the five ways an insert can
go (a leaf that has room or is split, under a branch or alone, a separator that the
branch has already) each give such a piece.

*Durability.* `DurableInv` adds the disk. From the first commit that has returned,
the pages of the current tree are synced and not written since, and one slot of
every header that may survive, the synced one or any written since, names it
(`CurrentIsDurable`): `with_commit` only ever replaces the slot that is not
current, also when recovery has fallen back to the other one or an earlier commit has
failed and left its header in the file. Between the sync and the switch in memory
the disk is ahead (`DiskIsAhead`). No slot names a page past the end of the file
(`FileIsLong`), so that recovery meets a checksum that does not match and not
another error, and tries both slots (`RecoveryFinds`).

*The store as a map.* A checksum names a whole tree, so it can be asked what the
tree holds (`Holding`), and `StoreIsSnapshots` is about that and no longer about
pages. `GrownTakes` is its centre: whatever way an insert goes, the tree that
comes out holds what the old one did and the entry, and every key is in the
leaf that a search for it comes to (`Sorted`). For a split below a branch the keys
below the separator keep their child, those from it on move one to the right, and
every other search ends where it did (`SplitRoutes`). `ContentInv` says that the
maps the history remembers are those of the trees (`HistoryHolds`), and of every
header the disk may offer that it leads to the current tree or to that of a
commit in doubt (`HeadersAreKnown`): either its active slot is the current
commit, all of whose pages are there unless the other slot is the same, or the
other slot is, and then recovery comes to it when a page of the newer tree is
lost. A step then maps to a step of `KvSnapshots` or to a stutter, action by
action (`WriterRefines`, `ReaderRefines`, `CrashHolds`). A reader's answer is right
since its leaf is the one it would have come to at its begin, which is
`SnapshotIsKept` again.

*B-tree.* A tree of any height is not defined by recursion but by its paths:
`path[r][k]` is the page to which a search for the number k comes on level r.
Every number has a path, key or not, so that a page is a set of numbers, that of
the searches which pass it, and a split is a cut of that set at the separator.
`Tree` says that the lowest level is leaves, each with keys of its own set only,
and each level above is branches that lead every number to the next page of its
path, with the checksum that this page has, that no child is without a
number, and that no page is on two levels. `Grafted` allows for the insert that is
under way: below the innermost frame (`low`) the tree is right; on the levels of the
frames (`Stacked`) the branch on the path of the key may still name the old child,
and what the last frame has returned is at hand (`Comes`). `IInv` then has three parts. `CommittedTree`: the tree in the file
is whole, holds what was committed, and its pages are what is neither free nor lost.
`WrittenTree`: the transaction's tree has the committed pages it has not freed
and those it has written, and holds what was inserted. `Contents` and
`Space`: every page is laid out soundly, and every number below `next_page_id`
has one use. The work is one lemma per way a frame can end: a leaf that has room, a
leaf that is split, a branch whose child was replaced, one that gets a second
child, one that is split by it, and the two ends at the root; below them the
lemmas on entries and pages show for both kinds that an update in place, an
appended entry and a built page keep the order of the keys and the bytes apart.
Tree::verify_pages and Tree::get are then walks along paths. Pages are finitely
many and each is on one level, so a tree has at most `MaxPages` levels,
which is as far as `TreePages` and `Get` go. After a panic of a builder there is
nothing to show but that the committed tree is still there.

For these proofs pages are laid over one another by `Over`, which has the meaning
of `@@` of module `TLC`, and in `KvTree` the bytes of a builder are counted by a
recursive function and not by a fold: the provers know nothing of either.

TLC checked these invariants before they were proved; those of the log and the
example with the history as variables, in runs that are not kept because the theorems replace them and they
take long: `LogInv` and `CommitInv` on 3 nodes and 2 terms with 2 messages in
flight and loss (251,091 states), with one restart and 1 message in flight
(56,081) or 2 (1.2 million); `PlaceInv` on 3 nodes, 2 commands, 2 terms and one
restart (507 thousand); `KvInv` on the instance of `kv_raft`, and `AloneInv` on that
of `raft_single_node`. `StoreInv` is part of `kv_readers` (439,145
states), `DurableInv` and `ContentInv` of `kv_crash` (415,227). `IInv` of the
b-tree is beyond TLC, since its paths are functions of all numbers; what it is for,
the six invariants of `kv_tree`, was checked before (711,024 states).

Every invariant and action property of a passing run is a theorem. Only
model-checked: liveness (`StableLeaderReplicates`; TLAPS does not do fairness),
and the violated runs, each of which shows one behaviour. `ReplyIsOwnOutput` is checked and proved for one node and
false for more.

## 5. Assumptions and what is not modelled

* Timers: any node that does not lead may time out at any moment, and any leader
  may send a heartbeat.
* The transport, a trait, is taken to deliver a message at most once. Copies of
  append traffic are modelled because heartbeats make them anyway.
* Client commands that only read (`is_leader`, `log`, `log_entry`) and the queue
  in front of the node: they change nothing and what they return is one field.
  `status` is modelled where the example's `wait_for_leader` asks for it.
* `RaftConfig` and the timers: random timeouts only decide which of the enabled
  timer actions happens.
* A client of a deposed leader may wait for ever for a reply; the code promises
  none ("todo add timeout to client commands").
* Serialisation of saved state and messages is lossless.
* A page may be torn by a crash; the header, 104 bytes at the start of the file,
  may not. `sync_data` makes everything written before durable.
* `new_file` syncs nothing, so that a store to which nothing was ever committed
  may be lost by a crash; `StaysOpenable` and `KvSnapshots` speak of what comes
  after the first commit.
* The page checksum has no collisions.
* `KvStore`'s trees are a leaf, or one branch over leaves, and its entries have
  one size; trees of any height and entries of any size are `KvTree`'s, which has
  no readers and no crashes.
* The bytes of the header, `validate_page_size`, the magic number and files that
  are not databases; the Windows variants of the file handler; what the example
  prints.

## 6. Plan

1. Done: Raft as a whole with the proofs of its safety; the kv store's
   concurrency, allocation, commit and recovery with its abstract specification;
   the b-tree with its layout; the example that joins the two, with its proofs; the
   store's consistency, isolation and durability proved, and that it is `KvSnapshots`;
   the b-tree's invariants proved.
2. Next in the proofs: that `KvTree`, with an insert as one step, is the tree that
   `KvPage` and `KvStore` have, where it is of two levels.
3. Next in the model: several programs on the example at once, with histories
   that are checked for linearizability.
