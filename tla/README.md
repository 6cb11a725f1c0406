# R1DB: TLA+ specifications

R1DB is the database engine of CockroachDB v23.1.28 (under `engine/`) packaged
with an entrypoint, `entrypoint.sh`, that supervises it in a container. Modelled are
the parts in which a mistake loses data or hangs a range, and in which the order of
events is hardest to test. From the outside in:

* **`StoreRecovery`**: the container supervisor, with its one-time recovery from a
  corrupt store. It is R1DB's own code, and has to be right over crashes, power
  losses and restarts.
* **`ParallelCommit`**, which implements **`AtomicTransaction`**: the commit of one
  transaction of the key-value layer, with everybody who may decide about it:
  coordinator, record, intents, timestamp cache, pushers, recovery, intent resolution.
* **`TxnWaitQueue`**: pushes that wait for transactions, and distributed deadlock
  detection among them.
* **`Latches`** and **`LatchSignal`**: the isolation of requests while they evaluate,
  and the lock-free signal they wait on.
* **`EpochLease`**: who may serve a range, by clocks, leases and liveness records.
* **`ClosedTimestamps`**: a write's way through evaluation, proposal, Raft and
  application, and the promises that followers' reads rest on.
* **`ProposalBuffer`**: the buffer between the goroutines that propose and Raft.
* **`LockFreeTracker`**, which implements **`Tracker`**: the lock-free summary of the
  timestamps that are being evaluated.

## Files

| Module | Content | Run by |
| --- | --- | --- |
| `StoreRecovery`, `StoreRecoveryProofs` | the supervisor; inductive invariant and theorems | `MCStoreRecovery.cfg` |
| `ParallelCommit`, `AtomicTransaction`, `ParallelCommitProofs` | the commit protocol; what it promises; inductive invariant, refinement and theorems | `MCParallelCommit.cfg`, `MCIntentCleanup.cfg`, `MCBlindReplay.cfg`, `MCRecoveryAfterRollback.cfg` |
| `TxnWaitQueue`, `TxnWaitQueueProofs` | the transaction wait queue; inductive invariant and theorems | `MCTxnWaitQueue.cfg` |
| `Latches`, `LatchesProofs` | the latch manager; inductive invariant and theorems | `MCLatches.cfg` |
| `LatchSignal` | its signal; the theorems are in `LatchesProofs` | `MCLatchSignal.cfg` |
| `EpochLease`, `EpochLeaseProofs` | range leases and node liveness; inductive invariants and theorems | `MCEpochLease.cfg`, `MCPromotionRace.cfg`, `MCLeaseBeforeHeartbeat.cfg`, `MCSecondRestart.cfg`, `MCLeaseTypeSwitch.cfg` |
| `ClosedTimestamps`, `ClosedTimestampsInv`, `ClosedTimestampsProofs` | proposals and closed timestamps; the inductive invariants; the theorems | `MCClosedTimestamps.cfg`, `MCReplayAfterSnapshot.cfg`, `MCUnindexedProposal.cfg` |
| `ProposalBuffer`, `ProposalBufferProofs` | the proposal buffer; inductive invariant and theorems | `MCProposalBuffer.cfg` |
| `LockFreeTracker`, `Tracker`, `LockFreeTrackerProofs` | the tracker; its interface; invariant, refinement and theorems | `MCLockFreeTracker.cfg` |

Module `M` has its instance for TLC in `MCM.tla`. A run is `tlc -config <cfg> <MC
module>`, proofs are checked by `tlapm <module>`. `PROJECT.json` lists components,
runs, the map from definitions to source lines, hazards, findings and theorems. A
definition preceded by `\* Mutant:` is not part of a specification: it is a plausible
mistake in the definition that follows it, kept to show that some property notices it.
Several modules take their bounds and settings from a constant set of records
(`Budgets`, `Instances`), one of which every behaviour starts with: one run then
asks its question of several situations, each with the bounds that situation needs.

## Inventory

What keeps state, what changes it, and what makes it correct.

**Supervisor (`entrypoint.sh`).** State: the recovery directory on the data volume
(a marker file `state` or its sentinel `exhausted`, one fresh store, possibly a
leftover `state.tmp.*`), one log directory per run of the database in the store it
ran on, and the shell's own variables. It selects a store, waits for its peers,
prunes logs, records the run it is about to start, starts the database,
bootstraps the cluster on node 1, and watches its children. When the database
exits, a handler in a process group of its own looks for a corruption report in
the log and, once in the life of the volume, prepares a fresh store that joins the
cluster as a new node. Hard: the directory is changed by several commands and can
be interrupted between any two, by a signal, a kill or a power loss that also
forgets what was not synchronised; the handler has a deadline and may outlive it;
operators change the environment between starts. Correct: corruption is recovered
from at most once, the store given up is never used again, nor is a fresh store
that turned out corrupt, no second cluster is ever initialised, and a database
that exited ends the container.

**Transaction record** (`batcheval/cmd_end_transaction.go`, `cmd_heartbeat_txn.go`,
`cmd_push_txn.go`, `cmd_recover_txn.go`, `cmd_query_txn.go`, `transaction.go`).
State: status, epoch, write timestamp, in-flight writes. Several actors change it,
and the record may be missing because it was not yet written or because it was
removed. Correct: nobody undoes or moves a commit, even one that is only implied by
a STAGING record and its intents.

**Timestamp cache** (`replica_tscache.go`). In-memory on the leaseholder: per
transaction a tombstone and a push marker, per key the highest read. It is what is
left of a removed record, and is replaced by a low water mark when the lease moves.

**Intents and values** (`storage/mvcc.go`, `intentresolver`, `cmd_query_intent.go`).
Writes, replays of writes, resolution. Correct: all intents of a transaction become
values at one timestamp, or none does.

**Coordinator** (`kvcoord`: TxnCoordSender, txnPipeliner, txnSpanRefresher,
txnCommitter, DistSender). Sends the STAGING record together with the last writes
and proofs of the pipelined ones, to several ranges at once. Hard: each of these
RPCs can fail with the request evaluated or not, now or later, and can be sent
again, while others decide about the transaction. Correct: it acknowledges only a
commit that happened, and never goes on with a transaction that is committed.

**Pushers and recovery** (`concurrency/lock_table_waiter.go`, `txnrecovery`). Whoever
meets an intent pushes its transaction; a STAGING one is recovered: probe every
in-flight write and the record, prevent what is missing, finalise the record. Hard:
probes are stale when they are used. Correct: their verdict is the coordinator's.

**Transaction wait queue** (`txnwait/queue.go`). State, on each leaseholder: per pushed
transaction the pushes that wait for it, with the transactions that wait for theirs.
Hard: the record, the queue and the queries among ranges change at different times,
and a lease change throws the queue away. Correct: nobody waits for what has
happened already, and a cycle is broken, by one of its members.

**Latch manager** (`spanlatch/manager.go`, `signal.go`). State: a tree and a list of
reads per scope, and two signals per request. Hard: waiters work on immutable
snapshots, without the mutex; reads enter the tree late; some requests evaluate first
and check afterwards; holders get stuck. Correct: conflicting requests never hold
latches together, nobody waits in a circle, nobody sleeps through a signal.

**Leases and liveness** (`replica_range_lease.go`, `batcheval/cmd_lease*.go`,
`liveness/liveness.go`, `clock_monotonicity.go`). State: the lease in the replicated
state, pending requests and the minimum proposal time in memory, liveness records in
the store, their cached copies, clocks. Hard: each is read at another time, and the
clocks disagree. Correct: one replica serves at a time, and writes never slip under
reads of a previous holder.

**Proposals and closed timestamps** (`replica_proposal_buf.go`, `replica_raft.go`,
`replica_application_*.go`, `kvserverbase/forced_error.go`, `replica_closedts.go`,
`closedts/tracker`). State: evaluating requests, buffered and pending proposals, the
log, the applied state, what the side transport brought. Hard: commands are lost,
duplicated and reordered, and proposed again; leases change in between; snapshots
skip entries. Correct: a command applies at most once and its client is told the
truth, and nothing applies at or below a closed timestamp.

**Lock table**, **quota pool**, **descriptor leases and sqlliveness**, **jobs
registry**: stateful and concurrent, not modelled yet. **Raft**, **gossip**, **SQL**,
**management API**, **build and release scripts**: not modelled, for the reasons
under "Not modelled".

## StoreRecovery

### State and actions

Two processes take steps: `sup`, the supervising shell, and `hnd`, the handler.
Each is a program counter whose labels are commands of the script; a step is one
command that changes state, so that `Signal`, `Kill` and `PowerLoss` fall between
any two. `write_recovery_marker` and `mark_recovery_exhausted` are run by both, and
are written once with the process as parameter.

| Script | Actions |
| --- | --- |
| `select_recovery_store` | `SelectOriginal`, `SelectReject`, `SelectFresh`, `SelectScan`, `ScanClean`, `ScanCorrupt`, `ScanUnsafe` |
| `prune_old_run_logs`, `prepare_current_run_log_dir` | `EnumerateRuns`, `PruneOne`, `PruneDone`, `MakeRunDir` |
| `mark_recovery_started`, `write_recovery_marker` | `WriteMarkerTemp`, `WriteMarkerFill`, `WriteMarkerReplace`, `WriteMarkerSync` |
| `cockroach start`, bootstrap, supervision | `StartDb`, `PollDbAlive`, `PollDbExited`, `PollTunnelExited`, `PollAllAlive` |
| `corrupt_store_recovery_handler`, `prepare_corrupt_store_recovery` | `HndClassify`, `HndConsumed`, `HndPreserve`, `HndMakeDir`, `HndMakeStore`, then the marker's |
| `mark_recovery_exhausted` | `ExhaustReplace`, `ExhaustSync`, `ExhaustInvalidate` |
| `run_corrupt_store_recovery_bounded`, `terminate_recovery_handler` | `HandlerCollected`, `HandlerTimeout`, `TerminateAfterTimeout`, `DoomedHandlerDies` |
| `fail_closed_interrupted_recovery` | `FailClosedNothing`, `FailClosedExhaust`, `FailClosedSentinel` |
| `cleanup`, traps | `Signal`, `CleanupHandler`, `CleanupThenFailClosed`, `CleanupExit` |

Every command that can fail has a branch in which it does. A handler that does not
die of KILL is `doomed`: it finishes the system call it is in, at any later time,
and dies. `images` holds the directory images since the last successful fsync of
the directory; a power loss leaves any one of them. `recorded`, `sealed`,
`tainted`, `startedOn` and `prunes` are history, read by properties only.

Assumptions: directory updates reach the disk in the order they were made
(ordered metadata journalling) and log contents survive a power loss; the order
of modification times of run directories, by which they are pruned, is the order
of their creation; a corruption report lies in the part of the log that is
scanned. Topologies are compared as a whole: node id, node count, and a number
for host names, ports and certificates.

### Properties

`OriginalRetired`, `OneFreshStore`, `TaintedFreshRetired`, `ExhaustedIsFinal`: what
"at most once" means over all starts. `NoInitAfterRecovery`, `FreshStoreNeedsPeers`
(proved, and not checked by a run): the fresh store joins an existing cluster that can
still have a quorum.
`RecordedRunRetained`: pruning does not remove the log the next start must inspect.
`DbExitEndsContainer`: the only liveness promise.

**Fairness** is weak fairness of the supervisor's own waits and of its clean-up.
The script justifies it: every wait is bounded by a deadline on the monotonic
clock (`monotonic_millis`), and its commands return. Nothing is assumed of the
handler, of the children, or of the start-up.

**Bounds** (`store_recovery`): two names for fresh stores, so that a second recovery
would show; four runs and a retention of two, so that the pruning boundary is
reached on either store; three environments: three nodes, the same with automatic
recovery disabled, and a redeployment with two nodes. The node is node 1, the only
one that bootstraps. Deadlock is checked: the supervisor can always be started
again. Starts are unbounded; only those that create a run directory are counted.

### What is proved

For every set of store names, every set of environments and all bounds:

| Theorem | Statement |
| --- | --- |
| `Invariance` | `Spec => []IInv` |
| `TypeCorrect` | `Spec => []TypeOK` |
| `SingleFreshStore` | `Spec => []OneFreshStore` |
| `InitOnlyBeforeRecovery` | `Spec => []NoInitAfterRecovery` |
| `FreshStoreHasPeers` | `Spec => []FreshStoreNeedsPeers` |
| `OriginalStaysRetired` | `Spec => OriginalRetired` |
| `TaintedStaysRetired` | `Spec => TaintedFreshRetired` |
| `ExhaustedStaysFinal` | `Spec => ExhaustedIsFinal` |
| `RecordedRunIsRetained` | `Spec => []RecordedRunRetained` |

The assumptions are that the original store is not among the fresh ones, that
environments are records of a topology and a flag, and that the bounds are natural
numbers with a retention of at least one.

None of the properties is inductive: each depends on what a power loss may bring
back. `IInv` therefore speaks of every image in `images` (`ImagesOK`): its markers
name only the store it holds, under a topology of three or more nodes; after a
recovery was recorded none of them lacks the directory, after exhaustion was sealed
none can be selected, and if its store is tainted, the image is `Condemned`, that
is, the scan of the run it names would find the report. To this it adds what the
history says of the directory (`HistoryOK`), where the two program counters can be
at the same time (`ControlOK`), what is in the directory while a marker is being
written (`RecordingOK`), and what is known of the chosen store between its
selection and its start (`FreshBootOK`, `ScanOK`). The proof has a lemma for each
group of actions; `Frame` and `NewImage` discharge `ImagesOK` for steps that leave
the directory alone and for those that add one image.

`RecordedRunIsRetained` has an invariant of its own, `RInv`, on top of `IInv`: a start
prunes once and makes one run, so that since a marker named a run at most as many newer
runs were made as there were prunings, and a pruning that keeps the `Retention` newest
does not reach it. This is said of the markers in every image as well, and for the run
that is under way.

Only model-checked: `DbExitEndsContainer`, as liveness is out of the prover's reach.

## ParallelCommit

### State and actions

One transaction, which writes every element of `Key`, each on a range of its own
apart from the record; those in `Pipelined` are written before the commit batch and
proved by a QueryIntent in it. `Blind` are those written by a Put, the others by a
write that also reads. Timestamps are small naturals; the transaction starts at 1.

| Variables | Code |
| --- | --- |
| `rec`, `tomb`, `push` | the record, and its tombstone and push marker in the timestamp cache |
| `intent`, `value`, `readTs` | per key: intent, committed value, timestamp cache entry |
| `pc`, `epoch`, `rts`, `wts`, `sub`, `et`, `built`, `told` | the coordinator, and the state of each of its RPCs |
| `net` | requests that may still be evaluated |
| `ppc`, `seen`, `work`, `todo`, `found` | each pusher, and its recovery |
| `promised` (history) | the highest timestamp below which a pusher was told it may read |

`Put`, `QueryOwnIntent`, `CommitTxn`, `RollbackTxn`, `HeartbeatTxn`, `PushTxn`,
`QueryIntent`, `QueryTxn` and `RecoverTxn` are the evaluation of a request together
with its update of the timestamp cache: latches make that atomic. Everything else
interleaves. `PipelineWrite` through `Rollback` are the coordinator: parallel commit,
resend after a failed RPC, refresh and retry with the EndTxn split off, restart in
a new epoch, rollback. `Encounter`, `Resolve`, `ProbesDone` are the pusher's own
steps, `ResolveFromRecord` and `GcRecord` the asynchronous clean-up, `MoveLease` and
`BumpKey` a new leaseholder and a reader.

An answer counts only while the coordinator waits for that attempt: a lost answer
is a request evaluated after its RPC failed, and a request that is lost is one that
is never evaluated. A request in `net` survives the coordinator's loss of interest
in it, so that writes of an earlier epoch and EndTxns of an earlier attempt arrive
late. Which pusher wins (priority, force, expiry) is left open.

Not modelled: the abort span (it only saves work for aborted transactions), refresh
on the server, other transactions' values, sequence numbers and savepoints,
deadlines, commit triggers, one-phase commits, local resolution in EndTxn, and the
heartbeat's reply to the coordinator. A second resend of one RPC is the same as the
first to everybody who looks.

### Properties

* `AtomicCommit`: a committed record has, on every key, a value at its timestamp or
  an intent that resolves to it; without it either all keys have values, at one
  timestamp, or none has.
* `NotUnexpectedlyCommitted`: the coordinator never works on, nor reports as aborted,
  a transaction that is committed.
* `RecoveryFindsTheCommit`: a recovery that found every write finds that commit when
  it gets to the record. The "programming error" returns of RecoverTxn for an implicitly
  committed transaction are reached in one way only: the record is ABORTED because the
  client's rollback wrote it again after it was committed and removed, when every key
  has its value already. `RecoveryNeverFails`, without that exception, is what the code
  asserts; TLC refutes it with `MCRecoveryAfterRollback.cfg` (see [Findings](#findings)).
* `ExplicitCommitSucceeds`: after the acknowledgement, the EndTxn that makes the
  commit explicit is not refused with a retry error.
* `ImplementsAtomicTransaction`: the protocol implements `AtomicTransaction`, whose
  state is a commit timestamp, a floor below which nothing may commit any more, and
  what the client was told. The mapping takes the transaction to commit at the moment
  the last of a STAGING record and the writes it names is in place. The refinement says
  that a commit, *implicit or explicit*, is never undone and never moves; that the
  client is told of a commit only when there is one, at the timestamp it is told; that
  it is told of an abort only when nothing will ever commit; and that nothing commits
  below a timestamp that a pusher was given.
* `IntentsCleanedUp` (liveness): see below.

These are defined from the record, the intents and the values, not from the
operators by which the code looks at them.

### Runs and bounds

One key is written in the commit batch and one pipelined. `parallel_commit` starts
with one of these budgets:

| Budget | Timestamps | Restarts | Pushers | Faults | For |
| --- | --- | --- | --- | --- | --- |
| `Restarted` | 2 | 1 | 1 | 1 | the whole protocol, over two epochs |
| `Replayed` | 2 | 0 | 1 | 2 | the protection of replays, which takes two faults in one attempt |
| `RecoveredTwice` | 2 | 0 | 2 | 0 | two recoveries that race with each other and with a refresh |
| `PushedAgain` | 3 | 0 | 1 | 0 | a transaction that is pushed again after it refreshed |
| `Undecided` | 1 | 0 | 2 | 1 | a commit that an error left undecided, a rollback, and two recoveries |

A fault is an RPC that fails, a pipelined write that does not arrive in time, a
reader, or a lease change; pushes, recoveries, heartbeats and clean-up are free. Two
timestamps are enough for a write, a push or a record to be above or below the staging
timestamp, two keys for one write to be found and the other missing, and two epochs
for a record, an intent and a request to be of different attempts. A step to a
timestamp above the bound is not taken. Deadlock is not checked: a transaction that
has ended has nothing more to do. These properties are of safety, and no fairness is
assumed. `blind_replay` is `Restarted` with the written key blind.
`MCRecoveryAfterRollback.cfg` has the budget `Undecided`: two pushers, whose recoveries
overlap, and one fault, the one that makes the commit ambiguous.

`intent_cleanup` adds fairness of one contending transaction (`Contention`): it keeps
running into intents and follows up what it found, because the lock table's waiter
polls; and a push that could win infinitely often does so, because a coordinator that
was abandoned lets its heartbeats expire, after which any push wins
(`cmd_push_txn.go:245`). Nothing is assumed of the coordinator or the asynchronous
clean-up. Under that, no intent stays for ever.

### What is proved

`ParallelCommitProofs`, for every set of keys, any of them pipelined, any number of
contending transactions and all bounds on timestamps, epochs and faults:

| Theorem | Statement |
| --- | --- |
| `Inductive` | `Spec => []IInv` |
| `TypeCorrect` | `Spec => []TypeOK` |
| `AtomicCommitHolds` | `Spec => []AtomicCommit` |
| `NotUnexpectedlyCommittedHolds` | `Spec => []NotUnexpectedlyCommitted` |
| `RecoveryFindsTheCommitHolds` | `Spec => []RecoveryFindsTheCommit` |
| `ExplicitCommitSucceedsHolds` | `Spec => []ExplicitCommitSucceeds` |
| `ImplementsAtomicTransactionHolds` | `Spec => ImplementsAtomicTransaction` |

All of them assume `Blind = {}`: every write of the transaction reads before it writes.
With a blind write `NotUnexpectedlyCommitted` is false (`blind_replay`), and the proof
breaks exactly there, in the answer of a `Put` that meets its own committed value.

The invariant has three parts. `CoreInv` relates the record and the store to the
coordinator. Its centre is `Blocked(k, e, t)`: the write of epoch `e` is not at `k` at or
below `t`, and the timestamp cache entry of `k` keeps it from ever getting there; once
true it stays true. A parallel commit that is recorded, or whose EndTxn may still be
evaluated, and which the coordinator has given up (`Past`: a later epoch, a later
timestamp, a retry, an abort) has a key that is blocked (`PastOK`); so nobody, however
late, can find it complete. A committed record is the commit the coordinator is at or
has ended with (`CommittedOK`), and what is left of it when the record is removed are
values on all keys (`GoneOK`). `IntentsOK` says where an intent's timestamp comes from
(the coordinator, a read of the key, or a push), which bounds what a pusher may know
beyond the record, and `PromisedOK` that promises made to pushers are below the record
or the push marker. `ReadyOK` is about the EndTxn after a refresh: the writes it commits
are in place, or the transaction is dead, or it is committed.

`CallInv` says what each answer that the coordinator has already got is still worth while
it waits for the others: a confirmed write is there, or has become a value, or the
record was not staged and cannot be (`WritesOK`); a staged record is there, or has become
values, or is aborted and then a write that was *not* confirmed is blocked (`StageOK`); a
first attempt that is not answered was not evaluated, so that the second one's error
tells something (`Waiting(1)` in both). `PusherInv` says the same of the probes of a
recovery (`Probes`): unless some key is blocked, the record is still the one it set out
with and every write probed so far is there or has its value; and of the transaction
an intent is about to be resolved with (`WorkOK`).

Lemmas are grouped by what a step changes: only timestamp cache entries (`ReadCore`),
one key (`KeyCore`, `KeyCall`, `KeyPusher`), only the record (`RecCore`, `RecCall`,
`RecPusher`), only the coordinator (`CoordCore`). For the refinement, a committed
transaction is committed at the coordinator's read timestamp (`CommittedFacts`), so that
neither the commit nor its timestamp can move while the coordinator stands still, and
the coordinator's steps leave the record and the writes alone.

Only model-checked: `IntentsCleanedUp`, as liveness is out of the prover's reach.

## TxnWaitQueue

Every transaction's record is on a range of its own, with a queue on its leaseholder.

| Variables | Code |
| --- | --- |
| `rec`, `pri`, `dead`, `latched` | the record as a reader finds it, whether it has expired, and whether it was changed and its queue not told yet |
| `enabled`, `entry`, `listed` | `Queue.mu.txns`: nil or not, the `pendingTxn`, its `waitingPushes` |
| `pc`, `holding`, `msg`, `asked`, `view` | a push: the latch it holds, its `pending` channel, its loop in `waitForPush` |
| `mon`, `known`, `ans`, `deps` | the goroutine of `startQueryPusherTxn`, and `dependents` |

`StartPush`, `PushSucceeds`, `PushAborts`, `ForceTooLate`, `PushFails` and `EnqueueTxn`
are the evaluation of a PushTxn and its interception by the concurrency manager, under
the latch on the record. `NoQueue`, `AlreadyPushed` and `Wait` are `MaybeWaitForPush`;
`TakeMessage`, `QueryPushee`, `PusherDone`, `PusherUpdated` and `Cancel` the cases of
the select in `waitForPush`, the last but one with the force push of a deadlock;
`Ask`, `BriefWaitEnds`, `Query` and `Reply` the queries of the pusher. `EndTxn` and
`UpdateTxn` are the end of a transaction, `Clear` and `Enable` a lease that goes and
comes. Pushes are PUSH_ABORT at normal priorities, the ones that wait. A send on a
channel is one step with the removal from the list, as the channels are buffered.

* `NoForgottenPush`: a waiting push is in the list of a `pendingTxn` that is in the
  queue, or has a message: `Clear`, `UpdateTxn` and a new `EnqueueTxn` never drop it.
* `HighestSurvives`: while priorities stand still, deadlock detection does not abort
  the transaction that ranks highest, although every member of a cycle decides by
  itself.
* `PushesReturn` (liveness): every push that waits returns.

`txn_wait_queue` starts with a cycle of three transactions on three ranges, with
equal priorities, that is left alone, or with a cycle of two and one disturbance, or
with two pushes of one transaction, one of them by a request without a transaction,
and one disturbance. A disturbance is a
caller that gives up, a coordinator that dies, a record that can no longer be
created, a queue that is cleared, with or without the lease coming back, or a raised
priority. Three is the smallest cycle in which a dependency has to be learnt from a
third party. **Fairness**: goroutines run, a select does not overlook a ready case
for ever, the lease is somewhere, a transaction that waits for nothing ends. The first
query of the pushee is immediate (`queue.go:575-582`); later ones wait for its
expiration, which a transaction with heartbeats keeps putting off, and only the
pushes outside the cycle of three (`Timed`) count on them. So the cycle of three has to be broken by detection
alone.

### What is proved of TxnWaitQueue

For every set of transactions and of pushes, whoever pushes whom, and all initial
priorities (`TxnWaitQueueProofs`): `Inductive`, `TypeCorrect`, `NoForgottenPushHolds` and
`HighestSurvivesHolds`. For the first safety property the invariant (`QInv`) says that
who is listed is in a queue that is there and was told nothing yet (`Listed`), and that
the queue is only told of finished transactions (`LatchedFinished`). For the second
(`PInv`) it brackets what a push knows of priorities between those the transactions
started with and those they have (`Informed`): priorities only grow, so old news is
never too high, and while nobody's priority has changed all that is known is exact. A
push that decides to force (`Forced`) is then one of a transaction somebody outranks.
That the cycle is broken at all (`PushesReturn`) is only model-checked.

## Latches and LatchSignal

`Latches` is `spanlatch.Manager` with requests that acquire, wait only (`WaitFor`), or
latch optimistically, and with poisoning.

| Code | Actions |
| --- | --- |
| `Acquire`, `AcquireOptimistic`: `sequence` under the mutex | `Sequence` (flush of reads, snapshot, insertion) |
| `WaitFor`, `CheckOptimisticNoConflicts` | `WaitFor`, `CheckOptimistic` |
| `wait`, `iterAndWait`, `waitForSignal` | `Pick`, `SeeDone`, `SeePoison`, `Acquired`, `CancelWait` |
| `Poison`, `Release`, `removeLocked` | `Poison`, `Finish`, `SignalDone`, `RemoveLatches` |

The order in which a request goes through its snapshot is left open. `met`, the requests
an optimistic one evaluated beside, is history, and `read` is what a request has really
read, which it keeps after it released.

* `Isolation`: two requests that hold their latches do not conflict in what they read
  and write. What conflicts is defined from reads and writes (`Disturbs`), not by the
  `ignore` functions of the code.
* `OptimisticAlone`: an optimistic request whose check succeeded never evaluated side
  by side with a conflicting one, even one that has released meanwhile.
* `NoWaitingInCircles`, `FailFast` (liveness): who asked for an error rather than a
  poisoned latch does not wait for ever, even behind a request that prefers to wait.

`latches`: two writers at different timestamps, one of which may get stuck, a reader
that only waits and an optimistic reader at equal and at other timestamps than the
writers, with a local key besides the global ones. **Fairness**: goroutines run; a
request that holds its latches finishes or is poisoned, which is what the circuit
breaker of the replica is for; a poisoned one may hold them for ever.

`LatchSignal` is the signal itself: an atomic word and a channel that the first waiter
allocates. Each step is one operation of `sync/atomic` or one close. `NoPanic`: no
channel is closed twice, and no signal that is not idempotent is given twice.
`NoEarlyWakeup`, `NoLostWakeup`: a waiter's channel is closed only after the signal,
and, once all signallers have returned and no waiter is on its way to close it, it is.
`SignalWakes` (liveness): whoever waits is woken. `latch_signal`: two idempotent
signallers and three waiters, which is enough for two waiters to race for the channel
while a third has not begun; goroutines that can take a step do.

### What is proved of Latches and LatchSignal

For every set of requests and spans, with any of the requests optimistic or only
waiting (`LatchesProofs`): `Inductive`, `TypeCorrect`, `IsolationHolds`,
`OptimisticAloneHolds` and `NoDeadlock`. The core of the invariant is `Ordered`: of two
conflicting requests that hold latches or want to, one has the other's latch in its
snapshot and has not waited for it yet. It rests on latches being there from the
sequencing until the end of the release (`LatchesPresent`), so that the snapshot under
the mutex cannot miss one, and on nobody knowing a request that was not sequenced
(`OnlySequenced`). For an optimistic request, whatever conflicting request it evaluated
beside was in its snapshot when it was taken (`MetInSnapshot`), which is why the check
may look at the snapshot alone. No cycle: in every set of requests one has none of the
others in its snapshot (`NoCycle`), since sequencing adds a request that nobody knows.

For every set of signallers and of waiters, idempotent or with at most one signaller
(also in `LatchesProofs`): `SignalInductive`, `SignalTypeCorrect`,
`SignalNoPanicHolds`, `SignalOneChannelHolds` (all waiters share one channel),
`SignalNoEarlyWakeupHolds`, `SignalNoLostWakeupHolds`. The invariant says
that whoever is about to claim or close has the one channel there is (`InstallerOwns`,
`LoadersAgree`), that while the word is `sig` and there is a channel somebody is still
to look at both (`SomeoneClaims`), that `sigClosed` means that the channel is closed or
exactly one process is about to close it (`OneCloser`), and what has to have happened
before the word is set (`OneSignaller`).

## EpochLease

Two nodes, each with a clock, a replica of one range and a liveness record.

| Variables | Code |
| --- | --- |
| `clock`, `asleep` | the hybrid logical clock; a node that waits in `ensureClockMonotonicity` |
| `record`, `published`, `cache`, `booting` | liveness records in the store, in gossip and in the cache; the first heartbeat of a process |
| `log`, `applied`, `flying` | leases in the order they took effect, what each replica applied, lease commands under way |
| `req`, `minProposed` | `pendingLeaseRequest`, `minLeaseProposedTS` |
| `tscache` | the low water mark of the timestamp cache |
| `reads`, `retired` (history) | reads served per lease sequence; sequences a holder gave up |
| `hasty` (history) | leases that were requested too early |

`LeaseStatus` and `CanServe` are `leaseStatus` and the checks around it. A request is
`RequestLease` or `TransferLease`, then `Promote`, `Revive` or `Invalidate` as its
liveness records need, then `SendRequest` or `SendTransfer`, which evaluate it, then
`Commit` or `Drop`, and `Apply` at each replica in its own time.

Assumptions and simplifications. Time is counted in ticks of the clocks; two readings
of one clock never agree, and where the code depends on it the second waits for the
next tick (`NewReading`). The heartbeat loop reads the clock and writes in one step.
A node in `steady` heartbeats at every tick. A request is forgotten as soon as it was
sent, so that more requests overlap than in the code. Raft leadership is left out.
Reads ahead of the present (`lead`) are not combined with restarts, and the persisted
upper bound of the clock, off by default, is not modelled.

* `OneServer`: at no moment can two replicas serve requests at timestamps that present
  clocks give. `ReadsCovered`: a replica that may serve protects every read ever served
  under its lease or an earlier one. Both are what the code means to guarantee, and
  neither is always true: a lease may be requested too early in three ways, each of which
  has a configuration that shows it (see [Findings](#findings)). It is epoch-based and its
  holder has not heartbeat since it restarted; or it promotes an expiration lease with an
  epoch that is over; or it replaces its holder's own epoch lease by an expiration lease.
  `hasty` remembers these.
* `OneServerUnlessHasty`: two replicas can serve at once only if one of their leases, or a
  lease between them, is hasty.
* `ReadsCoveredUnlessHasty`: a replica that may serve protects every read served under
  its lease or an earlier one, unless one of the leases from that one to its own is
  hasty. This is what `ParallelCommit` (`MoveLease`) and `ClosedTimestamps` (`low`) assume
  of a new leaseholder. It needs the wait of `ensureClockMonotonicity` after a restart.
* `RetiredStaysRetired`: a lease its holder gave up, by a transfer or by a restart, is
  never used again under the same sequence number.

`epoch_lease` starts in one of five settings, with a maximum offset of 1:

| Setting | Leases | Time | For |
| --- | --- | --- | --- |
| `EpochBased` | epoch leases of duration 2, two of them | 4 | missed heartbeats, increments of epochs by this range and by others |
| `Restarted` | three such leases, one restart | 3 | what a restarted node knows, requests and serves before and after its first heartbeat |
| `Transferred` | three expiration leases of duration 4, reads one tick ahead | 3 | extensions and transfers that race; none of the leases expires |
| `Promoted` | three leases, the first transferred at time 2 | 4 | promotion to an epoch lease, or its loss before that, while other ranges increment epochs |
| `Demoted` | three leases, the first epoch-based, the others expiration-based | 3 | the switch of the type, and the acquisition that follows it |

A duration above the offset is needed for a lease to expire for one node and not for the
other, and a run longer than the duration for another one to begin. The properties
without the exception are refuted by TLC with `MCPromotionRace.cfg` (`Promoted`,
`OneServer`), `MCLeaseTypeSwitch.cfg` (`Demoted`, `OneServer`), `MCLeaseBeforeHeartbeat.cfg`
(`Restarted`, `ReadsCovered`) and `MCSecondRestart.cfg` (`RestartedTwice`: two restarts, a
duration of 8 and gossip one version behind, `OneServer`). So `epoch_lease` reaches the
exceptions, and checks that nothing else goes wrong; only `RestartedTwice` is left to the
theorems below.

### What is proved of EpochLease

`EpochLeaseProofs`, for any nodes, offset, durations, settings and bounds, from
`LeaseAssumption` (the duration of a lease is above the maximum offset):

| Theorem | Statement |
| --- | --- |
| `TypeCorrect` | `TypeOK` |
| `RetiredLeasesStayRetired` | `RetiredStaysRetired` |
| `SequenceAssertionsHold` | `SequencesAdvance`: the sanity checks of `leasePostApplyLocked` (`replica_proposal.go:240-262`) never stop a replica |
| `OneServerAtATime` | `OneServerUnlessHasty`, if `Uniform` |
| `OneServerUnconditionally` | `OneServer`, if `Uniform` and the leases are expiration-based or no node restarts |
| `ReadsAreCovered` | `ReadsCoveredUnlessHasty`, if `Uniform` and `Prudent` |
| `ReadsAreCoveredUnconditionally` | `ReadsCovered`, if `Uniform`, `Prudent` and the leases are expiration-based or no node restarts |

`Uniform` says that all leases are of the type the range should have and that leases are
transferred only between expiration-based ones; the settings `EpochBased`,
`Transferred`, `Restarted` and `RestartedTwice` are such. Nothing is assumed of the order
of heartbeats and requests: a restarted node may request and use leases before its first
heartbeat, and the theorems say that only such a lease and those after it are affected.
Where the type changes (`Promoted`, `Demoted`) the properties are model-checked only.
`Prudent` says that reads ahead of the present (`inst.lead`) are not combined with
restarts: a restarted node sleeps only until its clock has passed the present that it
served at, which bounds no read above that. All settings of the runs are prudent.

`BaseInv` says where everything comes from. Sequence numbers grow along the log by at
most one and leases with the same number are extensions of one another (`LogOK`); a
request remembers a lease its replica has applied (`RequestOK`), a command one that is in
the log, found again by its sequence number and the time it was proposed at
(`CommandOK`); clocks are within the offset (`ClocksOK`). A retired lease's holder has
applied a later one, or is down, or has `minLeaseProposedTS` above everything in the log
and under way that bears the number (`RetiredOK`, `Barred`): an extension evaluated later
starts at `minLeaseProposedTS`, which makes it another lease.

`ServerInv` says that a lease of the log that was succeeded is done with (`HandedOver`,
`Done`): over by some clock, or its epoch is over, or its holder has proscribed it or is
down. A replica that has not applied the successor may still think it holds the lease,
so this must keep its status from being VALID: a lease over by one clock is in stasis by
all, and of a holder whose cached record has an ended epoch it is known that the record
had expired by some clock when the epoch was ended (`OwnRecordOK`, `Ended`), or that it
has restarted since and proscribes the lease (`BootOK`). Until its first heartbeat a
restarted node can use only leases it requested since, and the epoch-based ones among
them, and a request under way, are marked as hasty (`BootOK`, `AskerOK`); `HandedOver`
holds between two leases of the log as long as neither they nor a lease between them is
marked (`NoneHasty`), so a marked lease breaks the chain there and nowhere else. For the step that appends a
lease, the condition it was evaluated under has to be still true when it takes effect:
requests and commands carry it (`RequestOver`, `CommandOver`), and it never becomes false
again, because clocks, epochs and `minLeaseProposedTS` only grow. Which node increments
whose epoch, and which version gossip delivers when, is in `RecordsOK`: every version
anyone knows is at most the present one.

`ReadInv` adds what was read. Nothing is read under a lease before its holder has applied
it (`OnlyApplied`), and the holder protects all reads under its lease and the earlier
ones, by its timestamp cache or, while it is down, by waking up above them (`Protected`); what
a node read under its own leases at the present stays at or below its clock, and below
the time it wakes up at while it is down (`OwnReads`), whichever
leases are marked.
A lease with another holder than the one before starts, or has a summary, at or above
everything read until it takes effect (`LeasesCover`); so does the command that proposes
it while it may still apply (`CommandCovers`), and for epoch-based leases the request
that found its predecessor expired (`RequestCovers`). That reads under the old lease
cannot overtake the command is the hard part. With expiration-based leases they stay
below the expiration of the present lease, and a transfer under way gives the new lease
an expiration above whatever can be read meanwhile (`ExpirationsOK`, `TransferFits`).
With epoch-based ones they stay below the expiration of the holder's liveness record
while the epoch lasts, and below every clock once it has ended (`SettledOK`). Whoever
may serve has no successor in the log or under way (`NotSucceeded`,
`NoSuccessorUnderWay`), which follows from `ServerInv`.

## ClosedTimestamps

Writes on one range with two replicas.

| Variables | Code |
| --- | --- |
| `cmd` | the request: its lease, its timestamp in the tracker, then its `ProposalData` and its answer |
| `assigned` | `assignedLAI`, `assignedClosedTimestamp` of the proposal buffer |
| `net`, `log`, `st` | entries handed to Raft, the log, the replicated state after each prefix |
| `ap`, `batch` | how much a replica has applied, and the committed entries it works on |
| `minVer`, `ver`, `low` | `minLeaseProposedTS`, versions of leases, low water mark of the timestamp cache |
| `side`, `pub` | `sidetransportAccess`, and what leaseholders have published |

`Admit` and `Track` are a request's evaluation, `FlushNew`, `FlushReproposal` and
`FlushAfterError` a flush of the proposal buffer, the last when Raft refused to step.
`AppendEntry` is Raft, which is external: entries get into the log in any order, any
number of times or never. `Decode`, `ApplyBatch` and `SideEffects` are
`handleRaftReadyRaftMuLocked` with the early acknowledgement and
`tryReproposeWithNewLeaseIndex`; `Refresh` the ticks; `ApplySnapshot` and `Restart` the
faults; `RequestLease` and `TransferLease` lease changes; `BumpSideTransportClosed` and
`GetClosedTimestamp` the side transport. What applying does is a function of the log's
prefix, so the replicas cannot diverge. Clocks are left out: a lease may be
requested whenever its interval allows it, and used after it expired, as by a replica
with a slow clock, so that nothing here depends on `EpochLease!OneServer`. A lease
transfer is evaluated and flushed in one step, since it holds latches on the whole
range. A restarted node's clock is past everything that was published, by itself or by
another: targets lie seconds behind their publisher's clock and clocks are at most half
a second apart. With the lead of global reads this rests on the restart taking
longer than the lead. Targets of the side transport follow the publisher's clock at a
fixed distance (`FollowsClock`), so that a later leaseholder's are not below an
earlier one's; a change of policy from a lead to a lag is left out. A transferred
lease does not expire before the lease it ends.

* `NoWriteBelowClosed`: no replica ever applies a write at or below a timestamp it
  holds closed, from the log or from the side transport.
* `AppliedAtMostOnce`: however often a write is proposed.
* `AcknowledgedTakesEffect`: a write that was acknowledged, even before it is applied,
  takes effect.
* `RejectedUnlessUnindexed`: a write whose client was told that it failed has not taken
  effect and never will, unless a copy of it without an index was handed to Raft.
  `RejectedHasNoEffect`, without that exception, is what `replica_application_result.go:146`
  counts on; TLC refutes it with `MCUnindexedProposal.cfg` (see [Findings](#findings)). An
  ambiguous answer leaves it open.
* `NoSideTransportRegression`: the pairs that `assertNoRegression` crashes the node
  for do not occur.

`closed_timestamps` starts in one of three settings: `ReplicatedWrites` (two writes, a
log of 4, a refresh, two entries per batch, no lease change), `LeaseChanges` (one write
among two new leases, three timestamps) and `ReplicaFaults` (one write, one new lease,
a refresh and two of: snapshot, restart, and, as `stepFails` allows it, a refused
step). Two writes are needed for one
to use up the index of the other, two leases for the lease to come back to the
same replica. Behaviours end at their bounds, so deadlock is not checked. A snapshot
that comes together with a new leader is only in `replay_after_snapshot`.
`MCUnindexedProposal.cfg` has one replica, two writes, two refreshes and a refused step: with
fewer, no two copies without an index meet in one batch. With two replicas this setting is
too large for `closed_timestamps`; with one, `RejectedUnlessUnindexed` holds in it (627000
states), and the theorem covers it for any number.

### What is proved of ClosedTimestamps

For any replicas and commands, any settings and bounds (`ClosedTimestampsProofs`, with
the invariants in `ClosedTimestampsInv`):

| Theorem | Statement |
| --- | --- |
| `TypeCorrect` | `Spec => []TypeOK` |
| `AcknowledgedWritesTakeEffect` | `Spec => []AcknowledgedTakesEffect` |
| `WritesApplyOnce` | `Spec /\ ~inst.leaderChange => []AppliedAtMostOnce` |
| `RejectedWritesHaveNoEffect` | `Spec /\ ~inst.leaderChange => []RejectedUnlessUnindexed` |
| `NoWriteBelowClosedHolds` | `Spec => []NoWriteBelowClosed` |
| `NoSideTransportRegressionHolds` | `Spec => []NoSideTransportRegression` |

The last two have no hypothesis: a write that applies twice still applies above what is
closed. The hypothesis of two others excludes what the code gets wrong: with `leaderChange`,
`replay_after_snapshot` shows a write that applies twice. Refused steps are not excluded:
what they do to a command is in the property, and only for the commands they do it to.

The first four theorems need three layers. `BaseInv` says where the pieces are: the states after the
prefixes of the log are ordered in their lease and their index (`StatesOK`), an entry
agrees with the command it is a copy of (`EntriesOK`), a batch lies between what its
replica has applied and the end of the log (`BatchesOK`), and each command is in a phase
that fits its flags (`CmdsOK`). Acknowledgements follow from it, since a replica answers
only for entries that it has decoded and found effective.

`OnceInv` is about copies. A command may have several, with different indexes, and that
none applies twice is not inductive. What is: every copy except those with the command's
last index can no longer take effect (`OldCopiesDead`), so that to give a command a new
index is safe only once the last one is used up; a command that its proposer still
regards as alive has had no effect as far as the proposer has looked (`Unapplied`); and
when the proposer comes upon an entry of it in its batch, it recognises it as the
command's own, by its index (`Recognised`). A snapshot moves what the replica has looked
at without looking; the proposer then gives its commands up, unless `leaderChange`.

`RejectInv` says that a command whose client was told that it failed is over
(`RejectedIsOver`): the lease it was proposed under is gone, or it is marked as applied
and its last index is used up. The second needs that all copies of the command have an
index (`~Unindexed`): only then does resetting the command's index to zero, before it is
proposed anew, outdate all copies of it. A command that has a copy without one keeps it,
in flight or in the log, so that the exception, once made, stays.

What is closed is the subject of `ClosedInv`, which is `BaseInv` and three more layers,
each of which is proved to be preserved with the help of the ones before it.

`LeaseInv` orders the leases along the log. Versions and start times grow with the
sequence number, and one sequence number belongs to one term of one holder; the next
lease starts after the end of the one before it, unless its holder has given it up or
lost its memory of it (`LeasesOK`). A request or transfer under way was made under a
lease of the log (`RequestsOK`), nobody extends a lease that its holder has transferred
(`TransfersLast`), and whoever got a new lease after its own knew of that one
(`RenewalsKnown`).

`EntryInv` is about what the log closes. A leaseholder that may still propose remembers
an index and a closed timestamp that are not below those of any entry of its term and of
any state of it (`MemoryOK`). Along the log closed timestamps grow (`ClosedGrows`);
entries of the last term with higher indexes close no less and write above what lower
ones close (`InOrder`), and above the states they may find (`AboveStates`); in a term
that its holder has not installed nothing is closed or numbered (`Quiet`). A write that
may still take effect is in its proposer's map or in the batch it handles (`InFlight`):
otherwise the tracker would let a closed timestamp pass it.

`PubInv` is about what was published besides the log. It was published by a holder that
had installed its lease, before the lease's end (`PubOK`), and a later leaseholder
learns of it from the start or the read summary of its lease (`PubBelow`,
`TransfersAbove`), from the log, or from having been that holder (`Remembered`,
`PubAssigned`). Timestamps grow with the terms and, within one, with the index
(`PubGrows`), and every write with an index beyond a pair's is above its timestamp,
whether it has no index yet (`CommandsAbove`) or is on its way (`WritesAbove`). A replica keeps only
published pairs, and uses only those whose index it has applied (`SideOK`). From
`WritesAbove` and `SideOK` follows `NoWriteBelowClosed`, from `PubGrows` and `SideOK`
`NoSideTransportRegression`.

The proof corrected the model in one place. `Restart` used to put the new timestamp
cache only above what the replica itself had published. A leaseholder could then publish,
restart, get a new lease and transfer it to a replica that restarts after applying the
transfer and before installing it; that one had lost the transfer's read summary,
requested the lease anew and wrote below what was published. TLC confirms this with
three replicas, three leases and two restarts, more than the run has. The code's low
water mark is the clock, which no publisher's target has reached, and the action now
says so.

## ProposalBuffer

`propBuf` with its inserters, each of which holds the read lock of `Replica.mu` from
`RLock` through `Allocate` (the atomic increment) to `InsertIntoArray`; an inserter that
finds the array full gives it up and flushes (`FlushRLocked`) or sleeps on the condition
variable. The Raft worker takes update checks (`TakeCheck`), flushes
(`HandleRaftReady`), puts refreshed proposals back (`RefreshProposals`, `Reinsert`,
`ReinsertFlushes`, `ReinsertFails`), and disconnects a removed replica (`Disconnect`). `BeginMerge`, `EndMerge`
and `MarkRemoved` change `destroyStatus`, on which allocation fails.

* `NoNilProposal`: whoever may take the write lock finds every reserved slot filled;
  a flush that meets a hole crashes the node.
* `NobodyLeftBehind`: when the replica is gone, everybody with an accepted proposal has
  an answer.
* `InsertReturns`, `AcceptedIsFlushed` (liveness): no Insert hangs, and every accepted
  proposal leaves the buffer.

`proposal_buffer`: three proposals, one of them a lease that a flush may reject, an
array of one or two slots, a shrink delay of two, two refreshes, one merge. Three
proposals overfill the larger array, and with a refresh there are enough flushes for it
to grow and to shrink. **Fairness**: inserters run, and the worker works off the
checks that are scheduled, and completes a removal.

### What is proved of ProposalBuffer

For every set of proposals and all sizes of the array (`ProposalBufferProofs`):
`Inductive`, `TypeCorrect`, `NoNilProposalHolds`, `NobodyLeftBehindHolds`. A reserved slot
lies in the array, is empty and belongs to one inserter, which holds the read lock
until it has filled it (`SlotsReserved`); an empty slot that is in use has such an
inserter (`SlotsFilled`). So whoever has the write lock sees no hole, whether the array
grew, shrank or was flushed by an inserter in between. An accepted proposal is in the
buffer, in the map, or answered (`Accounted`), and nothing is accepted once the worker
has stopped (`StoppedForGood`, `WritersAlone`).

## LockFreeTracker

`Track` is split at each of its atomic operations (`TrackCall`, `ChooseBucket`,
`LoadBucket`, `CasBucket`, `MarkSynthetic`, `JoinBucket`), as it runs under a read lock;
`Untrack` and `LowerBound` are single steps that need the write lock. `Tracker` is the
interface: a set of tracked timestamps, and a bound that is at most the least of them,
or 0 when there is none. `QuietBuckets`: whenever no `Track` call is under way, the
buckets in use are those with references, and `b2` is in use only if `b1` is, so that
looking at `b1` alone is right. `SyntheticDiesWithBucket`: the flag does not outlive its
bucket's use. `ImplementsTracker`: the refinement. `TrackReturns` (liveness): although
the compare-and-swap of one caller fails whenever another moved the bucket.
`lock_free_tracker`: three requests, two timestamps; three callers can be one in each
bucket and one moving. **Fairness**: a goroutine inside `Track` takes its steps.

### What is proved of LockFreeTracker

For every finite set of requests and every bound on timestamps
(`LockFreeTrackerProofs`):

| Theorem | Statement |
| --- | --- |
| `Inductive` | `Spec => []IInv` |
| `TypeCorrect`, `BucketsOrderedHolds`, `RefcntHolds`, `TokensAboveBucketHolds` | the invariants `TypeOK`, `BucketsOrdered`, `RefcntCountsTokens`, `TokensAboveBucket` |
| `QuietBucketsHold`, `SyntheticHolds` | `QuietBuckets`, `SyntheticDiesWithBucket` |
| `Refinement` | `Spec => ImplementsTracker` |

That no tracked timestamp is below its bucket's is not inductive, since between a
caller's load and its join the bucket may have been moved by others and even have been
initialised by them. `IInv` adds what each caller may still rely on at each of its
steps: a caller that chose `b2` is above `b1`, which is initialised (`ChoseB2`); one past
the loop is not below its bucket (`PastLoop`); a compare-and-swap can only initialise
or lower a bucket (`CasLowers`); whoever is inside `Track` has a timestamp (`HasTs`); an
initialised bucket has somebody who joined it (`Kept`); and `b1` is filled first
(`B1First`).
Reference counts are cardinalities, so the proof uses the theorems on finite sets.

Only model-checked here and in all other modules: liveness under fairness, which is out
of the prover's reach. All invariants that a passing run checks are proved, those of
`EpochLease` for leases of one type.

## Findings

In eight ways the code does what one of its comments excludes. The first two have runs of
their own, in settings that the passing runs leave out. The others are exceptions that
the checked and proved properties name, so that anything else that goes wrong in the same
situations is still found; each has a configuration, named with it, under which TLC finds
the property without the exception violated.

**A blind write that is replayed hides an ambiguous result** (`blind_replay`). The
first attempt of a Put in a parallel commit is evaluated but its RPC fails; another
transaction finds all writes, commits the record and resolves the intents. The
second attempt of the Put meets its own committed value. For a write that reads this
is a WriteTooOldError, which the DistSender turns into an ambiguous result, as the
comment at `dist_sender.go:2196-2212` explains. For a blind write
`replica_evaluate.go:379` defers the error: the Put succeeds with a flag, the
DistSender forgets the first attempt, and the coordinator is about to retry a
committed transaction, which `txn_coord_sender.go:1011` calls a serious bug. The
retry's own EndTxn is refused as long as the record or its tombstone is there.

**A snapshot that comes with a new leader lets a write apply twice**
(`replay_after_snapshot`). Pending proposals that may have applied inside a snapshot
are given up as ambiguous, but only if there was no other reason to refresh
(`replica_raft.go:957-959`). If the same Ready brings news of a new leader, they are
proposed again, rejected for their index, and given a new one by
`tryReproposeWithNewLeaseIndex`, whose comment (`replica_application_result.go:239`)
excludes proposals whose index was skipped by a snapshot.

**A removed record is written again as ABORTED** (`MCRecoveryAfterRollback.cfg`). A rollback
needs no permission of the timestamp cache to create a record
(`cmd_end_transaction.go:249`), so that one sent after an ambiguous commit may find the
committed record removed and writes an ABORTED one. A second recovery that had found
every write then ends in the assertion of `cmd_recover_txn.go:111-125`, whose comment
says that such records "are never re-written as ABORTED"; `dist_sender.go:1222` relies on
the same. The values are safe, because a record is removed only after its intents are
resolved, and the client was told of an error that is ambiguous.
`RecoveryFindsTheCommit` says, and the proof shows, that the assertion is reached in no
other way.

**A proposal without an index** (`MCUnindexedProposal.cfg`). When Raft refuses one proposal of
a flush, the rest are registered without an index (`replica_proposal_buf.go:434-458`) and
are proposed as they are by the next refresh. Two such copies in one batch are both taken
for the command's current one, as giving it a new index resets the old one to zero, which
`replica_application_result.go:146` says no entry has. The first copy is given a new
index, the second rejected because its timestamp is closed by then, and the rejected write
takes effect at the new index. `RejectedUnlessUnindexed` says, and the proof shows, that
this takes a copy without an index.

**A promotion that races with an increment of its epoch** (`MCPromotionRace.cfg`). A request
that promotes an expiration lease takes the epoch from its cache
(`replica_range_lease.go:324`) and afterwards looks at the record's expiration only
(`replica_range_lease.go:498-505`). If another range's request increments the epoch in
between, and the node's heartbeat makes the record live again, the lease carries an epoch
that is over: another node finds it expired and takes over, while the holder, which has
not applied its promotion, serves under the expiration lease.

**An epoch lease before the first heartbeat** (`MCLeaseBeforeHeartbeat.cfg`,
`MCSecondRestart.cfg`). The first heartbeat of a process increments the node's epoch
(`liveness.go:769-805`), but a restarted node that has heard of its own record by gossip
may request a lease before it, with the epoch the record had
(`replica_range_lease.go:314-323`). The heartbeat then ends that epoch although the record
has not expired. Another node with a slower clock may take the lease over with a start
below a read that was served, where `replica_proposal.go:309-311` counts on the stasis
period to handle clock offsets. After a second restart, gossip may even deliver the
version before the first one's increment; the node takes a lease with the ended epoch and
serves under it, while the other node knows the later epoch, finds the lease expired,
takes over and serves too.

**A switch from an epoch lease to a shorter expiration lease** (`MCLeaseTypeSwitch.cfg`). The
holder serves under the epoch lease until it applies the change, beyond the expiration of
the new lease (`replica_range_lease.go:311`); another node that has applied it takes over
at that expiration and serves too.

## Not modelled

* **Quota pool** (`util/quotapool`): a generic library; it delays requests and orders
  them, and nothing modelled here depends on its order.
* **Lock table** (`concurrency/lock_table.go`): queues on unreplicated locks.
  `ParallelCommit` takes from it that a transaction that meets an intent pushes.
* **Descriptor leases, sqlliveness, jobs registry**: state machines over SQL tables,
  each a project of its own size.
* **Raft** is vendored (etcd) and taken as a log, **gossip** as delivery at any later
  time or never.
* **SQL parsing, optimisation, execution**: sequential translation, generated in large
  part, of a size no model checker reaches; it makes up most of the repository's lines.
* **Management API, runtime tools, build and release scripts**: they keep no state
  between calls.
* Of the modelled components: splits, merges and configuration changes of ranges,
  sideloaded commands, savepoints and leaf transactions, the abort span, server-side
  refreshes.
* Of the supervisor, two ways to lose availability that fail closed on purpose: a
  signal between `mktemp` and the rename leaves a temporary file that makes later
  starts refuse (`entrypoint.sh:395`), and a container killed before its database wrote
  a log line on the fresh store is not started again (`entrypoint.sh:571`).

## Plan

1. `LockTable`, composed with `TxnWaitQueue` for what a lock's release tells whom.
2. `QuotaPool`: conservation of quota, first come first served, no lost notification.
3. `SqlLiveness`, `DescriptorLease`, `JobsRegistry`.
