# TLA+ verification of first-principle-cs

This directory holds TLA+ specifications of the systems under `projects/`, the TLC configurations
that check them on small instances, and TLAPS proofs about them. Paths below are relative to
`src/projects/` unless they start with `src/`.

- [Inventory](#inventory): the systems, their state, operations and hard behaviours
- [Modules](#modules): what models what, and how state and actions correspond to the code
- [Runs](#runs): what TLC checks, the bounds and why they are enough, the fairness
- [Proofs](#proofs): what TLAPS proves and along which argument
- [What the code does not do](#what-the-code-does-not-do): the runs that end in a violation
- [Plan](#plan): what comes next, in order
- [Not modelled](#not-modelled)

To repeat a run: `tlc -workers 2 -config MCRaft_election.cfg MCRaft`; to repeat the proofs of a
module: `tlapm RaftProofs.tla`, and so for `FsLogProofs`, `FsCrashProofs`, `TxProofs`, `ProcProofs`,
`DistKvProofs`, `LsmProofs` and `RecursionProofs`.

## Inventory

The repository is a set of teaching systems. Each is a library or a kernel of its own; the only
calls between them are tx-manager's into storage-engine and (through a simplified copy) dist-kv's
use of Raft and a storage engine.

### distributed/consensus: Raft

- **State.** Per node (`raft.h`): role, `current_term`, `voted_for`, `current_leader`,
  `votes_granted`, the in-memory log, `commit_index`, `last_applied`, per-peer `next_index` and
  `match_index`, a `running` flag; per process: the leadership transfer (`transfer.c`) and the
  pending reads (`read.c`). On disk: `state.dat` (term, vote), a log file, snapshots.
- **Operations.** API calls (`raft_start`, `raft_stop`, `raft_propose`, `raft_propose_batch`,
  `raft_start_election`, `raft_start_pre_vote`, `raft_transfer_*`, `raft_read_index`, membership and
  snapshot calls), `raft_tick` (two timers), `raft_receive_message`.
- **Interaction.** The application supplies `send_fn` and `apply_fn`. The library sends no messages
  on its own threads: everything happens inside a call.
- **Hard.** Messages lost, delayed, duplicated, reordered; crashes between two saves of one handler;
  failed saves; stale responses; elections by three different routes at once.
- **Correct means.** One leader per term; votes survive crashes; logs that agree on an entry agree
  before it; a leader never truncates its log; a committed entry is in every later leader's log; no
  index is applied with two entries.

### systems/simple-fs: journalled file system

- **State.** The disk image; the buffer cache (`buf.c`, LRU list with reference counts); the journal
  (`log.c`: `lh`, `outstanding`, `committing`); above it inodes, directories, files and the block
  bitmap.
- **Operations.** `begin_op`, `log_write`, `end_op`, `commit`, `recover_from_log`; `bread`,
  `brelse`, `bpin`, `bunpin`; `ialloc`, `writei`, `itrunc`, `dirlink`, `create`, `unlink`, ...
- **Interaction.** Threads of one process share the cache and the log under a mutex and a condition
  variable; each layer calls the one below.
- **Hard.** A crash between any two block writes, also in recovery; group commit of several threads;
  space reserved before it is known what an operation writes; eviction of a logged block; waiters
  and wake-ups.
- **Correct means.** The blocks of a transaction reach the disk all or none; what `end_op` committed
  stays; a logged block is not evicted; nobody waits for ever.

### data/tx-manager: transactions

- **State.** The clock `next_ts`, the active transactions with their snapshot timestamp and write
  set, the versions in the storage engine, `tx.wal`.
- **Operations.** `tx_begin`, `tx_put`, `tx_delete`, `tx_get`, `tx_commit`, `tx_abort`, iterators,
  `tx_manager_open`/`close`, `tx_recover`, `tx_gc_run`.
- **Interaction.** Uses the storage engine as an ordered map; begin, commit and abort hold one
  mutex, reads and scans hold none.
- **Hard.** Reads between the puts of a commit; write-write conflicts; a failed put, a crash or a
  power loss inside or after a commit; the clock after a restart.
- **Correct means.** Snapshot isolation with first-committer-wins, atomic and durable commits.

### data/storage-engine: LSM tree

- **State.** The memtable (a skip list), `wal.log`, SSTable files with blocks, restart points, an
  index and a Bloom filter, seven levels of them in memory, `MANIFEST`; a block cache that only the
  benchmark uses.
- **Operations.** `storage_put`, `storage_get`, `storage_delete`, iterators, `storage_flush`,
  `storage_compact`, `storage_open`, `storage_close`.
- **Interaction.** One thread. `storage_flush` goes through the writer, the level manager, the
  manifest, the memtable and the log in turn, and may start a compaction.
- **Hard.** Dying between any two of those steps; a record of the log that is torn; entries at the
  edge of a block or a restart interval; which of several entries of a key a merge keeps; a flush
  that does not truncate the log; a compaction the manifest is not told of.
- **Correct means.** Each structure is the map that was written to it; levels below L0 are sorted
  and disjoint; the newest write of a key wins, across flush, compaction and restart.

### distributed/dist-kv: partitioned key-value store

- **State.** The hash ring; the partitions with replicas, leader and state; the failure detector's
  members; per partition a simplified Raft group with a log, and an in-memory store.
- **Operations.** Pings and timeouts, ticks, failure and recovery handlers, the administrator's add,
  remove and rebalance, peers, elections, client put, get, delete, batch put.
- **Interaction.** No part calls another by itself: the application pings, ticks, receives the
  detector's callbacks and calls the failover manager, possibly late. The client asks the failover
  manager whether a partition is writable or readable.
- **Hard.** Detector states that change between a callback and what is done about it; nodes that
  fail, recover and leave in any order; commands that override the failover; hashes that wrap;
  entries that stay uncommitted until a later proposal.
- **Correct means.** A key lives on the next nodes of the ring; no dead leader, a leader whenever a
  replica is alive, read-only exactly when too few are; reads give what was agreed.

### systems/mini-os: kernel

- **State.** The process table under `ptable.lock`, the list of free pages, the CPU's process.
- **Operations.** `fork`, `exit`, `wait`, `sleep`, `wakeup`, `kill`, `yield`, the scheduler,
  `growproc`, and `trap`, which enters and leaves the kernel.
- **Interaction.** System calls run with interrupts enabled except under a lock, so the timer may
  switch processes in the middle of `fork`.
- **Hard.** Lost wake-ups, orphans and zombies, a kill of a process that sleeps or is still being
  made, a full table, no free page half-way through `fork`.
- **Correct means.** No wake-up is lost, every child is collected once by a parent that is there,
  pages have one owner, killed processes exit.

### language/simple-compiler, language/tiny-interpreter, src/web

Sequential: lexer, parser, type checker, IR, code generator and stack VM; a tree-walking evaluator
with environments. The web front end only renders pages.

## Modules

| module | models | kind |
|---|---|---|
| `Raft` | `distributed/consensus`: `raft.c`, `election.c`, `replication.c`, `commit.c`, `log.c`, `timer.c`, `transfer.c`, `state.dat` | state machine |
| `RaftProofs` | theorems about `Raft`: votes and leaders, then logs | proofs |
| `BufCache` | `simple-fs/src/buf.c` | operators on a cache value |
| `FsLog` | `simple-fs/src/log.c` over `BufCache` | state machine |
| `AtomicDisk` | what the journal promises | abstract specification |
| `FsLogProofs`, `FsCrashProofs` | theorems about `FsLog`: space and pins; crashes and the refinement of `AtomicDisk` | proofs |
| `TxManager` | `data/tx-manager/src` | state machine |
| `SnapshotDB` | snapshot isolation | abstract specification |
| `TxProofs` | theorems about `TxManager`, the refinement of `SnapshotDB` among them | proofs |
| `KeyOrder`, `LowerBound` | byte-string keys; the binary search all systems write out | operators |
| `SkipList` | `storage-engine/src/skiplist.c`, `memtable.c` | operators on a list value |
| `SSTable` | `sstable.c`, `bloom.c`, the iterator of `compact.c` | operators on a file value |
| `MergeIter` | the merge iterator of `compact.c` | operators on a heap |
| `LsmFiles` | the three above at work: memtable, flush, merge | state machine |
| `LsmStore` | `storage.c`, `wal.c`, `level.c`, `manifest.c`, `compact.c` | state machine |
| `LsmProofs` | theorems about `LsmStore` | proofs |
| `ProcTable` | `mini-os/kernel`: `proc.c`, `trap.c`, `syscall.c`, `kalloc.c`, `vm.c` | state machine |
| `ProcProofs` | theorems about `ProcTable` | proofs |
| `HashRing` | `dist-kv/src/hash_ring.c` | operators on a ring |
| `Cluster` | `coordinator.c`, `partition.c`, `gossip.c`, `failover.c`, `admin.c` | state machine |
| `DistKv` | `Cluster` composed with `raft_group.c`, `replication.c`, `storage_adapter.c`, `client.c` | state machine |
| `DistKvProofs` | theorems about `HashRing`, `Cluster` and `DistKv` | proofs |
| `RecursionProofs` | facts about functions that recurse over 0 .. n, and about `LowerBound` | proofs |
| `MCRaft`, `MCFsLog`, `MCTxManager`, `MCLsmFiles`, `MCLsmStore`, `MCProcTable`, `MCDistKv` | instances for TLC | |

`FsLog` refines `AtomicDisk` and `TxManager` refines `SnapshotDB`, each through an `INSTANCE ...
WITH` mapping (`Promise`) and a property that states the abstract specification of the mapped state.
TLC checks both properties on small instances, `FsCrashProofs` and `TxProofs` prove them for every
instance.

### Raft

One action is one call into the library. `el[s]` groups the election fields of `raft_node_t`; `log`,
`commit_index`, `last_applied`, `next_index`, `match_index` have the names of the code; `disk[s]` is
`state.dat`; `transfer[s]` is the pair of globals of `transfer.c`. `msgs` is the set of messages
ever sent. Delivery does not remove a message, so each may arrive late, never, or many times: that
is the whole network model. `elected` and `applied` are history variables: who became leader in
which term, and what was given to `apply_fn`.

`HandleHeartbeat` and `HandleAppendEntries` are separate because `raft_receive_message` dispatches
an AppendEntries without entries to `raft_handle_append_entries`, which does not compare the
previous entry, and one with entries to `raft_handle_append_entries_with_log`. `PersistState` has
two outcomes because the status of `raft_storage_save_state` is dropped, and `PersistVote` has a
third: the step-down is saved and the vote is not. `CrashAfterStepDown` is a crash between the two
saves of `raft_handle_request_vote`; `Restart` is one anywhere else. A restarted node has an empty
log because `raft_propose` and the followers never write the log file. Timers are abstracted: an
election timeout may expire at any time (`StartElection`), a heartbeat timer too (`TickHeartbeat`).

### FsLog and BufCache

A buffer cache is a sequence of buffers in LRU order; `BufCache` defines what `bget`, `bread`,
`brelse`, `bpin` and `bunpin` make of it, and the reference count may become negative as in the
code. `FsLog` has one step per block write of `commit` and of recovery (`tail` is the loop
variable), and `Crash` may come between any two. `pc[t]` says where thread `t` is in `begin_op` and
`end_op`; "waiting" is `pthread_cond_wait`, and only the broadcast of `Release` ends it. `BypassLog`
is `log_write` outside an operation; the only program that does it is the single-threaded shell, so
the model takes it when no thread is inside `begin_op` or `end_op`.

`Crash` is the death of the process, the host keeping what was written to the image: `log.c` never
calls `disk_sync`, so after a power loss the host may have written the blocks in any order, and
nothing is claimed of that. `disk_read` and `disk_write` succeed and move whole blocks (`bwrite`
ignores a failure, `disk.c:85`). `ReadBlock` is `bread` and `brelse` in one step: a buffer that a
reader holds in between cannot be recycled, and what the model leaves out is that many readers at
once could leave no buffer for the commit, whose `bread` then fails.

The refinement maps `mem` to what the code sees through the cache (during recovery: what recovery
will make of the image) and `stable` to what recovery makes of the image at this moment.

### TxManager

A client is a thread with at most one transaction. `tx_commit` is split into the part up to its loop
(`Commit`), one `storage_put` per write (`CommitPut`), and the end (`CommitDone`); the state
"COMMITTING" stands for holding the mutex in between. `tx_get` is the operator `TxGet`: it changes
nothing, and the refinement compares what it would return in every state. An iterator keeps its
position across steps of others, as the code does. The storage engine is a set of versions `[key,
ts, val]`; the encoding of a versioned key (the key, a NUL byte, the inverted timestamp) puts the
newest first, which makes `Lookup` the newest version up to a timestamp, for keys without NUL bytes.
With them the order of the encoded keys is another, and the model does not cover it. Nothing in
tx-manager calls `storage_flush`, so all versions stay in the memtable, which is all the engine's
iterator reads.

`Close`, `Crash` and `PowerLoss` include `tx_manager_open` and `tx_recover`. A write of `tx.wal` may
fail, and the fsync after a COMMIT record too: `tx_begin`, `tx_abort` and `tx_commit` ignore both. A
failed write may leave a piece of a record. `tx_recover` stops there (`recovery.c:82-92`) while
`tx_wal_open` appends behind it, so `torn` remembers it and `max_ts` no longer moves; `lost` are the
versions whose records stand behind such a record in the storage engine's log. A power loss keeps
any of the versions, since that log is not fsynced, and of `tx.wal` at least the part that
`sync_on_commit` has synced. When a torn record makes `storage_open` itself fail, the behaviour ends
there. Transaction ids are left out (only WAL records carry them), and so are allocation failures.

The refinement hides the versions of a commit that is under way (`Settled`) from the abstract
database; that a concurrent snapshot cannot see them is then what the check is about.

### SkipList, SSTable, MergeIter and LsmFiles

These keep the representation, because the representation is the question. A skip list has its
forward pointers per level, and the level `random_level` returns is any level. A block has its
entries by byte offset, with the shared prefix lengths and the sizes the encoder computes, so that
blocks end where the code ends them; restart points are offsets; `SearchBlock` is the binary search
over them followed by the scan. What `murmur_hash3_32` computes is a constant operator. The heap of
the merge iterator is a sequence, and `SiftDown` the code's loop.

`LsmFiles` puts them to work: writes to the memtable, a flush to a table, a merge of all tables that
takes one step per turn of `compact_level`'s loop. Its history variables hold the map that each
structure should be, and the properties compare. `LsmStore` then uses that map.

### LsmStore

An SSTable is a map from keys to values and tombstones; levels are sequences of file numbers.
`storage_flush` and `compact_level` are one action per effect another run of the program could see
(`FlushWrite`, `FlushAdd`, `FlushNext`, `FlushDone`; `CompactLevel`, one `CompactUnlink` per input,
`CompactAdd`), and `pc` is between them. Each has its errors: a table that cannot be written
(`FlushFails`, `CompactFails`) or, once written, opened (`FlushOpenFails`, `CompactOpenFails`, when
the inputs are already gone), and an input of which a block cannot be read, whose iterator ends
there without a word (`CompactMisses`, one such block per compaction). `WriteFails` is a record
written in part, or with `sync_writes` an fsync that fails after a whole record: the caller gets
STATUS_IO_ERROR, and the next `storage_open` replays the record all the same. `Restart` may happen
at any `pc`. `PowerLoss` keeps of `wal.log` what was fsynced and any part of the rest, possibly
torn, of the manifest any prefix or nothing, and of the tables any subset: tables and manifest are
never fsynced. After two reopenings a file number may be used twice, and a reader that still has the
old file open is then not what the model says; what is claimed there, `RestartRestores`, rests on
the log alone. `wal.log` is never truncated: `FlushDone` closes it and opens it to append. File
sizes are counted in entries.

The code's loops over files and records (the size of a level, the replay of the manifest, the search
for a key from the newest file on, the removal of a compaction's inputs) are recursive functions
over positions. A compaction that only meets tombstones on the way to the last level leaves a file
without entries, whose keys are empty strings; `Precedes` says where `level_add_sstable` puts such
files: first.

### ProcTable

One CPU, `cur`. Each action runs from one place where the timer may interrupt to the next; `pc[p]`
names the place. A section under `ptable.lock` is one action because `acquire` disables interrupts.
`Scheduler` is one turn of its loop with its position `scan`: who is made runnable behind it waits
for the next pass. `free` is `kmem.freelist` in order, so that a page that is freed is the next one
given out. User programs make any call at any time. A timer interrupt in kernel mode yields twice in
the code; the second is another `Timer` step here. Two actions are longer than the code's
uninterrupted steps, which no property can tell: `ForkCopy` finds no page and frees the stack, and
`Sbrk` takes its pages one after the other.

### HashRing, Cluster and DistKv

A scenario is a hash function and a budget of commands, crashes, late answers, peers and calls.
`reports` holds the callbacks the application has not acted on: it acts on them in any order and
however late. `blind` is a history variable: what a command (`RemoveNode`, `Rebalance`) set against
the detector's word and no failover has looked at since. The properties except exactly that. The
clock is the age of each suspect, which is all `gossip_tick` compares. `DistKv` extends `Cluster`
with the data: the client's calls are guarded by `Writable` and `Readable` of `Cluster`, and the
groups have their log, commit index and store. A store has at most `Slots` slots
(`storage_adapter_put` doubles 64 up to 8192 and never reuses the slot of a deleted key): `PutEntry`
of a new key then changes nothing, and `Propose` goes on. `acked` is what was acknowledged, with and
without peers. `AddNode` leaves out the detector's limit of MAX_MEMBERS (`gossip.c:71`), whose error
`dkv_admin_add_node` ignores; `RemoveNode` is for nodes of the ring: for others the code runs
failover and gossip removal, which find nothing, before NOT_FOUND. The loops over partitions,
virtual nodes and log entries are recursive functions over positions.

## Runs

All passing runs explore their state space completely. The bounds are constants of the modules:
`MayStand` (who may stand in which terms), `Budget` and `Spent` (how often the environment may
propose, tick, crash ... and in which combinations) in `Raft`; `MayCrash`, `MayBypass` and
`OpBlocks` in `FsLog`; `MaxTs`, `MaxTsAfter`, `MayFail` and `MaxFailures` in `TxManager`; `MaxOps`
and `MaxTables` in `LsmFiles`; `MaxOps`, `MaxPower`, `MaxFile` and `MayFail` (the scenarios: how
many restarts and failures of each kind) in `LsmStore`; `Pages`, `MaxPid`, `MaxSz` and `Growers` in
`ProcTable`; `Scenarios` in `Cluster`.

| run | instance | checks |
|---|---|---|
| `raft_election` | 3 nodes, s1 may stand in terms 1 and 2, s2 in term 2; one step of each kind in one of four mixes: restart, transfer, stop; failed save, transfer, stop; PreVote; heartbeat, transfer, tick | `ElectionSafety`, `LeaderKnown`, `VoteStable` |
| `raft_log` | 3 nodes, s1 stands in term 1 and s2 in term 2, 2 entries of 2 values | `TypeOK`, `LogMatching`, `LeaderAppendOnly` |
| `fs_crash` | 2 threads, 2 blocks, transactions of 2 blocks, 2 log blocks, 5 buffers, any number of crashes | `TypeOK`, `Durable`, `CrashAtomic` |
| `fs_threads` | 3 threads, 2 log blocks, 3 buffers | `Pinned`, `ReservationHolds`, `WaiterWoken` |
| `tx_snapshot` | 2 clients, one of them scanning, 2 keys, 6 timestamps, or 4 with 1 restart or failure of any kind | `TypeOK`, `ScanIsSnapshot`, `SnapshotIsolation`, `SnapshotAfterCommit` |
| `lsm_files` | 4 keys that share prefixes, 4 writes, 3 tables, 2 levels of the skip list, blocks of 40 bytes, a restart point every 2 entries | `LevelsLinked`, `MemoryAccounted`, `MemtableReads`, `TableReads`, `MergeNewest`, `MergeInOrder` |
| `lsm_levels` | 2 keys, 2 values, 4 writes, 3 levels, compaction at 2 files in L0 and at 2 entries below, 6 files; a restart and a torn record, or a table that cannot be opened and a block that cannot be read, or a failed writer, or a power loss | `TypeOK`, `LevelsDisjoint`, `FilesSound`, `RecentReads`, `RestartRestores`, `CompactionKeeps` |
| `proc` | 3 slots, 4 process numbers, 4 pages beyond those of init and `procinit`, one process that grows | `TypeOK`, `NoLostWakeup`, `PagesOwnedOnce`, `ParentAlive`, `OrphansCollected`, `KilledExits` |
| `dkv` | 3 nodes with 2 virtual nodes each on a ring of 8 hashes, 2 partitions of 2 replicas, stores of 2 slots; up to 5 commands, a crash and a late answer, or 2 commands, 2 changes of peers and 3 calls | `TypeOK`, `LeadersSettled`, `ReadOnlyWhenShort`, `ReadsAgreed`, `ReplicasClockwise`, `LeadershipMoves` |

Why the bounds are enough to meet the cases:

- Two candidates in one term and a third voter are what a double vote needs; a crash of the voter is
  what makes the vote on disk matter. Two terms let delayed messages of the first one arrive in the
  second. A failed save and a restart are kept apart: together they let a node vote twice.
- In `raft_log` s1 and s2 both append at index 1 in different terms, so truncation of a conflicting
  suffix happens, and the messages of the old leader reach the new one. The run fixes who stands in
  which term (`MayStand`); concurrent candidacies are `raft_election`'s.
- In `fs_crash` two operations share a transaction and fill the log. The cache has a buffer for
  every block: with fewer, a recovery followed by a transaction loses a logged block (see below),
  and `CrashAtomic` fails with it.
- In `fs_threads` eviction does happen: three buffers for two home blocks, two log blocks and the
  header. The log holds two operations, so a third waits for space and also for a commit.
- In `tx_snapshot` two keys let a commit be half done while the other client reads or scans, and the
  timestamps leave room for a put, a delete of it and a scan. After a failure there is room for one
  more transaction; a crash gives a timestamp back to the clock, so versions left by a half commit
  meet new ones. `SnapshotIsolation` excepts the steps after a failure that tore a commit or kept a
  record out of `tx.wal`, or a power loss. `SnapshotAfterCommit` speaks of commits whose own records
  were written whole and where they can be read back. Several failures in one behaviour (a torn
  record, a restart that stops at it, a second one that reads what was appended behind it) are left
  to the proof of `SnapshotsFollowCommits`, which does not count them.
- In `lsm_files` a block holds two or three entries, so blocks and restart intervals end in every
  way, and three tables give the heap a right child.
- In `lsm_levels` four writes make two compactions of L0, a file in L1 that overlaps the next one,
  and a compaction into the last level, where tombstones go. `sync_writes` is off, as in the default
  options and for tx-manager; `sync_writes`, a failed fsync with it, and several restarts and power
  losses in one behaviour are left to the proof of `RestartsRestore`.
- In `proc` a parent, a child and init fill the table, so `fork` fails for want of a slot, and with
  four pages for want of a page at each of its two allocations; four process numbers let a slot be
  used again.
- In `dkv` five commands let three nodes join, be given partitions, and one of them leave. The two
  rings have virtual nodes of one node next to each other and apart, and the first and the last
  hash.

Symmetry is used over values, threads or blocks, never over keys (they are ordered), and never
together with a liveness property.

**Fairness.** `WaiterWoken` (`FsLog`): `FairSpec` gives weak fairness to the steps of a thread
inside `begin_op` and `end_op`, and to ending an operation: threads are scheduled and operations are
finite. That is not enough, and the code does not promise more: the log commits only when no
operation is outstanding, so operations that overlap for ever keep a waiter waiting. `LightLoadSpec`
therefore adds that `outstanding` is 0 again and again; the run shows that under such a load no
wake-up is lost.

`OrphansCollected` and `KilledExits` (`ProcTable`): weak fairness of the scheduler's loop and of the
timer, which is an assumption about the hardware: no code of mini-os programs the PIC or the PIT,
and the kernel only handles the interrupt; strong fairness of a process's steps in the kernel, since
a process that is given the CPU again and again executes instructions before the next tick; and
strong fairness of `wait` by init, whose program is that loop. User programs get none.

`LeadershipMoves` (`DistKv`): weak fairness of what the application does in its loop: the clock
passes, the detector is ticked, a node that is down does not answer its pings, and callbacks that
say dead are acted on. Nothing is assumed of commands, clients or nodes that answer.

Deadlock is checked in every Raft, journal and process-table run; the other runs end when their
bounds are used up.

Each property of a passing run has a mutant of the code (a definition marked "Mutant" next to the
one it replaces) that TLC shows to violate it: a vote that is not saved, a broadcast that is
forgotten, a binary search that starts one restart point late, an exit that does not wake its
parent.

## Proofs

Every theorem holds for all values of the constants that the assumption of its module allows; what a
theorem needs beyond that is a hypothesis in its statement. The bounds that make the runs finite are
constants too, so the theorems hold for any bound.

| module | theorem | states | under |
|---|---|---|---|
| `RaftProofs` | `TypeCorrect` | `[]TypeOK` | |
| | `ElectionSafe` | `[]ElectionSafety` | `SavesSucceed` |
| | `VotesStable` | `VoteStable` | `SavesSucceed` |
| | `LeadersKnown` | `[]LeaderKnown` | |
| | `LogsMatch` | `[]LogMatching` | `SavesSucceed` |
| | `LeadersAppend` | `LeaderAppendOnly` | `SavesSucceed` |
| `FsLogProofs` | `TypeCorrect` | `[]TypeOK` | |
| | `ReservationsHold` | `[]ReservationHolds` | `Disciplined` |
| | `LoggedStayPinned` | `[]Pinned` | no crash |
| `FsCrashProofs` | `CommitsAreDurable` | `[]Durable` | `Ample` |
| | `ImplementsAtomicDisk` | `CrashAtomic`, the refinement of `AtomicDisk` | `Ample` |
| `TxProofs` | `TypeCorrect` | `[]TypeOK` | |
| | `ScansAreSnapshots` | `[]ScanIsSnapshot` | |
| | `SnapshotsFollowCommits` | `SnapshotAfterCommit` | |
| | `ImplementsSnapshotIsolation` | `SnapshotIsolation`, the refinement of `SnapshotDB` | |
| `ProcProofs` | `TypeCorrect`, `WakeupsKept`, `PagesSafe`, `ParentsThere` | `[]TypeOK`, `[]NoLostWakeup`, `[]PagesOwnedOnce`, `[]ParentAlive` | |
| `DistKvProofs` | `TypeCorrect` | `[]TypeOK` | |
| | `LeadersAreSettled` | `[]LeadersSettled` | |
| | `ReadOnlyIffShort` | `[]ReadOnlyWhenShort` | |
| | `ReadsAreAgreed` | `[]ReadsAgreed` | |
| | `ReplicasAreClockwise` | `ReplicasClockwise` | |
| `LsmProofs` | `RestartsRestore` | `RestartRestores` | |
| | `TypeCorrect` | `[]TypeOK` | `OpenedAgainOnce` |
| | `LevelsAreDisjoint` | `[]LevelsDisjoint` | `OpenedAgainOnce` |
| | `FilesAreSound` | `[]FilesSound` | `OpenedAgainOnce` |
| | `ReadsAreRecent` | `[]RecentReads` | `OpenedAgainOnce` |
| | `CompactionsKeep` | `CompactionKeeps` | `OpenedAgainOnce` |

### Raft: votes and leaders (`RaftProofs`)

`TypeInv` adds to `TypeOK` that a leader's `next_index` is at least 1: without it `AppendTo` could
take a sub-sequence from index 0, which is not a sequence of entries.

`SavesSucceed` says that no save of `state.dat` fails; it is a condition on the constant `Budget`.
The code needs it: with one failed save and a restart TLC finds two leaders in a term.

The argument for election safety counts votes as messages. `Voted(v, c, t)` holds when `v` sent `c`
a granted response of term `t`, or `v = c` and sent a RequestVote. The inductive invariant `VoteInv`
is the conjunction of

- `DiskAgrees`: between calls, `state.dat` holds the term and vote in memory, so a restart changes
  neither;
- `VoteKept`: a node that voted for `c` in `t` is past `t`, or in `t` with `voted_for = c`;
- `VoteUnique`: a node votes for one candidate in a term (from `VoteKept` at the moment of voting);
- `VotesCounted`: what a candidate has in `votes` are votes for it in its term;
- `ElectedByMajority`: each entry of `elected` has a majority of such voters.

Two majorities share a member (`MajoritiesMeet`), that member voted once, so the leaders are the
same. The PreVote and transfer paths enter through `CampaignVotes`, the crash between two saves
through `RebornVotes`. The proof rests on `RaftAssumption` only: a finite, non-empty set of nodes
and natural-number bounds.

### Raft: logs (`RaftProofs`)

`KnownInv` strengthens `LeaderKnown`: whoever has the role of leader is in `elected`, and so is the
sender of every AppendEntries in its term. It needs nothing of the disk.

Log matching is proved without an induction over the logs. A *link* is an entry with its index and
the term of the entry before it; `Links` are those of all logs and of all AppendEntries messages
ever sent. `LogInv` says that links of the same index and term are the same link (`LinksAgree`),
that the term of a link was won by somebody (`LinksElected`), that a leader has every link of its
own term within its log (`LeaderHolds`), so that the entry it appends next is a new one, and that a
node is a candidate only in terms it has not led (`FreshCandidate`). Election safety is what makes
the leader of a term unique. From `LinksAgree`, `LogMatching` follows by the greatest index at or
below the common one where two logs differ: the links just above it agree, and so on the term below,
a contradiction. `FromStart` covers the message whose previous entry does not exist. Heartbeats do
not carry links, which is why the missing comparison that `raft_heartbeat` finds leaves these
theorems intact: the logs match, and only what is counted as committed is wrong.

A cluster of one node leads again in the term of its last start, with an empty log, so `LogInv` is
claimed for more than one node; with one node `LogMatching` is immediate.

### The journal: space and pins (`FsLogProofs`)

`IInv` has five parts. `TypeInv`: among others, `outstanding` is the number of threads inside an
operation. `CommitInv`: one thread commits at a time, nobody is inside an operation then, no thread
runs before recovery is through, and the loop variable `tail` is inside the log. `RefInv`: no block
is logged twice, and reference counts have a floor: 0 for a block that nobody pinned, 1 for a logged
block, and one less for each once recovery may have run, because of its unbalanced `bunpin`.
`ReserveInv`, for operations that keep to `MAXOPBLOCKS` (`Disciplined`): the set `Reserved` of what
each operation may still write, together with `lh`, is smaller than the log. It is a set of pairs
and not a sum, so that the library's theorems on cardinality apply; `log_write` of a block removes
at least the pair it uses. `PinInv`, without crashes: a logged block is cached until it is
installed. The eviction order is in the proof only as far as needed: `bget` recycles a buffer whose
count is 0 and no other.

`TypeCorrect` has no hypothesis: operations of any size, with crashes, never make `lh` longer than
the log. `LoggedStayPinned` needs that no recovery has run: after one it is false
([below](#what-the-code-does-not-do)).

### The journal: crashes (`FsCrashProofs`)

`Ample` is `Disciplined` and one of

- `Roomy`: the cache has a buffer for every block, so it recycles none;
- `Steady`: no recovery has run and the cache has at least as many buffers as the log has blocks, so
  that `bget` always finds one. `NBUF` and `LOGSIZE` are both 30.

The shipped system meets `Disciplined` for operations that keep to `MAXOPBLOCKS`, and `Steady` until
its first recovery. An image of more than 30 blocks is not `Roomy`, so after a recovery nothing is
proved of it, and nothing can be: a logged block may then be evicted
([below](#what-the-code-does-not-do)). `Steady` has no `Crash` action, and `CrashAtomic` still says
what a first crash does: `stable` of the refinement is, in every state, what recovery would make of
the image.

The invariant `CInv` adds to `IInv`: `HeadInv`, what the header on the disk and the one in memory
name in each phase; `CleanInv`, only a logged block may differ between cache and disk, and such a
block is cached; `SlotInv`, which log blocks `write_log` has copied and which home blocks
`install_trans` has written, during a commit and during a recovery; and under `Steady` that a block
has the reference of its pin and no other (`Exact`), from which a free buffer exists by counting.

For the refinement, each action is one of `AtomicDisk` or a stutter: `log_write` writes `mem`;
`write_head` is the commit point, where `stable` takes the value of `mem`, because `SlotInv` says
that replaying the log blocks gives what the cache shows; every later block write leaves what
recovery would make of the image unchanged (`SettledView`), a second crash in recovery included.

### Transactions (`TxProofs`)

`IInv` has six parts. `TypeInv` and `TxInv`: one commit is under way at a time, its timestamp is
above every snapshot and above everything in the log, and no two versions have the same key and
timestamp. `LogInv`: no version is lost unless the storage engine's log has a torn record, and the
commit under way has stored the entries it has passed. `KeptInv`: a commit that was reported with
all its records whole has its versions in the store and not in `lost`, until a power loss, and its
timestamp in the part of `tx.wal` that `tx_recover` reads, with `sync_on_commit` in the synced part;
`SnapshotsFollowCommits` follows, since `tx_recover` starts the clock above it. It needs no bound on
the failures. `QuietInv`, as long as no failure has cut a commit short: every version is covered by
the log or belongs to the commit under way, which has stored exactly the entries it has passed.
`ScanIsSnapshot` itself is inductive with these: a version that a commit stores while an iterator is
open has a timestamp above the iterator's snapshot, and `Lookup` of an older timestamp is the same
with and without it.

For the refinement, each step is one of `SnapshotDB` or a stutter, or sets `failures.harm`, the
exception `SnapshotIsolation` states. The versions of a commit under way are hidden from the
abstract database and appear at `CommitDone` all at once (`QuietInv` says that they are exactly the
write set); what an active transaction reads is not affected, because they lie above its snapshot;
and a conflict of the code (a newer version of a key) is a conflict of the abstract one (a key in
`changed`).

`TxAssumption` asks of the constants that keys are numbers, that the special values are not values
or versions, and that the bounds are natural numbers with `MaxTsAfter <= MaxTs`.

### The process table (`ProcProofs`)

`IInv` has five parts. `ForkInv`: a slot that a fork is filling is an EMBRYO, is named (`np`) by
that fork only, and is a child of nobody until its last step, so that a timer interrupt in the
middle lets no one take, run or collect it. `ParentInv`: init is there, nobody is its own parent, a
free slot has no parent, and `ParentAlive`. `SleepInv`: who sleeps does so in `wait` on its own
slot, and `NoLostWakeup`; each action that makes a zombie, hands over a zombie or kills is shown to
wake the sleeper. `PageInv`: `PagesOwnedOnce` extended to a fork under way, whose stack and page
directory come into being in different steps and are given back when a later one fails.
`ProcAssumption` asks for at least one slot and for the pages that `procinit` and init need.

### Recursive functions (`RecursionProofs`)

A loop of the code is a function `f[i \in 0 .. n]` that says what the loop has made after `i` turns.
The module proves that such a function exists and satisfies its equation (`RecursionExists`), and
does induction with the set of the positions up to which a statement holds, since an operator cannot
be a parameter of a lemma that the provers use. It also has what the binary search that all systems
write out does on any sequence: it stops at a position that is not below the key, or at the end,
right after one that is below it, or at the beginning (`FirstNotBelowStops`). On a sorted one that
is the first not below.

### dist-kv (`DistKvProofs`)

The inductive invariant is `Inv`: `ClusterInv` for the ring and the partitions, `Groups` for the
data.

- `RingOK`: the ring is sorted strictly by hash, and it has the virtual nodes of its members, all of
  them and no others. With it, the walk of `hash_ring_get_nodes` is shown to return different nodes,
  as many as there are up to `Replication`, in clockwise order: `ReplicasAreClockwise`.
- `Placed`: the replicas of a partition are different nodes of the ring, and its leader is one of
  them.
- `Fit` relates a partition to what the detector knows and to the callbacks that wait. `KnownAlive`
  are the replicas that are alive and whose recovery, if there was one, was acted on; `MaybeAlive`
  those that are not dead, or dead with a callback that still waits. A partition without a leader
  has nobody in the first, a READONLY one has too few there, an ACTIVE one enough in the second,
  unless `blind` says that a command set it otherwise. Each handler of `failover.c` is shown to keep
  this whatever callbacks come after it, so their order does not matter; once none waits,
  `LeadersSettled` and `ReadOnlyWhenShort` follow.
- `GroupOK`: the store has one slot per key, every entry up to the commit index is applied, the
  store says what was agreed, and the log's uncommitted rest (`Pending`) leads from there to all
  that was acknowledged (`LastIs`). Committing later entries with a later proposal then moves the
  store to that.

`ClusterAssumption` asks that hashes do not collide. With a collision the order of two virtual nodes
depends on the order of their insertion, and the ring does not promise more. `Replication` is at
least 1, and the words a refused read returns are not values.

### The storage engine (`LsmProofs`)

`RestartsRestore` needs no hypothesis: `MayFail` may allow any number of restarts, power losses and
failures, in any order. `WalInv` says that `wal.log`, up to a torn record, is a sequence of puts and
deletes in which the last record of a key is its last write (`LogKeeps`), and that with
`sync_writes` what is behind the synced part are records whose write returned an error (`Unacked`).
It is never truncated, so what `storage_open` replays restores every last write, whatever the levels
say.

The other theorems follow from `LsmInv`:

- `FilesInv`: `Stack`, each file of the levels is listed once, is whole, has a number below
  `next_num`, and the levels below L0 are sorted and disjoint. The next file is therefore written
  over none of them.
- `Midway`: what each place inside `storage_flush` and `compact_level` knows. `JobOK`: the inputs of
  a compaction are different files of its two levels, all of L0 come first when it goes to L1, and
  the output meets no file of its level that stays; the order of unlinking is thereby from the
  oldest file of L0 on. `JobReads`: what the levels will say of a key, once the inputs are gone and
  the output is in its place, is what a reader saw before; the keys that both levels had, and those
  of which a read error hid an entry, are excepted (`job.exposed`), as in `CompactionKeeps`.
- `Books`: until the database is opened again, the manifest lists the files it was told of in the
  order of their numbers, so that a replay of any prefix of it adds no file twice.
- `Settled`: with a log whose only torn record is the last, what the memtable has of a key is its
  last write, and where it has nothing the newest file of L0 with the key has it. `RecentReads`
  follows.

`OpenedAgainOnce` is a condition on the constant `MayFail`: a behaviour has one restart or one power
loss and not both, and any number of other failures. Every scenario of the `lsm_levels` run
satisfies it. The code needs it. The manifest is not told of a compaction, so the numbers in it have
gaps, and it keeps the record of a file that a power loss took. The next number then falls back into
the gap, a later flush gives the lost file's number out again, and when the process dies before it
has logged that file, `manifest_recover` opens it by the old record but takes the next number from
the last NEXT_FILE_NUM: the next flush writes over a file that L0 lists. TLC finds this as a
violation of `FilesSound` with one key, one value, `MaxPower = 4` and a scenario of one restart and
one power loss.

`LsmAssumption` asks for keys that are positive numbers, a finite set of them; for special values
that are no values, files or records; for two levels at least; and for natural numbers as bounds.

### Only model-checked

- Liveness (`WaiterWoken`, `OrphansCollected`, `KilledExits`, `LeadershipMoves`): TLAPS does not
  reach fairness and `ENABLED`.
- `LsmFiles` with `SkipList`, `SSTable` and `MergeIter`: recursive operators, whose value for every
  input needs an induction over data that the provers cannot instantiate.
- `LsmStore` beyond the first reopening: there the properties fail (`OpenedAgainOnce`, above).
- What the runs that end in a violation check: it does not hold.

## What the code does not do

These runs check what the repository's documentation says, and TLC shows a behaviour of the code
that contradicts it.

- `raft_heartbeat` / `LeaderCompleteness`: a follower acknowledges a heartbeat with the last index
  of its own log, without comparing entries (`election.c:348`). A stale entry counts as a replica,
  and the leader commits what a majority does not hold.
- `tx_crash` / `AllOrNothing`: a crash between two puts of a commit leaves half of it visible after
  recovery (`recovery.c:128`). A failing `storage_put` has the same effect without a crash.
- `lsm_compaction` / `CompactionLosesNothing`: of equal keys the merge keeps the entry of the
  iterator with the higher index (`compact.c:266`), which is right inside L0; but the iterators of
  the target level come after those of the source level, so its older value wins, and the newer one
  is unlinked. `CompactionKeeps` is what does hold.

Others that have no run of their own:

- Raft: `ElectionSafety` fails when a save of `state.dat` fails before a restart. The log is not
  persisted by `raft_propose` and the followers (`raft.c:141`), so an applied entry can be replaced
  after a restart; `docs/ARCHITECTURE.md:191` lists the log as persisted on append.
- simple-fs: `install_trans` ends with a `bunpin` of every block it installs (`log.c:92`), also when
  recovery calls it and nobody has pinned the block. The block stays in the cache one reference
  short, the `bpin` of the next transaction only brings it to 0, and reading other blocks recycles a
  logged block before its commit, contrary to `buf.c:148`, "prevent eviction during transaction".
  TLC shows it as a violation of `Pinned` with one thread, four blocks, three buffers, `NLog = 3`
  and `MayCrash`: a commit, a crash after `write_head`, a transaction, three reads. `Durable` fails
  for an operation of more than `MAXOPBLOCKS` blocks, whose surplus `log_write` drops.
- tx-manager: `tx_commit` fsyncs the COMMIT record and not the data (`tx_manager.c:43` opens the
  storage engine without `sync_writes`), so a power loss takes versions of a reported commit,
  although `README.en.md:24` says "Committed transactions are never lost": `SnapshotAfterCommit`
  claims only the clock after one, and fails without that exception. A BEGIN or COMMIT record that
  cannot be written is not noticed, and records that are appended behind a torn one are never read
  (`recovery.c:82-92`, `tx_wal.c:37`): at a later opening the clock starts below commits that were
  reported, and a new snapshot does not see them.
- storage-engine: a tombstone in the memtable does not stop `storage_get`, which goes on to the
  levels and may find the deleted value (`storage.c:186`). `storage_iter` reads the memtable only.
  Records written after a torn one make `storage_open` fail or are lost, with `sync_writes` too.
  `compact_level` unlinks its inputs before it opens its output: when that fails
  (`compact.c:656-660`), or when a block of an input could not be read (`compact.c:97-104`), entries
  are missing from the levels until the next `storage_open` replays the log. `memtable_should_flush`
  and `manifest_log_remove_file` have no caller: a compaction is not in the manifest, and after a
  power loss and a later restart the next file may be written over one that L0 lists (`FilesSound`,
  see [the proofs](#the-storage-engine-lsmproofs)).
- mini-os: `kill` of a number that a free slot still has marks the slot, and the next process there
  is born killed. The stacks of `procinit` are leaked. If init is killed, the kernel panics.
- dist-kv: a leader with peers acknowledges a put that it does not commit (`raft_group.c:165`), and
  a LINEARIZABLE read at that leader does not see it (`replication.c:144` has no read index),
  although `README.en.md:79` calls such reads linearizable; it shows when a later put without peers
  commits it. `ReadsAgreed` states this, not linearizability. `dkv_admin_remove_node` runs the
  failover while the detector still calls the node alive, so it may re-elect the node that leaves
  and end without a leader. A rebalance may appoint a dead node. A batch put that is refused
  half-way keeps its first half. A store that has 8192 slots, those of deleted keys included, takes
  no new key (`storage_adapter.c:107-109`); `raft_group.c:174` ignores the status, and the put is
  acknowledged and lost. `ReadsAgreed` therefore accepts a missing key in a full store.

## Plan

Done: Raft, the journal, transactions, the storage engine, the process table and dist-kv, with the
proofs above. The runs stay few: runs that ask related questions are merged.

Proofs that are left: of the safety properties that hold, only those of `LsmFiles`. They need its
recursive operators to be written as functions over positions, as in `LsmStore`, and then what a
block, a skip list and a heap contain after each turn of a loop.

Modelling that is left: Raft's log file, snapshots, batches, ReadIndex and membership; the inode and
directory layer of simple-fs over `AtomicDisk`; the language projects.

## Not modelled

- Raft snapshots, batches, ReadIndex, membership and the log file. `raft_read_index` counts an
  acknowledgement of anything sent before the read (`read.c:63`), and a batch whose append fails
  half-way leaves entries in the file (`batch.c:56`): these are the questions a model of them would
  start from.
- simple-fs above the journal (inodes, directories, files, bitmap). `mkfs`, the host file behind
  `disk.c` and the shell's parsing are I/O.
- storage-engine: damage inside files, which checksums would find; the block cache, which the engine
  itself does not use; keys longer than the footer has room for, in `LsmStore`. Appends to the
  manifest that fail, which `storage_flush` ignores (`storage.c:386-387`); a `wal.log` that a flush
  closes and cannot open again (`storage.c:399-404`), after which writes are not logged; an fsync
  that fails in `wal_close`. An entry that does not fit into `block_buf`, twice the size of a block
  (`sstable.c:98`), which `sstable_writer_add` does not check: `FilesAssumption` excludes it.
- simple-fs: failing reads and writes of the image, and the order in which the host writes it
  (above).
- dist-kv: the iterator, which nothing fills; the life cycle of `node.c`; statistics.
- mini-os: page tables, which are stubs; console, boot and string routines; more than one CPU.
- tx-manager's `gc.c` counts versions and removes none.
- simple-compiler and tiny-interpreter are sequential programs on trees. The `learn` directories of
  the language projects are exercises; `src/web` is presentation.
- Allocation failures (`malloc` returning NULL) everywhere, except where the code's handling of them
  changes protocol state (`kalloc` in `ProcTable`).
