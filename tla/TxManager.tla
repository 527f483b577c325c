----------------------------- MODULE TxManager -----------------------------
(***************************************************************************)
(* The transaction manager of projects/data/tx-manager: multi-version      *)
(* transactions over the storage engine, which it uses as an ordered map   *)
(* from (key, commit timestamp) to value.  tx_begin, tx_abort and          *)
(* tx_commit run under tm->mutex; tx_put, tx_delete, tx_get and the        *)
(* iterator do not, so they interleave with the puts of a commit.          *)
(*                                                                         *)
(* Transaction ids only identify WAL records and are left out.  tx_recover *)
(* takes from tx.wal the highest timestamp up to the first record that is  *)
(* not whole, and tx_wal_open appends behind such a record all the same;   *)
(* the model keeps that timestamp, and whether there is such a record.     *)
(* tx_gc_run counts versions and removes none.  Nothing here calls         *)
(* storage_flush, so the memtable of the storage engine, which is all its  *)
(* iterator reads, holds every version, and its log restores those that    *)
(* are not behind a record that is not whole.                              *)
(***************************************************************************)
EXTENDS Integers, FiniteSets, Sequences

CONSTANTS
    Client,     \* threads, each with at most one transaction
    Key,        \* ordered keys: a set of numbers
    Value,      \* values of at least one byte
    Empty,      \* the value of length 0: the tombstone, and "not found"
    None,       \* no iterator
    End,        \* an iterator that is no longer valid
    MaxActive,  \* opts.max_active_txs
    SyncOnCommit, \* opts.sync_on_commit
    MaxTs,      \* bound: timestamps handed out
    MaxTsAfter, \* bound: the same after a restart or a failure
    Scanner,    \* the clients that use iterators
    MayFail,    \* the restarts and failures of the run
    MaxFailures \* bound: how many of them

\* A restart, a crash inside tx_commit, a power loss, a failed storage_put, and a
\* failed write or fsync of tx.wal.
Failure == {"close", "crash", "power", "ioerror", "log"}

ASSUME TxAssumption ==
    /\ Key \subseteq Nat
    /\ Empty \notin Value
    /\ None # End
    /\ {None, End} \cap [key : Key, ts : Nat, val : Value \cup {Empty}] = {}
    /\ SyncOnCommit \in BOOLEAN
    /\ MaxActive \in Nat /\ MaxTs \in Nat /\ MaxTsAfter \in 0 .. MaxTs /\ MaxFailures \in Nat
    /\ Scanner \subseteq Client /\ MayFail \subseteq Failure

VARIABLES
    next_ts,   \* tm->next_ts
    tx,        \* each client's tx_t: state ("COMMITTING" inside tx_commit),
               \*   start_ts, commit_ts, the write set in order, and how many
               \*   of its entries storage_put has stored
    store,     \* the storage engine: a set of [key, ts, val]
    lost,      \* the versions whose record in its log is behind one that is not whole
    torn,      \* the logs that have a record that is not whole
    max_ts,    \* highest timestamp tx_recover would find in tx.wal
    synced_ts, \* the same for the part of it that was fsynced
    iter,      \* each client's iterator: the entry it is on, and (history) the
               \*   key it started from and the keys it has delivered
    attempts,  \* history: [ts, vers, kept] of every commit that passed the conflict
               \*   check; kept when tx_commit returned TX_OK, and all its records
               \*   are whole and can be read back
    failures   \* how many restarts and failures so far, whether one of them was
               \*   more than a restart between commits, and whether one was a
               \*   power loss

vars == <<next_ts, tx, store, lost, torn, max_ts, synced_ts, iter, attempts, failures>>

-----------------------------------------------------------------------------
(* Reading. *)

NoTx == [state |-> "NONE", start_ts |-> 0, commit_ts |-> 0, writes |-> << >>,
         stored |-> 0]

NoIter == [entry |-> None, from |-> 0, seen |-> {}]

\* is_version_visible
IsVersionVisible(ts, c) == ts <= tx[c].start_ts

\* version_encode_key puts a NUL byte and the inverted timestamp behind the key, so
\* the versions of a key are sorted newest first and a seek to (key, ts) finds the
\* newest one up to ts.  That needs keys without NUL bytes, which the model assumes.
Lookup(s, k, ts) ==
    LET vs == {v \in s : v.key = k /\ v.ts <= ts}
    IN  IF vs = {} THEN Empty
        ELSE (CHOOSE v \in vs : \A w \in vs : w.ts <= v.ts).val

\* tx_find_write: the keys of a write set.
Written(ws) == {ws[i].key : i \in DOMAIN ws}

\* tx_get: the write set first, then the newest version of the snapshot; Empty
\* stands for TX_NOT_FOUND.
TxGet(c, k) ==
    IF k \in Written(tx[c].writes)
      THEN (CHOOSE w \in {tx[c].writes[i] : i \in DOMAIN tx[c].writes} :
                w.key = k).val
      ELSE Lookup(store, k, tx[c].start_ts)

\* get_latest_commit_ts
LatestCommitTs(k) ==
    LET ts == {v.ts : v \in {w \in store : w.key = k}}
    IN  IF ts = {} THEN 0 ELSE CHOOSE t \in ts : \A u \in ts : u <= t

\* Mutant: the key of a tombstone is not remembered.
AdvancePastTombstones(ahead, c) ==
    LET hits == {e \in ahead : IsVersionVisible(e.ts, c) /\ e.val # Empty}
    IN  IF hits = {} THEN End
        ELSE CHOOSE e \in hits : \A f \in hits :
                 e.key < f.key \/ (e.key = f.key /\ e.ts >= f.ts)

\* advance_to_visible over the entries ahead: the first visible one that is no
\* tombstone and whose key has no visible tombstone before it.
AdvanceToVisible(ahead, c) ==
    LET hits == {e \in ahead :
                   /\ IsVersionVisible(e.ts, c)
                   /\ e.val # Empty
                   /\ ~\E d \in ahead : /\ d.key = e.key /\ d.ts > e.ts
                                        /\ d.val = Empty
                                        /\ IsVersionVisible(d.ts, c)}
    IN  IF hits = {} THEN End
        ELSE CHOOSE e \in hits : \A f \in hits :
                 e.key < f.key \/ (e.key = f.key /\ e.ts >= f.ts)

-----------------------------------------------------------------------------
(* Transactions. *)

\* pthread_mutex_lock(&tm->mutex) does not wait: nobody is inside tx_commit.
MutexFree == \A c \in Client : tx[c].state # "COMMITTING"

ActiveCount == Cardinality({c \in Client : tx[c].state # "NONE"})

\* A failure of the given kind, within the bounds: none when the clock is already
\* beyond its bound for the time after it.
Fail(f) ==
    /\ f \in MayFail
    /\ failures.count < MaxFailures /\ next_ts <= MaxTsAfter
    /\ failures' = [count |-> failures.count + 1, harm |-> failures.harm \/ f # "close",
                    power |-> failures.power \/ f = "power"]

\* The clock is within its bound.
WithinTs == next_ts < IF failures.count = 0 THEN MaxTs ELSE MaxTsAfter

Max2(a, b) == IF a >= b THEN a ELSE b

\* What tx_recover would find once a record with timestamp ts is written whole.
Logged(ts) == IF "tx.wal" \in torn THEN max_ts ELSE Max2(max_ts, ts)

\* A log gets, or does not get, a piece of a record that could not be written.
Tears(file) == torn' \in {torn, torn \cup {file}}

\* write_record succeeds.
LogRecord(ts) == max_ts' = Logged(ts) /\ UNCHANGED <<torn, failures>>

\* write_record fails, and its callers drop the status.
LogFails == Fail("log") /\ Tears("tx.wal") /\ UNCHANGED max_ts

\* tx_begin: a snapshot timestamp, a BEGIN record, a slot; NULL at capacity.
Begin(c) ==
    /\ tx[c].state = "NONE"
    /\ MutexFree
    /\ ActiveCount < MaxActive
    /\ WithinTs
    /\ tx' = [tx EXCEPT ![c] = [NoTx EXCEPT !.state = "ACTIVE",
                                            !.start_ts = next_ts]]
    /\ next_ts' = next_ts + 1
    /\ LogRecord(next_ts) \/ LogFails
    /\ UNCHANGED <<store, lost, synced_ts, iter, attempts>>

\* Mutant: a second write of a key is appended as well.
AddWriteAppends(ws, k, v) == Append(ws, [key |-> k, val |-> v])

\* tx_add_write: replace the entry of the key, or append one.
AddWrite(ws, k, v) ==
    IF k \in Written(ws)
      THEN [i \in DOMAIN ws |-> IF ws[i].key = k THEN [key |-> k, val |-> v]
                                                 ELSE ws[i]]
      ELSE Append(ws, [key |-> k, val |-> v])

\* tx_put, and tx_delete when v is Empty.
Put(c, k, v) ==
    /\ tx[c].state = "ACTIVE"
    /\ tx' = [tx EXCEPT ![c].writes = AddWrite(@, k, v)]
    /\ UNCHANGED <<next_ts, store, lost, torn, max_ts, synced_ts, iter, attempts, failures>>

\* tx_abort: an ABORT record carries timestamp 0.
Abort(c) ==
    /\ tx[c].state = "ACTIVE"
    /\ MutexFree
    /\ tx' = [tx EXCEPT ![c] = NoTx]
    /\ iter' = [iter EXCEPT ![c] = NoIter]
    /\ LogRecord(0) \/ LogFails
    /\ UNCHANGED <<next_ts, store, lost, synced_ts, attempts>>

\* Mutant: only the first entry of the write set is checked.
ConflictFirst(c) ==
    /\ tx[c].writes # << >>
    /\ LatestCommitTs(tx[c].writes[1].key) > tx[c].start_ts

\* check_write_conflicts: someone committed a key of the write set after the
\* snapshot.
Conflict(c) ==
    \E k \in Written(tx[c].writes) : LatestCommitTs(k) > tx[c].start_ts

\* The versions a commit at ts is to store, not reported yet.
Attempt(c, ts) ==
    [ts |-> ts, kept |-> FALSE,
     vers |-> {[key |-> tx[c].writes[i].key, ts |-> ts,
                val |-> tx[c].writes[i].val] : i \in DOMAIN tx[c].writes}]

\* tx_commit up to its loop: TX_CONFLICT destroys the transaction and logs
\* nothing; otherwise a commit timestamp is taken and the mutex kept.
Commit(c) ==
    /\ tx[c].state = "ACTIVE"
    /\ MutexFree
    /\ IF Conflict(c)
         THEN /\ tx' = [tx EXCEPT ![c] = NoTx]
              /\ iter' = [iter EXCEPT ![c] = NoIter]
              /\ UNCHANGED <<next_ts, attempts>>
         ELSE /\ WithinTs
              /\ tx' = [tx EXCEPT ![c].state = "COMMITTING",
                                  ![c].commit_ts = next_ts,
                                  ![c].stored = 0]
              /\ next_ts' = next_ts + 1
              /\ attempts' = attempts \cup {Attempt(c, next_ts)}
              /\ UNCHANGED iter
    /\ UNCHANGED <<store, lost, torn, max_ts, synced_ts, failures>>

\* One iteration of the loop: storage_put of the versioned key.
CommitPut(c) ==
    LET w == tx[c].writes[tx[c].stored + 1]
        ts == tx[c].commit_ts
        n  == [key |-> w.key, ts |-> ts, val |-> w.val]
    IN  /\ tx[c].state = "COMMITTING"
        /\ tx[c].stored < Len(tx[c].writes)
        /\ store' = {v \in store : v.key # w.key \/ v.ts # ts} \cup {n}
        /\ lost' = IF "wal.log" \in torn THEN lost \cup {n} ELSE lost
        /\ tx' = [tx EXCEPT ![c].stored = @ + 1]
        /\ UNCHANGED <<next_ts, torn, max_ts, synced_ts, iter, attempts, failures>>

\* Mutant: the status of storage_put is dropped.
CommitFailIgnored(c) ==
    /\ tx[c].state = "COMMITTING"
    /\ tx[c].stored < Len(tx[c].writes)
    /\ Fail("ioerror")
    /\ tx' = [tx EXCEPT ![c].stored = @ + 1]
    /\ UNCHANGED <<next_ts, store, lost, torn, max_ts, synced_ts, iter, attempts>>

\* storage_put fails, perhaps half-way through its log record: tx_commit returns
\* TX_IO_ERROR, the transaction stays active and what was stored stays stored.
CommitFail(c) ==
    /\ tx[c].state = "COMMITTING"
    /\ tx[c].stored < Len(tx[c].writes)
    /\ Fail("ioerror")
    /\ Tears("wal.log")
    /\ tx' = [tx EXCEPT ![c].state = "ACTIVE"]
    /\ UNCHANGED <<next_ts, store, lost, max_ts, synced_ts, iter, attempts>>

\* The COMMIT record is written; with sync_on_commit tx.wal is fsynced.
LogCommit(ts) ==
    /\ LogRecord(ts)
    /\ synced_ts' = IF SyncOnCommit THEN max_ts' ELSE synced_ts

\* The COMMIT record cannot be written, or it can and the fsync fails.
LogCommitFails(ts) ==
    \/ /\ LogFails
       /\ synced_ts' \in IF SyncOnCommit THEN {synced_ts, max_ts} ELSE {synced_ts}
    \/ /\ SyncOnCommit /\ Fail("log")
       /\ max_ts' = Logged(ts)
       /\ UNCHANGED <<torn, synced_ts>>

\* The end of tx_commit: the COMMIT record, fsync of tx.wal, the mutex.  TX_OK
\* whether or not the record was written.
CommitDone(c) ==
    LET a == Attempt(c, tx[c].commit_ts)
        Reported(kept) ==
            attempts' = (attempts \ {a}) \cup {[a EXCEPT !.kept = kept]}
    IN  /\ tx[c].state = "COMMITTING"
        /\ tx[c].stored = Len(tx[c].writes)
        /\ \/ LogCommit(tx[c].commit_ts) /\ Reported(torn = {})
           \/ LogCommitFails(tx[c].commit_ts) /\ Reported(FALSE)
        /\ tx' = [tx EXCEPT ![c] = NoTx]
        /\ iter' = [iter EXCEPT ![c] = NoIter]
        /\ UNCHANGED <<next_ts, store, lost>>

-----------------------------------------------------------------------------
(* Iterators. *)

\* Where an iterator stops: on the first visible entry at or after key k, or
\* at the end.
Land(c, k, from, seen) ==
    LET e == AdvanceToVisible({v \in store : v.key >= k}, c)
    IN  iter' = [iter EXCEPT ![c] =
                   [entry |-> e, from |-> from,
                    seen |-> IF e = End THEN seen ELSE seen \cup {e.key}]]

\* tx_iter_create and tx_iter_seek_to_first.  A later seek on the same iterator
\* starts over like one on a new iterator; the model has one scan per
\* transaction.
SeekToFirst(c) ==
    /\ c \in Scanner
    /\ tx[c].state = "ACTIVE"
    /\ iter[c] = NoIter
    /\ Land(c, 0, 0, {})
    /\ UNCHANGED <<next_ts, tx, store, lost, torn, max_ts, synced_ts, attempts, failures>>

\* tx_iter_seek: the timestamp UINT64_MAX sorts before every version of k.
Seek(c, k) ==
    /\ c \in Scanner
    /\ tx[c].state = "ACTIVE"
    /\ iter[c] = NoIter
    /\ Land(c, k, k, {})
    /\ UNCHANGED <<next_ts, tx, store, lost, torn, max_ts, synced_ts, attempts, failures>>

\* tx_iter_next: past the versions of the current key, then to the next visible.
IterNext(c) ==
    /\ tx[c].state = "ACTIVE"
    /\ iter[c].entry \notin {None, End}
    /\ Land(c, iter[c].entry.key + 1, iter[c].from, iter[c].seen)
    /\ UNCHANGED <<next_ts, tx, store, lost, torn, max_ts, synced_ts, attempts, failures>>

-----------------------------------------------------------------------------
(* Restarts. *)

\* tx_manager_open followed by tx_recover, on files in the given state.  A record of
\* wal.log that is not whole may make storage_open fail for good, which ends the
\* behaviour; here it succeeds.
Reopen(files, ts) ==
    /\ store' = files
    /\ lost' = {}
    /\ max_ts' = ts
    /\ next_ts' = ts + 1
    /\ tx' = [c \in Client |-> NoTx]
    /\ iter' = [c \in Client |-> NoIter]
    /\ UNCHANGED attempts

\* tx_manager_close, or a crash while nobody is inside tx_commit.  tx_wal_close does
\* not fsync.
Close ==
    /\ Fail("close") /\ MutexFree
    /\ Reopen(store \ lost, max_ts)
    /\ UNCHANGED <<torn, synced_ts>>

\* The process dies between two puts of a commit.
Crash ==
    /\ Fail("crash") /\ ~MutexFree
    /\ Reopen(store \ lost, max_ts)
    /\ UNCHANGED <<torn, synced_ts>>

\* The machine loses power.  storage_open with default options never fsyncs its log
\* while it runs, so any of the versions may be gone, more than the code can lose after
\* a tx_manager_close; tx.wal keeps at least its synced part.  Either log may end in
\* a piece of a record.
PowerLoss ==
    /\ Fail("power")
    /\ \E files \in SUBSET (store \ lost), w \in synced_ts .. max_ts :
          Reopen(files, w) /\ synced_ts' = w
    /\ torn' \in SUBSET {"tx.wal", "wal.log"}

-----------------------------------------------------------------------------
(* The specification. *)

Init ==
    /\ next_ts = 1
    /\ tx = [c \in Client |-> NoTx]
    /\ store = {}
    /\ lost = {}
    /\ torn = {}
    /\ max_ts = 0
    /\ synced_ts = 0
    /\ iter = [c \in Client |-> NoIter]
    /\ attempts = {}
    /\ failures = [count |-> 0, harm |-> FALSE, power |-> FALSE]

Next ==
    \/ \E c \in Client :
         \/ Begin(c) \/ Abort(c)
         \/ Commit(c) \/ CommitPut(c) \/ CommitFail(c) \/ CommitDone(c)
         \/ SeekToFirst(c) \/ IterNext(c)
         \/ \E k \in Key : Seek(c, k)
    \/ \E c \in Client, k \in Key, v \in Value \cup {Empty} : Put(c, k, v)
    \/ Close
    \/ Crash
    \/ PowerLoss

Spec == Init /\ [][Next]_vars

-----------------------------------------------------------------------------
(* Properties. *)

Active(c) == tx[c].state # "NONE"

\* Every variable keeps its type.
TypeOK ==
    /\ next_ts \in Nat \ {0}
    /\ \A c \in Client :
         /\ tx[c].state \in {"NONE", "ACTIVE", "COMMITTING"}
         /\ tx[c].start_ts \in 0 .. next_ts - 1
         /\ tx[c].commit_ts \in 0 .. next_ts - 1
         /\ Written(tx[c].writes) \subseteq Key
         /\ Cardinality(Written(tx[c].writes)) = Len(tx[c].writes)
         /\ tx[c].stored \in 0 .. Len(tx[c].writes)
    /\ store \cup lost \subseteq [key : Key, ts : 1 .. MaxTs, val : Value \cup {Empty}]
    /\ torn \subseteq {"tx.wal", "wal.log"}
    /\ max_ts \in 0 .. next_ts - 1
    /\ synced_ts \in 0 .. max_ts
    /\ failures \in [count : 0 .. MaxFailures, harm : BOOLEAN, power : BOOLEAN]

\* The store without the versions of a commit that is under way.
Settled ==
    {v \in store : ~\E c \in Client : /\ tx[c].state = "COMMITTING"
                                      /\ tx[c].commit_ts = v.ts}

Promise == INSTANCE SnapshotDB WITH
    db      <- [k \in Key |-> Lookup(Settled, k, next_ts)],
    active  <- {c \in Client : Active(c)},
    snap    <- [c \in Client |-> [k \in Key |->
                  IF Active(c) THEN Lookup(store, k, tx[c].start_ts) ELSE Empty]],
    writes  <- [c \in Client |-> [k \in Written(tx[c].writes) |-> TxGet(c, k)]],
    changed <- [c \in Client |-> {k \in Key :
                  Active(c) /\ \E v \in Settled : /\ v.key = k
                                                  /\ v.ts > tx[c].start_ts}]

\* The multi-version store implements snapshot isolation: what a transaction
\* reads is the database as it was at tx_begin, whatever is committed or
\* half-way through tx_commit since, across every clean restart, and the first
\* committer wins; until a commit is cut short, a record of tx.wal is not written or
\* the machine loses power.
SnapshotIsolation ==
    /\ Promise!Init
    /\ [][failures'.harm \/ Promise!Next]_(Promise!vars)

\* A scan delivers exactly the keys of the snapshot from where tx_iter_seek put
\* it, however commits interleave with its steps: up to the key the iterator is
\* on, and all of them at the end.
ScanIsSnapshot ==
    \A c \in Client :
        iter[c].entry # None =>
            iter[c].seen =
                {k \in Key : /\ k >= iter[c].from
                             /\ Lookup(store, k, tx[c].start_ts) # Empty
                             /\ iter[c].entry # End => k <= iter[c].entry.key}

\* A snapshot holds all of a commit's writes or none, after failures of
\* storage_put and crashes inside tx_commit as well.
AllOrNothing ==
    \A c \in Client, a \in attempts :
        Active(c) /\ a.ts <= tx[c].start_ts =>
            a.vers \cap store \in {{}, a.vers}

\* A transaction that begins after a commit was reported sees it, across restarts and
\* crashes and whatever else failed in between, unless the commit's own records were not
\* written or stand behind one that is not whole: all its versions are there, and its
\* timestamp is below the snapshot, since tx_recover does not let the clock fall back
\* behind a COMMIT record it can read.  A power loss may take the versions, which
\* are never fsynced, but with sync_on_commit the clock still does not fall back.
SnapshotAfterCommit ==
    [][\A c \in Client :
         tx[c].state = "NONE" /\ tx'[c].state = "ACTIVE" =>
             \A a \in attempts : a.kept =>
                 /\ SyncOnCommit \/ ~failures.power => a.ts < tx'[c].start_ts
                 /\ ~failures.power => a.vers \subseteq store']_vars
=============================================================================
