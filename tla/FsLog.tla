------------------------------- MODULE FsLog -------------------------------
(***************************************************************************)
(* The write-ahead log of projects/systems/simple-fs (log.c) over its      *)
(* buffer cache and disk image.  Threads run file system operations        *)
(* between begin_op and end_op; the last one to end commits for all.  Each *)
(* disk write is a step of its own, and the process may crash between any  *)
(* two: the cache and the log's memory are lost, the image stays, and      *)
(* loginit recovers.                                                       *)
(***************************************************************************)
EXTENDS Integers, Sequences, FiniteSets, BufCache

CONSTANTS
    Thread,
    Block,        \* home blocks: bitmap, inode and data blocks
    LogStart,         \* the log's header block (sb.logstart)
    Block0,       \* block 0, which nothing reads
    Val,          \* block contents
    NLog,         \* log.size: the header and NLog - 1 log blocks
    NBuf,         \* NBUF
    MaxOpBlocks,  \* MAXOPBLOCKS
    OpBlocks,     \* blocks one operation really writes
    MayCrash,     \* crashes are part of the run
    MayBypass     \* log_write may be called outside begin_op/end_op

Slot == 1 .. NLog - 1
Addr == Block \cup Slot \cup {LogStart}

ASSUME FsLogAssumption ==
    /\ NLog \in Nat \ {0, 1}
    /\ NBuf \in Nat \ {0, 1}
    /\ MaxOpBlocks \in Nat \ {0}
    /\ OpBlocks \in Nat
    /\ MayCrash \in BOOLEAN /\ MayBypass \in BOOLEAN
    /\ LogStart \notin Block /\ Block0 \notin Addr
    /\ Block \cap Slot = {} /\ LogStart \notin Slot

VARIABLES
    disk,         \* the image: contents of every block; a header is the
                  \*   sequence of home blocks it names (n is its length)
    cache,        \* bcache
    lh,           \* log.lh
    outstanding,  \* log.outstanding
    committing,   \* log.committing
    pc,           \* where each thread is
    tail,         \* the loop variable of write_log and install_trans
    boot,         \* loginit: "read_head", "install", "clear_head", then "up"
    wrote         \* blocks each thread's operation has written so far

vars == <<disk, cache, lh, outstanding, committing, pc, tail, boot, wrote>>

Pc == {"idle", "begin", "waiting", "active", "write_log", "write_head",
       "install", "clear_head", "release"}

-----------------------------------------------------------------------------
(* Reading and writing blocks. *)

\* bread, release.
Touch(a) == cache' = Brelse(Bread(cache, a, disk[a]), a)

\* One iteration of write_log or install_trans: copy block src to dst and
\* write dst; a bread that finds no buffer skips the iteration.  A disk_read and a
\* disk_write succeed, and the block is written whole.
CopyBlock(src, dst, unpin) ==
    IF ~Available(cache, src) THEN UNCHANGED <<disk, cache>>
    ELSE \E c1 \in {Bread(cache, src, disk[src])} :
         IF ~Available(c1, dst)
           THEN cache' = Brelse(c1, src) /\ UNCHANGED disk
           ELSE \E c2 \in {Fill(Bread(c1, dst, disk[dst]), dst, Data(c1, src))} :
                /\ cache' = Brelse(Brelse(IF unpin THEN Bunpin(c2, dst) ELSE c2,
                                          src), dst)
                /\ disk' = [disk EXCEPT ![dst] = Data(c1, src)]

\* write_head: the header names the blocks of h.
WriteHead(h) ==
    IF Available(cache, LogStart)
      THEN /\ cache' = Brelse(Fill(Bread(cache, LogStart, disk[LogStart]), LogStart, h), LogStart)
           /\ disk' = [disk EXCEPT ![LogStart] = h]
      ELSE UNCHANGED <<disk, cache>>

\* One iteration of write_log, and one of install_trans.
WriteLog(i) == CopyBlock(lh[i], i, FALSE)

\* Mutant: the last block of the transaction is not installed.
InstallShort(i) ==
    IF i = Len(lh) THEN UNCHANGED <<disk, cache>> ELSE CopyBlock(i, lh[i], TRUE)

InstallTrans(i) == CopyBlock(i, lh[i], TRUE)

-----------------------------------------------------------------------------
(* Operations. *)

\* Mutant: the reservations of the other operations are not counted.
RoomForOne == Len(lh) + MaxOpBlocks <= NLog - 1

\* begin_op's test, negated.
Room == Len(lh) + (outstanding + 1) * MaxOpBlocks <= NLog - 1

\* begin_op, from its call or from a wake-up: wait, or enter.
BeginOp(t) ==
    /\ boot = "up"
    /\ pc[t] \in {"idle", "begin"}
    /\ IF committing \/ ~Room
         THEN /\ pc' = [pc EXCEPT ![t] = "waiting"]
              /\ UNCHANGED outstanding
         ELSE /\ pc' = [pc EXCEPT ![t] = "active"]
              /\ outstanding' = outstanding + 1
    /\ UNCHANGED <<disk, cache, lh, committing, tail, boot, wrote>>

\* Mutant: the buffer is not pinned.
LogWriteNoPin(c, b) ==
    IF Len(lh) >= NLog - 1 \/ Contains(lh, b)
      THEN cache' = Brelse(c, b) /\ UNCHANGED lh
      ELSE cache' = Brelse(c, b) /\ lh' = Append(lh, b)

\* Mutant: neither the size of the log nor a block already in it is looked at.
LogWriteUnchecked(c, b) ==
    cache' = Brelse(Bpin(c, b), b) /\ lh' = Append(lh, b)

\* log_write inside an operation and the brelse that follows it: a full log
\* drops the write, a block already logged is absorbed, any other is pinned.
LogWrite(c, b) ==
    IF Len(lh) >= NLog - 1 \/ Contains(lh, b)
      THEN cache' = Brelse(c, b) /\ UNCHANGED lh
      ELSE cache' = Brelse(Bpin(c, b), b) /\ lh' = Append(lh, b)

\* An operation modifies block b: bread, memcpy, log_write, brelse.
WriteBlock(t, b, v) ==
    /\ boot = "up"
    /\ pc[t] = "active"
    /\ Cardinality(wrote[t] \cup {b}) <= OpBlocks
    /\ Available(cache, b)
    /\ LogWrite(Fill(Bread(cache, b, disk[b]), b, v), b)
    /\ wrote' = [wrote EXCEPT ![t] = @ \cup {b}]
    /\ UNCHANGED <<disk, outstanding, committing, pc, tail, boot>>

\* The same outside any operation, where outstanding < 1 makes log_write fall
\* back to bwrite: the single-threaded shell does it, so no thread is inside
\* begin_op or end_op.
BypassLog(b, v) ==
    /\ boot = "up"
    /\ MayBypass
    /\ outstanding < 1
    /\ \A t \in Thread : pc[t] = "idle"
    /\ Available(cache, b)
    /\ cache' = Brelse(Fill(Bread(cache, b, disk[b]), b, v), b)
    /\ disk' = [disk EXCEPT ![b] = v]
    /\ UNCHANGED <<lh, outstanding, committing, pc, tail, boot, wrote>>

\* Any thread reads block b: bread, brelse, as one step; in between the buffer is only
\* held, which keeps it from being recycled.
ReadBlock(b) ==
    /\ boot = "up"
    /\ Available(cache, b)
    /\ Touch(b)
    /\ UNCHANGED <<disk, lh, outstanding, committing, pc, tail, boot, wrote>>

\* end_op: the last operation to end starts the commit, which has nothing to
\* do when no block was logged.
EndOp(t) ==
    /\ pc[t] = "active"
    /\ outstanding' = outstanding - 1
    /\ wrote' = [wrote EXCEPT ![t] = {}]
    /\ IF outstanding = 1
         THEN /\ committing' = TRUE
              /\ tail' = 1
              /\ pc' = [pc EXCEPT ![t] = IF lh = << >> THEN "release"
                                                      ELSE "write_log"]
         ELSE /\ pc' = [pc EXCEPT ![t] = "idle"]
              /\ UNCHANGED <<committing, tail>>
    /\ UNCHANGED <<disk, cache, lh, boot>>

-----------------------------------------------------------------------------
(* commit *)

CommitLog(t) ==
    /\ pc[t] = "write_log"
    /\ WriteLog(tail)
    /\ IF tail < Len(lh)
         THEN tail' = tail + 1 /\ UNCHANGED pc
         ELSE tail' = 1 /\ pc' = [pc EXCEPT ![t] = "write_head"]
    /\ UNCHANGED <<lh, outstanding, committing, boot, wrote>>

CommitHead(t) ==
    /\ pc[t] = "write_head"
    /\ WriteHead(lh)
    /\ pc' = [pc EXCEPT ![t] = "install"]
    /\ UNCHANGED <<lh, outstanding, committing, tail, boot, wrote>>

CommitInstall(t) ==
    /\ pc[t] = "install"
    /\ InstallTrans(tail)
    /\ IF tail < Len(lh)
         THEN tail' = tail + 1 /\ UNCHANGED <<lh, pc>>
         ELSE tail' = 1 /\ lh' = << >> /\ pc' = [pc EXCEPT ![t] = "clear_head"]
    /\ UNCHANGED <<outstanding, committing, boot, wrote>>

CommitClear(t) ==
    /\ pc[t] = "clear_head"
    /\ WriteHead(lh)
    /\ pc' = [pc EXCEPT ![t] = "release"]
    /\ UNCHANGED <<lh, outstanding, committing, tail, boot, wrote>>

\* Mutant: nobody is woken.
ReleaseSilently(t) ==
    /\ pc[t] = "release"
    /\ committing' = FALSE
    /\ pc' = [pc EXCEPT ![t] = "idle"]
    /\ UNCHANGED <<disk, cache, lh, outstanding, tail, boot, wrote>>

\* The end of end_op: pthread_cond_broadcast wakes every waiter.
Release(t) ==
    /\ pc[t] = "release"
    /\ committing' = FALSE
    /\ pc' = [u \in Thread |-> IF u = t THEN "idle"
                               ELSE IF pc[u] = "waiting" THEN "begin" ELSE pc[u]]
    /\ UNCHANGED <<disk, cache, lh, outstanding, tail, boot, wrote>>

-----------------------------------------------------------------------------
(* Crash and recovery. *)

\* The process dies between two block writes, and what it wrote is in the image.
Crash ==
    /\ MayCrash
    /\ cache' = EmptyCache(NBuf, Block0)
    /\ lh' = << >>
    /\ outstanding' = 0
    /\ committing' = FALSE
    /\ pc' = [t \in Thread |-> "idle"]
    /\ tail' = 1
    /\ boot' = "read_head"
    /\ wrote' = [t \in Thread |-> {}]
    /\ UNCHANGED disk

\* Mutant: the header found is cleared, not replayed.
RecoverHeadForgets ==
    /\ boot = "read_head"
    /\ Touch(LogStart)
    /\ lh' = << >>
    /\ boot' = "clear_head"
    /\ UNCHANGED <<disk, outstanding, committing, pc, tail, wrote>>

\* read_head
RecoverHead ==
    /\ boot = "read_head"
    /\ Touch(LogStart)
    /\ lh' = disk[LogStart]
    /\ boot' = IF lh' = << >> THEN "up" ELSE "install"
    /\ UNCHANGED <<disk, outstanding, committing, pc, tail, wrote>>

RecoverInstall ==
    /\ boot = "install"
    /\ InstallTrans(tail)
    /\ IF tail < Len(lh)
         THEN tail' = tail + 1 /\ UNCHANGED <<lh, boot>>
         ELSE tail' = 1 /\ lh' = << >> /\ boot' = "clear_head"
    /\ UNCHANGED <<outstanding, committing, pc, wrote>>

RecoverClear ==
    /\ boot = "clear_head"
    /\ WriteHead(lh)
    /\ boot' = "up"
    /\ UNCHANGED <<lh, outstanding, committing, pc, tail, wrote>>

-----------------------------------------------------------------------------
(* The specification. *)

\* A fresh image from mkfs, before loginit.
Init ==
    /\ disk \in {[a \in Addr |-> IF a = LogStart THEN << >> ELSE v] : v \in Val}
    /\ cache = EmptyCache(NBuf, Block0)
    /\ lh = << >>
    /\ outstanding = 0
    /\ committing = FALSE
    /\ pc = [t \in Thread |-> "idle"]
    /\ tail = 1
    /\ boot = "read_head"
    /\ wrote = [t \in Thread |-> {}]

\* What a thread does once it is inside begin_op or end_op.
Step(t) ==
    \/ pc[t] = "begin" /\ BeginOp(t)
    \/ EndOp(t)
    \/ CommitLog(t)
    \/ CommitHead(t)
    \/ CommitInstall(t)
    \/ CommitClear(t)
    \/ Release(t)

Next ==
    \/ \E t \in Thread : Step(t)
    \/ \E t \in Thread : pc[t] = "idle" /\ BeginOp(t)
    \/ \E t \in Thread, b \in Block, v \in Val : WriteBlock(t, b, v)
    \/ \E b \in Block, v \in Val : BypassLog(b, v)
    \/ \E b \in Block : ReadBlock(b)
    \/ Crash
    \/ RecoverHead
    \/ RecoverInstall
    \/ RecoverClear

Spec == Init /\ [][Next]_vars

\* Threads are scheduled and an operation, once begun, ends.
FairSpec == Spec /\ \A t \in Thread : WF_vars(Step(t))

\* The same under a load that now and then lets all operations end: only then
\* does the log commit, and only a commit frees its space.
LightLoadSpec == FairSpec /\ []<>(outstanding = 0)

-----------------------------------------------------------------------------
(* Properties. *)

\* Every variable keeps its type; in particular a log never names more blocks
\* than it has log blocks for.
TypeOK ==
    /\ DOMAIN disk = Addr
    /\ \A a \in Addr \ {LogStart} : disk[a] \in Val
    /\ Len(disk[LogStart]) < NLog /\ \A i \in DOMAIN disk[LogStart] : disk[LogStart][i] \in Block
    /\ DOMAIN cache = 1 .. NBuf
    /\ \A i \in 1 .. NBuf : cache[i].blockno \in Addr \cup {Block0}
    /\ Len(lh) < NLog /\ \A i \in DOMAIN lh : lh[i] \in Block
    /\ outstanding = Cardinality({t \in Thread : pc[t] = "active"})
    /\ committing \in BOOLEAN
    /\ pc \in [Thread -> Pc]
    /\ tail \in Slot
    /\ boot \in {"read_head", "install", "clear_head", "up"}
    /\ wrote \in [Thread -> SUBSET Block]

\* The contents of the home blocks that recovery makes of the image.
Recovered ==
    [b \in Block |-> IF Contains(disk[LogStart], b)
                       THEN disk[SelectInSeq(disk[LogStart], LAMBDA x : x = b)]
                       ELSE disk[b]]

\* The contents the file system code sees.
Logical == [b \in Block |-> IF Cached(cache, b) THEN Data(cache, b) ELSE disk[b]]

Promise == INSTANCE AtomicDisk WITH
    mem    <- IF boot = "up" THEN Logical ELSE Recovered,
    stable <- Recovered,
    active <- {t \in Thread : pc[t] = "active"}

\* The log implements the atomic disk: through every crash, during a commit or
\* during a recovery, the blocks of one group of operations appear all at once
\* and those of an unfinished group not at all.
CrashAtomic == Promise!Spec

\* end_op returned and nobody is inside an operation: what the code sees is on
\* the disk, in place, and the header names nothing.
Durable ==
    boot = "up" /\ outstanding = 0 /\ ~committing =>
        /\ \A b \in Block : disk[b] = Logical[b]
        /\ disk[LogStart] = << >>

\* bpin: a logged block stays in the cache until install_trans has written it.
Pinned ==
    boot = "up" /\ ~(\E t \in Thread : pc[t] = "install") =>
        \A i \in DOMAIN lh : Cached(cache, lh[i])

\* begin_op's reservation: an operation that keeps to MAXOPBLOCKS never finds
\* the log full.
ReservationHolds ==
    \A t \in Thread :
        pc[t] = "active" /\ Cardinality(wrote[t]) < MaxOpBlocks
        => Len(lh) < NLog - 1

\* No wake-up is lost: a thread that waits in begin_op, for a commit to end or
\* for log space, is woken by the broadcast of end_op.
WaiterWoken == \A t \in Thread : pc[t] = "waiting" ~> pc[t] = "begin"
=============================================================================
