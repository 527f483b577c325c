------------------------------ MODULE LsmStore ------------------------------
(***************************************************************************)
(* The storage engine of projects/data/storage-engine: a memtable with a   *)
(* write-ahead log, SSTables in levels, a manifest, flush, compaction and  *)
(* recovery.  An SSTable is what LsmFiles shows it to be: a map from keys  *)
(* to values and tombstones.                                               *)
(*                                                                         *)
(* The engine has one thread, so reads happen between calls (pc "idle");   *)
(* the steps inside storage_flush and compact_level are separate because   *)
(* the process may die between any two of them.  storage_get changes       *)
(* nothing and is the operator StorageGet; a storage iterator reads the    *)
(* memtable only.                                                          *)
(***************************************************************************)
EXTENDS Integers, Sequences, FiniteSets
LOCAL INSTANCE LowerBound

CONSTANTS
    Key,         \* ordered keys: a set of positive numbers
    Value,
    Tomb,        \* a tombstone
    Absent,      \* no entry; what storage_get returns as STATUS_NOT_FOUND
    Torn,        \* a record of wal.log of which only the beginning was written
    Garbage,     \* a file that sstable_reader_open refuses
    NoFile,      \* no such file, or no manifest
    MaxLevels,   \* MAX_LEVELS
    L0Trigger,   \* L0_COMPACTION_TRIGGER
    L1Max,       \* L1_MAX_BYTES, counted in entries
    Multiplier,  \* LEVEL_SIZE_MULTIPLIER
    MaxOps,      \* bound: records in wal.log
    MaxPower,    \* bound: records in wal.log at a power loss and after one
    MaxFile,     \* bound: file numbers
    SyncWrites,  \* opts.sync_writes
    MayFail      \* bound: how many restarts and failures of each kind one behaviour
                 \*   may have, as alternatives

\* The process dies; the machine loses power; a write to wal.log fails; an
\* SSTable cannot be written; its reading in a compaction fails; it cannot be
\* opened once it is written.
Kind == {"restart", "power", "write", "table", "read", "open"}

ASSUME LsmAssumption ==
    /\ Key \subseteq Nat \ {0} /\ IsFiniteSet(Key)
    /\ {Tomb, Absent} \cap Value = {} /\ Tomb # Absent
    /\ {Garbage, NoFile} \cap [Key -> Value \cup {Tomb, Absent}] = {}
    /\ Torn \notin [key : Key, val : Value \cup {Tomb}]
    /\ MaxLevels \in Nat \ {0, 1} /\ L0Trigger \in Nat \ {0}
    /\ L1Max \in Nat /\ Multiplier \in Nat \ {0}
    /\ MaxOps \in Nat /\ MaxPower \in Nat /\ MaxFile \in Nat
    /\ SyncWrites \in BOOLEAN
    /\ MayFail \subseteq [Kind -> Nat]

VARIABLES
    up,        \* FALSE when storage_open returned NULL
    mem,       \* db->memtable
    wal,       \* wal.log: records [key, val], and Torn ones
    synced,    \* how many records of it an fsync has covered
    disk,      \* the *.sst files by number
    manifest,  \* MANIFEST: [type, num] records, or NoFile
    levels,    \* each level's files, in the order of lvl->files
    next_num,  \* lm->next_file_number
    pc,        \* where storage_flush or compact_level is, or "idle"
    job,       \* the compaction under way
    last,      \* history: the last write of each key; Absent before the first and
               \*   after a power loss that took its record or a write of which
               \*   only the fsync failed
    failures   \* how many restarts and failures of each kind there were

vars == <<up, mem, wal, synced, disk, manifest, levels, next_num, pc, job, last,
          failures>>

Level == 0 .. MaxLevels - 1
Entry == Value \cup {Tomb, Absent}
File == 1 .. MaxFile

NoEntries == [k \in Key |-> Absent]
NoJob == [target |-> 0, old |-> << >>, exposed |-> {}, reads |-> NoEntries]

-----------------------------------------------------------------------------
(* Files and levels. *)

\* sstable_reader_open succeeds.
Readable(d, f) == f \in DOMAIN d /\ d[f] \notin {NoFile, Garbage}

Keys(c) == {k \in Key : c[k] # Absent}

\* meta.min_key and meta.max_key; a file without entries has none, and the
\* comparison puts that before every key.
MinKey(c) == IF Keys(c) = {} THEN 0
             ELSE CHOOSE k \in Keys(c) : \A j \in Keys(c) : k <= j
MaxKey(c) == IF Keys(c) = {} THEN 0
             ELSE CHOOSE k \in Keys(c) : \A j \in Keys(c) : k >= j

\* The file number at position i of a level, from 0 as in lvl->files.
At(l, i) == levels[l][i + 1]

\* Mutant: L0 is searched from the oldest file on.
OldestWith(k) ==
    LET hits == {i \in DOMAIN levels[0] : disk[levels[0][i]][k] # Absent}
    IN  IF hits = {} THEN Absent
        ELSE disk[levels[0][CHOOSE i \in hits : \A j \in hits : i <= j]][k]

\* level_get in L0: the newest file that has the key.
NewestWith(k) ==
    LET hits == {i \in DOMAIN levels[0] : disk[levels[0][i]][k] # Absent}
    IN  IF hits = {} THEN Absent
        ELSE disk[levels[0][CHOOSE i \in hits : \A j \in hits : i >= j]][k]

\* level_get in a deeper level: the first file that reaches up to the key.
DeeperWith(l, k) ==
    LET n == Len(levels[l])
        i == FirstNotBelow(n, {j \in 0 .. n - 1 : MaxKey(disk[At(l, j)]) < k})
    IN  IF i < n THEN disk[At(l, i)][k] ELSE Absent

\* level_get: the levels in order, until one has the key.
LevelGet(k) ==
    LET Found(l) == IF l = 0 THEN NewestWith(k) ELSE DeeperWith(l, k)
        hits == {l \in Level : Found(l) # Absent}
    IN  IF hits = {} THEN Absent
        ELSE Found(CHOOSE l \in hits : \A m \in hits : l <= m)

\* storage_get: a tombstone in the memtable reads as STATUS_NOT_FOUND, and the
\* search goes on in the levels; one in a level ends it.
StorageGet(k) ==
    IF mem[k] \in Value THEN mem[k]
    ELSE IF LevelGet(k) = Tomb THEN Absent ELSE LevelGet(k)

\* level_max_bytes_for_level, of a level below L0.
MaxBytes[l \in 1 .. MaxLevels] == IF l = 1 THEN L1Max ELSE MaxBytes[l - 1] * Multiplier

\* level_needs_compaction; file sizes are counted in entries.
NeedsCompaction(l) ==
    LET bytes[i \in 0 .. Len(levels[l])] ==
            IF i = 0 THEN 0 ELSE bytes[i - 1] + Cardinality(Keys(disk[levels[l][i]]))
    IN  IF l = 0 THEN Len(levels[0]) >= L0Trigger
        ELSE l < MaxLevels - 1 /\ bytes[Len(levels[l])] > MaxBytes[l]

\* compact_pick_level, or -1.
PickLevel ==
    LET ls == {l \in 0 .. MaxLevels - 2 : NeedsCompaction(l)}
    IN  IF ls = {} THEN -1 ELSE CHOOSE l \in ls : \A m \in ls : l <= m

\* Mutant: a file whose last key is lo is taken to end before it.
OverlappingPast(l, lo, hi) ==
    LET n == Len(levels[l])
        from == FirstNotBelow(n, {i \in 0 .. n - 1 : MaxKey(disk[At(l, i)]) <= lo})
        past == {i \in from .. n - 1 : MinKey(disk[At(l, i)]) > hi}
        to == IF past = {} THEN n ELSE CHOOSE i \in past : \A j \in past : i <= j
    IN  SubSeq(levels[l], from + 1, to)

\* level_find_overlapping in a level below L0: from the first file that reaches
\* up to lo, while files begin at or below hi.
Overlapping(l, lo, hi) ==
    LET n == Len(levels[l])
        from == FirstNotBelow(n, {i \in 0 .. n - 1 : MaxKey(disk[At(l, i)]) < lo})
        past == {i \in from .. n - 1 : MinKey(disk[At(l, i)]) > hi}
        to == IF past = {} THEN n ELSE CHOOSE i \in past : \A j \in past : i <= j
    IN  SubSeq(levels[l], from + 1, to)

\* level_add_sstable: at the end of L0; by min_key in a deeper level.
AddToLevel(l, f, c) ==
    LET n == Len(levels[l])
        below == {i \in 0 .. n - 1 : MinKey(disk[At(l, i)]) < MinKey(c)}
        pos == IF l = 0 THEN n ELSE FirstNotBelow(n, below)
    IN  levels' = [levels EXCEPT ![l] = SubSeq(@, 1, pos) \o <<f>> \o SubSeq(@, pos + 1, n)]

-----------------------------------------------------------------------------
(* Writes. *)

Idle == up /\ pc = "idle"

\* A restart or a failure of the given kind, within the bound.
Fail(f) ==
    /\ \E s \in MayFail : failures[f] < s[f] /\ \A g \in Kind : failures[g] <= s[g]
    /\ failures' = [failures EXCEPT ![f] = @ + 1]

\* The writes so far, Torn ones included.
WithinOps == Len(wal) < IF failures["power"] > 0 THEN MaxPower ELSE MaxOps

\* storage_put, and storage_delete when x is Tomb: the log first, with an fsync
\* when the options ask for it.
Write(k, x) ==
    /\ Idle /\ WithinOps
    /\ wal' = Append(wal, [key |-> k, val |-> x])
    /\ mem' = [mem EXCEPT ![k] = x]
    /\ last' = [last EXCEPT ![k] = x]
    /\ synced' = IF SyncWrites THEN Len(wal) + 1 ELSE synced
    /\ UNCHANGED <<up, disk, manifest, levels, next_num, pc, job, failures>>

\* write_all fails half-way, or the fsync after it fails: STATUS_IO_ERROR, and the
\* bytes written stay.  A whole record is as good as any other at the next
\* storage_open, so the caller no longer knows what the key holds.
WriteFails(k, x) ==
    /\ Idle /\ WithinOps /\ Fail("write")
    /\ \/ /\ wal' = Append(wal, Torn)
          /\ last' = last
       \/ /\ SyncWrites
          /\ wal' = Append(wal, [key |-> k, val |-> x])
          /\ last' = [last EXCEPT ![k] = Absent]
    /\ UNCHANGED <<up, mem, synced, disk, manifest, levels, next_num, pc, job>>

-----------------------------------------------------------------------------
(* storage_flush. *)

\* Up to sstable_writer_finish: the memtable, tombstones included, is in a file.
FlushWrite ==
    /\ Idle /\ Keys(mem) # {} /\ next_num \in File
    /\ disk' = [disk EXCEPT ![next_num] = mem]
    /\ pc' = "written"
    /\ UNCHANGED <<up, mem, wal, synced, manifest, levels, next_num, job, last,
                   failures>>

\* The writer fails: sstable_writer_add is followed by an abort that removes the
\* file, sstable_writer_finish leaves it incomplete.
WriterFails ==
    /\ next_num \in File /\ Fail("table")
    /\ \E left \in {NoFile, Garbage} : disk' = [disk EXCEPT ![next_num] = left]

\* storage_flush returns the status, and nothing else has changed.
FlushFails ==
    /\ Idle /\ Keys(mem) # {}
    /\ WriterFails
    /\ UNCHANGED <<up, mem, wal, synced, manifest, levels, next_num, pc, job, last>>

\* manifest_append creates the file when there is none.
Logged(r) == Append(IF manifest = NoFile THEN << >> ELSE manifest, r)

\* level_add_sstable and manifest_log_add_file.
FlushAdd ==
    /\ up /\ pc = "written"
    /\ AddToLevel(0, next_num, mem)
    /\ next_num' = next_num + 1
    /\ manifest' = Logged([type |-> "ADD", num |-> next_num])
    /\ pc' = "added"
    /\ UNCHANGED <<up, mem, wal, synced, disk, job, last, failures>>

\* sstable_reader_open fails on the file just written: storage_flush returns, the
\* file stays, and the next one takes its number.
FlushOpenFails ==
    /\ up /\ pc = "written" /\ Fail("open")
    /\ pc' = "idle"
    /\ UNCHANGED <<up, mem, wal, synced, disk, manifest, levels, next_num, job, last>>

\* manifest_log_next_file_num.
FlushNext ==
    /\ up /\ pc = "added"
    /\ manifest' = Logged([type |-> "NEXT", num |-> next_num])
    /\ pc' = "logged"
    /\ UNCHANGED <<up, mem, wal, synced, disk, levels, next_num, job, last, failures>>

\* Mutant: "Reset WAL" truncates the log.
FlushReset ==
    /\ up /\ pc = "logged"
    /\ mem' = NoEntries
    /\ wal' = << >>
    /\ synced' = 0
    /\ pc' = IF NeedsCompaction(0) THEN "compact" ELSE "idle"
    /\ UNCHANGED <<up, disk, manifest, levels, next_num, job, last, failures>>

\* The rest: an empty memtable, wal.log closed (with an fsync) and opened again to
\* append, and storage_compact when L0 is full.
FlushDone ==
    /\ up /\ pc = "logged"
    /\ mem' = NoEntries
    /\ synced' = Len(wal)
    /\ pc' = IF NeedsCompaction(0) THEN "compact" ELSE "idle"
    /\ UNCHANGED <<up, wal, disk, manifest, levels, next_num, job, last, failures>>

-----------------------------------------------------------------------------
(* compact_level. *)

\* Mutant: the oldest of the source files wins.
MergedLow(fs, missed, bottom) ==
    [k \in Key |->
        LET hits == {i \in DOMAIN fs :
                       disk[fs[i]][k] # Absent /\ <<fs[i], k>> \notin missed}
            x == disk[fs[CHOOSE i \in hits : \A j \in hits : i <= j]][k]
        IN  IF hits = {} \/ (x = Tomb /\ bottom) THEN Absent ELSE x]

\* The merge iterator over files in the order of their iterators: of equal
\* keys the one of the highest index; tombstones are dropped in the last level.
\* The entries missed are the <<file, key>> pairs that no iterator delivers.
Merged(fs, missed, bottom) ==
    [k \in Key |->
        LET hits == {i \in DOMAIN fs :
                       disk[fs[i]][k] # Absent /\ <<fs[i], k>> \notin missed}
            x == disk[fs[CHOOSE i \in hits : \A j \in hits : i >= j]][k]
        IN  IF hits = {} \/ (x = Tomb /\ bottom) THEN Absent ELSE x]

KeysOf(fs) == UNION {Keys(disk[fs[i]]) : i \in DOMAIN fs}

\* The keys of which the files have an entry that is missed.
KeysMissed(fs, missed) ==
    {k \in Key : \E i \in DOMAIN fs : disk[fs[i]][k] # Absent /\ <<fs[i], k>> \in missed}

\* From the choice of the inputs to sstable_writer_finish: all of L0 or the first
\* file of a deeper level, and the files of the next level they overlap, whose
\* iterators come after theirs.
CompactLevel(l, missed) ==
    LET source == IF l = 0 THEN levels[0] ELSE << levels[l][1] >>
        lo == CHOOSE k \in {MinKey(disk[source[i]]) : i \in DOMAIN source} :
                  \A i \in DOMAIN source : k <= MinKey(disk[source[i]])
        hi == CHOOSE k \in {MaxKey(disk[source[i]]) : i \in DOMAIN source} :
                  \A i \in DOMAIN source : k >= MaxKey(disk[source[i]])
        over == Overlapping(l + 1, lo, hi)
    IN  /\ next_num \in File
        /\ disk' = [disk EXCEPT ![next_num] =
                      Merged(source \o over, missed, l + 1 = MaxLevels - 1)]
        /\ job' = [target |-> l + 1, old |-> source \o over,
                   exposed |-> (KeysOf(source) \cap KeysOf(over))
                               \cup KeysMissed(source \o over, missed),
                   reads |-> [k \in Key |-> StorageGet(k)]]
        /\ pc' = "merged"
        /\ UNCHANGED <<up, mem, wal, synced, manifest, levels, next_num, last>>

\* storage_compact, called by storage_flush or by the application.
Compact ==
    /\ up /\ pc \in {"compact", "idle"}
    /\ PickLevel >= 0
    /\ CompactLevel(PickLevel, {})
    /\ UNCHANGED failures

\* load_block cannot read a block of an input, whose first key is from: the
\* iterator is no longer valid, and the merge takes the file to end there.
CompactMisses ==
    /\ up /\ pc \in {"compact", "idle"}
    /\ PickLevel >= 0
    /\ Fail("read")
    /\ \E f \in {g \in File : Readable(disk, g)} : \E from \in Keys(disk[f]) :
         CompactLevel(PickLevel, {f} \X {k \in Key : k >= from})

\* The writer fails; storage_flush ignores the status.
CompactFails ==
    /\ up /\ pc \in {"compact", "idle"}
    /\ PickLevel >= 0
    /\ WriterFails
    /\ pc' = "idle"
    /\ UNCHANGED <<up, mem, wal, synced, manifest, levels, next_num, job, last>>

\* level_remove_sstable: the first entry of the file, if it has one.
Dropped(s, f) ==
    LET at == {i \in DOMAIN s : s[i] = f}
        i  == CHOOSE i \in at : \A j \in at : i <= j
    IN  IF at = {} THEN s ELSE SubSeq(s, 1, i - 1) \o SubSeq(s, i + 1, Len(s))

\* level_remove_sstable and unlink of one input.  A file that is listed twice
\* leaves the list once for each.
CompactUnlink ==
    LET f == Head(job.old)
    IN  /\ up /\ pc = "merged" /\ job.old # << >>
        /\ levels' = [l \in Level |->
                        IF l \in {job.target - 1, job.target}
                          THEN Dropped(levels[l], f) ELSE levels[l]]
        /\ disk' = [disk EXCEPT ![f] = NoFile]
        /\ job' = [job EXCEPT !.old = Tail(@)]
        /\ UNCHANGED <<up, mem, wal, synced, manifest, next_num, pc, last, failures>>

\* Mutant: level_add_sstable leaves lm->next_file_number alone.
CompactAddStays ==
    /\ up /\ pc = "merged" /\ job.old = << >>
    /\ AddToLevel(job.target, next_num, disk[next_num])
    /\ pc' = "idle"
    /\ job' = NoJob
    /\ UNCHANGED <<up, mem, wal, synced, disk, manifest, next_num, last, failures>>

\* The output joins the target level; the manifest is not told.
CompactAdd ==
    /\ up /\ pc = "merged" /\ job.old = << >>
    /\ AddToLevel(job.target, next_num, disk[next_num])
    /\ next_num' = next_num + 1
    /\ pc' = "idle"
    /\ job' = NoJob
    /\ UNCHANGED <<up, mem, wal, synced, disk, manifest, last, failures>>

\* sstable_reader_open fails on the output, and the inputs are gone: STATUS_IO_ERROR,
\* which storage_flush ignores.
CompactOpenFails ==
    /\ up /\ pc = "merged" /\ job.old = << >> /\ Fail("open")
    /\ pc' = "idle"
    /\ job' = NoJob
    /\ UNCHANGED <<up, mem, wal, synced, disk, manifest, levels, next_num, last>>

-----------------------------------------------------------------------------
(* Restarts. *)

\* The records wal_recover hands to recover_callback: up to the first Torn one.
Intact(w) ==
    LET torn == {i \in DOMAIN w : w[i] = Torn}
    IN  IF torn = {} THEN w
        ELSE SubSeq(w, 1, (CHOOSE i \in torn : \A j \in torn : i <= j) - 1)

\* recover_callback into an empty memtable.
Replay(w) ==
    [k \in Key |->
        LET hits == {i \in DOMAIN w : w[i].key = k}
        IN  IF hits = {} THEN Absent
            ELSE w[CHOOSE i \in hits : \A j \in hits : i >= j].val]

\* Mutant: a file of the manifest does not move the next number on, and the
\* NEXT_FILE_NUM records are skipped.
RecoveredOld(m, d) ==
    LET at[i \in 0 .. Len(m)] ==
            IF i = 0 THEN [l0 |-> << >>, next |-> 1]
            ELSE IF m[i].type = "ADD" /\ Readable(d, m[i].num)
              THEN [at[i - 1] EXCEPT !.l0 = Append(@, m[i].num)] ELSE at[i - 1]
    IN  at[Len(m)]

\* What a record of the manifest does to L0 and to the next number; an ADD_FILE
\* whose file cannot be opened is skipped.
Applied(s, r, d) ==
    CASE r.type = "NEXT" -> [s EXCEPT !.next = r.num]
      [] r.type = "ADD" /\ Readable(d, r.num) ->
           [l0 |-> Append(s.l0, r.num),
            next |-> IF r.num >= s.next THEN r.num + 1 ELSE s.next]
      [] OTHER -> s

\* manifest_recover: the records in order.
Recovered(m, d) ==
    LET at[i \in 0 .. Len(m)] ==
            IF i = 0 THEN [l0 |-> << >>, next |-> 1] ELSE Applied(at[i - 1], m[i], d)
    IN  at[Len(m)]

\* manifest_recover without a manifest: every readable file goes to L0, in the
\* order of readdir.
Scanned(d) ==
    LET fs == {f \in File : Readable(d, f)}
        orders == {s \in [1 .. Cardinality(fs) -> fs] :
                     \A i, j \in DOMAIN s : s[i] = s[j] => i = j}
    IN  {[l0 |-> s, next |-> 1 + (CHOOSE n \in fs \cup {0} : \A f \in fs : n >= f)]
           : s \in orders}

\* storage_open on files in the given state.  A record written after a Torn one
\* reads as its missing bytes: the checksum fails and storage_open returns
\* NULL, or, when they are too few, all of it is taken for one truncated record.
StorageOpen(w, d, m) ==
    /\ wal' = w
    /\ disk' = d
    /\ manifest' = m
    /\ pc' = "idle"
    /\ job' = NoJob
    /\ \/ /\ up' = TRUE
          /\ mem' = Replay(Intact(w))
          /\ \E s \in IF m = NoFile THEN Scanned(d) ELSE {Recovered(m, d)} :
               /\ levels' = [l \in Level |-> IF l = 0 THEN s.l0 ELSE << >>]
               /\ next_num' = s.next
       \/ /\ Len(Intact(w)) + 1 < Len(w)
          /\ up' = FALSE
          /\ mem' = NoEntries
          /\ levels' = [l \in Level |-> << >>]
          /\ next_num' = 1

\* The process dies, or storage_close is called, and the engine is opened again.
Restart ==
    /\ up /\ Fail("restart")
    /\ StorageOpen(wal, disk, manifest)
    /\ synced' \in IF pc = "idle" THEN {synced, Len(wal)} ELSE {synced}
    /\ UNCHANGED last

\* The machine loses power.  The end of wal.log that was not fsynced is lost, the
\* last record may be Torn; tables and manifest are never fsynced.  A key whose
\* record is lost may still be in a table: nothing is expected of it until it is
\* written again.
PowerLoss ==
    /\ up /\ Fail("power") /\ Len(wal) <= MaxPower
    /\ \E n \in synced .. Len(wal), tear \in BOOLEAN,
          lost \in SUBSET {f \in File : Readable(disk, f)} :
         LET w == SubSeq(wal, 1, n) \o (IF tear /\ n < Len(wal) THEN <<Torn>> ELSE << >>)
             d == [f \in File |-> IF f \in lost THEN Garbage ELSE disk[f]]
         IN  /\ \E m \in {NoFile} \cup
                         IF manifest = NoFile THEN {}
                         ELSE {SubSeq(manifest, 1, i) : i \in 0 .. Len(manifest)} :
                  StorageOpen(w, d, m)
             /\ synced' = n
             /\ last' = [k \in Key |->
                          IF \E i \in n + 1 .. Len(wal) : wal[i] # Torn /\ wal[i].key = k
                            THEN Absent ELSE last[k]]

-----------------------------------------------------------------------------
(* The specification. *)

Init ==
    /\ up = TRUE
    /\ mem = NoEntries
    /\ wal = << >>
    /\ synced = 0
    /\ disk = [f \in File |-> NoFile]
    /\ manifest = NoFile
    /\ levels = [l \in Level |-> << >>]
    /\ next_num = 1
    /\ pc = "idle"
    /\ job = NoJob
    /\ last = NoEntries
    /\ failures = [f \in Kind |-> 0]

Next ==
    \/ \E k \in Key, x \in Value \cup {Tomb} : Write(k, x) \/ WriteFails(k, x)
    \/ FlushWrite \/ FlushFails \/ FlushOpenFails \/ FlushAdd \/ FlushNext \/ FlushDone
    \/ Compact \/ CompactMisses \/ CompactFails \/ CompactUnlink
    \/ CompactAdd \/ CompactOpenFails
    \/ Restart
    \/ PowerLoss

Spec == Init /\ [][Next]_vars

-----------------------------------------------------------------------------
(* Properties. *)

\* Every variable keeps its type.  A file number is listed once, and only after
\* next_file_number has moved past it.
TypeOK ==
    /\ up \in BOOLEAN
    /\ mem \in [Key -> Entry]
    /\ \A i \in DOMAIN wal : wal[i] = Torn \/ wal[i] \in [key : Key, val : Entry \ {Absent}]
    /\ synced \in 0 .. Len(wal)
    /\ disk \in [File -> [Key -> Entry] \cup {Garbage, NoFile}]
    /\ \A l \in Level : \A i \in DOMAIN levels[l] : levels[l][i] \in 1 .. next_num - 1
    /\ \A l, m \in Level : \A i \in DOMAIN levels[l], j \in DOMAIN levels[m] :
           levels[l][i] = levels[m][j] => l = m /\ i = j
    /\ next_num \in 1 .. MaxFile + 1
    /\ pc \in {"idle", "written", "added", "logged", "compact", "merged"}
    /\ last \in [Key -> Entry]

\* The keys of one file come before those of another, or both have none.
Precedes(low, high) == MaxKey(low) < MinKey(high) \/ Keys(low) \cup Keys(high) = {}

\* A level below L0 is sorted and its files do not overlap, which the binary
\* searches of level_get and level_find_overlapping take for granted; the files that
\* a compaction left without entries come first.
LevelsDisjoint ==
    \A l \in Level \ {0} : \A i, j \in DOMAIN levels[l] :
        i < j => Precedes(disk[levels[l][i]], disk[levels[l][j]])

\* Between calls every file that a level lists is on disk and whole, and the
\* next one is not written over any of them, after every crash inside a flush
\* or a compaction too.
FilesSound ==
    Idle => \A l \in Level : \A i \in DOMAIN levels[l] :
                Readable(disk, levels[l][i]) /\ levels[l][i] # next_num

\* What storage_get says of a key whose last write it should know.
Expected(k) == IF last[k] = Tomb THEN Absent ELSE last[k]

\* No record of the log follows a Torn one.
WholeLog == Len(wal) <= Len(Intact(wal)) + 1

\* A key that is not in the memtable but in a file of L0 reads as it was last
\* written: L0 is in order of age, across restarts as well.  (Records that
\* follow a Torn one are the exception: wal_recover does not reach them.)
RecentReads ==
    Idle /\ WholeLog =>
        \A k \in Key :
            last[k] # Absent /\ mem[k] = Absent /\ NewestWith(k) # Absent =>
                StorageGet(k) = Expected(k)

\* The step ends in storage_open.
Reopened == \E f \in {"restart", "power"} : failures'[f] # failures[f]

\* What must be there after storage_open: with sync_writes the last write of the key
\* that was acknowledged, without it the last one whose record was not lost.
Promised(k) == IF SyncWrites THEN last[k] ELSE last'[k]

\* When the engine is opened again, each key whose promised write was a put reads
\* as that put, wherever in a flush or a compaction the process died: the log
\* holds it though compact_level does not tell the manifest.
RestartRestores ==
    [][Reopened /\ up' /\ WholeLog =>
         \A k \in Key : Promised(k) \in Value => StorageGet(k)' = Promised(k)]_vars

\* compact_level returns STATUS_OK: the process did not die in it, and the output
\* could be opened.
CompactOK == pc = "merged" /\ pc' = "idle" /\ UNCHANGED failures

\* A compaction that returns STATUS_OK changes no read, except of a key that is in
\* both levels or of which a read error hid an entry.
CompactionKeeps ==
    [][CompactOK => \A k \in Key \ job.exposed : StorageGet(k)' = job.reads[k]]_vars

\* A compaction changes no read: "Compaction does not lose data".
CompactionLosesNothing ==
    [][CompactOK => \A k \in Key : StorageGet(k)' = job.reads[k]]_vars
=============================================================================
