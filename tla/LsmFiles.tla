------------------------------ MODULE LsmFiles ------------------------------
(***************************************************************************)
(* The data structures of projects/data/storage-engine at work: a memtable *)
(* that takes writes, tables it is flushed to, and the merge of tables     *)
(* into one.  The history variables hold what each of them should contain; *)
(* LsmStore builds on these maps.                                          *)
(***************************************************************************)
EXTENDS SkipList, MergeIter
LOCAL INSTANCE SequencesExt

CONSTANTS
    Key,         \* nonempty sequences of bytes
    Value,       \* sequences of bytes
    MaxOps,      \* bound: writes
    MaxTables    \* bound: tables at a time

ASSUME FilesAssumption ==
    /\ \A k \in Key : k # << >> /\ Nil # k
    /\ Nil \notin Value
    /\ MaxLevel \in Nat \ {0} /\ RestartInterval \in Nat \ {0}
    /\ NumHashes \in Nat \ {0} /\ Word \in Nat \ {0}
    /\ MaxOps \in Nat /\ MaxTables \in Nat
    \* block_buf has room for twice a block: the first entry of one must fit with its
    \* restart point, their number and the checksum, which the code does not check.
    /\ \A k \in Key, v \in Value : EncodedSize(0, Len(k), Len(v)) + 12 <= 2 * BlockSize

VARIABLES
    mem,     \* the memtable
    tables,  \* the SSTables, the newest last
    job,     \* the merge under way: [merge, writer, bottom], or Nil
    map,     \* history: what the memtable should hold
    maps,    \* history: what each table should hold
    ops      \* writes so far

vars == <<mem, tables, job, map, maps, ops>>

Level == 1 .. MaxLevel

\* What is to be found under a key: a value, possibly deleted, or Nil.
NoEntries == [k \in Key |-> Nil]

\* memtable_put.
MemtablePut(k, v, h) ==
    /\ job = Nil /\ ops < MaxOps
    /\ mem' = Put(mem, k, v, h)
    /\ map' = [map EXCEPT ![k] = [val |-> v, del |-> FALSE]]
    /\ ops' = ops + 1
    /\ UNCHANGED <<tables, job, maps>>

\* memtable_delete; a deleted node keeps its value.
MemtableDelete(k, h) ==
    /\ job = Nil /\ ops < MaxOps
    /\ mem' = Delete(mem, k, h)
    /\ map' = [map EXCEPT ![k] = [val |-> IF @ = Nil THEN << >> ELSE @.val, del |-> TRUE]]
    /\ ops' = ops + 1
    /\ UNCHANGED <<tables, job, maps>>

\* The loop of storage_flush, from sstable_writer_create to
\* sstable_writer_finish, and the new memtable.
Flush ==
    /\ job = Nil /\ Nodes(mem) # {} /\ Len(tables) < MaxTables
    /\ tables' = Append(tables,
                        WriterFinish(FoldLeft(WriterAdd,
                                              WriterCreate(Cardinality(Nodes(mem))),
                                              Iterate(mem))))
    /\ mem' = Empty
    /\ maps' = Append(maps, map)
    /\ map' = NoEntries
    /\ UNCHANGED <<job, ops>>

\* compact_level up to its loop: all the tables are merged.
MergeStart(bottom) ==
    /\ job = Nil /\ Len(tables) > 1
    /\ job' = [merge  |-> MergeCreate(tables),
               writer |-> WriterCreate(FoldLeft(LAMBDA n, t : n + t.entries, 0, tables)),
               bottom |-> bottom]
    /\ UNCHANGED <<mem, tables, map, maps, ops>>

\* One turn of the loop: tombstones do not go to the last level.
MergeStep ==
    LET e == MergeCurrent(job.merge)
    IN  /\ job # Nil /\ job.merge.heap # << >>
        /\ job' = [job EXCEPT
                     !.merge = MergeNext(tables, @),
                     !.writer = IF e.del /\ job.bottom THEN @ ELSE WriterAdd(@, e)]
        /\ UNCHANGED <<mem, tables, map, maps, ops>>

\* What a merge should hold: the newest entry of each key.
Newest(k, bottom) ==
    LET with == {i \in DOMAIN maps : maps[i][k] # Nil}
        e == maps[CHOOSE i \in with : \A j \in with : i >= j][k]
    IN  IF with = {} \/ (bottom /\ e.del) THEN Nil ELSE e

\* sstable_writer_finish; the output takes the place of the inputs.
MergeFinish ==
    /\ job # Nil /\ job.merge.heap = << >>
    /\ tables' = << WriterFinish(job.writer) >>
    /\ maps' = << [k \in Key |-> Newest(k, job.bottom)] >>
    /\ job' = Nil
    /\ UNCHANGED <<mem, map, ops>>

Init ==
    /\ mem = Empty
    /\ tables = << >>
    /\ job = Nil
    /\ map = NoEntries
    /\ maps = << >>
    /\ ops = 0

Next ==
    \/ \E k \in Key, v \in Value, h \in Level : MemtablePut(k, v, h)
    \/ \E k \in Key, h \in Level : MemtableDelete(k, h)
    \/ Flush
    \/ \E bottom \in BOOLEAN : MergeStart(bottom)
    \/ MergeStep \/ MergeFinish

Spec == Init /\ [][Next]_vars

-----------------------------------------------------------------------------
(* Properties. *)

\* The nodes of level i in the order of its pointers.
Chain(i) ==
    LET from[x \in DOMAIN mem.fwd \cup {Nil}] ==
            IF x = Nil THEN << >> ELSE <<x>> \o from[mem.fwd[x][i]]
    IN  from[mem.fwd[Header][i]]

\* Every level of the skip list is sorted, and has exactly the nodes that are
\* that high: skiplist_put links a new node at each of its levels, the ones it
\* is the first to use included.
LevelsLinked ==
    \A i \in Level :
        /\ \A m, n \in DOMAIN Chain(i) : m < n => Less(Chain(i)[m], Chain(i)[n])
        /\ ToSet(Chain(i)) = {x \in Nodes(mem) : Len(mem.fwd[x]) >= i}

\* memory_usage is the size of what the list holds, whatever was overwritten
\* and deleted: memtable_should_flush compares it with the limit.
MemoryAccounted ==
    mem.memory = FoldLeft(LAMBDA n, x : n + NodeBytes + PtrBytes * Len(mem.fwd[x])
                                          + Len(x) + Len(mem.val[x]),
                          0, SetToSeq(Nodes(mem)))

\* The entries of a map in the order of their keys.
Sorted(f) ==
    LET ks == SetToSortSeq({k \in Key : f[k] # Nil}, Less)
    IN  [i \in DOMAIN ks |-> [key |-> ks[i], val |-> f[ks[i]].val, del |-> f[ks[i]].del]]

\* The memtable reads, and is iterated from every key, as it was last written.
MemtableReads ==
    /\ \A k \in Key :
         /\ Get(mem, k) = IF map[k] = Nil \/ map[k].del THEN Nil ELSE map[k].val
         /\ StorageIterate(mem, k) =
              SelectSeq(Sorted(map), LAMBDA e : ~e.del /\ ~Less(e.key, k))
    /\ Iterate(mem) = Sorted(map)

\* An iterator over a table.
RECURSIVE Iterated(_, _)
Iterated(t, it) ==
    IF ~it.valid THEN << >>
    ELSE <<[key |-> it.key, val |-> it.val, del |-> it.del]>> \o Iterated(t, IterNext(t, it))

\* What sstable_reader_get should say of an entry.
Lookup(e) ==
    IF e = Nil THEN NotFound
    ELSE [found |-> TRUE, val |-> IF e.del THEN << >> ELSE e.val, del |-> e.del]

\* Every table, flushed or merged, reads as what was written to it, and is
\* iterated in key order: the filter lets every key through that is there, and the
\* two binary searches and the shared prefixes lead to it, in whatever way the
\* entries fall into blocks and restart intervals.
TableReads ==
    \A i \in DOMAIN tables :
        /\ \A k \in Key : ReaderGet(tables[i], k) = Lookup(maps[i][k])
        /\ Iterated(tables[i], IterFirst(tables[i])) = Sorted(maps[i])
        /\ tables[i].entries = Len(Sorted(maps[i]))

\* The merge hands every key to the writer once and in order, as
\* sstable_writer_add requires.
MergeInOrder ==
    [][job # Nil /\ job' # Nil /\ job'.writer # job.writer =>
         job.writer.max = << >> \/ Less(job.writer.max, job'.writer.max)]_vars

\* While a merge runs, the table written so far has of each key the newest entry
\* or none yet: the order of the heap decides which of several is kept.
MergeNewest ==
    job # Nil =>
        \A k \in Key :
            ReaderGet(WriterFinish(job.writer), k)
              \in {NotFound, Lookup(Newest(k, job.bottom))}
=============================================================================
