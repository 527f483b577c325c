------------------------------ MODULE SSTable ------------------------------
(***************************************************************************)
(* The SSTable files of projects/data/storage-engine with their Bloom      *)
(* filter: writer, reader and iterator.                                    *)
(*                                                                         *)
(* A data block keeps its encoded entries by byte offset, the restart      *)
(* points as offsets, and the offset where the entries end.  A file keeps  *)
(* its blocks in order, so a block stands for the offset and the size that *)
(* the index has for it.  Checksums and short reads guard against damage,  *)
(* which is not modelled: a damaged file is one that cannot be opened.     *)
(***************************************************************************)
EXTENDS Naturals, Sequences, FiniteSets, KeyOrder
LOCAL INSTANCE LowerBound
LOCAL INSTANCE TLC

CONSTANTS
    BlockSize,        \* SSTABLE_BLOCK_SIZE
    RestartInterval,  \* SSTABLE_RESTART_INTERVAL
    MaxKeySize,       \* SSTABLE_MAX_KEY_SIZE
    BitsPerKey,       \* BLOOM_BITS_PER_KEY
    NumHashes,        \* 7 in bloom_create
    Word,             \* 2^32, the range of uint32_t
    Murmur(_, _)      \* murmur_hash3_32 of a key with a seed

-----------------------------------------------------------------------------
(* The Bloom filter. *)

\* bloom_create: the number of bits, a multiple of 8.
BloomBits(estimated) ==
    LET keys == IF estimated = 0 THEN 1 ELSE estimated
    IN  ((keys * BitsPerKey + 7) \div 8) * 8

\* The bits of a key, by double hashing in uint32_t.
BloomPositions(k, bits) ==
    LET h1 == Murmur(k, 0)
        h2 == Murmur(k, h1)
    IN  {((h1 + i * h2) % Word) % bits : i \in 0 .. NumHashes - 1}

\* bloom_may_contain, on the filter that bloom_deserialize returns.
BloomMayContain(t, k) == BloomPositions(k, t.num_bits) \subseteq t.bits

-----------------------------------------------------------------------------
(* The writer. *)

\* How many bytes encode_varint writes.
VarintLen[n \in Nat] == IF n < 128 THEN 1 ELSE 1 + VarintLen[n \div 128]

\* An entry's bytes: three varints, the deleted flag, the key's end, the value.
EncodedSize(shared, unshared, value_len) ==
    VarintLen[shared] + VarintLen[unshared] + VarintLen[value_len] + 1
      + unshared + value_len

\* sstable_writer_create.
WriterCreate(estimated) ==
    [blocks   |-> << >>, index |-> << >>,
     data     |-> << >>, offset |-> 0, restarts |-> << >>,
     since    |-> RestartInterval,
     prev     |-> << >>, min |-> << >>, max |-> << >>,
     bits     |-> {},
     num_bits |-> BloomBits(IF estimated > 0 THEN estimated ELSE 1000),
     entries  |-> 0]

\* flush_block: the block ends with its restart points, and the index learns its
\* last key.
FlushBlock(w) ==
    IF w.offset = 0 THEN w
    ELSE [w EXCEPT !.blocks = Append(@, [data |-> w.data, restarts |-> w.restarts,
                                         end |-> w.offset]),
                   !.index = Append(@, w.prev),
                   !.data = << >>, !.offset = 0, !.restarts = << >>,
                   !.since = RestartInterval, !.prev = << >>]

\* sstable_writer_add of an entry [key, val, del] that fits into block_buf.
WriterAdd(w, e) ==
    LET restart == w.since >= RestartInterval
        common == IF ~restart /\ w.prev # << >> THEN SharedPrefix(w.prev, e.key) ELSE 0
        need == EncodedSize(common, Len(e.key) - common, Len(e.val))
        overhead == (Len(w.restarts) + 1) * 4 + 8
        full == w.offset > 0 /\ w.offset + need + overhead > BlockSize
        v == IF full THEN FlushBlock(w) ELSE w
        shared == IF full THEN 0 ELSE common
        encoded == [shared |-> shared, delta |-> SubSeq(e.key, shared + 1, Len(e.key)),
                    val |-> e.val, del |-> e.del]
    IN  [v EXCEPT !.data = @ @@ (v.offset :> encoded),
                  !.offset = @ + EncodedSize(shared, Len(e.key) - shared, Len(e.val)),
                  !.restarts = IF restart \/ full THEN Append(@, v.offset) ELSE @,
                  !.since = IF restart \/ full THEN 1 ELSE @ + 1,
                  !.prev = e.key,
                  !.min = IF @ = << >> THEN e.key ELSE @,
                  !.max = e.key,
                  !.bits = @ \cup BloomPositions(e.key, w.num_bits),
                  !.entries = @ + 1]

\* sstable_writer_finish: the last block, the index, the filter and the footer,
\* which has no room for a minimum or maximum longer than MaxKeySize.  What
\* sstable_reader_open reads back is the same.
WriterFinish(w) ==
    LET v == FlushBlock(w)
        Fits(k) == IF Len(k) <= MaxKeySize THEN k ELSE << >>
    IN  [blocks |-> v.blocks, index |-> v.index,
         bits |-> v.bits, num_bits |-> v.num_bits, entries |-> v.entries,
         min |-> Fits(v.min), max |-> Fits(v.max)]

-----------------------------------------------------------------------------
(* The reader. *)

\* The entry at it.pos of block b; its key begins like the current one.
ParseNext(b, it) ==
    LET e == b.data[it.pos]
    IN  [it EXCEPT !.pos = @ + EncodedSize(e.shared, Len(e.delta), Len(e.val)),
                   !.key = SubSeq(@, 1, e.shared) \o e.delta,
                   !.val = e.val,
                   !.del = e.del]

\* A place in block n before its first entry is parsed: load_block.
LoadBlock(n) == [block |-> n, pos |-> 0, key |-> << >>, val |-> << >>, del |-> FALSE,
                 valid |-> TRUE]

NotFound == [found |-> FALSE, val |-> << >>, del |-> FALSE]

\* Mutant: the scan starts at the restart point that the search found.
SearchBlockLate(b, k) ==
    LET restarts == Len(b.restarts)
        below == {i \in 0 .. restarts - 1 : Less(b.data[b.restarts[i + 1]].delta, k)}
        left == FirstNotBelow(restarts, below)
        start == IF left < restarts THEN left ELSE restarts - 1
        at[n \in 0 .. Cardinality(DOMAIN b.data)] ==
            IF n = 0 THEN [LoadBlock(1) EXCEPT !.pos = b.restarts[start + 1]]
            ELSE LET it == at[n - 1] IN IF it.pos < b.end THEN ParseNext(b, it) ELSE it
        hits == {n \in DOMAIN at : at[n].key = k}
        it == at[CHOOSE n \in hits : TRUE]
    IN  IF hits = {} THEN NotFound
        ELSE [found |-> TRUE, val |-> IF it.del THEN << >> ELSE it.val, del |-> it.del]

\* search_block: the restart points by binary search, from the one before on
\* entry by entry, until the key is found or passed.
SearchBlock(b, k) ==
    LET restarts == Len(b.restarts)
        below == {i \in 0 .. restarts - 1 : Less(b.data[b.restarts[i + 1]].delta, k)}
        left == FirstNotBelow(restarts, below)
        start == IF left > 0 THEN left - 1 ELSE 0
        at[n \in 0 .. Cardinality(DOMAIN b.data)] ==
            IF n = 0 THEN [LoadBlock(1) EXCEPT !.pos = b.restarts[start + 1]]
            ELSE LET it == at[n - 1] IN IF it.pos < b.end THEN ParseNext(b, it) ELSE it
        hits == {n \in DOMAIN at : at[n].key = k /\ \A m \in 1 .. n : ~Less(k, at[m].key)}
        it == at[CHOOSE n \in hits : TRUE]
    IN  IF hits = {} THEN NotFound
        ELSE [found |-> TRUE, val |-> IF it.del THEN << >> ELSE it.val, del |-> it.del]

\* sstable_reader_get: the filter, then the first block that reaches up to the
\* key.
ReaderGet(t, k) ==
    LET n == Len(t.index)
        i == FirstNotBelow(n, {j \in 0 .. n - 1 : Less(t.index[j + 1], k)})
    IN  IF BloomMayContain(t, k) /\ i < n
          THEN SearchBlock(t.blocks[i + 1], k) ELSE NotFound

-----------------------------------------------------------------------------
(* The iterator of compact.c. *)

\* sstable_iter_seek_to_first.
IterFirst(t) ==
    IF t.index = << >> THEN [LoadBlock(1) EXCEPT !.valid = FALSE]
    ELSE ParseNext(t.blocks[1], LoadBlock(1))

\* sstable_iter_next: the rest of the block, then the next block.
IterNext(t, it) ==
    IF it.pos < t.blocks[it.block].end THEN ParseNext(t.blocks[it.block], it)
    ELSE IF it.block < Len(t.index)
      THEN ParseNext(t.blocks[it.block + 1], LoadBlock(it.block + 1))
      ELSE [it EXCEPT !.valid = FALSE]
=============================================================================
