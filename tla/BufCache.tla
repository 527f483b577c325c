------------------------------ MODULE BufCache ------------------------------
(***************************************************************************)
(* The buffer cache of projects/systems/simple-fs (buf.c), as operators on *)
(* its LRU list: a sequence of the NBUF buffers, most recently used first. *)
(* A buffer is [blockno, refcnt, data].  bread and brelse hold bcache.lock *)
(* and the buffer's own lock, so each is one step on the list; a buffer is *)
(* valid from the bread that recycled it, and B_DIRTY is never set.        *)
(***************************************************************************)
EXTENDS Integers, Sequences, SequencesExt

\* The first buffer of the list that holds block a, 0 when none does.
Find(c, a) == SelectInSeq(c, LAMBDA b : b.blockno = a)

Cached(c, a) == Find(c, a) # 0

\* bget finds the block or a buffer to recycle; otherwise bread returns NULL.
Available(c, a) == Cached(c, a) \/ \E i \in DOMAIN c : c[i].refcnt = 0

Data(c, a) == c[Find(c, a)].data

\* bread of block a, whose contents on disk are d: a hit takes a reference; a
\* miss recycles the least recently used buffer nobody references.
Bread(c, a, d) ==
    IF Cached(c, a)
      THEN [c EXCEPT ![Find(c, a)].refcnt = @ + 1]
      ELSE <<[blockno |-> a, refcnt |-> 1, data |-> d]>>
             \o RemoveAt(c, SelectLastInSeq(c, LAMBDA b : b.refcnt = 0))

\* brelse: the last reference moves the buffer to the front.
Brelse(c, a) ==
    LET i == Find(c, a)
        b == [c[i] EXCEPT !.refcnt = @ - 1]
    IN  IF b.refcnt = 0 THEN <<b>> \o RemoveAt(c, i) ELSE [c EXCEPT ![i] = b]

\* A caller that holds the buffer overwrites its contents.
Fill(c, a, d) == [c EXCEPT ![Find(c, a)].data = d]

Bpin(c, a) == [c EXCEPT ![Find(c, a)].refcnt = @ + 1]

Bunpin(c, a) == [c EXCEPT ![Find(c, a)].refcnt = @ - 1]

\* binit_cache: every buffer is free and names block 0.
EmptyCache(nbuf, block0) ==
    [i \in 1 .. nbuf |-> [blockno |-> block0, refcnt |-> 0, data |-> block0]]
=============================================================================
