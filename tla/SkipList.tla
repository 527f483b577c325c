------------------------------ MODULE SkipList ------------------------------
(***************************************************************************)
(* The skip list behind the memtable of projects/data/storage-engine.  A   *)
(* node is its key; a list is a record of                                  *)
(*                                                                         *)
(*   level    the highest level in use                                     *)
(*   fwd      each node's forward pointers, from level 1                   *)
(*   val      each node's value                                            *)
(*   deleted  the nodes that are tombstones                                *)
(*   memory   memory_usage, the empty list's left out                      *)
(*                                                                         *)
(* Failing allocations are not modelled.                                   *)
(***************************************************************************)
EXTENDS Naturals, Sequences, KeyOrder
LOCAL INSTANCE TLC

CONSTANTS
    Nil,        \* the NULL at the end of a level
    MaxLevel,   \* SKIPLIST_MAX_LEVEL
    NodeBytes,  \* sizeof(skiplist_node_t)
    PtrBytes    \* sizeof(skiplist_node_t*)

\* The header node: its key has length 0, which no other key has.
Header == << >>

Nodes(l) == DOMAIN l.val

\* skiplist_create.
Empty == [level   |-> 1,
          fwd     |-> (Header :> [i \in 1 .. MaxLevel |-> Nil]),
          val     |-> << >>,
          deleted |-> {},
          memory  |-> 0]

\* The inner loop of every search: along level i from x while the next node is
\* before k.
Along(l, k, x, i) ==
    LET walk[y \in DOMAIN l.fwd] ==
            LET next == l.fwd[y][i]
            IN  IF next # Nil /\ Less(next, k) THEN walk[next] ELSE y
    IN  walk[x]

\* update[i] of skiplist_put for the levels in use: the last node before k,
\* from the highest level down.
Update(l, k) ==
    LET last[i \in 1 .. l.level] ==
            Along(l, k, IF i = l.level THEN Header ELSE last[i + 1], i)
    IN  last

\* The first node that is not before k, where every search ends; also
\* skiplist_iter_seek.
Seek(l, k) == l.fwd[Update(l, k)[1]][1]

\* skiplist_contains: tombstones count.
ListContains(l, k) == Seek(l, k) = k

\* skiplist_get: the value, or Nil for STATUS_NOT_FOUND.
Get(l, k) == IF ListContains(l, k) /\ k \notin l.deleted THEN l.val[k] ELSE Nil

\* Mutant: the levels above the highest one in use are not linked.
InsertLinksOld(l, k, v, h) ==
    LET update == Update(l, k)
        linked == [y \in DOMAIN l.fwd |->
            [i \in DOMAIN l.fwd[y] |->
                IF i <= h /\ i <= l.level /\ update[i] = y THEN k ELSE l.fwd[y][i]]]
        forward == [i \in 1 .. h |-> IF i <= l.level THEN l.fwd[update[i]][i] ELSE Nil]
    IN  [level   |-> IF h > l.level THEN h ELSE l.level,
         fwd     |-> linked @@ (k :> forward),
         val     |-> l.val @@ (k :> v),
         deleted |-> l.deleted,
         memory  |-> l.memory + NodeBytes + PtrBytes * h + Len(k) + Len(v)]

\* skiplist_put of a new key, as a node of height h; it is linked behind the header
\* in the levels it is the first to use.
Insert(l, k, v, h) ==
    LET update == [i \in 1 .. h |-> IF i <= l.level THEN Update(l, k)[i] ELSE Header]
        linked == [y \in DOMAIN l.fwd |->
            [i \in DOMAIN l.fwd[y] |->
                IF i <= h /\ update[i] = y THEN k ELSE l.fwd[y][i]]]
        forward == [i \in 1 .. h |-> l.fwd[update[i]][i]]
    IN  [level   |-> IF h > l.level THEN h ELSE l.level,
         fwd     |-> linked @@ (k :> forward),
         val     |-> l.val @@ (k :> v),
         deleted |-> l.deleted,
         memory  |-> l.memory + NodeBytes + PtrBytes * h + Len(k) + Len(v)]

\* Mutant: the bytes of an overwritten value stay counted.
PutCountsBoth(l, k, v, h) ==
    IF ListContains(l, k)
      THEN [l EXCEPT !.val[k] = v, !.deleted = @ \ {k}, !.memory = @ + Len(v)]
      ELSE Insert(l, k, v, h)

\* skiplist_put; h is what random_level returns, and counts for a new node only.
Put(l, k, v, h) ==
    IF ListContains(l, k)
      THEN [l EXCEPT !.val[k] = v,
                     !.deleted = @ \ {k},
                     !.memory = @ - Len(l.val[k]) + Len(v)]
      ELSE Insert(l, k, v, h)

\* Mutant: a key that is not there needs no tombstone.
DeletePresent(l, k, h) ==
    IF ListContains(l, k) THEN [l EXCEPT !.deleted = @ \cup {k}] ELSE l

\* skiplist_delete: the node is marked and keeps its value; a key that is not
\* there is put with no value first.
Delete(l, k, h) ==
    LET there == IF ListContains(l, k) THEN l ELSE Put(l, k, << >>, h)
    IN  [there EXCEPT !.deleted = @ \cup {k}]

\* An iterator from node x to the end: skiplist_iter_next and the accessors.
Entries(l, x) ==
    LET rest[y \in Nodes(l) \cup {Nil}] ==
            IF y = Nil THEN << >>
            ELSE <<[key |-> y, val |-> l.val[y], del |-> y \in l.deleted]>>
                   \o rest[l.fwd[y][1]]
    IN  rest[x]

\* skiplist_iter_seek_to_first and all that follows.
Iterate(l) == Entries(l, l.fwd[Header][1])

\* storage_iter_seek and storage_iter_next: tombstones are skipped.
StorageIterate(l, k) ==
    SelectSeq(Entries(l, Seek(l, k)), LAMBDA e : ~e.del)
=============================================================================
