----------------------------- MODULE MergeIter -----------------------------
(***************************************************************************)
(* The merge iterator of compact.c: a binary heap of the iterators over    *)
(* the input tables, least key first.  A merge is [iters, heap]; the heap  *)
(* is the sequence of the numbers of the iterators that are still valid.   *)
(***************************************************************************)
EXTENDS SSTable
LOCAL INSTANCE SequencesExt

\* Mutant: of equal keys the lower index comes first.
MergeBeforeLow(iters, a, b) ==
    \/ Less(iters[a].key, iters[b].key)
    \/ iters[a].key = iters[b].key /\ a < b

\* merge_compare(a, b) < 0: of equal keys the higher index comes first.
MergeBefore(iters, a, b) ==
    \/ Less(iters[a].key, iters[b].key)
    \/ iters[a].key = iters[b].key /\ a > b

RECURSIVE SiftDown(_, _, _)

\* Mutant: the right child is not looked at.
SiftDownLeft(iters, heap, i) ==
    LET Before(x, y) == MergeBefore(iters, heap[x], heap[y])
        left == 2 * i
        least == IF left <= Len(heap) /\ Before(left, i) THEN left ELSE i
    IN  IF least = i THEN heap
        ELSE SiftDown(iters, [heap EXCEPT ![i] = heap[least], ![least] = heap[i]], least)

\* heap_sift_down from position i (from 1).
SiftDown(iters, heap, i) ==
    LET Before(x, y) == MergeBefore(iters, heap[x], heap[y])
        left == 2 * i
        right == 2 * i + 1
        l == IF left <= Len(heap) /\ Before(left, i) THEN left ELSE i
        least == IF right <= Len(heap) /\ Before(right, l) THEN right ELSE l
    IN  IF least = i THEN heap
        ELSE SiftDown(iters, [heap EXCEPT ![i] = heap[least], ![least] = heap[i]], least)

\* merge_iter_create over the first entries of the tables.
MergeCreate(tables) ==
    LET iters == [i \in DOMAIN tables |-> IterFirst(tables[i])]
        valid == SelectSeq([i \in DOMAIN tables |-> i], LAMBDA i : iters[i].valid)
        half == Len(valid) \div 2
        built == FoldLeft(LAMBDA h, i : SiftDown(iters, h, i), valid,
                          [j \in 1 .. half |-> half + 1 - j])
    IN  [iters |-> iters,
         heap |-> IF built = << >> THEN built ELSE SiftDown(iters, built, 1)]

\* merge_iter_current.
MergeCurrent(m) ==
    LET it == m.iters[m.heap[1]] IN [key |-> it.key, val |-> it.val, del |-> it.del]

RECURSIVE AdvancePast(_, _, _)

\* The loop of merge_iter_next: every iterator that is at the key moves on, and
\* leaves the heap at its end.
AdvancePast(tables, m, key) ==
    IF m.heap = << >> \/ m.iters[m.heap[1]].key # key THEN m
    ELSE LET top == m.heap[1]
             iters == [m.iters EXCEPT ![top] = IterNext(tables[top], @)]
             n == Len(m.heap)
             heap == IF iters[top].valid THEN m.heap
                     ELSE SubSeq([m.heap EXCEPT ![1] = m.heap[n]], 1, n - 1)
         IN  AdvancePast(tables,
                         [iters |-> iters,
                          heap |-> IF heap = << >> THEN heap ELSE SiftDown(iters, heap, 1)],
                         key)

\* merge_iter_next.
MergeNext(tables, m) == AdvancePast(tables, m, MergeCurrent(m).key)
=============================================================================
