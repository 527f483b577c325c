------------------------------ MODULE HashRing ------------------------------
(***************************************************************************)
(* The consistent hash ring of dist-kv (src/hash_ring.c): the physical     *)
(* nodes, and the virtual nodes sorted by hash.                            *)
(*                                                                         *)
(* What MurmurHash computes is left open: the hashes of a node's virtual   *)
(* nodes are an argument, and a key is given by its hash.  No two virtual  *)
(* nodes have the same hash (qsort would order them either way).           *)
(***************************************************************************)
LOCAL INSTANCE Naturals
LOCAL INSTANCE Sequences
LOCAL INSTANCE SequencesExt
LOCAL INSTANCE FiniteSets
LOCAL INSTANCE FiniteSetsExt
LOCAL INSTANCE LowerBound

\* hash_ring_create.
EmptyRing == [nodes |-> {}, vnodes |-> <<>>]

\* hash_ring_has_node.
HasNode(ring, n) == n \in ring.nodes

\* qsort with vnode_compare: the i-th virtual node has i - 1 of lower hash.
SortedByHash(vs) ==
    [i \in DOMAIN vs |->
        vs[CHOOSE j \in DOMAIN vs :
              Cardinality({k \in DOMAIN vs : vs[k].hash < vs[j].hash}) = i - 1]]

\* hash_ring_add_node: the node's virtual nodes go to the end, and all are sorted.
RingAdd(ring, n, hashes) ==
    LET new == [i \in 1 .. Len(hashes) |-> [hash |-> hashes[i], node |-> n]]
    IN  [nodes  |-> ring.nodes \cup {n},
         vnodes |-> SortedByHash(ring.vnodes \o new)]

\* hash_ring_remove_node: the other nodes' virtual nodes close up, in their order.
RingRemove(ring, n) ==
    LET vs == ring.vnodes
        kept[i \in 0 .. Len(vs)] ==
            IF i = 0 THEN <<>>
            ELSE IF vs[i].node = n THEN kept[i - 1] ELSE Append(kept[i - 1], vs[i])
    IN  [nodes |-> ring.nodes \ {n}, vnodes |-> kept[Len(vs)]]

\* find_vnode: the position, from 0, of the first virtual node at or after the
\* hash, and past the last one the first again.
FindVnode(ring, hash) ==
    LET n  == Len(ring.vnodes)
        lo == FirstNotBelow(n, {i \in 0 .. n - 1 : ring.vnodes[i + 1].hash < hash})
    IN  IF lo >= n THEN 0 ELSE lo

\* Mutant: a node is taken each time one of its virtual nodes is met.
GetReplicasTwice(ring, hash, replication) ==
    LET n      == Len(ring.vnodes)
        start  == FindVnode(ring, hash)
        target == Min({replication, Cardinality(ring.nodes)})
    IN  [i \in 1 .. Min({n, target}) |-> ring.vnodes[((start + i - 1) % n) + 1].node]

\* hash_ring_get_replicas: walk the ring once from there, and take each node the
\* first time one of its virtual nodes is met, until there are enough.
GetReplicas(ring, hash, replication) ==
    LET n      == Len(ring.vnodes)
        start  == FindVnode(ring, hash)
        target == Min({replication, Cardinality(ring.nodes)})
        walk[i \in 0 .. n] ==
            IF i = 0 THEN <<>>
            ELSE LET taken == walk[i - 1]
                     node  == ring.vnodes[((start + i - 1) % n) + 1].node
                 IN  IF Len(taken) >= target \/ Contains(taken, node)
                     THEN taken ELSE Append(taken, node)
    IN  IF n = 0 THEN <<>> ELSE walk[n]
=============================================================================
