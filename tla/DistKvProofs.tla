---------------------------- MODULE DistKvProofs ----------------------------
(***************************************************************************)
(* dist-kv, for every number of nodes, partitions, virtual nodes and keys  *)
(* and every hash function without collisions: the ring places the         *)
(* replicas clockwise, the failover settles who leads a partition and      *)
(* whether it is read-only, and reads agree with the acknowledged writes.  *)
(***************************************************************************)
EXTENDS DistKv, RecursionProofs
LOCAL INSTANCE SequencesExt
LOCAL INSTANCE FiniteSetsExt
LOCAL INSTANCE LowerBound

-----------------------------------------------------------------------------
(* The hash ring. *)

Vnode == [hash : Nat, node : Node]

Positions(vs) == 1 .. Len(vs)

\* No two virtual nodes of a sequence have the same hash.
Distinct(vs) == \A i, j \in Positions(vs) : vs[i].hash = vs[j].hash => i = j

Ascending(vs) == \A i, j \in Positions(vs) : i < j => vs[i].hash < vs[j].hash

\* Each element of one sequence is an element of the other.
Within(vs, ws) == \A i \in Positions(vs) : \E j \in Positions(ws) : vs[i] = ws[j]

LowerThan(vs, j) == {k \in Positions(vs) : vs[k].hash < vs[j].hash}

LEMMA VnodeHash ==
    ASSUME NEW vs \in Seq(Vnode), NEW j \in Positions(vs)
    PROVE  vs[j] \in Vnode /\ vs[j].hash \in Nat /\ vs[j].node \in Node
<1>1. vs[j] \in Vnode
  BY DEF Positions
<1>2. QED
  BY <1>1 DEF Vnode

LEMMA InitialFinite ==
    ASSUME NEW n \in Nat
    PROVE  IsFiniteSet(1 .. n) /\ Cardinality(1 .. n) = n
<1>1. 1 \in Int /\ n \in Int
  OBVIOUS
<1>2. IsFiniteSet(1 .. n) /\ Cardinality(1 .. n) = IF 1 > n THEN 0 ELSE n - 1 + 1
  BY <1>1, FS_Interval
<1>3. QED
  BY <1>2

LEMMA RankTyped ==
    ASSUME NEW vs \in Seq(Vnode), NEW j \in Positions(vs)
    PROVE  /\ IsFiniteSet(LowerThan(vs, j)) /\ Cardinality(LowerThan(vs, j)) \in Nat
           /\ Cardinality(LowerThan(vs, j)) <= Len(vs) - 1
<1>0. Len(vs) \in Nat /\ j \in 1 .. Len(vs)
  BY DEF Positions
<1>1. vs[j].hash \in Nat
  BY VnodeHash
<1>2. LowerThan(vs, j) \in SUBSET ((1 .. Len(vs)) \ {j})
  BY <1>1 DEF LowerThan, Positions
<1>3. IsFiniteSet((1 .. Len(vs)) \ {j}) /\ Cardinality((1 .. Len(vs)) \ {j}) = Len(vs) - 1
  BY <1>0, InitialFinite, FS_RemoveElement
<1>4. IsFiniteSet(LowerThan(vs, j)) /\ Cardinality(LowerThan(vs, j)) <= Len(vs) - 1
  BY <1>2, <1>3, FS_Subset
<1>5. QED
  BY <1>4, FS_CardinalityType

LEMMA RankMonotone ==
    ASSUME NEW vs \in Seq(Vnode), NEW j \in Positions(vs), NEW k \in Positions(vs),
           vs[j].hash < vs[k].hash
    PROVE  Cardinality(LowerThan(vs, j)) < Cardinality(LowerThan(vs, k))
<1>0. \A i \in Positions(vs) : vs[i].hash \in Nat
  BY VnodeHash
<1>1. j \notin LowerThan(vs, j) /\ LowerThan(vs, j) \cup {j} \in SUBSET LowerThan(vs, k)
  BY <1>0 DEF LowerThan
<1>2. Cardinality(LowerThan(vs, j) \cup {j}) = Cardinality(LowerThan(vs, j)) + 1
  BY <1>1, RankTyped, FS_AddElement
<1>3. Cardinality(LowerThan(vs, j) \cup {j}) <= Cardinality(LowerThan(vs, k))
  BY <1>1, RankTyped, FS_Subset
<1>4. Cardinality(LowerThan(vs, j)) \in Nat /\ Cardinality(LowerThan(vs, k)) \in Nat
  BY RankTyped
<1>5. QED
  BY <1>2, <1>3, <1>4

\* Different positions have different ranks.
LEMMA RankDistinct ==
    ASSUME NEW vs \in Seq(Vnode), Distinct(vs), NEW j \in Positions(vs), NEW k \in Positions(vs),
           Cardinality(LowerThan(vs, j)) = Cardinality(LowerThan(vs, k))
    PROVE  j = k
<1>0. vs[j].hash \in Nat /\ vs[k].hash \in Nat
  BY VnodeHash
<1>1. Cardinality(LowerThan(vs, j)) \in Nat
  BY RankTyped
<1>2. ~(vs[j].hash < vs[k].hash) /\ ~(vs[k].hash < vs[j].hash)
  BY <1>1, RankMonotone
<1>3. vs[j].hash = vs[k].hash
  BY <1>0, <1>2
<1>4. QED
  BY <1>3 DEF Distinct

LEMMA RankFound ==
    ASSUME NEW vs \in Seq(Vnode), Distinct(vs), NEW i \in Positions(vs)
    PROVE  \E j \in Positions(vs) : Cardinality(LowerThan(vs, j)) = i - 1
<1>0. PICK n : n = Len(vs)
  OBVIOUS
<1>00. n \in Nat /\ Positions(vs) = 1 .. n /\ i \in 1 .. n
  BY <1>0 DEF Positions
<1> DEFINE Rank == [j \in 1 .. n |-> Cardinality(LowerThan(vs, j))]
           Other == (0 .. n - 1) \ {i - 1}
<1>1. IsFiniteSet(1 .. n) /\ Cardinality(1 .. n) = n
  BY <1>00, InitialFinite
<1>4. SUFFICES ASSUME \A j \in 1 .. n : Cardinality(LowerThan(vs, j)) # i - 1 PROVE FALSE
  BY <1>00
<1>5. Rank \in [1 .. n -> Other]
  <2>1. \A j \in 1 .. n : Cardinality(LowerThan(vs, j)) \in Nat /\ Cardinality(LowerThan(vs, j)) <= n - 1
    BY <1>0, <1>00, RankTyped
  <2>2. \A j \in 1 .. n : Cardinality(LowerThan(vs, j)) \in Other
    BY <1>00, <1>4, <2>1
  <2> HIDE DEF Other
  <2>3. QED
    BY <2>2
<1>6. IsFiniteSet(Other) /\ Cardinality(Other) < n
  <2>1. IsFiniteSet(0 .. n - 1) /\ Cardinality(0 .. n - 1) = n
    <3>1. n >= 1 /\ 0 \in Int /\ n - 1 \in Int
      BY <1>00
    <3>2. /\ IsFiniteSet(0 .. n - 1)
          /\ Cardinality(0 .. n - 1) = IF 0 > n - 1 THEN 0 ELSE (n - 1) - 0 + 1
      BY <3>1, FS_Interval
    <3>3. QED
      BY <1>00, <3>1, <3>2
  <2>2. i - 1 \in 0 .. n - 1
    BY <1>00
  <2>3. IsFiniteSet(Other) /\ Cardinality(Other) = n - 1
    BY <2>1, <2>2, FS_RemoveElement
  <2>4. QED
    BY <1>00, <2>3
<1> HIDE DEF Other
<1>7. PICK x, y \in 1 .. n : x # y /\ Rank[x] = Rank[y]
  <2> HIDE DEF Rank
  <2>1. Cardinality(Other) < Cardinality(1 .. n)
    BY <1>1, <1>6
  <2>2. QED
    BY <1>1, <1>5, <1>6, <2>1, FS_PigeonHole
<1>8. QED
  BY <1>00, <1>7, RankDistinct

\* SortedByHash keeps the elements and puts them in order.
LEMMA Sorted ==
    ASSUME NEW vs \in Seq(Vnode), Distinct(vs)
    PROVE  /\ SortedByHash(vs) \in Seq(Vnode)
           /\ Ascending(SortedByHash(vs))
           /\ Within(SortedByHash(vs), vs) /\ Within(vs, SortedByHash(vs))
<1> DEFINE n == Len(vs)
           At(i) == CHOOSE j \in DOMAIN vs :
                       Cardinality({k \in DOMAIN vs : vs[k].hash < vs[j].hash}) = i - 1
           ws == SortedByHash(vs)
<1>0. n \in Nat /\ DOMAIN vs = 1 .. n /\ Positions(vs) = 1 .. n
  BY DEF Positions
<1>00. \A j \in 1 .. n : vs[j].hash \in Nat /\ vs[j] \in Vnode
  BY <1>0, VnodeHash
<1>1. ASSUME NEW i \in 1 .. n
      PROVE  At(i) \in 1 .. n /\ Cardinality(LowerThan(vs, At(i))) = i - 1
  <2>1. PICK j \in 1 .. n : Cardinality(LowerThan(vs, j)) = i - 1
    BY <1>0, RankFound
  <2>2. \A k \in DOMAIN vs :
           LowerThan(vs, k) = {l \in DOMAIN vs : vs[l].hash < vs[k].hash}
    BY <1>0 DEF LowerThan
  <2>3. \E k \in DOMAIN vs :
           Cardinality({l \in DOMAIN vs : vs[l].hash < vs[k].hash}) = i - 1
    BY <1>0, <2>1, <2>2
  <2>4. /\ At(i) \in DOMAIN vs
        /\ Cardinality({l \in DOMAIN vs : vs[l].hash < vs[At(i)].hash}) = i - 1
    BY <2>3, Zenon
  <2> HIDE DEF At
  <2>5. QED
    BY <1>0, <2>2, <2>4
<1> DEFINE at == [i \in 1 .. n |-> At(i)]
<1>2. ws = [i \in 1 .. n |-> vs[at[i]]]
  BY <1>0 DEF SortedByHash
<1>3. /\ at \in [1 .. n -> 1 .. n]
      /\ \A i \in 1 .. n : Cardinality(LowerThan(vs, at[i])) = i - 1
  <2> HIDE DEF At
  <2>1. QED
    BY <1>1
<1> HIDE DEF at, ws
<1>4. ws \in Seq(Vnode) /\ Len(ws) = n /\ Positions(ws) = 1 .. n
  BY <1>0, <1>00, <1>2, <1>3 DEF Positions
<1>41. \A i \in 1 .. n : ws[i] = vs[at[i]]
  BY <1>2
<1>5. Within(ws, vs)
  BY <1>0, <1>3, <1>4, <1>41 DEF Within
<1>7. Ascending(ws)
  <2>1. ASSUME NEW i \in 1 .. n, NEW j \in 1 .. n, i < j PROVE ws[i].hash < ws[j].hash
    <3>1. at[i] \in Positions(vs) /\ at[j] \in Positions(vs)
      BY <1>0, <1>3
    <3>2. Cardinality(LowerThan(vs, at[i])) = i - 1 /\ Cardinality(LowerThan(vs, at[j])) = j - 1
      BY <1>3
    <3>3. ~(vs[at[j]].hash < vs[at[i]].hash)
      BY <2>1, <3>1, <3>2, RankMonotone
    <3>4. at[i] # at[j]
      BY <2>1, <3>2
    <3>5. vs[at[i]].hash # vs[at[j]].hash
      BY <3>1, <3>4 DEF Distinct
    <3>6. vs[at[i]].hash \in Nat /\ vs[at[j]].hash \in Nat
      BY <3>1, VnodeHash
    <3>7. QED
      BY <1>41, <3>3, <3>5, <3>6, SMTT(30)
  <2>2. QED
    BY <1>4, <2>1 DEF Ascending
<1>8. Within(vs, ws)
  <2>1. ASSUME NEW j \in 1 .. n PROVE \E i \in 1 .. n : vs[j] = ws[i]
    <3>1. PICK r : r = Cardinality(LowerThan(vs, j))
      OBVIOUS
    <3>2. r \in Nat /\ r <= n - 1
      BY <1>0, <3>1, RankTyped
    <3>3. r + 1 \in 1 .. n /\ (r + 1) - 1 = r
      BY <1>0, <3>2
    <3>4. Cardinality(LowerThan(vs, at[r + 1])) = r /\ at[r + 1] \in 1 .. n
      BY <1>3, <3>3
    <3>5. at[r + 1] = j
      BY <1>0, <3>1, <3>4, RankDistinct
    <3>6. QED
      BY <1>41, <3>3, <3>5
  <2>2. QED
    BY <1>0, <1>4, <2>1 DEF Within
<1>9. QED
  BY <1>4, <1>5, <1>7, <1>8 DEF ws

\* A virtual node of its node, by the hash function h.
Proper(v, h) == \E i \in DOMAIN h.vnode[v.node] : v.hash = h.vnode[v.node][i]

\* The ring holds just the virtual nodes of its nodes, in order of their hashes.
RingOK(r, h) ==
    /\ r \in [nodes : SUBSET Node, vnodes : Seq(Vnode)]
    /\ IsFiniteSet(r.nodes)
    /\ \A i \in Positions(r.vnodes) : r.vnodes[i].node \in r.nodes /\ Proper(r.vnodes[i], h)
    /\ Ascending(r.vnodes)
    /\ \A n \in r.nodes : \A i \in DOMAIN h.vnode[n] :
          \E j \in Positions(r.vnodes) : r.vnodes[j] = [hash |-> h.vnode[n][i], node |-> n]

\* What the proofs use of the assumption on hash functions.
HashOK(h) ==
    /\ h.points \in Nat
    /\ \A p \in Partition : h.part[p] \in 0 .. h.points - 1
    /\ \A n \in Node : h.vnode[n] # <<>> /\ h.vnode[n] \in Seq(0 .. h.points - 1)
    /\ \A n, m \in Node : \A i \in DOMAIN h.vnode[n], j \in DOMAIN h.vnode[m] :
          h.vnode[n][i] = h.vnode[m][j] => n = m /\ i = j

LEMMA HashesOK == \A h \in {s.hash : s \in Scenarios} : HashOK(h)
BY ClusterAssumption, Zenon DEF HashOK

LEMMA EmptyRingOK == ASSUME NEW h PROVE RingOK(EmptyRing, h)
<1>1. EmptyRing \in [nodes : SUBSET Node, vnodes : Seq(Vnode)] /\ EmptyRing.nodes = {}
  BY DEF EmptyRing
<1>2. Positions(EmptyRing.vnodes) = {}
  BY DEF EmptyRing, Positions
<1>3. IsFiniteSet(EmptyRing.nodes)
  BY <1>1, FS_EmptySet
<1>4. QED
  BY <1>1, <1>2, <1>3 DEF RingOK, Ascending

LEMMA AscendingDistinct ==
    ASSUME NEW vs \in Seq(Vnode), Ascending(vs)
    PROVE  Distinct(vs)
<1> SUFFICES ASSUME NEW i \in Positions(vs), NEW j \in Positions(vs), vs[i].hash = vs[j].hash
             PROVE  i = j
  BY DEF Distinct
<1>1. vs[i].hash \in Nat /\ i \in Int /\ j \in Int
  BY VnodeHash DEF Positions
<1>2. ~(i < j) /\ ~(j < i)
  BY <1>1 DEF Ascending
<1>3. QED
  BY <1>1, <1>2

\* hash_ring_add_node keeps the ring in order.
LEMMA RingAddOK ==
    ASSUME NEW h, HashOK(h), NEW r, RingOK(r, h), NEW n \in Node, n \notin r.nodes
    PROVE  RingOK(RingAdd(r, n, h.vnode[n]), h)
<1> DEFINE hs == h.vnode[n]
           new == [i \in 1 .. Len(hs) |-> [hash |-> hs[i], node |-> n]]
           vs == r.vnodes \o new
           ws == SortedByHash(vs)
<1>1. hs \in Seq(0 .. h.points - 1) /\ h.points \in Nat
  BY DEF HashOK
<1>2. Len(hs) \in Nat /\ DOMAIN hs = 1 .. Len(hs) /\ \A i \in 1 .. Len(hs) : hs[i] \in Nat
  BY <1>1
<1>21. hs = h.vnode[n]
  OBVIOUS
<1>22. \A m, k \in Node : \A i \in DOMAIN h.vnode[m], j \in DOMAIN h.vnode[k] :
          h.vnode[m][i] = h.vnode[k][j] => m = k /\ i = j
  BY DEF HashOK
<1> HIDE DEF hs
<1>3. \A i \in 1 .. Len(hs) : [hash |-> hs[i], node |-> n] \in Vnode
  BY <1>2 DEF Vnode
<1>4. new \in Seq(Vnode) /\ Len(new) = Len(hs) /\ Positions(new) = 1 .. Len(hs)
  BY <1>2, <1>3 DEF Positions
<1>5. \A i \in Positions(new) : new[i] = [hash |-> hs[i], node |-> n]
  BY <1>4
<1>51. \A i \in Positions(new) :
          new[i].hash = hs[i] /\ new[i].node = n /\ i \in DOMAIN hs
  BY <1>2, <1>4, <1>5
<1> HIDE DEF new
<1>6. /\ r.vnodes \in Seq(Vnode) /\ r.nodes \in SUBSET Node /\ IsFiniteSet(r.nodes)
      /\ Ascending(r.vnodes)
      /\ \A i \in Positions(r.vnodes) : r.vnodes[i].node \in r.nodes /\ Proper(r.vnodes[i], h)
      /\ \A m \in r.nodes : \A i \in DOMAIN h.vnode[m] :
            \E j \in Positions(r.vnodes) : r.vnodes[j] = [hash |-> h.vnode[m][i], node |-> m]
  BY DEF RingOK
<1>7. /\ vs \in Seq(Vnode)
      /\ \A i \in Positions(vs) : \/ i \in Positions(r.vnodes) /\ vs[i] = r.vnodes[i]
                                  \/ /\ i - Len(r.vnodes) \in Positions(new)
                                     /\ vs[i] = new[i - Len(r.vnodes)]
      /\ \A i \in Positions(r.vnodes) : i \in Positions(vs) /\ vs[i] = r.vnodes[i]
      /\ \A i \in Positions(new) : /\ i + Len(r.vnodes) \in Positions(vs)
                                   /\ vs[i + Len(r.vnodes)] = new[i]
  BY <1>4, <1>6 DEF Positions
<1> HIDE DEF vs
<1>8. Distinct(vs)
  <2> SUFFICES ASSUME NEW i \in Positions(vs), NEW j \in Positions(vs), vs[i].hash = vs[j].hash
               PROVE  i = j
    BY DEF Distinct
  <2>0. i \in Int /\ j \in Int /\ Len(r.vnodes) \in Nat
    BY <1>6 DEF Positions
  <2>1. ASSUME NEW a \in Positions(r.vnodes), NEW b \in Positions(new)
        PROVE  r.vnodes[a].hash # new[b].hash
    <3>1. r.vnodes[a].node \in r.nodes /\ Proper(r.vnodes[a], h)
      BY <1>6
    <3>2. PICK m : m = r.vnodes[a].node
      OBVIOUS
    <3>3. m \in Node /\ m # n
      BY <1>6, <3>1, <3>2
    <3>4. PICK c \in DOMAIN h.vnode[m] : r.vnodes[a].hash = h.vnode[m][c]
      BY <3>1, <3>2 DEF Proper
    <3>5. new[b].hash = h.vnode[n][b] /\ b \in DOMAIN h.vnode[n]
      BY <1>21, <1>51
    <3>6. QED
      BY <1>22, <3>3, <3>4, <3>5
  <2>2. ASSUME NEW a \in Positions(new), NEW b \in Positions(new), new[a].hash = new[b].hash
        PROVE  a = b
    <3>1. /\ new[a].hash = h.vnode[n][a] /\ a \in DOMAIN h.vnode[n]
          /\ new[b].hash = h.vnode[n][b] /\ b \in DOMAIN h.vnode[n]
      BY <1>21, <1>51
    <3>2. h.vnode[n][a] = h.vnode[n][b]
      BY <2>2, <3>1
    <3>3. QED
      BY <1>22, <3>1, <3>2, Zenon
  <2>3. Distinct(r.vnodes)
    BY <1>6, AscendingDistinct
  <2>4. CASE i \in Positions(r.vnodes) /\ j \in Positions(r.vnodes)
    BY <1>7, <2>3, <2>4 DEF Distinct
  <2>5. CASE i \in Positions(r.vnodes) /\ j \notin Positions(r.vnodes)
    BY <1>7, <2>1, <2>5
  <2>6. CASE i \notin Positions(r.vnodes) /\ j \in Positions(r.vnodes)
    BY <1>7, <2>1, <2>6
  <2>7. CASE i \notin Positions(r.vnodes) /\ j \notin Positions(r.vnodes)
    <3>1. PICK a, b : a = i - Len(r.vnodes) /\ b = j - Len(r.vnodes)
      OBVIOUS
    <3>2. a \in Positions(new) /\ b \in Positions(new) /\ vs[i] = new[a] /\ vs[j] = new[b]
      BY <1>7, <2>7, <3>1
    <3>3. a = b
      BY <2>2, <3>2
    <3>4. QED
      BY <2>0, <3>1, <3>3
  <2>8. QED
    BY <2>4, <2>5, <2>6, <2>7
<1>9. ws \in Seq(Vnode) /\ Ascending(ws) /\ Within(ws, vs) /\ Within(vs, ws)
  BY <1>7, <1>8, Sorted
<1>10. RingAdd(r, n, h.vnode[n]) = [nodes |-> r.nodes \cup {n}, vnodes |-> ws]
  BY DEF RingAdd, ws, vs, new, hs
<1> HIDE DEF ws
<1>11. ASSUME NEW i \in Positions(ws)
       PROVE  ws[i].node \in r.nodes \cup {n} /\ Proper(ws[i], h)
  <2>1. PICK j \in Positions(vs) : ws[i] = vs[j]
    BY <1>9 DEF Within
  <2>2. CASE j \in Positions(r.vnodes) /\ vs[j] = r.vnodes[j]
    BY <1>6, <2>1, <2>2
  <2>3. CASE j - Len(r.vnodes) \in Positions(new) /\ vs[j] = new[j - Len(r.vnodes)]
    <3>1. PICK a \in Positions(new) : vs[j] = new[a]
      BY <2>3
    <3>2. ws[i] = [hash |-> hs[a], node |-> n] /\ a \in DOMAIN hs
      BY <1>2, <1>4, <1>5, <2>1, <3>1
    <3>3. QED
      BY <3>2 DEF Proper, hs
  <2>4. QED
    BY <1>7, <2>2, <2>3
<1>12. ASSUME NEW m \in r.nodes \cup {n}, NEW i \in DOMAIN h.vnode[m]
       PROVE  \E j \in Positions(ws) : ws[j] = [hash |-> h.vnode[m][i], node |-> m]
  <2>1. \E j \in Positions(vs) : vs[j] = [hash |-> h.vnode[m][i], node |-> m]
    <3>1. CASE m \in r.nodes
      <4>1. PICK j \in Positions(r.vnodes) : r.vnodes[j] = [hash |-> h.vnode[m][i], node |-> m]
        BY <1>6, <3>1
      <4>2. j \in Positions(vs) /\ vs[j] = r.vnodes[j]
        BY <1>7
      <4>3. QED
        BY <4>1, <4>2
    <3>2. CASE m = n
      <4>1. i \in Positions(new) /\ new[i] = [hash |-> h.vnode[m][i], node |-> m]
        BY <1>2, <1>4, <1>5, <3>2 DEF hs
      <4>2. QED
        BY <1>7, <4>1
    <3>3. QED
      BY <3>1, <3>2
  <2>2. QED
    BY <1>9, <2>1 DEF Within
<1>13. IsFiniteSet(r.nodes \cup {n}) /\ r.nodes \cup {n} \in SUBSET Node
  BY <1>6, FS_AddElement
<1>14. PICK q : q = RingAdd(r, n, h.vnode[n])
  OBVIOUS
<1>15. q.nodes = r.nodes \cup {n} /\ q.vnodes = ws
  BY <1>10, <1>14
<1>16. q \in [nodes : SUBSET Node, vnodes : Seq(Vnode)]
  BY <1>9, <1>10, <1>13, <1>14
<1>17. RingOK(q, h)
  BY <1>9, <1>11, <1>12, <1>13, <1>15, <1>16 DEF RingOK
<1>18. QED
  BY <1>14, <1>17

LEMMA RingAddNodes ==
    ASSUME NEW r, NEW n, NEW hs
    PROVE  RingAdd(r, n, hs).nodes = r.nodes \cup {n}
BY DEF RingAdd

\* What hash_ring_remove_node has kept of the first i virtual nodes.
KeptOf(vs, n, t, i) ==
    /\ t \in Seq(Vnode) /\ Ascending(t)
    /\ \A a \in Positions(t) : \E j \in 1 .. i : t[a] = vs[j] /\ vs[j].node # n
    /\ \A j \in 1 .. i : vs[j].node # n => \E a \in Positions(t) : t[a] = vs[j]

LEMMA KeptStep ==
    ASSUME NEW vs \in Seq(Vnode), Ascending(vs), NEW n, NEW i \in Positions(vs), NEW t,
           KeptOf(vs, n, t, i - 1)
    PROVE  KeptOf(vs, n, IF vs[i].node = n THEN t ELSE Append(t, vs[i]), i)
<1>1. /\ t \in Seq(Vnode) /\ Ascending(t)
      /\ \A a \in Positions(t) : \E j \in 1 .. i - 1 : t[a] = vs[j] /\ vs[j].node # n
      /\ \A j \in 1 .. i - 1 : vs[j].node # n => \E a \in Positions(t) : t[a] = vs[j]
  BY DEF KeptOf
<1>2. /\ i \in Nat /\ i >= 1 /\ Len(vs) \in Nat /\ i <= Len(vs)
      /\ \A j \in 1 .. i : j = i \/ j \in 1 .. i - 1
      /\ \A j \in 1 .. i - 1 : j \in 1 .. i /\ j \in Positions(vs) /\ j < i
      /\ i \in 1 .. i
  BY DEF Positions
<1>3. CASE vs[i].node = n
  BY <1>1, <1>2, <1>3 DEF KeptOf
<1>4. CASE vs[i].node # n
  <2>1. PICK u : u = Append(t, vs[i])
    OBVIOUS
  <2>2. vs[i] \in Vnode
    BY VnodeHash
  <2>3. /\ u \in Seq(Vnode) /\ Len(t) \in Nat /\ Len(u) = Len(t) + 1
        /\ \A a \in Positions(t) : a \in Positions(u) /\ u[a] = t[a]
        /\ Len(t) + 1 \in Positions(u) /\ u[Len(t) + 1] = vs[i]
        /\ \A a \in Positions(u) : a \in Positions(t) \/ a = Len(t) + 1
    BY <1>1, <2>1, <2>2 DEF Positions
  <2>4. ASSUME NEW a \in Positions(u)
        PROVE  \E j \in 1 .. i : u[a] = vs[j] /\ vs[j].node # n
    <3>1. CASE a \in Positions(t)
      BY <1>1, <1>2, <2>3, <3>1
    <3>2. CASE a = Len(t) + 1
      BY <1>2, <1>4, <2>3, <3>2
    <3>3. QED
      BY <2>3, <3>1, <3>2
  <2>5. ASSUME NEW j \in 1 .. i, vs[j].node # n
        PROVE  \E a \in Positions(u) : u[a] = vs[j]
    <3>1. CASE j = i
      BY <2>3, <3>1
    <3>2. CASE j \in 1 .. i - 1
      <4>1. PICK a \in Positions(t) : t[a] = vs[j]
        BY <1>1, <2>5, <3>2
      <4>2. QED
        BY <2>3, <4>1
    <3>3. QED
      BY <1>2, <3>1, <3>2
  <2>6. Ascending(u)
    <3> SUFFICES ASSUME NEW a \in Positions(u), NEW b \in Positions(u), a < b
                 PROVE  u[a].hash < u[b].hash
      BY DEF Ascending
    <3>1. a \in Positions(t)
      BY <2>3 DEF Positions
    <3>2. CASE b \in Positions(t)
      BY <1>1, <2>3, <3>1, <3>2 DEF Ascending
    <3>3. CASE b = Len(t) + 1
      <4>1. PICK j \in 1 .. i - 1 : t[a] = vs[j]
        BY <1>1, <3>1
      <4>2. vs[j].hash < vs[i].hash
        BY <1>2, <4>1 DEF Ascending
      <4>3. QED
        BY <2>3, <3>1, <3>3, <4>1, <4>2
    <3>4. QED
      BY <2>3, <3>2, <3>3
  <2>7. KeptOf(vs, n, u, i)
    BY <2>3, <2>4, <2>5, <2>6 DEF KeptOf
  <2>8. QED
    BY <1>4, <2>1, <2>7
<1>5. QED
  BY <1>3, <1>4

LEMMA KeptDone ==
    ASSUME NEW vs \in Seq(Vnode), Ascending(vs), NEW n, NEW g, g[0] = <<>>,
           \A i \in 1 .. Len(vs) :
              g[i] = IF vs[i].node = n THEN g[i - 1] ELSE Append(g[i - 1], vs[i])
    PROVE  KeptOf(vs, n, g[Len(vs)], Len(vs))
<1> DEFINE S == {i \in 0 .. Len(vs) : KeptOf(vs, n, g[i], i)}
<1>0. Len(vs) \in Nat
  OBVIOUS
<1>1. 0 \in S
  <2>1. <<>> \in Seq(Vnode) /\ Positions(<<>>) = {} /\ 1 .. 0 = {}
    BY DEF Positions
  <2>2. KeptOf(vs, n, <<>>, 0)
    BY <2>1 DEF KeptOf, Ascending
  <2>3. QED
    BY <1>0, <2>2
<1>2. ASSUME NEW k \in 0 .. Len(vs) - 1, k \in S PROVE k + 1 \in S
  <2>1. PICK i : i = k + 1
    OBVIOUS
  <2>2. i \in Positions(vs) /\ i - 1 = k /\ i \in 0 .. Len(vs) /\ i \in 1 .. Len(vs)
    BY <1>0, <2>1 DEF Positions
  <2>3. KeptOf(vs, n, g[i - 1], i - 1)
    BY <1>2, <2>2
  <2>4. KeptOf(vs, n, g[i], i)
    BY <2>2, <2>3, KeptStep
  <2>5. QED
    BY <2>1, <2>2, <2>4
<1> HIDE DEF S
<1>3. Len(vs) \in S
  <2>1. \A k \in 0 .. Len(vs) : k \in S
    BY <1>0, <1>1, <1>2, UpTo
  <2>2. QED
    BY <1>0, <2>1
<1>4. QED
  BY <1>3 DEF S

\* The function that hash_ring_remove_node's loop computes.
IsKept(g, vs, n) ==
    g = [i \in 0 .. Len(vs) |->
           IF i = 0 THEN <<>>
           ELSE IF vs[i].node = n THEN g[i - 1] ELSE Append(g[i - 1], vs[i])]

LEMMA KeptExists ==
    ASSUME NEW vs \in Seq(Vnode), NEW n
    PROVE  \E g : IsKept(g, vs, n)
<1> DEFINE F == [x \in (1 .. Len(vs)) \X Seq(Vnode) |->
                   IF vs[x[1]].node = n THEN x[2] ELSE Append(x[2], vs[x[1]])]
<1>0. Len(vs) \in Nat /\ <<>> \in Seq(Vnode)
  OBVIOUS
<1>1. F \in [(1 .. Len(vs)) \X Seq(Vnode) -> Seq(Vnode)]
  <2>1. \A i \in 1 .. Len(vs) : vs[i] \in Vnode
    OBVIOUS
  <2>2. \A x \in (1 .. Len(vs)) \X Seq(Vnode) : x[1] \in 1 .. Len(vs) /\ x[2] \in Seq(Vnode)
    OBVIOUS
  <2>3. \A x \in (1 .. Len(vs)) \X Seq(Vnode) : Append(x[2], vs[x[1]]) \in Seq(Vnode)
    BY <2>1, <2>2
  <2>4. QED
    BY <2>2, <2>3
<1>2. \A i \in 1 .. Len(vs), t \in Seq(Vnode) :
         F[<<i, t>>] = IF vs[i].node = n THEN t ELSE Append(t, vs[i])
  OBVIOUS
<1> HIDE DEF F
<1>3. PICK g \in [0 .. Len(vs) -> Seq(Vnode)] :
         g[0] = <<>> /\ \A i \in 1 .. Len(vs) : g[i] = F[<<i, g[i - 1]>>]
  <2>1. StepsIn(F, Len(vs), Seq(Vnode))
    BY <1>1 DEF StepsIn
  <2>2. PICK g : Recurs(g, Len(vs), Seq(Vnode), F, <<>>)
    BY <1>0, <2>1, RecursionExists
  <2>3. QED
    BY <2>2 DEF Recurs
<1>4. \A i \in 0 .. Len(vs) : g[i] = IF i = 0 THEN <<>>
                                     ELSE IF vs[i].node = n THEN g[i - 1] ELSE Append(g[i - 1], vs[i])
  <2> TAKE i \in 0 .. Len(vs)
  <2>1. CASE i = 0
    BY <1>3, <2>1
  <2>2. CASE i # 0
    <3>1. i \in 1 .. Len(vs) /\ g[i - 1] \in Seq(Vnode)
      BY <1>0, <1>3, <2>2
    <3>2. g[i] = F[<<i, g[i - 1]>>]
      BY <1>3, <3>1
    <3>3. QED
      BY <1>2, <2>2, <3>1, <3>2
  <2>3. QED
    BY <2>1, <2>2
<1>5. g = [i \in 0 .. Len(vs) |-> g[i]]
  BY <1>3
<1>6. IsKept(g, vs, n)
  BY <1>4, <1>5 DEF IsKept
<1>7. QED
  BY <1>6

\* hash_ring_remove_node keeps the ring in order.
LEMMA RingRemoveOK ==
    ASSUME NEW h, NEW r, RingOK(r, h), NEW n
    PROVE  /\ RingOK(RingRemove(r, n), h)
           /\ RingRemove(r, n).nodes = r.nodes \ {n}
<1> DEFINE vs == r.vnodes
           It == CHOOSE g : IsKept(g, vs, n)
<1>1. /\ vs \in Seq(Vnode) /\ r.nodes \in SUBSET Node /\ IsFiniteSet(r.nodes)
      /\ Ascending(vs)
      /\ \A i \in Positions(vs) : vs[i].node \in r.nodes /\ Proper(vs[i], h)
      /\ \A m \in r.nodes : \A i \in DOMAIN h.vnode[m] :
            \E j \in Positions(vs) : vs[j] = [hash |-> h.vnode[m][i], node |-> m]
  BY DEF RingOK
<1>2. IsKept(It, vs, n)
  <2>1. \E g : IsKept(g, vs, n)
    BY <1>1, KeptExists
  <2>2. QED
    BY <2>1, Zenon
<1>3. RingRemove(r, n) = [nodes |-> r.nodes \ {n}, vnodes |-> It[Len(vs)]]
  BY Zenon DEF RingRemove, IsKept
<1> HIDE DEF It, vs
<1>4. PICK g : g = It
  OBVIOUS
<1>5. IsKept(g, vs, n)
  BY <1>2, <1>4
<1>6. /\ g[0] = <<>>
      /\ \A i \in 1 .. Len(vs) :
            g[i] = IF vs[i].node = n THEN g[i - 1] ELSE Append(g[i - 1], vs[i])
  <2>1. Len(vs) \in Nat
    BY <1>1
  <2>2. \A i \in 1 .. Len(vs) : i \in 0 .. Len(vs) /\ i # 0
    BY <2>1
  <2>3. 0 \in 0 .. Len(vs)
    BY <2>1
  <2>4. QED
    BY <1>5, <2>2, <2>3 DEF IsKept
<1>7. PICK t : t = g[Len(vs)]
  OBVIOUS
<1>8. KeptOf(vs, n, t, Len(vs))
  BY <1>1, <1>6, <1>7, KeptDone
<1>9. PICK q : q = RingRemove(r, n)
  OBVIOUS
<1>10. q = [nodes |-> r.nodes \ {n}, vnodes |-> t] /\ q.nodes = r.nodes \ {n} /\ q.vnodes = t
  BY <1>3, <1>4, <1>7, <1>9
<1>11. t \in Seq(Vnode) /\ Ascending(t)
  BY <1>8 DEF KeptOf
<1>12. IsFiniteSet(r.nodes \ {n}) /\ r.nodes \ {n} \in SUBSET Node
  BY <1>1, FS_RemoveElement
<1>13. q \in [nodes : SUBSET Node, vnodes : Seq(Vnode)]
  BY <1>10, <1>11, <1>12
<1>14. ASSUME NEW i \in Positions(t)
       PROVE  t[i].node \in r.nodes \ {n} /\ Proper(t[i], h)
  <2>1. PICK j \in 1 .. Len(vs) : t[i] = vs[j] /\ vs[j].node # n
    BY <1>8 DEF KeptOf
  <2>2. QED
    BY <1>1, <2>1 DEF Positions
<1>15. ASSUME NEW m \in r.nodes \ {n}, NEW i \in DOMAIN h.vnode[m]
       PROVE  \E j \in Positions(t) : t[j] = [hash |-> h.vnode[m][i], node |-> m]
  <2>1. PICK j \in Positions(vs) : vs[j] = [hash |-> h.vnode[m][i], node |-> m]
    BY <1>1
  <2>2. vs[j].node # n /\ j \in 1 .. Len(vs)
    BY <2>1 DEF Positions
  <2>3. QED
    BY <1>8, <2>1, <2>2 DEF KeptOf
<1>16. RingOK(q, h)
  BY <1>10, <1>11, <1>12, <1>13, <1>14, <1>15 DEF RingOK
<1>17. QED
  BY <1>9, <1>10, <1>16

LEMMA ModWrap ==
    ASSUME NEW n \in Nat \ {0}, NEW a \in 0 .. n - 1, NEW b \in 0 .. n - 1
    PROVE  (a + b) % n = IF a + b < n THEN a + b ELSE a + b - n
<1>1. CASE a + b < n
  BY <1>1
<1>2. CASE a + b >= n
  <2>1. a + b - n \in 0 .. n - 1
    BY <1>2
  <2>2. PICK c \in 0 .. n - 1 : a + b = n + c
    BY <2>1
  <2>3. (n + c) % n = c
    OBVIOUS
  <2>4. QED
    BY <1>2, <2>2, <2>3
<1>3. QED
  BY <1>1, <1>2

\* find_vnode gives the first virtual node that is at or after the hash, if there is one.
LEMMA FindVnodeIs ==
    ASSUME NEW r, r.vnodes \in Seq(Vnode), r.vnodes # <<>>, Ascending(r.vnodes), NEW x \in Nat
    PROVE  LET n == Len(r.vnodes)  s == FindVnode(r, x)
           IN  /\ s \in 0 .. n - 1
               /\ \/ /\ \A i \in 1 .. s : r.vnodes[i].hash < x
                     /\ \A i \in s + 1 .. n : r.vnodes[i].hash >= x
                  \/ s = 0 /\ \A i \in 1 .. n : r.vnodes[i].hash < x
<1> DEFINE n == Len(r.vnodes)
           below == {i \in 0 .. n - 1 : r.vnodes[i + 1].hash < x}
           lo == FirstNotBelow(n, below)
<1>0. n \in Nat \ {0} /\ Positions(r.vnodes) = 1 .. n
  BY DEF Positions
<1>1. \A i \in 1 .. n : r.vnodes[i].hash \in Nat
  BY <1>0, VnodeHash
<1>2. Stops(0, n, lo, below)
  BY <1>0, FirstNotBelowStops
<1>3. FindVnode(r, x) = IF lo >= n THEN 0 ELSE lo
  BY DEF FindVnode
<1>4. /\ \A i \in 1 .. n : i - 1 \in below <=> r.vnodes[i].hash < x
      /\ \A i \in below : i \in 0 .. n - 1 /\ r.vnodes[i + 1].hash < x
  <2>1. \A i \in 1 .. n : i - 1 \in 0 .. n - 1 /\ (i - 1) + 1 = i
    BY <1>0
  <2>2. QED
    BY <2>1
<1> HIDE DEF lo, below
<1>5. \A i, j \in 1 .. n : i < j => r.vnodes[i].hash < r.vnodes[j].hash
  BY <1>0 DEF Ascending
<1> HIDE DEF n
<1>6. lo \in 0 .. n /\ (lo = 0 \/ lo - 1 \in below) /\ (lo = n \/ lo \notin below)
  BY <1>2 DEF Stops
<1>7. ASSUME NEW i \in 1 .. lo PROVE r.vnodes[i].hash < x
  <2>1. lo \in 1 .. n /\ i \in 1 .. n /\ lo - 1 \in below
    BY <1>0, <1>6
  <2>2. r.vnodes[lo].hash < x
    BY <1>4, <2>1
  <2>3. i = lo \/ r.vnodes[i].hash < r.vnodes[lo].hash
    BY <1>5, <2>1
  <2>4. QED
    BY <1>1, <2>1, <2>2, <2>3
<1>8. ASSUME NEW i \in lo + 1 .. n PROVE r.vnodes[i].hash >= x
  <2>1. lo + 1 \in 1 .. n /\ i \in 1 .. n /\ lo \notin below
    BY <1>0, <1>6
  <2>2. (lo + 1) - 1 = lo
    BY <1>6
  <2>3. ~(r.vnodes[lo + 1].hash < x)
    BY <1>4, <2>1, <2>2
  <2>4. i = lo + 1 \/ r.vnodes[lo + 1].hash < r.vnodes[i].hash
    BY <1>5, <1>6, <2>1
  <2>5. r.vnodes[lo + 1].hash \in Nat /\ r.vnodes[i].hash \in Nat
    BY <1>1, <2>1
  <2>6. QED
    BY <2>3, <2>4, <2>5
<1>9. CASE lo >= n
  <2>1. lo = n /\ FindVnode(r, x) = 0
    BY <1>0, <1>3, <1>6, <1>9
  <2>2. \A i \in 1 .. n : r.vnodes[i].hash < x
    BY <1>7, <2>1
  <2>3. QED
    BY <1>0, <2>1, <2>2 DEF n
<1>10. CASE lo < n
  <2>1. FindVnode(r, x) = lo /\ lo \in 0 .. n - 1
    BY <1>0, <1>3, <1>6, <1>10
  <2>2. QED
    BY <1>7, <1>8, <2>1 DEF n
<1>11. QED
  BY <1>0, <1>6, <1>9, <1>10

\* The nodes that hash_ring_get_replicas has taken of the first i it met: each once, in
\* the order in which they were met, and all of them until there are enough.
Taken(ns, target, t, i) ==
    /\ t \in Seq(Node) /\ Len(t) <= target
    /\ \A a, b \in Positions(t) : t[a] = t[b] => a = b
    /\ Len(t) = target \/ \A j \in 1 .. i : \E a \in Positions(t) : t[a] = ns[j]
    /\ \A a \in Positions(t) : \E j \in 1 .. i :
          ns[j] = t[a] /\ \A l \in 1 .. j - 1 : \E b \in 1 .. a - 1 : t[b] = ns[l]

TakenNext(t, target, node) ==
    IF Len(t) >= target \/ Contains(t, node) THEN t ELSE Append(t, node)

LEMMA TakenStep ==
    ASSUME NEW n \in Nat, NEW ns \in [1 .. n -> Node], NEW target \in Nat,
           NEW i \in 1 .. n, NEW t, Taken(ns, target, t, i - 1)
    PROVE  Taken(ns, target, TakenNext(t, target, ns[i]), i)
<1>1. /\ t \in Seq(Node) /\ Len(t) <= target /\ Len(t) \in Nat
      /\ \A a, b \in Positions(t) : t[a] = t[b] => a = b
      /\ Len(t) = target \/ \A j \in 1 .. i - 1 : \E a \in Positions(t) : t[a] = ns[j]
      /\ \A a \in Positions(t) : \E j \in 1 .. i - 1 :
            ns[j] = t[a] /\ \A l \in 1 .. j - 1 : \E b \in 1 .. a - 1 : t[b] = ns[l]
  BY DEF Taken
<1>2. /\ i \in Nat /\ i \in 1 .. i /\ ns[i] \in Node
      /\ \A j \in 1 .. i : j = i \/ j \in 1 .. i - 1
      /\ \A j \in 1 .. i - 1 : j \in 1 .. i
  OBVIOUS
<1>3. CASE Len(t) >= target \/ Contains(t, ns[i])
  <2>1. TakenNext(t, target, ns[i]) = t
    BY <1>3 DEF TakenNext
  <2>2. Len(t) = target \/ \E a \in Positions(t) : t[a] = ns[i]
    BY <1>1, <1>3 DEF Contains, Positions
  <2>3. Len(t) = target \/ \A j \in 1 .. i : \E a \in Positions(t) : t[a] = ns[j]
    BY <1>1, <1>2, <2>2
  <2>4. QED
    BY <1>1, <1>2, <2>1, <2>3 DEF Taken
<1>4. CASE ~(Len(t) >= target \/ Contains(t, ns[i]))
  <2>1. PICK u : u = Append(t, ns[i])
    OBVIOUS
  <2>2. TakenNext(t, target, ns[i]) = u
    BY <1>4, <2>1 DEF TakenNext
  <2>3. /\ u \in Seq(Node) /\ Len(u) = Len(t) + 1 /\ Len(u) <= target
        /\ \A a \in Positions(t) : a \in Positions(u) /\ u[a] = t[a]
        /\ Len(u) \in Positions(u) /\ u[Len(u)] = ns[i]
        /\ \A a \in Positions(u) : a \in Positions(t) \/ a = Len(u)
        /\ Positions(t) = 1 .. Len(u) - 1
    <3>1. u \in Seq(Node)
      BY <1>1, <1>2, <2>1
    <3>2. Len(u) = Len(t) + 1
      BY <1>1, <2>1
    <3>3. Len(u) <= target
      BY <1>1, <1>4, <3>2
    <3>4. \A a \in 1 .. Len(t) : u[a] = t[a]
      BY <1>1, <2>1
    <3>5. u[Len(u)] = ns[i]
      BY <1>1, <2>1, <3>2
    <3>6. /\ \A a \in 1 .. Len(t) : a \in 1 .. Len(u)
          /\ Len(u) \in 1 .. Len(u)
          /\ \A a \in 1 .. Len(u) : a \in 1 .. Len(t) \/ a = Len(u)
          /\ 1 .. Len(t) = 1 .. Len(u) - 1
      BY <1>1, <3>2
    <3>7. QED
      BY <3>1, <3>2, <3>3, <3>4, <3>5, <3>6 DEF Positions
  <2>4. /\ \A a \in Positions(t) : t[a] # ns[i]
        /\ \A j \in 1 .. i - 1 : \E a \in Positions(t) : t[a] = ns[j]
    BY <1>1, <1>4 DEF Contains, Positions
  <2>5. \A a, b \in Positions(u) : u[a] = u[b] => a = b
    BY <1>1, <2>3, <2>4
  <2>6. \A j \in 1 .. i : \E a \in Positions(u) : u[a] = ns[j]
    BY <1>2, <2>3, <2>4
  <2>7. ASSUME NEW a \in Positions(u)
        PROVE  \E j \in 1 .. i :
                  ns[j] = u[a] /\ \A l \in 1 .. j - 1 : \E b \in 1 .. a - 1 : u[b] = ns[l]
    <3>1. CASE a \in Positions(t)
      <4>1. PICK j \in 1 .. i - 1 :
               ns[j] = t[a] /\ \A l \in 1 .. j - 1 : \E b \in 1 .. a - 1 : t[b] = ns[l]
        BY <1>1, <3>1
      <4>2. \A b \in 1 .. a - 1 : b \in Positions(t)
        BY <1>1, <3>1 DEF Positions
      <4>3. \A l \in 1 .. j - 1 : \E b \in 1 .. a - 1 : u[b] = ns[l]
        BY <2>3, <4>1, <4>2
      <4>4. QED
        BY <1>2, <2>3, <3>1, <4>1, <4>3
    <3>2. CASE a = Len(u)
      <4>1. \A l \in 1 .. i - 1 : \E b \in 1 .. a - 1 : u[b] = ns[l]
        BY <2>3, <2>4, <3>2
      <4>2. QED
        BY <1>2, <2>3, <3>2, <4>1
    <3>3. QED
      BY <2>3, <3>1, <3>2
  <2>8. Taken(ns, target, u, i)
    BY <2>3, <2>5, <2>6, <2>7 DEF Taken
  <2>9. QED
    BY <2>2, <2>8
<1>5. QED
  BY <1>3, <1>4

LEMMA TakenDone ==
    ASSUME NEW n \in Nat, NEW ns \in [1 .. n -> Node], NEW target \in Nat, NEW g,
           g[0] = <<>>, \A i \in 1 .. n : g[i] = TakenNext(g[i - 1], target, ns[i])
    PROVE  Taken(ns, target, g[n], n)
<1> DEFINE S == {i \in 0 .. n : Taken(ns, target, g[i], i)}
<1>1. 0 \in S
  <2>1. <<>> \in Seq(Node) /\ Positions(<<>>) = {} /\ 1 .. 0 = {} /\ Len(<<>>) = 0
    BY DEF Positions
  <2>2. Taken(ns, target, <<>>, 0)
    BY <2>1 DEF Taken
  <2>3. QED
    BY <2>2
<1>2. ASSUME NEW k \in 0 .. n - 1, k \in S PROVE k + 1 \in S
  <2>1. PICK i : i = k + 1
    OBVIOUS
  <2>2. i - 1 = k /\ i \in 0 .. n /\ i \in 1 .. n
    BY <2>1
  <2>3. Taken(ns, target, g[i - 1], i - 1)
    BY <1>2, <2>2
  <2>4. Taken(ns, target, TakenNext(g[i - 1], target, ns[i]), i)
    BY <2>2, <2>3, TakenStep
  <2>5. Taken(ns, target, g[i], i)
    BY <2>2, <2>4
  <2>6. QED
    BY <2>1, <2>2, <2>5
<1> HIDE DEF S
<1>3. n \in S
  <2>1. \A k \in 0 .. n : k \in S
    BY <1>1, <1>2, UpTo
  <2>2. QED
    BY <2>1
<1>4. QED
  BY <1>3 DEF S

LEMMA SmallerOf ==
    ASSUME NEW a \in Nat, NEW b \in Nat
    PROVE  Min({a, b}) = IF a <= b THEN a ELSE b
<1> DEFINE c == IF a <= b THEN a ELSE b
<1>1. c \in {a, b} /\ \A y \in {a, b} : c <= y
  OBVIOUS
<1>2. \A d \in {a, b} : (\A y \in {a, b} : d <= y) => d = c
  OBVIOUS
<1> HIDE DEF c
<1>3. (CHOOSE d \in {a, b} : \A y \in {a, b} : d <= y) = c
  BY <1>1, <1>2
<1>4. Min({a, b}) = CHOOSE d \in {a, b} : \A y \in {a, b} : d <= y
  BY DEF Min
<1>5. QED
  BY <1>3, <1>4 DEF c

\* The nodes that the walk of hash_ring_get_replicas meets, from a position on.
Met(r, start) ==
    [i \in 1 .. Len(r.vnodes) |-> r.vnodes[((start + i - 1) % Len(r.vnodes)) + 1].node]

\* The function that the walk computes.
IsWalk(g, r, start, target) ==
    g = [i \in 0 .. Len(r.vnodes) |->
           IF i = 0 THEN <<>>
           ELSE IF \/ Len(g[i - 1]) >= target
                   \/ Contains(g[i - 1], r.vnodes[((start + i - 1) % Len(r.vnodes)) + 1].node)
                THEN g[i - 1]
                ELSE Append(g[i - 1], r.vnodes[((start + i - 1) % Len(r.vnodes)) + 1].node)]

WalkPlace(n, start, i) == ((start + i - 1) % n) + 1

LEMMA WalkPlaceIs ==
    ASSUME NEW n \in Nat \ {0}, NEW start \in 0 .. n - 1, NEW i \in 1 .. n
    PROVE  /\ WalkPlace(n, start, i) \in 1 .. n
           /\ WalkPlace(n, start, i) = IF start + i <= n THEN start + i ELSE start + i - n
<1>1. i - 1 \in 0 .. n - 1 /\ start + (i - 1) = start + i - 1
  OBVIOUS
<1>2. (start + (i - 1)) % n = IF start + (i - 1) < n THEN start + (i - 1) ELSE start + (i - 1) - n
  BY <1>1, ModWrap
<1>3. QED
  BY <1>1, <1>2 DEF WalkPlace

LEMMA MetTyped ==
    ASSUME NEW r, r.vnodes \in Seq(Vnode), r.vnodes # <<>>, NEW start \in 0 .. Len(r.vnodes) - 1
    PROVE  /\ Met(r, start) \in [1 .. Len(r.vnodes) -> Node]
           /\ \A i \in 1 .. Len(r.vnodes) :
                 /\ WalkPlace(Len(r.vnodes), start, i) \in 1 .. Len(r.vnodes)
                 /\ Met(r, start)[i] = r.vnodes[WalkPlace(Len(r.vnodes), start, i)].node
<1> DEFINE n == Len(r.vnodes)
<1>1. n \in Nat \ {0}
  OBVIOUS
<1>2. \A i \in 1 .. n : WalkPlace(n, start, i) \in 1 .. n
  BY <1>1, WalkPlaceIs
<1>3. \A i \in 1 .. n : r.vnodes[WalkPlace(n, start, i)].node \in Node
  <2>1. \A j \in 1 .. n : r.vnodes[j].node \in Node
    BY VnodeHash DEF Positions
  <2>2. QED
    BY <1>2, <2>1
<1>4. QED
  BY <1>2, <1>3 DEF Met, WalkPlace

LEMMA WalkExists ==
    ASSUME NEW r, r.vnodes \in Seq(Vnode), r.vnodes # <<>>,
           NEW start \in 0 .. Len(r.vnodes) - 1, NEW target \in Nat
    PROVE  \E g : IsWalk(g, r, start, target)
<1> DEFINE n == Len(r.vnodes)
           ns == Met(r, start)
           F == [x \in (1 .. n) \X Seq(Node) |-> TakenNext(x[2], target, ns[x[1]])]
<1>0. n \in Nat \ {0} /\ <<>> \in Seq(Node) /\ n \in Nat
  OBVIOUS
<1>1. ns \in [1 .. n -> Node]
  BY MetTyped
<1>2. \A i \in 1 .. n : ns[i] = r.vnodes[((start + i - 1) % Len(r.vnodes)) + 1].node
  BY DEF Met
<1> HIDE DEF ns, n
<1>3. F \in [(1 .. n) \X Seq(Node) -> Seq(Node)]
  <2>1. \A i \in 1 .. n, t \in Seq(Node) : TakenNext(t, target, ns[i]) \in Seq(Node)
    <3> TAKE i \in 1 .. n, t \in Seq(Node)
    <3>1. Append(t, ns[i]) \in Seq(Node)
      BY <1>1
    <3>2. QED
      BY <3>1 DEF TakenNext
  <2>2. \A x \in (1 .. n) \X Seq(Node) : x[1] \in 1 .. n /\ x[2] \in Seq(Node)
    OBVIOUS
  <2>3. QED
    BY <2>1, <2>2
<1>4. \A i \in 1 .. n, t \in Seq(Node) : F[<<i, t>>] = TakenNext(t, target, ns[i])
  OBVIOUS
<1> HIDE DEF F
<1>5. PICK g : Recurs(g, n, Seq(Node), F, <<>>)
  <2>1. StepsIn(F, n, Seq(Node))
    BY <1>3 DEF StepsIn
  <2>2. QED
    BY <1>0, <2>1, RecursionExists
<1>6. \A i \in 0 .. n :
        g[i] = IF i = 0 THEN <<>> ELSE TakenNext(g[i - 1], target, ns[i])
  <2> TAKE i \in 0 .. n
  <2>1. CASE i = 0
    BY <1>5, <2>1 DEF Recurs
  <2>2. CASE i # 0
    <3>1. i \in 1 .. n /\ i - 1 \in 0 .. n
      BY <1>0, <2>2
    <3>2. g[i - 1] \in Seq(Node) /\ g[i] = F[<<i, g[i - 1]>>]
      BY <1>5, <3>1 DEF Recurs
    <3>3. QED
      BY <1>4, <2>2, <3>1, <3>2
  <2>3. QED
    BY <2>1, <2>2
<1>7. g = [i \in 0 .. n |-> g[i]]
  BY <1>5 DEF Recurs
<1>8. g = [i \in 0 .. n |-> IF i = 0 THEN <<>> ELSE TakenNext(g[i - 1], target, ns[i])]
  BY <1>6, <1>7
<1>9. g = [i \in 0 .. n |-> IF i = 0 THEN <<>> ELSE TakenNext(g[i - 1], target, r.vnodes[((start + i - 1) % Len(r.vnodes)) + 1].node)]
  <2>1. \A i \in 0 .. n : i = 0 \/ ns[i] = r.vnodes[((start + i - 1) % Len(r.vnodes)) + 1].node
    <3>1. \A i \in 0 .. n : i = 0 \/ i \in 1 .. n
      BY <1>0
    <3>2. QED
      BY <1>2, <3>1
  <2>2. QED
    BY <1>8, <2>1
<1>10. IsWalk(g, r, start, target)
  BY <1>9, Zenon DEF IsWalk, TakenNext, n
<1>11. QED
  BY <1>10

\* hash_ring_get_replicas takes each node the first time the walk meets it.
LEMMA GetReplicasTaken ==
    ASSUME NEW r, r.vnodes \in Seq(Vnode), r.vnodes # <<>>, Ascending(r.vnodes),
           IsFiniteSet(r.nodes), NEW x \in Nat, NEW c \in Nat
    PROVE  Taken(Met(r, FindVnode(r, x)), IF c <= Cardinality(r.nodes) THEN c ELSE Cardinality(r.nodes),
                 GetReplicas(r, x, c), Len(r.vnodes))
<1> DEFINE n == Len(r.vnodes)
           start == FindVnode(r, x)
           target == Min({c, Cardinality(r.nodes)})
           It == CHOOSE g : IsWalk(g, r, start, target)
<1>0. n \in Nat \ {0} /\ Cardinality(r.nodes) \in Nat
  BY FS_CardinalityType
<1>1. GetReplicas(r, x, c) = IF n = 0 THEN <<>> ELSE It[n]
  BY Zenon DEF GetReplicas, IsWalk
<1>2. target = (IF c <= Cardinality(r.nodes) THEN c ELSE Cardinality(r.nodes)) /\ target \in Nat
  BY <1>0, SmallerOf
<1>3. start \in 0 .. n - 1
  BY FindVnodeIs
<1> HIDE DEF start, target
<1>4. IsWalk(It, r, start, target)
  <2>1. \E g : IsWalk(g, r, start, target)
    BY <1>2, <1>3, WalkExists
  <2>2. QED
    BY <2>1, Zenon
<1> HIDE DEF It
<1>5. PICK g : g = It
  OBVIOUS
<1>6. IsWalk(g, r, start, target)
  BY <1>4, <1>5
<1>7. PICK ns : ns = Met(r, start)
  OBVIOUS
<1>8. ns \in [1 .. n -> Node]
  BY <1>3, <1>7, MetTyped
<1>9. g[0] = <<>> /\ \A i \in 1 .. n : g[i] = TakenNext(g[i - 1], target, ns[i])
  <2>1. 0 \in 0 .. n /\ \A i \in 1 .. n : i \in 0 .. n /\ i # 0
    BY <1>0
  <2>2. g[0] = <<>>
    BY <1>6, <2>1 DEF IsWalk
  <2>3. ASSUME NEW i \in 1 .. n PROVE g[i] = TakenNext(g[i - 1], target, ns[i])
    <3>1. ns[i] = r.vnodes[((start + i - 1) % Len(r.vnodes)) + 1].node
      BY <1>7 DEF Met
    <3>2. i \in 0 .. n /\ i # 0
      BY <2>1
    <3>3. g[i] = TakenNext(g[i - 1], target, r.vnodes[((start + i - 1) % Len(r.vnodes)) + 1].node)
      BY <1>6, <3>2 DEF IsWalk, TakenNext
    <3>4. QED
      BY <3>1, <3>3
  <2>4. QED
    BY <2>2, <2>3
<1>10. Taken(ns, target, g[n], n)
  BY <1>0, <1>2, <1>8, <1>9, TakenDone
<1>11. QED
  BY <1>0, <1>1, <1>2, <1>5, <1>7, <1>10 DEF start

-----------------------------------------------------------------------------
(* The replicas of a hash. *)

\* Every virtual node is met once by the walk.
LEMMA WalkMeets ==
    ASSUME NEW n \in Nat \ {0}, NEW start \in 0 .. n - 1, NEW j \in 1 .. n
    PROVE  \E i \in 1 .. n : WalkPlace(n, start, i) = j
<1>1. CASE j > start
  <2>1. j - start \in 1 .. n /\ start + (j - start) = j
    BY <1>1
  <2>2. WalkPlace(n, start, j - start) = j
    BY <2>1, WalkPlaceIs
  <2>3. QED
    BY <2>1, <2>2
<1>2. CASE j <= start
  <2>1. j - start + n \in 1 .. n /\ start + (j - start + n) = j + n /\ ~(j + n <= n) /\ j + n - n = j
    BY <1>2
  <2>2. WalkPlace(n, start, j - start + n) = j
    BY <2>1, WalkPlaceIs
  <2>3. QED
    BY <2>1, <2>2
<1>3. QED
  BY <1>1, <1>2

\* A node of the ring has virtual nodes there, and one of each of its hashes.
LEMMA RingNode ==
    ASSUME NEW h, HashOK(h), NEW r, RingOK(r, h), NEW m \in r.nodes
    PROVE  /\ m \in Node
           /\ \E j \in Positions(r.vnodes) : r.vnodes[j].node = m
<1>1. m \in Node
  BY DEF RingOK
<1>2. h.vnode[m] # <<>> /\ h.vnode[m] \in Seq(0 .. h.points - 1)
  BY <1>1 DEF HashOK
<1>3. 1 \in DOMAIN h.vnode[m]
  BY <1>2
<1>4. PICK j \in Positions(r.vnodes) : r.vnodes[j] = [hash |-> h.vnode[m][1], node |-> m]
  BY <1>3 DEF RingOK
<1>5. QED
  BY <1>1, <1>4

LEMMA RingTyped ==
    ASSUME NEW h, NEW r, RingOK(r, h)
    PROVE  /\ r.vnodes \in Seq(Vnode) /\ Ascending(r.vnodes)
           /\ IsFiniteSet(r.nodes) /\ r.nodes \subseteq Node /\ Cardinality(r.nodes) \in Nat
           /\ \A i \in Positions(r.vnodes) : r.vnodes[i].node \in r.nodes /\ Proper(r.vnodes[i], h)
<1>1. /\ r.vnodes \in Seq(Vnode) /\ Ascending(r.vnodes)
      /\ IsFiniteSet(r.nodes) /\ r.nodes \subseteq Node
      /\ \A i \in Positions(r.vnodes) : r.vnodes[i].node \in r.nodes /\ Proper(r.vnodes[i], h)
  BY DEF RingOK
<1>2. QED
  BY <1>1, FS_CardinalityType

Smaller(a, b) == IF a <= b THEN a ELSE b

\* As many replicas as there are nodes, up to the number that is asked for.
LEMMA GetReplicasMany ==
    ASSUME NEW h, HashOK(h), NEW r, RingOK(r, h), NEW x \in Nat, NEW c \in Nat
    PROVE  Len(GetReplicas(r, x, c)) = Smaller(c, Cardinality(r.nodes))
<1> DEFINE n == Len(r.vnodes)
           t == GetReplicas(r, x, c)
           target == Smaller(c, Cardinality(r.nodes))
<1>0. /\ r.vnodes \in Seq(Vnode) /\ Ascending(r.vnodes) /\ n \in Nat
      /\ IsFiniteSet(r.nodes) /\ Cardinality(r.nodes) \in Nat /\ Positions(r.vnodes) = 1 .. n
  BY RingTyped DEF Positions
<1>1. CASE r.vnodes = <<>>
  <2>1. r.nodes = {}
    <3>1. Positions(r.vnodes) = {}
      BY <1>1 DEF Positions
    <3>2. QED
      BY <3>1, RingNode
  <2>2. Cardinality(r.nodes) = 0
    BY <2>1, FS_EmptySet
  <2>3. t = <<>> /\ Len(t) = 0
    BY <1>1 DEF GetReplicas
  <2>4. QED
    BY <2>2, <2>3 DEF Smaller
<1>2. CASE r.vnodes # <<>>
  <2> DEFINE start == FindVnode(r, x)
             ns == Met(r, start)
  <2>1. Taken(ns, target, t, n)
    BY <1>0, <1>2, GetReplicasTaken DEF Smaller
  <2>2. start \in 0 .. n - 1 /\ n \in Nat \ {0}
    BY <1>0, <1>2, FindVnodeIs
  <2>3. \A i \in 1 .. n : ns[i] = r.vnodes[WalkPlace(n, start, i)].node
    BY <1>0, <1>2, <2>2, MetTyped
  <2> HIDE DEF t, target, start, ns, n
  <2>4. t \in Seq(Node) /\ Len(t) <= target /\ Len(t) \in Nat
    BY <2>1 DEF Taken
  <2>5. CASE Len(t) = target
    BY <2>5 DEF t, target
  <2>6. CASE \A j \in 1 .. n : \E a \in Positions(t) : t[a] = ns[j]
    <3>1. \A m \in r.nodes : \E a \in 1 .. Len(t) : t[a] = m
      <4> TAKE m \in r.nodes
      <4>1. PICK j \in 1 .. n : r.vnodes[j].node = m
        BY <1>0, RingNode
      <4>2. PICK i \in 1 .. n : WalkPlace(n, start, i) = j
        BY <2>2, WalkMeets
      <4>3. ns[i] = m
        BY <2>3, <4>1, <4>2
      <4>4. QED
        BY <2>6, <4>3 DEF Positions
    <3> DEFINE f == [m \in r.nodes |-> CHOOSE a \in 1 .. Len(t) : t[a] = m]
    <3>2. \A m \in r.nodes : f[m] \in 1 .. Len(t) /\ t[f[m]] = m
      BY <3>1
    <3>3. f \in [r.nodes -> 1 .. Len(t)]
      BY <3>2
    <3> HIDE DEF f
    <3>4. \A y, z \in r.nodes : f[y] = f[z] => y = z
      BY <3>2
    <3>5. IsFiniteSet(1 .. Len(t)) /\ Cardinality(1 .. Len(t)) = Len(t)
      BY <2>4, InitialFinite
    <3>6. ~(Cardinality(1 .. Len(t)) < Cardinality(r.nodes))
      <4> SUFFICES ASSUME Cardinality(1 .. Len(t)) < Cardinality(r.nodes) PROVE FALSE
        OBVIOUS
      <4>1. \E y, z \in r.nodes : y # z /\ f[y] = f[z]
        BY <1>0, <3>3, <3>5, FS_PigeonHole
      <4>2. QED
        BY <3>4, <4>1
    <3>7. QED
      BY <1>0, <2>4, <3>5, <3>6 DEF t, target, Smaller
  <2>7. QED
    BY <2>1, <2>5, <2>6 DEF Taken
<1>3. QED
  BY <1>1, <1>2

\* The replicas are nodes of the ring, each once.
LEMMA GetReplicasNodes ==
    ASSUME NEW h, NEW r, RingOK(r, h), NEW x \in Nat, NEW c \in Nat
    PROVE  /\ GetReplicas(r, x, c) \in Seq(Node)
           /\ \A a, b \in Positions(GetReplicas(r, x, c)) :
                 GetReplicas(r, x, c)[a] = GetReplicas(r, x, c)[b] => a = b
           /\ \A a \in Positions(GetReplicas(r, x, c)) : GetReplicas(r, x, c)[a] \in r.nodes
<1> DEFINE n == Len(r.vnodes)
<1>t. PICK t : t = GetReplicas(r, x, c)
  OBVIOUS
<1>0. /\ r.vnodes \in Seq(Vnode) /\ Ascending(r.vnodes) /\ n \in Nat
      /\ IsFiniteSet(r.nodes) /\ Positions(r.vnodes) = 1 .. n
      /\ \A i \in Positions(r.vnodes) : r.vnodes[i].node \in r.nodes
  BY RingTyped DEF Positions
<1>1. CASE r.vnodes = <<>>
  <2>1. t = <<>>
    BY <1>1, <1>t DEF GetReplicas
  <2>2. Positions(t) = {} /\ t \in Seq(Node)
    BY <2>1 DEF Positions
  <2>3. QED
    BY <1>t, <2>2
<1>2. CASE r.vnodes # <<>>
  <2>1. PICK start : start = FindVnode(r, x)
    OBVIOUS
  <2>2. PICK ns : ns = Met(r, start)
    OBVIOUS
  <2>3. PICK target : Taken(ns, target, t, n)
    BY <1>0, <1>2, <1>t, <2>1, <2>2, GetReplicasTaken
  <2>4. start \in 0 .. n - 1 /\ n \in Nat \ {0}
    BY <1>0, <1>2, <2>1, FindVnodeIs
  <2>5. \A i \in 1 .. n : /\ WalkPlace(n, start, i) \in 1 .. n
                          /\ ns[i] = r.vnodes[WalkPlace(n, start, i)].node
    BY <1>0, <1>2, <2>2, <2>4, MetTyped
  <2> HIDE DEF n
  <2>6. \A i \in 1 .. n : ns[i] \in r.nodes
    BY <1>0, <2>5
  <2>7. \A a \in Positions(t) : t[a] \in r.nodes
    BY <2>3, <2>6 DEF Taken
  <2>8. QED
    BY <1>t, <2>3, <2>7 DEF Taken
<1>3. QED
  BY <1>1, <1>2

\* How far clockwise from x a hash y is, of p points.
Dist(p, x, y) == IF y >= x THEN y - x ELSE y - x + p

LEMMA DistIs ==
    ASSUME NEW p \in Nat, NEW x \in 0 .. p - 1, NEW y \in 0 .. p - 1, NEW e \in 0 .. p - 1
    PROVE  /\ Dist(p, x, y) \in 0 .. p - 1
           /\ y = (x + e) % p <=> e = Dist(p, x, y)
<1>1. p \in Nat \ {0}
  OBVIOUS
<1>2. (x + e) % p = IF x + e < p THEN x + e ELSE x + e - p
  BY <1>1, ModWrap
<1>3. QED
  BY <1>1, <1>2 DEF Dist

\* Away is the least distance of a virtual node of n.
LEMMA AwayIs ==
    ASSUME HashOK(hash), NEW n \in Node, NEW x \in 0 .. hash.points - 1
    PROVE  /\ Away(n, x) \in Nat
           /\ \E i \in DOMAIN hash.vnode[n] : Away(n, x) = Dist(hash.points, x, hash.vnode[n][i])
           /\ \A i \in DOMAIN hash.vnode[n] : Away(n, x) <= Dist(hash.points, x, hash.vnode[n][i])
<1> DEFINE p == hash.points
           hs == hash.vnode[n]
           Meets(e) == \E i \in DOMAIN hs : hs[i] = (x + e) % p
           T == {Dist(p, x, hs[i]) : i \in DOMAIN hs}
           Least(d) == Meets(d) /\ \A e \in 0 .. d - 1 : ~Meets(e)
<1>1. p \in Nat /\ hs # <<>> /\ hs \in Seq(0 .. p - 1)
  BY DEF HashOK
<1>2. \A i \in DOMAIN hs : hs[i] \in 0 .. p - 1
  BY <1>1
<1>3. 1 \in DOMAIN hs
  BY <1>1
<1>4. Away(n, x) = CHOOSE d \in 0 .. p - 1 : Least(d)
  BY DEF Away
<1> HIDE DEF hs, p
<1>5. \A e \in 0 .. p - 1 : Meets(e) <=> e \in T
  <2> TAKE e \in 0 .. p - 1
  <2>1. \A i \in DOMAIN hs : hs[i] = (x + e) % p <=> e = Dist(p, x, hs[i])
    BY <1>1, <1>2, DistIs, ZenonT(40) DEF p
  <2>2. QED
    BY <2>1
<1>6. \A i \in DOMAIN hs : Dist(p, x, hs[i]) \in 0 .. p - 1
  <2> TAKE i \in DOMAIN hs
  <2>1. hs[i] \in 0 .. p - 1 /\ x \in 0 .. p - 1
    BY <1>2 DEF p
  <2>2. QED
    BY <1>1, <2>1, DistIs
<1>7. T \in SUBSET (0 .. p - 1) /\ T \in SUBSET Nat /\ T # {}
  <2>1. T \in SUBSET (0 .. p - 1)
    BY <1>6, Zenon
  <2>2. Dist(p, x, hs[1]) \in T
    BY <1>3, Zenon
  <2>3. QED
    BY <1>1, <2>1, <2>2
<1> HIDE DEF T, Meets
<1>8. PICK m \in T : \A y \in T : m <= y
  BY <1>7, LeastNat
<1>9. m \in 0 .. p - 1 /\ m \in Nat
  BY <1>7, <1>8
<1>10. Least(m)
  <2>1. Meets(m)
    BY <1>5, <1>8, <1>9
  <2>2. \A e \in 0 .. m - 1 : e \in 0 .. p - 1 /\ ~(m <= e)
    BY <1>1, <1>9
  <2>3. \A e \in 0 .. m - 1 : ~Meets(e)
    BY <1>5, <1>8, <2>2
  <2>4. QED
    BY <2>1, <2>3
<1> HIDE DEF Least
<1>11. Away(n, x) \in 0 .. p - 1 /\ Least(Away(n, x))
  BY <1>4, <1>9, <1>10
<1>12. PICK d : d = Away(n, x)
  OBVIOUS
<1>13. d \in 0 .. p - 1 /\ d \in T /\ \A e \in 0 .. d - 1 : e \notin T
  <2>1. d \in 0 .. p - 1 /\ Meets(d) /\ \A e \in 0 .. d - 1 : ~Meets(e)
    BY <1>11, <1>12 DEF Least
  <2>2. \A e \in 0 .. d - 1 : e \in 0 .. p - 1
    BY <1>1, <2>1
  <2>3. QED
    BY <1>5, <2>1, <2>2
<1>14. \A y \in T : d <= y
  <2> TAKE y \in T
  <2>1. y \in 0 .. p - 1 /\ y \notin 0 .. d - 1
    BY <1>7, <1>13
  <2>2. QED
    BY <1>1, <1>13, <2>1
<1>15. /\ d \in Nat
       /\ \E i \in DOMAIN hs : d = Dist(p, x, hs[i])
       /\ \A i \in DOMAIN hs : d <= Dist(p, x, hs[i])
  <2>1. d \in Nat
    BY <1>1, <1>13
  <2>2. \E i \in DOMAIN hs : d = Dist(p, x, hs[i])
    BY <1>13, Zenon DEF T
  <2>3. \A i \in DOMAIN hs : Dist(p, x, hs[i]) \in T
    BY Zenon DEF T
  <2>4. QED
    BY <1>14, <2>1, <2>2, <2>3
<1>16. QED
  BY <1>12, <1>15 DEF hs, p

LEMMA ElementOf ==
    ASSUME NEW S, NEW s \in Seq(S), NEW i \in DOMAIN s
    PROVE  s[i] \in S
OBVIOUS

LEMMA DistOrder ==
    ASSUME NEW p \in Nat, NEW x \in 0 .. p - 1, NEW u \in 0 .. p - 1, NEW v \in 0 .. p - 1,
           \/ u >= x /\ v >= x /\ u < v
           \/ u < x /\ v < x /\ u < v
           \/ u >= x /\ v < x
    PROVE  Dist(p, x, u) < Dist(p, x, v)
BY DEF Dist

\* The walk goes clockwise: what it meets later is farther away.
LEMMA WalkClockwise ==
    ASSUME NEW h, HashOK(h), NEW r, RingOK(r, h), r.vnodes # <<>>, NEW x \in 0 .. h.points - 1,
           NEW i \in Positions(r.vnodes), NEW j \in Positions(r.vnodes), i < j
    PROVE  Dist(h.points, x, r.vnodes[WalkPlace(Len(r.vnodes), FindVnode(r, x), i)].hash)
              < Dist(h.points, x, r.vnodes[WalkPlace(Len(r.vnodes), FindVnode(r, x), j)].hash)
<1> DEFINE n == Len(r.vnodes)
<1>1. /\ r.vnodes \in Seq(Vnode) /\ Ascending(r.vnodes) /\ Positions(r.vnodes) = 1 .. n
      /\ \A k \in Positions(r.vnodes) : Proper(r.vnodes[k], h) /\ r.vnodes[k].node \in r.nodes
      /\ r.nodes \subseteq Node
  BY RingTyped DEF Positions
<1>2. n \in Nat \ {0}
  BY <1>1
<1>3. h.points \in Nat /\ x \in Nat
  BY DEF HashOK
<1>4. PICK s : s = FindVnode(r, x)
  OBVIOUS
<1>5. /\ s \in 0 .. n - 1
      /\ \/ /\ \A k \in 1 .. s : r.vnodes[k].hash < x
            /\ \A k \in s + 1 .. n : r.vnodes[k].hash >= x
         \/ s = 0 /\ \A k \in 1 .. n : r.vnodes[k].hash < x
  BY <1>1, <1>3, <1>4, FindVnodeIs
<1>6. \A k \in 1 .. n : r.vnodes[k].hash \in 0 .. h.points - 1
  <2> TAKE k \in 1 .. n
  <2>1. PICK m \in Node : m = r.vnodes[k].node
    BY <1>1
  <2>2. PICK l \in DOMAIN h.vnode[m] : r.vnodes[k].hash = h.vnode[m][l]
    BY <1>1, <2>1 DEF Proper
  <2>3. h.vnode[m] \in Seq(0 .. h.points - 1)
    BY DEF HashOK
  <2>4. QED
    BY <2>2, <2>3, ElementOf
<1>7. \A k, l \in 1 .. n : k < l => r.vnodes[k].hash < r.vnodes[l].hash
  BY <1>1 DEF Ascending
<1> HIDE DEF n
<1>8. PICK a : a = WalkPlace(n, s, i)
  OBVIOUS
<1>9. PICK b : b = WalkPlace(n, s, j)
  OBVIOUS
<1>10. i \in 1 .. n /\ j \in 1 .. n
  BY <1>1
<1>11. a \in 1 .. n /\ a = IF s + i <= n THEN s + i ELSE s + i - n
  BY <1>2, <1>5, <1>8, <1>10, WalkPlaceIs
<1>12. b \in 1 .. n /\ b = IF s + j <= n THEN s + j ELSE s + j - n
  BY <1>2, <1>5, <1>9, <1>10, WalkPlaceIs
<1>13. PICK u \in 0 .. h.points - 1 : u = r.vnodes[a].hash
  BY <1>6, <1>11
<1>14. PICK v \in 0 .. h.points - 1 : v = r.vnodes[b].hash
  BY <1>6, <1>12
<1>15. \/ u >= x /\ v >= x /\ u < v
       \/ u < x /\ v < x /\ u < v
       \/ u >= x /\ v < x
  <2>1. CASE \A k \in 1 .. n : r.vnodes[k].hash < x
    <3>1. u < x /\ v < x
      BY <1>11, <1>12, <1>13, <1>14, <2>1
    <3>2. CASE s = 0
      <4>1. a = i /\ b = j
        BY <1>2, <1>10, <1>11, <1>12, <3>2
      <4>2. u < v
        BY <1>7, <1>10, <1>13, <1>14, <4>1
      <4>3. QED
        BY <3>1, <4>2
    <3>3. CASE s # 0
      <4>1. s + 1 \in 1 .. n /\ s + 1 \in s + 1 .. n
        BY <1>2, <1>5
      <4>2. r.vnodes[s + 1].hash >= x /\ r.vnodes[s + 1].hash < x
        BY <1>5, <2>1, <3>3, <4>1
      <4>3. r.vnodes[s + 1].hash \in 0 .. h.points - 1
        BY <1>6, <4>1
      <4>4. QED
        BY <1>3, <4>2, <4>3
    <3>4. QED
      BY <3>2, <3>3
  <2>2. CASE /\ \A k \in 1 .. s : r.vnodes[k].hash < x
             /\ \A k \in s + 1 .. n : r.vnodes[k].hash >= x
    <3>1. CASE s + j <= n
      <4>1. a \in s + 1 .. n /\ b \in s + 1 .. n /\ a < b
        BY <1>2, <1>5, <1>10, <1>11, <1>12, <3>1
      <4>2. u >= x /\ v >= x /\ u < v
        BY <1>7, <1>11, <1>12, <1>13, <1>14, <2>2, <4>1
      <4>3. QED
        BY <4>2
    <3>2. CASE s + i <= n /\ s + j > n
      <4>1. a \in s + 1 .. n /\ b \in 1 .. s
        BY <1>2, <1>5, <1>10, <1>11, <1>12, <3>2
      <4>2. u >= x /\ v < x
        BY <1>13, <1>14, <2>2, <4>1
      <4>3. QED
        BY <4>2
    <3>3. CASE s + i > n
      <4>1. a \in 1 .. s /\ b \in 1 .. s /\ a < b
        BY <1>2, <1>5, <1>10, <1>11, <1>12, <3>3
      <4>2. u < x /\ v < x /\ u < v
        BY <1>7, <1>11, <1>12, <1>13, <1>14, <2>2, <4>1
      <4>3. QED
        BY <4>2
    <3>4. QED
      BY <1>2, <1>5, <1>10, <3>1, <3>2, <3>3
  <2>3. QED
    BY <1>5, <2>1, <2>2
<1>16. Dist(h.points, x, u) < Dist(h.points, x, v)
  BY <1>3, <1>15, DistOrder
<1>17. QED
  BY <1>4, <1>8, <1>9, <1>13, <1>14, <1>16 DEF n

\* hash_ring_get_replicas: the nodes nearest clockwise, nearest first.
LEMMA ReplicasNearest ==
    ASSUME HashOK(hash), NEW r, RingOK(r, hash), NEW x \in 0 .. hash.points - 1, NEW c \in Nat,
           NEW kept, kept = GetReplicas(r, x, c), NEW a \in DOMAIN kept, NEW m \in r.nodes,
           m \notin {kept[b] : b \in 1 .. a}
    PROVE  Away(kept[a], x) < Away(m, x)
<1> DEFINE n == Len(r.vnodes)
           D(i) == Dist(hash.points, x, r.vnodes[WalkPlace(n, FindVnode(r, x), i)].hash)
<1>1. /\ r.vnodes \in Seq(Vnode) /\ Ascending(r.vnodes) /\ Positions(r.vnodes) = 1 .. n
      /\ \A k \in 1 .. n : Proper(r.vnodes[k], hash) /\ r.vnodes[k].node \in r.nodes
      /\ r.nodes \subseteq Node /\ IsFiniteSet(r.nodes)
  BY RingTyped DEF Positions
<1>2. r.vnodes # <<>>
  <2>1. PICK j \in Positions(r.vnodes) : r.vnodes[j].node = m
    BY RingNode
  <2>2. QED
    BY <2>1 DEF Positions
<1>3. n \in Nat \ {0} /\ hash.points \in Nat /\ x \in Nat
  BY <1>1, <1>2 DEF HashOK
<1>4. PICK s : s = FindVnode(r, x)
  OBVIOUS
<1>5. s \in 0 .. n - 1
  BY <1>1, <1>2, <1>3, <1>4, FindVnodeIs
<1>6. PICK ns : ns = Met(r, s)
  OBVIOUS
<1>7. PICK target : Taken(ns, target, kept, n)
  BY <1>1, <1>2, <1>3, <1>4, <1>6, GetReplicasTaken
<1>8. \A i \in 1 .. n : /\ WalkPlace(n, s, i) \in 1 .. n
                        /\ ns[i] = r.vnodes[WalkPlace(n, s, i)].node
  BY <1>1, <1>2, <1>5, <1>6, MetTyped
<1>9. a \in Positions(kept) /\ kept \in Seq(Node)
  BY <1>7 DEF Taken, Positions
<1>10. PICK j \in 1 .. n :
          ns[j] = kept[a] /\ \A l \in 1 .. j - 1 : \E b \in 1 .. a - 1 : kept[b] = ns[l]
  BY <1>7, <1>9 DEF Taken
<1>11. \A i, k \in 1 .. n : i < k => D(i) < D(k)
  BY <1>1, <1>2, WalkClockwise
<1>12. \A i \in 1 .. n : D(i) = Dist(hash.points, x, r.vnodes[WalkPlace(n, s, i)].hash)
  BY <1>4
<1> HIDE DEF D, n
<1>13. kept[a] \in Node /\ m \in Node
  BY <1>1, <1>9 DEF Positions
<1>14. Away(kept[a], x) <= D(j) /\ D(j) \in Nat /\ Away(kept[a], x) \in Nat
  <2>1. PICK q \in 1 .. n : q = WalkPlace(n, s, j)
    BY <1>8
  <2>2. r.vnodes[q].node = kept[a] /\ Proper(r.vnodes[q], hash)
    BY <1>1, <1>8, <1>10, <2>1
  <2>3. PICK i \in DOMAIN hash.vnode[kept[a]] : r.vnodes[q].hash = hash.vnode[kept[a]][i]
    BY <2>2 DEF Proper
  <2>4. /\ Away(kept[a], x) <= Dist(hash.points, x, hash.vnode[kept[a]][i])
        /\ Away(kept[a], x) \in Nat
    BY <1>13, <2>3, AwayIs
  <2>5. D(j) = Dist(hash.points, x, hash.vnode[kept[a]][i])
    BY <1>12, <2>1, <2>3
  <2>6. hash.vnode[kept[a]][i] \in 0 .. hash.points - 1
    <3>1. hash.vnode[kept[a]] \in Seq(0 .. hash.points - 1)
      BY <1>13 DEF HashOK
    <3>2. QED
      BY <2>3, <3>1, ElementOf
  <2>7. Dist(hash.points, x, hash.vnode[kept[a]][i]) \in 0 .. hash.points - 1
    BY <1>3, <2>6, DistIs
  <2>8. QED
    BY <1>3, <2>4, <2>5, <2>7
<1>15. PICK i \in 1 .. n : ns[i] = m /\ Away(m, x) = D(i)
  <2>1. PICK l \in DOMAIN hash.vnode[m] : Away(m, x) = Dist(hash.points, x, hash.vnode[m][l])
    BY <1>13, AwayIs
  <2>2. PICK q \in 1 .. n : r.vnodes[q] = [hash |-> hash.vnode[m][l], node |-> m]
    BY <1>1, <2>1 DEF RingOK
  <2>3. PICK i \in 1 .. n : WalkPlace(n, s, i) = q
    BY <1>3, <1>5, WalkMeets
  <2>4. ns[i] = m /\ D(i) = Dist(hash.points, x, hash.vnode[m][l])
    BY <1>8, <1>12, <2>2, <2>3
  <2>5. QED
    BY <2>1, <2>4
<1>16. j < i
  <2>1. a \in 1 .. a /\ \A b \in 1 .. a - 1 : b \in 1 .. a
    BY <1>9 DEF Positions
  <2>2. \A b \in 1 .. a : kept[b] # m
    OBVIOUS
  <2>3. i # j
    BY <1>10, <1>15, <2>1, <2>2
  <2>4. ~(i \in 1 .. j - 1)
    BY <1>10, <1>15, <2>1, <2>2
  <2>5. QED
    BY <1>3, <2>3, <2>4
<1>17. D(j) < D(i)
  BY <1>11, <1>16
<1>18. Away(m, x) \in Nat
  BY <1>13, AwayIs
<1>19. QED
  BY <1>14, <1>15, <1>17, <1>18

-----------------------------------------------------------------------------
(* Partitions. *)

PartType == [replicas : Seq(Node), leader : Node \cup {0},
             state : {"INIT", "ACTIVE", "READONLY"}]

\* n is the element of s somewhere.
In(n, s) == \E i \in DOMAIN s : s[i] = n

Unique(s) == \A i, j \in DOMAIN s : s[i] = s[j] => i = j

\* The replicas of a partition are among the nodes, each once, and its leader is one
\* of them.
PlacedOn(part, nodes) ==
    /\ Unique(part.replicas)
    /\ \A i \in DOMAIN part.replicas : part.replicas[i] \in nodes
    /\ part.leader # 0 => In(part.leader, part.replicas)

LEMMA HasReplicaIs ==
    ASSUME NEW part \in PartType, NEW n
    PROVE  HasReplica(part, n) <=> In(n, part.replicas)
<1>1. part.replicas \in Seq(Node)
  BY DEF PartType
<1>2. QED
  BY <1>1 DEF HasReplica, In, Contains

LEMMA RemoveAtIs ==
    ASSUME NEW S, NEW s \in Seq(S), NEW i \in 1 .. Len(s), NEW t, t = RemoveAt(s, i)
    PROVE  /\ t \in Seq(S) /\ Len(t) = Len(s) - 1
           /\ \A k \in 1 .. Len(t) : t[k] = IF k < i THEN s[k] ELSE s[k + 1]
<1> DEFINE u == SubSeq(s, 1, i - 1)
           v == SubSeq(s, i + 1, Len(s))
<1>1. /\ u \in Seq(S) /\ Len(u) = i - 1 /\ \A k \in 1 .. i - 1 : u[k] = s[k]
  OBVIOUS
<1>2. /\ v \in Seq(S) /\ Len(v) = Len(s) - i /\ \A k \in 1 .. Len(s) - i : v[k] = s[i + k]
  OBVIOUS
<1>3. t = u \o v
  BY DEF RemoveAt
<1> HIDE DEF u, v
<1>4. /\ t \in Seq(S) /\ Len(t) = Len(s) - 1
      /\ \A k \in 1 .. Len(t) : t[k] = IF k <= i - 1 THEN u[k] ELSE v[k - (i - 1)]
  <2>0. u \in Seq(S) /\ v \in Seq(S)
    BY <1>1, <1>2
  <2>1. t \in Seq(S) /\ Len(t) = Len(u) + Len(v) /\ Len(u) \in Nat /\ Len(v) \in Nat
    <3>1. t \in Seq(S)
      BY <1>3, <2>0
    <3>2. Len(t) = Len(u) + Len(v)
      BY <1>3, <2>0
    <3>3. Len(u) \in Nat /\ Len(v) \in Nat
      BY <2>0
    <3>4. QED
      BY <3>1, <3>2, <3>3
  <2>2. \A k \in 1 .. Len(u) + Len(v) : t[k] = IF k <= Len(u) THEN u[k] ELSE v[k - Len(u)]
    BY <1>1, <1>2, <1>3
  <2>3. QED
    BY <1>1, <1>2, <2>1, <2>2
<1>5. ASSUME NEW k \in 1 .. Len(t) PROVE t[k] = IF k < i THEN s[k] ELSE s[k + 1]
  <2>1. CASE k < i
    BY <1>1, <1>4, <2>1
  <2>2. CASE k >= i
    <3>1. k - (i - 1) \in 1 .. Len(s) - i /\ i + (k - (i - 1)) = k + 1
      BY <1>4, <2>2
    <3>2. QED
      BY <1>2, <1>4, <2>2, <3>1
  <2>3. QED
    BY <2>1, <2>2
<1>6. QED
  BY <1>4, <1>5

LEMMA FirstIs ==
    ASSUME NEW at \in SUBSET Nat, at # {}
    PROVE  First(at) \in at /\ \A j \in at : First(at) <= j
<1>1. \E i \in at : \A j \in at : i <= j
  BY LeastNat
<1>2. QED
  BY <1>1 DEF First

\* partition_remove_replica takes one replica away and nothing else.
LEMMA RemoveReplicaIs ==
    ASSUME NEW part \in PartType, Unique(part.replicas), NEW n, NEW q, q = RemoveReplica(part, n)
    PROVE  /\ q \in PartType /\ q.state = part.state
           /\ q.leader = IF part.leader = n /\ In(n, part.replicas) THEN 0 ELSE part.leader
           /\ Unique(q.replicas)
           /\ \A m : In(m, q.replicas) <=> m # n /\ In(m, part.replicas)
<1> DEFINE rs == part.replicas
           at == {i \in DOMAIN rs : rs[i] = n}
<1>1. rs \in Seq(Node) /\ Len(rs) \in Nat /\ DOMAIN rs = 1 .. Len(rs)
  BY DEF PartType
<1>2. CASE at = {}
  <2>1. q = part
    BY <1>2 DEF RemoveReplica
  <2>2. ~In(n, rs)
    BY <1>2 DEF In
  <2>3. \A m : In(m, rs) => m # n
    BY <2>2
  <2>4. QED
    BY <2>1, <2>2, <2>3
<1>3. CASE at # {}
  <2>1. PICK i : i = First(at)
    OBVIOUS
  <2>2. i \in DOMAIN rs /\ rs[i] = n
    <3>1. at \in SUBSET Nat
      BY <1>1
    <3>2. i \in at
      BY <1>3, <2>1, <3>1, FirstIs
    <3>3. QED
      BY <3>2
  <2>3. PICK t : t = RemoveAt(rs, i)
    OBVIOUS
  <2>4. q = [part EXCEPT !.replicas = t, !.leader = IF part.leader = n THEN 0 ELSE part.leader]
    BY <1>3, <2>1, <2>3 DEF RemoveReplica
  <2>5. /\ t \in Seq(Node) /\ Len(t) = Len(rs) - 1 /\ DOMAIN t = 1 .. Len(t)
        /\ \A k \in 1 .. Len(t) : t[k] = IF k < i THEN rs[k] ELSE rs[k + 1]
    BY <1>1, <2>2, <2>3, RemoveAtIs
  <2>6. /\ q \in PartType /\ q.state = part.state /\ q.replicas = t
        /\ q.leader = IF part.leader = n THEN 0 ELSE part.leader
    BY <2>4, <2>5 DEF PartType
  <2> HIDE DEF at
  <2>7. Unique(t)
    <3> SUFFICES ASSUME NEW a \in DOMAIN t, NEW b \in DOMAIN t, t[a] = t[b] PROVE a = b
      BY DEF Unique
    <3>1. PICK c \in DOMAIN rs : t[a] = rs[c] /\ c = IF a < i THEN a ELSE a + 1
      BY <1>1, <2>2, <2>5
    <3>2. PICK d \in DOMAIN rs : t[b] = rs[d] /\ d = IF b < i THEN b ELSE b + 1
      BY <1>1, <2>2, <2>5
    <3>3. c = d
      BY <3>1, <3>2 DEF Unique
    <3>4. QED
      BY <1>1, <2>2, <2>5, <3>1, <3>2, <3>3
  <2>8. ASSUME NEW m PROVE In(m, t) <=> m # n /\ In(m, rs)
    <3>1. ASSUME In(m, t) PROVE m # n /\ In(m, rs)
      <4>1. PICK a \in DOMAIN t : t[a] = m
        BY <3>1 DEF In
      <4>2. PICK c \in DOMAIN rs : t[a] = rs[c] /\ c # i
        <5>1. (IF a < i THEN a ELSE a + 1) \in DOMAIN rs /\ (IF a < i THEN a ELSE a + 1) # i
          BY <1>1, <2>2, <2>5
        <5>2. QED
          BY <2>5, <5>1
      <4>3. m # n
        BY <2>2, <4>1, <4>2 DEF Unique
      <4>4. QED
        BY <4>1, <4>2, <4>3 DEF In
    <3>2. ASSUME m # n, In(m, rs) PROVE In(m, t)
      <4>1. PICK c \in DOMAIN rs : rs[c] = m
        BY <3>2 DEF In
      <4>2. c # i
        BY <2>2, <3>2, <4>1
      <4>3. CASE c < i
        <5>1. c \in 1 .. Len(t)
          BY <1>1, <2>2, <2>5, <4>3
        <5>2. t[c] = m
          BY <2>5, <4>1, <4>3, <5>1
        <5>3. QED
          BY <2>5, <5>1, <5>2 DEF In
      <4>4. CASE c > i
        <5>1. c - 1 \in 1 .. Len(t) /\ ~(c - 1 < i) /\ (c - 1) + 1 = c
          BY <1>1, <2>2, <2>5, <4>4
        <5>2. t[c - 1] = m
          BY <2>5, <4>1, <5>1
        <5>3. QED
          BY <2>5, <5>1, <5>2 DEF In
      <4>5. QED
        BY <1>1, <2>2, <4>2, <4>3, <4>4
    <3>3. QED
      BY <3>1, <3>2
  <2>9. In(n, rs)
    BY <2>2 DEF In
  <2>10. QED
    BY <2>6, <2>7, <2>8, <2>9
<1>4. QED
  BY <1>2, <1>3

\* partition_add_replica keeps each replica once.
LEMMA AddReplicaIs ==
    ASSUME NEW part \in PartType, Unique(part.replicas), NEW n \in Node, NEW q, q = AddReplica(part, n)
    PROVE  /\ q \in PartType /\ q.state = part.state /\ q.leader = part.leader
           /\ Unique(q.replicas)
           /\ \A m : In(m, q.replicas) <=> m = n \/ In(m, part.replicas)
<1> DEFINE rs == part.replicas
<1>1. rs \in Seq(Node) /\ Len(rs) \in Nat /\ DOMAIN rs = 1 .. Len(rs)
  BY DEF PartType
<1>2. CASE In(n, rs)
  <2>1. q = part
    BY <1>2, HasReplicaIs DEF AddReplica
  <2>2. QED
    BY <1>2, <2>1
<1>3. CASE ~In(n, rs)
  <2>1. PICK t : t = Append(rs, n)
    OBVIOUS
  <2>2. q = [part EXCEPT !.replicas = t]
    BY <1>3, <2>1, HasReplicaIs DEF AddReplica
  <2>3. /\ t \in Seq(Node) /\ Len(t) = Len(rs) + 1 /\ DOMAIN t = 1 .. Len(t)
        /\ \A k \in DOMAIN rs : k \in DOMAIN t /\ t[k] = rs[k]
        /\ Len(t) \in DOMAIN t /\ t[Len(t)] = n
        /\ \A k \in DOMAIN t : k \in DOMAIN rs \/ k = Len(t)
    BY <1>1, <2>1
  <2>4. q \in PartType /\ q.state = part.state /\ q.leader = part.leader /\ q.replicas = t
    BY <2>2, <2>3 DEF PartType
  <2>5. Unique(t)
    BY <1>3, <2>3 DEF Unique, In
  <2>6. \A m : In(m, t) <=> m = n \/ In(m, rs)
    BY <2>3 DEF In
  <2>7. QED
    BY <2>4, <2>5, <2>6
<1>4. QED
  BY <1>2, <1>3

LEMMA SetLeaderIs ==
    ASSUME NEW part \in PartType, NEW n \in Node \cup {0}, NEW q, q = SetLeader(part, n)
    PROVE  /\ q \in PartType /\ q.state = part.state /\ q.replicas = part.replicas
           /\ q.leader = IF n = 0 \/ In(n, part.replicas) THEN n ELSE part.leader
<1>1. q = IF n = 0 \/ In(n, part.replicas) THEN [part EXCEPT !.leader = n] ELSE part
  BY HasReplicaIs DEF SetLeader
<1>2. QED
  BY <1>1 DEF PartType

\* The partitions that are well placed on some nodes.
Placed(nodes) == {part \in PartType : PlacedOn(part, nodes)}

LEMMA RemoveReplicaPlaced ==
    ASSUME NEW nodes, NEW part \in Placed(nodes), NEW n
    PROVE  RemoveReplica(part, n) \in Placed(nodes) /\ RemoveReplica(part, n) \in Placed(nodes \ {n})
<1>1. PICK q : q = RemoveReplica(part, n)
  OBVIOUS
<1>2. /\ part \in PartType /\ Unique(part.replicas)
      /\ \A i \in DOMAIN part.replicas : part.replicas[i] \in nodes
      /\ part.leader # 0 => In(part.leader, part.replicas)
  BY DEF Placed, PlacedOn
<1>3. /\ q \in PartType
      /\ q.leader = IF part.leader = n /\ In(n, part.replicas) THEN 0 ELSE part.leader
      /\ Unique(q.replicas)
      /\ \A m : In(m, q.replicas) <=> m # n /\ In(m, part.replicas)
  BY <1>1, <1>2, RemoveReplicaIs
<1>4. \A m : In(m, part.replicas) => m \in nodes
  BY <1>2 DEF In
<1>5. \A i \in DOMAIN q.replicas : In(q.replicas[i], q.replicas)
  BY DEF In
<1>6. \A i \in DOMAIN q.replicas : q.replicas[i] \in nodes /\ q.replicas[i] # n
  BY <1>3, <1>4, <1>5
<1>7. q.leader # 0 => In(q.leader, q.replicas)
  BY <1>2, <1>3
<1>8. QED
  BY <1>1, <1>3, <1>6, <1>7 DEF Placed, PlacedOn

LEMMA AddReplicaPlaced ==
    ASSUME NEW nodes \in SUBSET Node, NEW part \in Placed(nodes), NEW n \in nodes
    PROVE  AddReplica(part, n) \in Placed(nodes)
<1>1. PICK q : q = AddReplica(part, n)
  OBVIOUS
<1>2. /\ part \in PartType /\ Unique(part.replicas)
      /\ \A i \in DOMAIN part.replicas : part.replicas[i] \in nodes
      /\ part.leader # 0 => In(part.leader, part.replicas)
  BY DEF Placed, PlacedOn
<1>3. /\ q \in PartType /\ q.leader = part.leader
      /\ Unique(q.replicas)
      /\ \A m : In(m, q.replicas) <=> m = n \/ In(m, part.replicas)
  BY <1>1, <1>2, AddReplicaIs
<1>4. \A m : In(m, part.replicas) => m \in nodes
  BY <1>2 DEF In
<1>5. \A i \in DOMAIN q.replicas : In(q.replicas[i], q.replicas)
  BY DEF In
<1>6. \A i \in DOMAIN q.replicas : q.replicas[i] \in nodes
  BY <1>3, <1>4, <1>5
<1>7. QED
  BY <1>1, <1>2, <1>3, <1>6 DEF Placed, PlacedOn

\* The functions that the two loops of coordinator_rebalance compute.
LoopsRemove(g, part, seq) ==
    g = [i \in 0 .. Len(seq) |-> IF i = 0 THEN part ELSE RemoveReplica(g[i - 1], seq[i])]

LEMMA RemoveAllPlaced ==
    ASSUME NEW nodes, NEW part \in Placed(nodes), NEW seq \in Seq(Node)
    PROVE  RemoveReplicas(part, seq) \in Placed(nodes)
<1> DEFINE n == Len(seq)
           T == Placed(nodes)
           F == [x \in (1 .. n) \X T |-> RemoveReplica(x[2], seq[x[1]])]
           It == CHOOSE g : LoopsRemove(g, part, seq)
<1>0. n \in Nat /\ \A i \in 1 .. n : seq[i] \in Node
  OBVIOUS
<1>1. \A i \in 1 .. n, t \in T : RemoveReplica(t, seq[i]) \in T
  BY <1>0, RemoveReplicaPlaced
<1>2. RemoveReplicas(part, seq) = It[Len(seq)]
  BY Zenon DEF RemoveReplicas, LoopsRemove
<1> HIDE DEF T
<1>3. F \in [(1 .. n) \X T -> T] /\ \A i \in 1 .. n, t \in T : F[<<i, t>>] = RemoveReplica(t, seq[i])
  BY <1>1
<1>4. part \in T
  BY DEF T
<1> HIDE DEF F, n
<1>5. LoopsRemove(It, part, seq)
  <2>1. StepsIn(F, n, T)
    BY <1>3 DEF StepsIn
  <2>2. PICK g : Recurs(g, n, T, F, part)
    BY <1>0, <1>4, <2>1, RecursionExists
  <2>3. ASSUME NEW i \in 0 .. n
        PROVE  g[i] = IF i = 0 THEN part ELSE RemoveReplica(g[i - 1], seq[i])
    <3>1. CASE i = 0
      BY <2>2, <3>1 DEF Recurs
    <3>2. CASE i # 0
      <4>1. i \in 1 .. n /\ i - 1 \in 0 .. n
        BY <1>0, <3>2
      <4>2. g[i] = F[<<i, g[i - 1]>>] /\ g[i - 1] \in T
        BY <2>2, <4>1 DEF Recurs
      <4>3. QED
        BY <1>3, <3>2, <4>1, <4>2
    <3>3. QED
      BY <3>1, <3>2
  <2>4. g = [i \in 0 .. n |-> g[i]]
    BY <2>2 DEF Recurs
  <2>5. LoopsRemove(g, part, seq)
    BY <2>3, <2>4 DEF LoopsRemove, n
  <2>6. QED
    BY <2>5, Zenon
<1> HIDE DEF It
<1>6. PICK it : it = It
  OBVIOUS
<1>7. \A i \in 0 .. n : it[i] = IF i = 0 THEN part ELSE RemoveReplica(it[i - 1], seq[i])
  BY <1>5, <1>6 DEF LoopsRemove, n
<1> DEFINE S == {i \in 0 .. n : it[i] \in T}
<1>8. 0 \in S
  BY <1>0, <1>4, <1>7
<1>9. ASSUME NEW k \in 0 .. n - 1, k \in S PROVE k + 1 \in S
  <2>1. PICK i : i = k + 1
    OBVIOUS
  <2>2. i \in 1 .. n /\ i \in 0 .. n /\ i # 0 /\ i - 1 = k
    BY <1>0, <2>1
  <2>3. it[i] = RemoveReplica(it[k], seq[i]) /\ it[k] \in T
    BY <1>7, <1>9, <2>2
  <2>4. it[i] \in T
    BY <1>1, <2>2, <2>3
  <2>5. QED
    BY <2>1, <2>2, <2>4
<1> HIDE DEF S
<1>10. n \in S
  <2>1. \A k \in 0 .. n : k \in S
    BY <1>0, <1>8, <1>9, UpTo
  <2>2. QED
    BY <1>0, <2>1
<1>11. QED
  BY <1>2, <1>6, <1>10 DEF S, T, n

LoopsAdd(g, part, seq) ==
    g = [i \in 0 .. Len(seq) |-> IF i = 0 THEN part ELSE AddReplica(g[i - 1], seq[i])]

LEMMA AddAllPlaced ==
    ASSUME NEW nodes \in SUBSET Node, NEW part \in Placed(nodes), NEW seq \in Seq(nodes)
    PROVE  AddReplicas(part, seq) \in Placed(nodes)
<1> DEFINE n == Len(seq)
           T == Placed(nodes)
           F == [x \in (1 .. n) \X T |-> AddReplica(x[2], seq[x[1]])]
           It == CHOOSE g : LoopsAdd(g, part, seq)
<1>0. n \in Nat /\ \A i \in 1 .. n : seq[i] \in nodes
  OBVIOUS
<1>1. \A i \in 1 .. n, t \in T : AddReplica(t, seq[i]) \in T
  BY <1>0, AddReplicaPlaced
<1>2. AddReplicas(part, seq) = It[Len(seq)]
  BY Zenon DEF AddReplicas, LoopsAdd
<1> HIDE DEF T
<1>3. F \in [(1 .. n) \X T -> T] /\ \A i \in 1 .. n, t \in T : F[<<i, t>>] = AddReplica(t, seq[i])
  BY <1>1
<1>4. part \in T
  BY DEF T
<1> HIDE DEF F, n
<1>5. LoopsAdd(It, part, seq)
  <2>1. StepsIn(F, n, T)
    BY <1>3 DEF StepsIn
  <2>2. PICK g : Recurs(g, n, T, F, part)
    BY <1>0, <1>4, <2>1, RecursionExists
  <2>3. ASSUME NEW i \in 0 .. n
        PROVE  g[i] = IF i = 0 THEN part ELSE AddReplica(g[i - 1], seq[i])
    <3>1. CASE i = 0
      BY <2>2, <3>1 DEF Recurs
    <3>2. CASE i # 0
      <4>1. i \in 1 .. n /\ i - 1 \in 0 .. n
        BY <1>0, <3>2
      <4>2. g[i] = F[<<i, g[i - 1]>>] /\ g[i - 1] \in T
        BY <2>2, <4>1 DEF Recurs
      <4>3. QED
        BY <1>3, <3>2, <4>1, <4>2
    <3>3. QED
      BY <3>1, <3>2
  <2>4. g = [i \in 0 .. n |-> g[i]]
    BY <2>2 DEF Recurs
  <2>5. LoopsAdd(g, part, seq)
    BY <2>3, <2>4 DEF LoopsAdd, n
  <2>6. QED
    BY <2>5, Zenon
<1> HIDE DEF It
<1>6. PICK it : it = It
  OBVIOUS
<1>7. \A i \in 0 .. n : it[i] = IF i = 0 THEN part ELSE AddReplica(it[i - 1], seq[i])
  BY <1>5, <1>6 DEF LoopsAdd, n
<1> DEFINE S == {i \in 0 .. n : it[i] \in T}
<1>8. 0 \in S
  BY <1>0, <1>4, <1>7
<1>9. ASSUME NEW k \in 0 .. n - 1, k \in S PROVE k + 1 \in S
  <2>1. PICK i : i = k + 1
    OBVIOUS
  <2>2. i \in 1 .. n /\ i \in 0 .. n /\ i # 0 /\ i - 1 = k
    BY <1>0, <2>1
  <2>3. it[i] = AddReplica(it[k], seq[i]) /\ it[k] \in T
    BY <1>7, <1>9, <2>2
  <2>4. it[i] \in T
    BY <1>1, <2>2, <2>3
  <2>5. QED
    BY <2>1, <2>2, <2>4
<1> HIDE DEF S
<1>10. n \in S
  <2>1. \A k \in 0 .. n : k \in S
    BY <1>0, <1>8, <1>9, UpTo
  <2>2. QED
    BY <1>0, <2>1
<1>11. QED
  BY <1>2, <1>6, <1>10 DEF S, T, n

LEMMA RebalancedIs ==
    ASSUME HashOK(hash), RingOK(ring, hash), NEW p \in Partition, parts[p] \in Placed(ring.nodes)
    PROVE  Rebalanced(p) \in Placed(ring.nodes) /\ Rebalanced(p).state = "ACTIVE"
<1> DEFINE nodes == GetReplicas(ring, hash.part[p], Replication)
           part == parts[p]
           empty == RemoveReplicas(part, part.replicas)
           full == AddReplicas(empty, nodes)
           led == IF nodes = <<>> THEN full ELSE SetLeader(full, Head(nodes))
<1>1. Rebalanced(p) = [led EXCEPT !.state = "ACTIVE"]
  BY DEF Rebalanced
<1>3. hash.part[p] \in Nat /\ Replication \in Nat
  BY ClusterAssumption DEF HashOK
<1>4. ring.nodes \in SUBSET Node
  BY RingTyped
<1>5. nodes \in Seq(ring.nodes)
  <2>1. nodes \in Seq(Node) /\ \A a \in Positions(nodes) : nodes[a] \in ring.nodes
    BY <1>3, GetReplicasNodes
  <2>2. QED
    BY <2>1 DEF Positions
<1> HIDE DEF nodes
<1>6. part.replicas \in Seq(Node)
  BY DEF Placed, PartType
<1>7. empty \in Placed(ring.nodes)
  BY <1>6, RemoveAllPlaced
<1> HIDE DEF empty, part
<1>8. full \in Placed(ring.nodes)
  BY <1>4, <1>5, <1>7, AddAllPlaced
<1> HIDE DEF full
<1>9. led = IF nodes = <<>> THEN full ELSE SetLeader(full, Head(nodes))
  OBVIOUS
<1> HIDE DEF led
<1>11. full \in PartType /\ PlacedOn(full, ring.nodes)
  BY <1>8 DEF Placed
<1>12. led \in PartType /\ led.replicas = full.replicas /\ (led.leader # 0 => In(led.leader, full.replicas))
  <2>1. CASE nodes = <<>>
    BY <1>9, <1>11, <2>1 DEF PlacedOn
  <2>2. CASE nodes # <<>>
    <3>1. Head(nodes) \in Node
      BY <1>4, <1>5, <2>2
    <3>2. /\ led \in PartType /\ led.replicas = full.replicas
          /\ led.leader = IF Head(nodes) = 0 \/ In(Head(nodes), full.replicas) THEN Head(nodes)
                          ELSE full.leader
      BY <1>9, <1>11, <2>2, <3>1, SetLeaderIs
    <3>3. QED
      BY <1>11, <3>2 DEF PlacedOn
  <2>3. QED
    BY <2>1, <2>2
<1>13. PICK q : q = Rebalanced(p)
  OBVIOUS
<1>14. /\ q \in PartType /\ q.replicas = full.replicas /\ q.leader = led.leader
       /\ q.state = "ACTIVE"
  BY <1>1, <1>12, <1>13 DEF PartType
<1>15. QED
  BY <1>11, <1>12, <1>13, <1>14 DEF Placed, PlacedOn

\* The nodes that have a replica.
Reps(part) == {part.replicas[i] : i \in DOMAIN part.replicas}

LEMMA RepsIs ==
    ASSUME NEW nodes, NEW part \in Placed(nodes)
    PROVE  /\ \A n : n \in Reps(part) <=> In(n, part.replicas)
           /\ Reps(part) \subseteq nodes /\ Reps(part) \subseteq Node
           /\ part.leader # 0 => part.leader \in Reps(part)
           /\ part \in PartType /\ Unique(part.replicas)
<1>1. /\ part \in PartType /\ Unique(part.replicas)
      /\ \A i \in DOMAIN part.replicas : part.replicas[i] \in nodes
      /\ part.leader # 0 => In(part.leader, part.replicas)
  BY DEF Placed, PlacedOn
<1>2. \A n : n \in Reps(part) <=> In(n, part.replicas)
  BY DEF Reps, In
<1>3. part.replicas \in Seq(Node)
  BY <1>1 DEF PartType
<1>4. Reps(part) \subseteq nodes /\ Reps(part) \subseteq Node
  BY <1>1, <1>3 DEF Reps
<1>5. QED
  BY <1>1, <1>2, <1>4

AliveReps(m, part) == {n \in Reps(part) : StateOf(m, n) = "ALIVE"}

\* failover_get_available_replicas counts the nodes that are alive.
LEMMA AvailableIs ==
    ASSUME NEW nodes, IsFiniteSet(nodes), NEW part \in Placed(nodes), NEW m
    PROVE  /\ IsFiniteSet(Reps(part))
           /\ Available(m, part) = Cardinality(AliveReps(m, part))
           /\ Available(m, part) \in Nat
<1> DEFINE rs == part.replicas
           P == {i \in DOMAIN rs : StateOf(m, rs[i]) = "ALIVE"}
           Q == AliveReps(m, part)
<1>1. rs \in Seq(Node) /\ DOMAIN rs = 1 .. Len(rs) /\ Len(rs) \in Nat /\ Unique(rs)
  <2>1. part \in PartType /\ Unique(rs)
    BY RepsIs
  <2>2. QED
    BY <2>1 DEF PartType
<1>2. IsFiniteSet(1 .. Len(rs))
  BY <1>1, InitialFinite
<1>3. IsFiniteSet(P)
  <2>1. P \in SUBSET (1 .. Len(rs))
    BY <1>1
  <2>2. QED
    BY <1>2, <2>1, FS_Subset
<1>4. IsFiniteSet(Reps(part))
  <2>1. Reps(part) \in SUBSET nodes
    BY RepsIs
  <2>2. QED
    BY <2>1, FS_Subset
<1>5. IsFiniteSet(Q)
  <2>1. Q \in SUBSET Reps(part)
    BY DEF AliveReps
  <2>2. QED
    BY <1>4, <2>1, FS_Subset
<1>6. Available(m, part) = Cardinality(P)
  BY DEF Available
<1>7. \A i \in P : rs[i] \in Q
  BY DEF AliveReps, Reps
<1>8. \A n \in Q : \E i \in P : rs[i] = n
  BY DEF AliveReps, Reps
<1>9. \A i, j \in P : rs[i] = rs[j] => i = j
  BY <1>1 DEF Unique
<1>10. Cardinality(P) \in Nat /\ Cardinality(Q) \in Nat
  BY <1>3, <1>5, FS_CardinalityType
<1> HIDE DEF P, Q
<1>11. ~(Cardinality(Q) < Cardinality(P))
  <2> SUFFICES ASSUME Cardinality(Q) < Cardinality(P) PROVE FALSE
    OBVIOUS
  <2> DEFINE f == [i \in P |-> rs[i]]
  <2>1. f \in [P -> Q] /\ \A i \in P : f[i] = rs[i]
    BY <1>7
  <2> HIDE DEF f
  <2>2. \E i, j \in P : i # j /\ f[i] = f[j]
    BY <1>3, <1>5, <2>1, FS_PigeonHole
  <2>3. QED
    BY <1>9, <2>1, <2>2
<1>12. ~(Cardinality(P) < Cardinality(Q))
  <2> SUFFICES ASSUME Cardinality(P) < Cardinality(Q) PROVE FALSE
    OBVIOUS
  <2> DEFINE f == [n \in Q |-> CHOOSE i \in P : rs[i] = n]
  <2>1. \A n \in Q : f[n] \in P /\ rs[f[n]] = n
    BY <1>8
  <2>2. f \in [Q -> P]
    BY <2>1
  <2> HIDE DEF f
  <2>3. \E y, z \in Q : y # z /\ f[y] = f[z]
    BY <1>3, <1>5, <2>2, FS_PigeonHole
  <2>4. QED
    BY <2>1, <2>3
<1>13. Cardinality(P) = Cardinality(Q)
  BY <1>10, <1>11, <1>12
<1>14. QED
  BY <1>4, <1>6, <1>10, <1>13 DEF Q

\* failover_elect_leader: a replica that is alive, or none when there is none.
LEMMA ElectIs ==
    ASSUME NEW nodes, NEW part \in Placed(nodes), NEW m, NEW q, q = Elect(m, part)
    PROVE  /\ q \in Placed(nodes) /\ q.state = part.state /\ q.replicas = part.replicas
           /\ q.leader = 0 => AliveReps(m, part) = {}
           /\ q.leader # 0 => StateOf(m, q.leader) = "ALIVE"
<1> DEFINE rs == part.replicas
           alive == {i \in DOMAIN rs : StateOf(m, rs[i]) = "ALIVE"}
<1>1. part \in PartType /\ PlacedOn(part, nodes) /\ rs \in Seq(Node) /\ DOMAIN rs \in SUBSET Nat
  BY DEF Placed, PartType
<1>2. CASE alive = {}
  <2>1. q = SetLeader(part, 0)
    BY <1>2 DEF Elect
  <2>2. q \in PartType /\ q.state = part.state /\ q.replicas = rs /\ q.leader = 0
    BY <1>1, <2>1, SetLeaderIs
  <2>3. AliveReps(m, part) = {}
    BY <1>2 DEF AliveReps, Reps
  <2>4. QED
    BY <1>1, <2>2, <2>3 DEF Placed, PlacedOn
<1>3. CASE alive # {}
  <2>1. PICK i : i = First(alive)
    OBVIOUS
  <2>2. i \in DOMAIN rs /\ StateOf(m, rs[i]) = "ALIVE"
    <3>1. alive \in SUBSET Nat
      BY <1>1
    <3>2. i \in alive
      BY <1>3, <2>1, <3>1, FirstIs
    <3>3. QED
      BY <3>2
  <2>3. q = SetLeader(part, rs[i])
    BY <1>3, <2>1 DEF Elect
  <2>4. rs[i] \in Node /\ rs[i] # 0 /\ In(rs[i], rs)
    BY <1>1, <2>2, ClusterAssumption DEF In
  <2>5. q \in PartType /\ q.state = part.state /\ q.replicas = rs /\ q.leader = rs[i]
    BY <1>1, <2>3, <2>4, SetLeaderIs
  <2>6. QED
    BY <1>1, <2>2, <2>4, <2>5 DEF Placed, PlacedOn
<1>4. QED
  BY <1>2, <1>3

-----------------------------------------------------------------------------
(* Failover. *)

\* The replicas that are alive and whose callback was acted on, and those that are not
\* dead or whose callback was not.
KnownAlive(m, rep, part) ==
    {n \in Reps(part) : StateOf(m, n) = "ALIVE" /\ <<n, "ALIVE">> \notin rep}

MaybeAlive(m, rep, part) ==
    {n \in Reps(part) : StateOf(m, n) # "DEAD" \/ <<n, "DEAD">> \in rep}

\* A partition's leader and state are what the detector's view and the callbacks that
\* were not acted on yet allow.
Fit(m, rep, part, bl) ==
    /\ /\ part.leader # 0 /\ StateOf(m, part.leader) = "DEAD"
       /\ <<part.leader, "DEAD">> \notin rep
       => "leader" \in bl
    /\ part.leader = 0 /\ KnownAlive(m, rep, part) # {} => "leader" \in bl
    /\ part.state = "READONLY" => Cardinality(KnownAlive(m, rep, part)) < MinReplicas
    /\ part.state = "ACTIVE" =>
          "state" \in bl \/ Cardinality(MaybeAlive(m, rep, part)) >= MinReplicas
    /\ part.state = "INIT" => Reps(part) = {}

LEMMA SubsetCount ==
    ASSUME NEW B, IsFiniteSet(B), NEW A, A \subseteq B
    PROVE  /\ Cardinality(A) \in Nat /\ Cardinality(B) \in Nat
           /\ Cardinality(A) <= Cardinality(B)
<1>1. A \in SUBSET B
  OBVIOUS
<1>2. IsFiniteSet(A) /\ Cardinality(A) <= Cardinality(B)
  BY <1>1, FS_Subset
<1>3. QED
  BY <1>2, FS_CardinalityType

\* What the detector says may change as long as nobody is newly dead, or newly alive,
\* without a callback that is still to be acted on.
LEMMA FitSeen ==
    ASSUME NEW nodes, IsFiniteSet(nodes), NEW part \in Placed(nodes), NEW m, NEW rep, NEW bl,
           NEW m2, NEW rep2, Fit(m, rep, part, bl),
           \A n \in Reps(part) :
              /\ StateOf(m2, n) = "DEAD" /\ <<n, "DEAD">> \notin rep2
                 => StateOf(m, n) = "DEAD" /\ <<n, "DEAD">> \notin rep
              /\ StateOf(m2, n) = "ALIVE" /\ <<n, "ALIVE">> \notin rep2
                 => StateOf(m, n) = "ALIVE" /\ <<n, "ALIVE">> \notin rep
    PROVE  Fit(m2, rep2, part, bl)
<1>1. KnownAlive(m2, rep2, part) \subseteq KnownAlive(m, rep, part)
  BY DEF KnownAlive
<1>2. MaybeAlive(m, rep, part) \subseteq MaybeAlive(m2, rep2, part)
  BY DEF MaybeAlive
<1>3. IsFiniteSet(Reps(part))
  BY AvailableIs
<1>4. KnownAlive(m, rep, part) \in SUBSET Reps(part) /\ MaybeAlive(m2, rep2, part) \in SUBSET Reps(part)
  BY DEF KnownAlive, MaybeAlive
<1>5. IsFiniteSet(KnownAlive(m, rep, part)) /\ IsFiniteSet(MaybeAlive(m2, rep2, part))
  BY <1>3, <1>4, FS_Subset
<1>6. /\ Cardinality(KnownAlive(m2, rep2, part)) \in Nat /\ Cardinality(KnownAlive(m, rep, part)) \in Nat
      /\ Cardinality(KnownAlive(m2, rep2, part)) <= Cardinality(KnownAlive(m, rep, part))
  BY <1>1, <1>5, SubsetCount
<1>7. /\ Cardinality(MaybeAlive(m2, rep2, part)) \in Nat /\ Cardinality(MaybeAlive(m, rep, part)) \in Nat
      /\ Cardinality(MaybeAlive(m, rep, part)) <= Cardinality(MaybeAlive(m2, rep2, part))
  BY <1>2, <1>5, SubsetCount
<1>8. MinReplicas \in Nat
  BY ClusterAssumption
<1>9. part.leader # 0 => part.leader \in Reps(part)
  BY RepsIs
<1>10. part.leader # 0 /\ StateOf(m2, part.leader) = "DEAD" /\ <<part.leader, "DEAD">> \notin rep2
          => "leader" \in bl
  BY <1>9 DEF Fit
<1>11. part.leader = 0 /\ KnownAlive(m2, rep2, part) # {} => "leader" \in bl
  BY <1>1 DEF Fit
<1>12. part.state = "READONLY" => Cardinality(KnownAlive(m2, rep2, part)) < MinReplicas
  BY <1>6, <1>8 DEF Fit
<1>13. part.state = "ACTIVE" =>
          "state" \in bl \/ Cardinality(MaybeAlive(m2, rep2, part)) >= MinReplicas
  BY <1>7, <1>8 DEF Fit
<1>14. part.state = "INIT" => Reps(part) = {}
  BY DEF Fit
<1>15. QED
  BY <1>10, <1>11, <1>12, <1>13, <1>14 DEF Fit

\* The counts that failover compares with min_replicas, against those of Fit.
LEMMA Counts ==
    ASSUME NEW nodes, IsFiniteSet(nodes), NEW part \in Placed(nodes), NEW m, NEW rep
    PROVE  /\ Available(m, part) \in Nat
           /\ Cardinality(KnownAlive(m, rep, part)) \in Nat
           /\ Cardinality(MaybeAlive(m, rep, part)) \in Nat
           /\ Cardinality(KnownAlive(m, rep, part)) <= Available(m, part)
           /\ Available(m, part) <= Cardinality(MaybeAlive(m, rep, part))
           /\ KnownAlive(m, rep, part) # {} => Available(m, part) > 0
<1>1. IsFiniteSet(Reps(part)) /\ Available(m, part) = Cardinality(AliveReps(m, part))
  BY AvailableIs
<1>2. /\ KnownAlive(m, rep, part) \subseteq AliveReps(m, part)
      /\ AliveReps(m, part) \subseteq MaybeAlive(m, rep, part)
      /\ AliveReps(m, part) \in SUBSET Reps(part) /\ MaybeAlive(m, rep, part) \in SUBSET Reps(part)
  BY DEF KnownAlive, AliveReps, MaybeAlive
<1>3. IsFiniteSet(AliveReps(m, part)) /\ IsFiniteSet(MaybeAlive(m, rep, part))
  BY <1>1, <1>2, FS_Subset
<1>4. /\ Cardinality(KnownAlive(m, rep, part)) \in Nat /\ Cardinality(AliveReps(m, part)) \in Nat
      /\ Cardinality(KnownAlive(m, rep, part)) <= Cardinality(AliveReps(m, part))
  BY <1>2, <1>3, SubsetCount
<1>5. /\ Cardinality(MaybeAlive(m, rep, part)) \in Nat
      /\ Cardinality(AliveReps(m, part)) <= Cardinality(MaybeAlive(m, rep, part))
  BY <1>2, <1>3, SubsetCount
<1>6. KnownAlive(m, rep, part) # {} => Cardinality(AliveReps(m, part)) # 0
  BY <1>2, <1>3, FS_EmptySet
<1>7. QED
  BY <1>1, <1>4, <1>5, <1>6

LEMMA FailureHandledIs ==
    ASSUME NEW nodes, IsFiniteSet(nodes), NEW part \in Placed(nodes), NEW m, NEW n, NEW q,
           q = FailureHandled(m, part, n)
    PROVE  /\ q \in Placed(nodes) /\ q.replicas = part.replicas
           /\ n \notin Reps(part) => q = part
           /\ n \in Reps(part) =>
                 /\ q.state = IF Available(m, part) < MinReplicas THEN "READONLY" ELSE part.state
                 /\ part.leader # n => q.leader = part.leader
                 /\ part.leader = n /\ q.leader = 0 => AliveReps(m, part) = {}
                 /\ part.leader = n /\ q.leader # 0 => StateOf(m, q.leader) = "ALIVE"
<1>1. /\ part \in PartType /\ PlacedOn(part, nodes)
      /\ HasReplica(part, n) <=> n \in Reps(part)
  <2>1. part \in PartType /\ PlacedOn(part, nodes)
    BY DEF Placed
  <2>2. QED
    BY <2>1, HasReplicaIs, RepsIs
<1>2. CASE n \notin Reps(part)
  <2>1. q = part
    BY <1>1, <1>2 DEF FailureHandled
  <2>2. QED
    BY <1>2, <2>1
<1>3. CASE n \in Reps(part)
  <2>1. PICK led : led = IF part.leader = n THEN Elect(m, part) ELSE part
    OBVIOUS
  <2>2. q = IF Available(m, led) < MinReplicas THEN [led EXCEPT !.state = "READONLY"] ELSE led
    BY <1>1, <1>3, <2>1 DEF FailureHandled
  <2>3. /\ led \in Placed(nodes) /\ led.state = part.state /\ led.replicas = part.replicas
        /\ part.leader # n => led.leader = part.leader
        /\ part.leader = n /\ led.leader = 0 => AliveReps(m, part) = {}
        /\ part.leader = n /\ led.leader # 0 => StateOf(m, led.leader) = "ALIVE"
    BY <2>1, ElectIs
  <2>4. Available(m, led) = Available(m, part)
    BY <2>3 DEF Available
  <2>5. led \in PartType /\ PlacedOn(led, nodes)
    BY <2>3 DEF Placed
  <2>6. /\ q \in PartType /\ q.replicas = led.replicas /\ q.leader = led.leader
        /\ q.state = IF Available(m, part) < MinReplicas THEN "READONLY" ELSE part.state
    BY <2>2, <2>3, <2>4, <2>5 DEF PartType
  <2>7. q \in Placed(nodes)
    BY <2>5, <2>6 DEF Placed, PlacedOn
  <2>8. QED
    BY <1>3, <2>3, <2>6, <2>7
<1>4. QED
  BY <1>2, <1>3

LEMMA RecoveryHandledIs ==
    ASSUME NEW nodes, IsFiniteSet(nodes), NEW part \in Placed(nodes), NEW m, NEW n, NEW q,
           q = RecoveryHandled(m, part, n)
    PROVE  /\ q \in Placed(nodes) /\ q.replicas = part.replicas
           /\ n \notin Reps(part) => q = part
           /\ n \in Reps(part) =>
                 /\ q.state = IF Available(m, part) >= MinReplicas /\ part.state = "READONLY"
                              THEN "ACTIVE" ELSE part.state
                 /\ part.leader # 0 => q.leader = part.leader
                 /\ part.leader = 0 /\ q.leader = 0 => AliveReps(m, part) = {}
                 /\ part.leader = 0 /\ q.leader # 0 => StateOf(m, q.leader) = "ALIVE"
<1>1. /\ part \in PartType /\ PlacedOn(part, nodes)
      /\ HasReplica(part, n) <=> n \in Reps(part)
  <2>1. part \in PartType /\ PlacedOn(part, nodes)
    BY DEF Placed
  <2>2. QED
    BY <2>1, HasReplicaIs, RepsIs
<1>2. CASE n \notin Reps(part)
  <2>1. q = part
    BY <1>1, <1>2 DEF RecoveryHandled
  <2>2. QED
    BY <1>2, <2>1
<1>3. CASE n \in Reps(part)
  <2>1. PICK back : back = IF Available(m, part) >= MinReplicas /\ part.state = "READONLY"
                           THEN [part EXCEPT !.state = "ACTIVE"] ELSE part
    OBVIOUS
  <2>2. q = IF back.leader = 0 THEN Elect(m, back) ELSE back
    BY <1>1, <1>3, <2>1 DEF RecoveryHandled
  <2>3. /\ back \in PartType /\ back.replicas = part.replicas /\ back.leader = part.leader
        /\ back.state = IF Available(m, part) >= MinReplicas /\ part.state = "READONLY"
                        THEN "ACTIVE" ELSE part.state
    BY <1>1, <2>1 DEF PartType
  <2>4. back \in Placed(nodes)
    BY <1>1, <2>3 DEF Placed, PlacedOn
  <2>5. AliveReps(m, back) = AliveReps(m, part)
    BY <2>3 DEF AliveReps, Reps
  <2>6. CASE back.leader = 0
    <3>1. q = Elect(m, back)
      BY <2>2, <2>6
    <3>2. /\ q \in Placed(nodes) /\ q.state = back.state /\ q.replicas = back.replicas
          /\ q.leader = 0 => AliveReps(m, back) = {}
          /\ q.leader # 0 => StateOf(m, q.leader) = "ALIVE"
      BY <2>4, <3>1, ElectIs
    <3>3. QED
      BY <1>3, <2>3, <2>5, <2>6, <3>2
  <2>7. CASE back.leader # 0
    BY <1>3, <2>2, <2>3, <2>4, <2>7
  <2>8. QED
    BY <2>6, <2>7
<1>4. QED
  BY <1>2, <1>3

\* failover_handle_node_failure settles the partition, if it has a replica there.
LEMMA FitFailure ==
    ASSUME NEW nodes, IsFiniteSet(nodes), NEW part \in Placed(nodes), NEW m, NEW rep, NEW bl,
           Fit(m, rep, part, bl), NEW n \in Reps(part), NEW q, q = FailureHandled(m, part, n),
           NEW rep2, rep2 = rep \ {<<n, "DEAD">>},
           NEW bl2, bl2 = bl \ ({"state"} \cup {x \in {"leader"} : part.leader = n})
    PROVE  Fit(m, rep2, q, bl2)
<1>1. /\ q \in Placed(nodes) /\ q.replicas = part.replicas
      /\ q.state = IF Available(m, part) < MinReplicas THEN "READONLY" ELSE part.state
      /\ part.leader # n => q.leader = part.leader
      /\ part.leader = n /\ q.leader = 0 => AliveReps(m, part) = {}
      /\ part.leader = n /\ q.leader # 0 => StateOf(m, q.leader) = "ALIVE"
  BY FailureHandledIs
<1>2. Reps(q) = Reps(part) /\ Available(m, q) = Available(m, part)
  BY <1>1 DEF Reps, Available
<1>3. /\ Available(m, q) \in Nat
      /\ Cardinality(KnownAlive(m, rep2, q)) \in Nat
      /\ Cardinality(MaybeAlive(m, rep2, q)) \in Nat
      /\ Cardinality(KnownAlive(m, rep2, q)) <= Available(m, q)
      /\ Available(m, q) <= Cardinality(MaybeAlive(m, rep2, q))
  BY <1>1, Counts
<1>4. MinReplicas \in Nat
  BY ClusterAssumption
<1>5. KnownAlive(m, rep2, q) = KnownAlive(m, rep, part)
  <2>1. \A x : <<x, "ALIVE">> \in rep2 <=> <<x, "ALIVE">> \in rep
    OBVIOUS
  <2>2. QED
    BY <1>2, <2>1 DEF KnownAlive
<1>6. KnownAlive(m, rep, part) \subseteq AliveReps(m, part)
  BY DEF KnownAlive, AliveReps
<1>7. part.leader # n => ("leader" \in bl2 <=> "leader" \in bl)
  OBVIOUS
<1>8. q.leader # 0 /\ StateOf(m, q.leader) = "DEAD" /\ <<q.leader, "DEAD">> \notin rep2
         => "leader" \in bl2
  <2>1. CASE part.leader = n
    BY <1>1, <2>1
  <2>2. CASE part.leader # n
    <3>1. <<part.leader, "DEAD">> \in rep2 <=> <<part.leader, "DEAD">> \in rep
      BY <2>2
    <3>2. QED
      BY <1>1, <1>7, <2>2, <3>1 DEF Fit
  <2>3. QED
    BY <2>1, <2>2
<1>9. q.leader = 0 /\ KnownAlive(m, rep2, q) # {} => "leader" \in bl2
  <2>1. CASE part.leader = n
    BY <1>1, <1>5, <1>6, <2>1
  <2>2. CASE part.leader # n
    BY <1>1, <1>5, <1>7, <2>2 DEF Fit
  <2>3. QED
    BY <2>1, <2>2
<1>10. q.state = "READONLY" => Cardinality(KnownAlive(m, rep2, q)) < MinReplicas
  <2>1. CASE Available(m, part) < MinReplicas
    BY <1>2, <1>3, <1>4, <2>1
  <2>2. CASE ~(Available(m, part) < MinReplicas)
    BY <1>1, <1>5, <2>2 DEF Fit
  <2>3. QED
    BY <2>1, <2>2
<1>11. q.state = "ACTIVE" => Cardinality(MaybeAlive(m, rep2, q)) >= MinReplicas
  BY <1>1, <1>2, <1>3, <1>4
<1>12. q.state = "INIT" => Reps(q) = {}
  BY <1>1, <1>2 DEF Fit
<1>13. QED
  BY <1>8, <1>9, <1>10, <1>11, <1>12 DEF Fit

\* failover_handle_node_recovery settles it too.
LEMMA FitRecovery ==
    ASSUME NEW nodes, IsFiniteSet(nodes), NEW part \in Placed(nodes), NEW m, NEW rep, NEW bl,
           Fit(m, rep, part, bl), NEW n \in Reps(part), NEW q, q = RecoveryHandled(m, part, n),
           NEW rep2, rep2 = rep \ {<<n, "ALIVE">>},
           NEW bl2, bl2 = bl \ {x \in {"leader"} : part.leader = 0}
    PROVE  Fit(m, rep2, q, bl2)
<1>1. /\ q \in Placed(nodes) /\ q.replicas = part.replicas
      /\ q.state = IF Available(m, part) >= MinReplicas /\ part.state = "READONLY"
                   THEN "ACTIVE" ELSE part.state
      /\ part.leader # 0 => q.leader = part.leader
      /\ part.leader = 0 /\ q.leader = 0 => AliveReps(m, part) = {}
      /\ part.leader = 0 /\ q.leader # 0 => StateOf(m, q.leader) = "ALIVE"
  BY RecoveryHandledIs
<1>2. Reps(q) = Reps(part) /\ Available(m, q) = Available(m, part) /\ AliveReps(m, q) = AliveReps(m, part)
  BY <1>1 DEF Reps, Available, AliveReps
<1>3. /\ Available(m, q) \in Nat
      /\ Cardinality(KnownAlive(m, rep2, q)) \in Nat
      /\ Cardinality(MaybeAlive(m, rep2, q)) \in Nat
      /\ Cardinality(KnownAlive(m, rep2, q)) <= Available(m, q)
      /\ Available(m, q) <= Cardinality(MaybeAlive(m, rep2, q))
  BY <1>1, Counts
<1>4. MinReplicas \in Nat
  BY ClusterAssumption
<1>5. MaybeAlive(m, rep2, q) = MaybeAlive(m, rep, part)
  <2>1. \A x : <<x, "DEAD">> \in rep2 <=> <<x, "DEAD">> \in rep
    OBVIOUS
  <2>2. QED
    BY <1>2, <2>1 DEF MaybeAlive
<1>6. KnownAlive(m, rep2, q) \subseteq AliveReps(m, part)
  BY <1>2 DEF KnownAlive, AliveReps
<1>7. (part.leader # 0 => ("leader" \in bl2 <=> "leader" \in bl)) /\ ("state" \in bl2 <=> "state" \in bl)
  OBVIOUS
<1>8. q.leader # 0 /\ StateOf(m, q.leader) = "DEAD" /\ <<q.leader, "DEAD">> \notin rep2
         => "leader" \in bl2
  <2>1. CASE part.leader = 0
    BY <1>1, <2>1
  <2>2. CASE part.leader # 0
    <3>1. <<q.leader, "DEAD">> \in rep2 <=> <<q.leader, "DEAD">> \in rep
      OBVIOUS
    <3>2. QED
      BY <1>1, <1>7, <2>2, <3>1 DEF Fit
  <2>3. QED
    BY <2>1, <2>2
<1>9. q.leader = 0 => KnownAlive(m, rep2, q) = {}
  BY <1>1, <1>6
<1>10. q.state = "READONLY" => Cardinality(KnownAlive(m, rep2, q)) < MinReplicas
  BY <1>1, <1>2, <1>3, <1>4
<1>11. q.state = "ACTIVE" => "state" \in bl2 \/ Cardinality(MaybeAlive(m, rep2, q)) >= MinReplicas
  <2>1. CASE part.state = "ACTIVE"
    BY <1>5, <1>7, <2>1 DEF Fit
  <2>2. CASE part.state # "ACTIVE"
    BY <1>1, <1>2, <1>3, <1>4, <2>2
  <2>3. QED
    BY <2>1, <2>2
<1>12. q.state = "INIT" => Reps(q) = {}
  BY <1>1, <1>2 DEF Fit
<1>13. QED
  BY <1>8, <1>9, <1>10, <1>11, <1>12 DEF Fit

\* A command that leaves in blind what it set against the detector.
LEMMA FitDisagrees ==
    ASSUME NEW nodes, IsFiniteSet(nodes), NEW q \in Placed(nodes), NEW m, NEW rep,
           q.state = "READONLY" => Cardinality(KnownAlive(m, rep, q)) < MinReplicas,
           q.state = "INIT" => Reps(q) = {}
    PROVE  Fit(m, rep, q, Disagrees(m, q))
<1>1. /\ Available(m, q) \in Nat
      /\ Cardinality(MaybeAlive(m, rep, q)) \in Nat
      /\ Available(m, q) <= Cardinality(MaybeAlive(m, rep, q))
      /\ KnownAlive(m, rep, q) # {} => Available(m, q) > 0
  BY Counts
<1>2. MinReplicas \in Nat
  BY ClusterAssumption
<1>3. /\ q.leader # 0 /\ StateOf(m, q.leader) = "DEAD" => "leader" \in Disagrees(m, q)
      /\ q.leader = 0 /\ Available(m, q) > 0 => "leader" \in Disagrees(m, q)
      /\ q.state = "ACTIVE" /\ Available(m, q) < MinReplicas => "state" \in Disagrees(m, q)
  BY DEF Disagrees
<1>4. QED
  BY <1>1, <1>2, <1>3 DEF Fit

\* dkv_admin_remove_node, for a partition with a replica there.
LEMMA RemovedIs ==
    ASSUME NEW nodes, IsFiniteSet(nodes), NEW part \in Placed(nodes), NEW m, NEW rep, NEW bl,
           Fit(m, rep, part, bl), NEW n \in Reps(part),
           NEW q, q = RemoveReplica(FailureHandled(m, part, n), n),
           NEW m2, \A x \in Reps(part) \ {n} : StateOf(m2, x) = StateOf(m, x)
    PROVE  Fit(m2, rep, q, Disagrees(m2, q))
<1>1. PICK f : f = FailureHandled(m, part, n)
  OBVIOUS
<1>2. /\ f \in Placed(nodes) /\ f.replicas = part.replicas
      /\ f.state = IF Available(m, part) < MinReplicas THEN "READONLY" ELSE part.state
  BY <1>1, FailureHandledIs
<1>3. Reps(f) = Reps(part)
  BY <1>2 DEF Reps
<1>4. q \in Placed(nodes) /\ q.state = f.state /\ Reps(q) = Reps(part) \ {n}
  <2>1. q \in Placed(nodes)
    BY <1>1, <1>2, RemoveReplicaPlaced
  <2>2. f \in PartType /\ Unique(f.replicas)
    BY <1>2, RepsIs
  <2>3. q.state = f.state /\ \A x : In(x, q.replicas) <=> x # n /\ In(x, f.replicas)
    <3>1. q = RemoveReplica(f, n)
      BY <1>1
    <3>2. QED
      BY <2>2, <3>1, RemoveReplicaIs
  <2>4. \A x : (x \in Reps(q) <=> In(x, q.replicas)) /\ (x \in Reps(f) <=> In(x, f.replicas))
    BY <1>2, <2>1, RepsIs
  <2>5. QED
    BY <1>3, <2>1, <2>3, <2>4
<1>5. KnownAlive(m2, rep, q) \subseteq KnownAlive(m, rep, part)
  BY <1>4 DEF KnownAlive
<1>6. IsFiniteSet(KnownAlive(m, rep, part))
  <2>1. IsFiniteSet(Reps(part))
    BY AvailableIs
  <2>2. KnownAlive(m, rep, part) \in SUBSET Reps(part)
    BY DEF KnownAlive
  <2>3. QED
    BY <2>1, <2>2, FS_Subset
<1>7. /\ Cardinality(KnownAlive(m2, rep, q)) \in Nat /\ Cardinality(KnownAlive(m, rep, part)) \in Nat
      /\ Cardinality(KnownAlive(m2, rep, q)) <= Cardinality(KnownAlive(m, rep, part))
  BY <1>5, <1>6, SubsetCount
<1>8. Available(m, part) \in Nat /\ Cardinality(KnownAlive(m, rep, part)) <= Available(m, part)
  BY Counts
<1>9. MinReplicas \in Nat
  BY ClusterAssumption
<1>10. q.state = "READONLY" => Cardinality(KnownAlive(m2, rep, q)) < MinReplicas
  <2>1. CASE Available(m, part) < MinReplicas
    BY <1>7, <1>8, <1>9, <2>1
  <2>2. CASE ~(Available(m, part) < MinReplicas)
    <3>1. q.state = part.state
      BY <1>2, <1>4, <2>2
    <3>2. QED
      BY <1>7, <1>9, <3>1 DEF Fit
  <2>3. QED
    BY <2>1, <2>2
<1>11. q.state = "INIT" => Reps(q) = {}
  BY <1>2, <1>4 DEF Fit
<1>12. QED
  BY <1>4, <1>10, <1>11, FitDisagrees

-----------------------------------------------------------------------------
(* The invariant of the cluster. *)

MemberType == [state : {"ALIVE", "SUSPECT", "DEAD"}, missed : 0 .. FailureThreshold,
               age : 0 .. SuspicionTimeout]

ClusterTyped ==
    /\ hash \in {s.hash : s \in Scenarios}
    /\ DOMAIN member \subseteq Node
    /\ member \in [DOMAIN member -> MemberType]
    /\ up \in [Node -> BOOLEAN]
    /\ reports \subseteq Node \X {"DEAD", "ALIVE"}
    /\ blind \in [Partition -> SUBSET {"leader", "state"}]

PartsInv ==
    /\ parts \in [Partition -> PartType]
    /\ \A p \in Partition :
          /\ parts[p] \in Placed(ring.nodes)
          /\ Fit(member, reports, parts[p], blind[p])

ClusterInv == ClusterTyped /\ RingOK(ring, hash) /\ PartsInv

\* A step that leaves the ring and the partitions alone and changes the detector's view
\* with the callbacks it owes.
LEMMA SeenStep ==
    ASSUME ClusterInv, UNCHANGED <<hash, ring, parts, blind>>, ClusterTyped',
           \A n \in Node :
              /\ StateOf(member', n) = "DEAD" /\ <<n, "DEAD">> \notin reports'
                 => StateOf(member, n) = "DEAD" /\ <<n, "DEAD">> \notin reports
              /\ StateOf(member', n) = "ALIVE" /\ <<n, "ALIVE">> \notin reports'
                 => StateOf(member, n) = "ALIVE" /\ <<n, "ALIVE">> \notin reports
    PROVE  ClusterInv'
<1>1. RingOK(ring, hash) /\ RingOK(ring', hash')
  BY DEF ClusterInv
<1>2. IsFiniteSet(ring.nodes)
  BY <1>1, RingTyped
<1>3. /\ parts' \in [Partition -> PartType]
      /\ \A p \in Partition : parts'[p] = parts[p] /\ blind'[p] = blind[p]
  BY DEF ClusterInv, PartsInv
<1>4. ASSUME NEW p \in Partition
      PROVE  parts[p] \in Placed(ring.nodes) /\ Fit(member', reports', parts[p], blind[p])
  <2>1. parts[p] \in Placed(ring.nodes) /\ Fit(member, reports, parts[p], blind[p])
    BY DEF ClusterInv, PartsInv
  <2>2. Reps(parts[p]) \subseteq Node
    BY <2>1, RepsIs
  <2>3. QED
    BY <1>2, <2>1, <2>2, FitSeen
<1>5. \A p \in Partition : parts'[p] \in Placed(ring'.nodes) /\ Fit(member', reports', parts'[p], blind'[p])
  BY <1>3, <1>4
<1>6. QED
  BY <1>1, <1>3, <1>5 DEF ClusterInv, PartsInv

LEMMA MemberTyped ==
    ASSUME ClusterTyped, NEW n \in DOMAIN member
    PROVE  /\ n \in Node /\ member[n] \in MemberType
           /\ member[n].state \in {"ALIVE", "SUSPECT", "DEAD"}
           /\ member[n].missed \in 0 .. FailureThreshold
           /\ member[n].age \in 0 .. SuspicionTimeout
<1>1. n \in Node /\ member[n] \in MemberType
  BY DEF ClusterTyped
<1>2. QED
  BY <1>1 DEF MemberType

LEMMA AliveTyped == Alive \in MemberType /\ Alive.state = "ALIVE"
BY ClusterAssumption DEF Alive, MemberType

LEMMA AddNodeInv ==
    ASSUME ClusterInv, NEW n \in Node, AddNode(n)
    PROVE  ClusterInv'
<1>1. /\ n \notin ring.nodes /\ ring' = RingAdd(ring, n, hash.vnode[n])
      /\ member' = IF n \in DOMAIN member THEN member
                   ELSE [k \in DOMAIN member \cup {n} |-> IF k = n THEN Alive ELSE member[k]]
      /\ UNCHANGED <<hash, parts, up, reports, blind>>
  BY DEF AddNode, HasNode
<1>2. HashOK(hash) /\ RingOK(ring, hash)
  BY HashesOK DEF ClusterInv, ClusterTyped
<1>3. RingOK(ring', hash') /\ ring'.nodes = ring.nodes \cup {n}
  BY <1>1, <1>2, RingAddOK, RingAddNodes
<1>4. IsFiniteSet(ring.nodes)
  BY <1>2, RingTyped
<1>5. ClusterTyped'
  <2>1. DOMAIN member' \subseteq Node /\ member' \in [DOMAIN member' -> MemberType]
    <3>1. CASE n \in DOMAIN member
      BY <1>1, <3>1 DEF ClusterInv, ClusterTyped
    <3>2. CASE n \notin DOMAIN member
      <4>1. \A k \in DOMAIN member : member[k] \in MemberType /\ k \in Node
        BY MemberTyped DEF ClusterInv
      <4>2. QED
        BY <1>1, <3>2, <4>1, AliveTyped
    <3>3. QED
      BY <3>1, <3>2
  <2>2. QED
    BY <1>1, <2>1 DEF ClusterInv, ClusterTyped
<1>6. \A x : x # n => StateOf(member', x) = StateOf(member, x)
  BY <1>1 DEF StateOf
<1>7. ASSUME NEW p \in Partition
      PROVE  parts'[p] \in Placed(ring'.nodes) /\ Fit(member', reports', parts'[p], blind'[p])
  <2>1. parts[p] \in Placed(ring.nodes) /\ Fit(member, reports, parts[p], blind[p])
    BY DEF ClusterInv, PartsInv
  <2>2. \A x \in Reps(parts[p]) : x # n
    BY <1>1, <2>1, RepsIs
  <2>3. Fit(member', reports, parts[p], blind[p])
    BY <1>4, <1>6, <2>1, <2>2, FitSeen
  <2>4. parts[p] \in Placed(ring.nodes \cup {n})
    BY <2>1 DEF Placed, PlacedOn
  <2>5. QED
    BY <1>1, <1>3, <2>3, <2>4
<1>8. parts' \in [Partition -> PartType]
  BY <1>1 DEF ClusterInv, PartsInv
<1>9. QED
  BY <1>3, <1>5, <1>7, <1>8 DEF ClusterInv, PartsInv

LEMMA DisagreesTyped ==
    ASSUME NEW m, NEW q
    PROVE  Disagrees(m, q) \in SUBSET {"leader", "state"}
BY DEF Disagrees

LEMMA RemoveNodeInv ==
    ASSUME ClusterInv, NEW n \in Node, RemoveNode(n)
    PROVE  ClusterInv'
<1>1. /\ member' = [k \in DOMAIN member \ {n} |-> member[k]]
      /\ ring' = RingRemove(ring, n)
      /\ parts' = [p \in Partition |-> RemoveReplica(FailureHandled(member, parts[p], n), n)]
      /\ blind' = [p \in Partition |->
                      IF HasReplica(parts[p], n) THEN Disagrees(member', parts'[p]) ELSE blind[p]]
      /\ UNCHANGED <<hash, up, reports>>
  BY DEF RemoveNode
<1>2. RingOK(ring, hash)
  BY DEF ClusterInv
<1>3. RingOK(ring', hash') /\ ring'.nodes = ring.nodes \ {n}
  BY <1>1, <1>2, RingRemoveOK
<1>4. IsFiniteSet(ring.nodes)
  BY <1>2, RingTyped
<1>5. /\ DOMAIN member' = DOMAIN member \ {n}
      /\ \A x \in DOMAIN member \ {n} : member'[x] = member[x]
      /\ member' = [x \in DOMAIN member \ {n} |-> member[x]]
  BY <1>1
<1>6. \A x : x # n => StateOf(member', x) = StateOf(member, x)
  BY <1>5 DEF StateOf
<1>7. ASSUME NEW p \in Partition
      PROVE  /\ parts'[p] \in PartType /\ parts'[p] \in Placed(ring'.nodes)
             /\ blind'[p] \in SUBSET {"leader", "state"}
             /\ Fit(member', reports', parts'[p], blind'[p])
  <2>1. parts[p] \in Placed(ring.nodes) /\ Fit(member, reports, parts[p], blind[p])
    BY DEF ClusterInv, PartsInv
  <2>2. PICK part \in Placed(ring.nodes) : part = parts[p]
    BY <2>1
  <2>3. PICK f : f = FailureHandled(member, part, n)
    OBVIOUS
  <2>4. f \in Placed(ring.nodes) /\ f.replicas = part.replicas /\ (n \notin Reps(part) => f = part)
    BY <1>4, <2>3, FailureHandledIs
  <2>5. PICK q : q = RemoveReplica(f, n)
    OBVIOUS
  <2>6. parts'[p] = q
    BY <1>1, <2>2, <2>3, <2>5
  <2>7. q \in Placed(ring'.nodes)
    BY <1>3, <2>4, <2>5, RemoveReplicaPlaced
  <2>8. q \in PartType
    BY <2>7 DEF Placed
  <2>9. HasReplica(part, n) <=> n \in Reps(part)
    BY HasReplicaIs, RepsIs
  <2>10. CASE n \in Reps(part)
    <3>1. blind'[p] = Disagrees(member', q)
      BY <1>1, <2>2, <2>6, <2>9, <2>10
    <3>2. Fit(member', reports, q, Disagrees(member', q))
      BY <1>4, <1>6, <2>1, <2>2, <2>3, <2>5, <2>10, RemovedIs
    <3>3. QED
      BY <1>1, <2>6, <2>7, <2>8, <3>1, <3>2, DisagreesTyped
  <2>11. CASE n \notin Reps(part)
    <3>1. blind'[p] = blind[p] /\ blind[p] \in SUBSET {"leader", "state"}
      BY <1>1, <2>2, <2>9, <2>11 DEF ClusterInv, ClusterTyped
    <3>2. q = part
      <4>1. part \in PartType /\ Unique(part.replicas) /\ ~In(n, part.replicas)
        BY <2>11, RepsIs
      <4>2. {i \in DOMAIN part.replicas : part.replicas[i] = n} = {}
        BY <4>1 DEF In
      <4>3. QED
        BY <2>4, <2>5, <2>11, <4>2 DEF RemoveReplica
    <3>3. \A x \in Reps(part) : x # n
      BY <2>11
    <3>4. Fit(member', reports, part, blind[p])
      BY <1>4, <1>6, <2>1, <2>2, <3>3, FitSeen
    <3>5. QED
      BY <1>1, <2>6, <2>7, <2>8, <3>1, <3>2, <3>4
  <2>12. QED
    BY <2>10, <2>11
<1>8. ClusterTyped'
  <2>1. \A k \in DOMAIN member : member[k] \in MemberType /\ k \in Node
    BY MemberTyped DEF ClusterInv
  <2>2. DOMAIN member' \subseteq Node /\ member' \in [DOMAIN member' -> MemberType]
    BY <1>5, <2>1
  <2>3. blind' \in [Partition -> SUBSET {"leader", "state"}]
    BY <1>1, <1>7
  <2>4. QED
    BY <1>1, <2>2, <2>3 DEF ClusterInv, ClusterTyped
<1>9. parts' \in [Partition -> PartType]
  BY <1>1, <1>7
<1>10. QED
  BY <1>3, <1>7, <1>8, <1>9 DEF ClusterInv, PartsInv

LEMMA RebalanceInv ==
    ASSUME ClusterInv, Rebalance
    PROVE  ClusterInv'
<1>1. /\ parts' = [p \in Partition |-> Rebalanced(p)]
      /\ blind' = [p \in Partition |-> Disagrees(member, parts'[p])]
      /\ UNCHANGED <<hash, ring, member, up, reports>>
  BY DEF Rebalance
<1>2. HashOK(hash) /\ RingOK(ring, hash)
  BY HashesOK DEF ClusterInv, ClusterTyped
<1>3. IsFiniteSet(ring.nodes)
  BY <1>2, RingTyped
<1>4. ASSUME NEW p \in Partition
      PROVE  /\ parts'[p] \in PartType /\ parts'[p] \in Placed(ring'.nodes)
             /\ blind'[p] \in SUBSET {"leader", "state"}
             /\ Fit(member', reports', parts'[p], blind'[p])
  <2>1. parts[p] \in Placed(ring.nodes)
    BY DEF ClusterInv, PartsInv
  <2>2. PICK q : q = Rebalanced(p)
    OBVIOUS
  <2>3. q \in Placed(ring.nodes) /\ q.state = "ACTIVE"
    BY <1>2, <2>1, <2>2, RebalancedIs
  <2>4. parts'[p] = q /\ blind'[p] = Disagrees(member, q)
    BY <1>1, <2>2
  <2>5. Fit(member, reports, q, Disagrees(member, q))
    BY <1>3, <2>3, FitDisagrees
  <2>6. q \in PartType
    BY <2>3 DEF Placed
  <2>7. QED
    BY <1>1, <2>3, <2>4, <2>5, <2>6, DisagreesTyped
<1>5. blind' \in [Partition -> SUBSET {"leader", "state"}] /\ parts' \in [Partition -> PartType]
  BY <1>1, <1>4
<1>6. ClusterTyped'
  BY <1>1, <1>5 DEF ClusterInv, ClusterTyped
<1>7. RingOK(ring', hash')
  BY <1>1, <1>2
<1>8. QED
  BY <1>4, <1>5, <1>6, <1>7 DEF ClusterInv, PartsInv

LEMMA PingResponseInv ==
    ASSUME ClusterInv, NEW n \in Node, PingResponse(n)
    PROVE  ClusterInv'
<1>1. /\ n \in DOMAIN member /\ member' = [member EXCEPT ![n] = Alive]
      /\ reports' = reports \cup ((IF member[n].state = "ALIVE" THEN {} ELSE {n}) \X {"ALIVE"})
      /\ UNCHANGED <<hash, ring, parts, up, blind>>
  BY DEF PingResponse, Report
<1>2. ClusterTyped
  BY DEF ClusterInv
<1>3. /\ DOMAIN member' = DOMAIN member
      /\ \A x \in DOMAIN member : member'[x] = IF x = n THEN Alive ELSE member[x]
  BY <1>1
<1>4. ClusterTyped'
  <2>1. \A k \in DOMAIN member : member[k] \in MemberType /\ k \in Node
    BY <1>2, MemberTyped
  <2>2. member' \in [DOMAIN member' -> MemberType] /\ DOMAIN member' \subseteq Node
    BY <1>1, <1>3, <2>1, AliveTyped
  <2>3. reports' \subseteq Node \X {"DEAD", "ALIVE"}
    BY <1>1, <1>2 DEF ClusterTyped
  <2>4. QED
    BY <1>1, <1>2, <2>2, <2>3 DEF ClusterTyped
<1>5. /\ StateOf(member', n) = "ALIVE"
      /\ \A x : x # n => StateOf(member', x) = StateOf(member, x)
  BY <1>1, <1>3, AliveTyped DEF StateOf
<1>6. /\ \A x : x # n => (<<x, "ALIVE">> \in reports' <=> <<x, "ALIVE">> \in reports)
      /\ \A x : <<x, "DEAD">> \in reports' <=> <<x, "DEAD">> \in reports
      /\ <<n, "ALIVE">> \notin reports' => <<n, "ALIVE">> \notin reports /\ member[n].state = "ALIVE"
  BY <1>1
<1>7. member[n].state = "ALIVE" => StateOf(member, n) = "ALIVE"
  BY <1>1 DEF StateOf
<1>8. ASSUME NEW x \in Node
      PROVE /\ StateOf(member', x) = "DEAD" /\ <<x, "DEAD">> \notin reports'
               => StateOf(member, x) = "DEAD" /\ <<x, "DEAD">> \notin reports
            /\ StateOf(member', x) = "ALIVE" /\ <<x, "ALIVE">> \notin reports'
               => StateOf(member, x) = "ALIVE" /\ <<x, "ALIVE">> \notin reports
  <2>1. CASE x = n
    BY <1>5, <1>6, <1>7, <2>1
  <2>2. CASE x # n
    BY <1>5, <1>6, <2>2
  <2>3. QED
    BY <2>1, <2>2
<1>9. QED
  BY <1>1, <1>4, <1>8, SeenStep

LEMMA PingTimeoutInv ==
    ASSUME ClusterInv, NEW n \in Node, PingTimeout(n)
    PROVE  ClusterInv'
<1>1. PICK missed : missed = IF member[n].missed < FailureThreshold THEN member[n].missed + 1
                             ELSE FailureThreshold
  OBVIOUS
<1>2. PICK new : new = IF member[n].state = "ALIVE" /\ missed >= FailureThreshold
                       THEN [state |-> "SUSPECT", missed |-> missed, age |-> 0]
                       ELSE [member[n] EXCEPT !.missed = missed]
  OBVIOUS
<1>3. /\ n \in DOMAIN member /\ member' = [member EXCEPT ![n] = new]
      /\ UNCHANGED <<hash, ring, parts, up, reports, blind>>
  BY <1>1, <1>2 DEF PingTimeout
<1>4. ClusterTyped
  BY DEF ClusterInv
<1>5. new \in MemberType /\ (new.state = member[n].state \/ new.state = "SUSPECT")
  <2>1. /\ member[n] \in MemberType
        /\ member[n].missed \in 0 .. FailureThreshold
    BY <1>3, <1>4, MemberTyped
  <2>2. FailureThreshold \in Nat /\ SuspicionTimeout \in Nat
    BY ClusterAssumption
  <2>3. missed \in 0 .. FailureThreshold
    BY <1>1, <2>1, <2>2
  <2>4. QED
    BY <1>2, <2>1, <2>2, <2>3 DEF MemberType
<1>6. /\ DOMAIN member' = DOMAIN member
      /\ \A x \in DOMAIN member : member'[x] = IF x = n THEN new ELSE member[x]
  BY <1>3
<1>7. ClusterTyped'
  <2>1. \A k \in DOMAIN member : member[k] \in MemberType /\ k \in Node
    BY <1>4, MemberTyped
  <2>2. member' \in [DOMAIN member' -> MemberType] /\ DOMAIN member' \subseteq Node
    BY <1>3, <1>5, <1>6, <2>1
  <2>3. QED
    BY <1>3, <1>4, <2>2 DEF ClusterTyped
<1>8. \A x : StateOf(member', x) = StateOf(member, x) \/ StateOf(member', x) = "SUSPECT"
  BY <1>3, <1>5, <1>6 DEF StateOf
<1>9. QED
  BY <1>3, <1>7, <1>8, SeenStep

LEMMA ElapseInv ==
    ASSUME ClusterInv, Elapse
    PROVE  ClusterInv'
<1>1. /\ member' = [n \in DOMAIN member |->
                     IF n \in Suspects /\ member[n].age < SuspicionTimeout
                     THEN [member[n] EXCEPT !.age = @ + 1] ELSE member[n]]
      /\ UNCHANGED <<hash, ring, parts, up, reports, blind>>
  BY DEF Elapse
<1>2. ClusterTyped
  BY DEF ClusterInv
<1>3. \A n \in DOMAIN member :
         /\ n \in Node /\ member'[n] \in MemberType /\ member'[n].state = member[n].state
  <2> TAKE n \in DOMAIN member
  <2>1. n \in Node /\ member[n] \in MemberType /\ member[n].age \in 0 .. SuspicionTimeout
    BY <1>2, MemberTyped
  <2>2. SuspicionTimeout \in Nat
    BY ClusterAssumption
  <2>3. member[n].age < SuspicionTimeout => member[n].age + 1 \in 0 .. SuspicionTimeout
    BY <2>1, <2>2
  <2>4. member'[n] = IF n \in Suspects /\ member[n].age < SuspicionTimeout
                     THEN [member[n] EXCEPT !.age = member[n].age + 1] ELSE member[n]
    BY <1>1
  <2>5. QED
    BY <2>1, <2>3, <2>4 DEF MemberType
<1>4. DOMAIN member' = DOMAIN member /\ member' \in [DOMAIN member -> MemberType]
  BY <1>1, <1>3
<1>5. ClusterTyped'
  BY <1>1, <1>2, <1>4 DEF ClusterTyped
<1>6. \A x : StateOf(member', x) = StateOf(member, x)
  BY <1>3, <1>4 DEF StateOf
<1>7. QED
  BY <1>1, <1>5, <1>6, SeenStep

LEMMA TickInv ==
    ASSUME ClusterInv, Tick
    PROVE  ClusterInv'
<1>1. PICK late : late = {n \in Suspects : member[n].age >= SuspicionTimeout}
  OBVIOUS
<1>2. /\ member' = [n \in DOMAIN member |->
                      IF n \in late THEN [member[n] EXCEPT !.state = "DEAD", !.age = 0]
                                    ELSE member[n]]
      /\ reports' = reports \cup (late \X {"DEAD"})
      /\ UNCHANGED <<hash, ring, parts, up, blind>>
  BY <1>1 DEF Tick, Report
<1>3. ClusterTyped
  BY DEF ClusterInv
<1>4. late \subseteq DOMAIN member /\ \A n \in late : member[n].state = "SUSPECT"
  BY <1>1 DEF Suspects
<1>5. \A n \in DOMAIN member :
         /\ n \in Node /\ member'[n] \in MemberType
         /\ member'[n].state = IF n \in late THEN "DEAD" ELSE member[n].state
  <2> TAKE n \in DOMAIN member
  <2>1. n \in Node /\ member[n] \in MemberType
    BY <1>3, MemberTyped
  <2>2. SuspicionTimeout \in Nat
    BY ClusterAssumption
  <2>3. member'[n] = IF n \in late THEN [member[n] EXCEPT !.state = "DEAD", !.age = 0] ELSE member[n]
    BY <1>2
  <2>4. CASE n \in late
    <3>1. member'[n] = [member[n] EXCEPT !.state = "DEAD", !.age = 0]
      BY <2>3, <2>4
    <3>2. 0 \in 0 .. SuspicionTimeout
      BY <2>2
    <3>3. member'[n] \in MemberType /\ member'[n].state = "DEAD"
      BY <2>1, <3>1, <3>2 DEF MemberType
    <3>4. QED
      BY <2>1, <2>4, <3>3
  <2>5. CASE n \notin late
    BY <2>1, <2>3, <2>5
  <2>6. QED
    BY <2>4, <2>5
<1>6. DOMAIN member' = DOMAIN member /\ member' \in [DOMAIN member -> MemberType]
  BY <1>2, <1>5
<1>7. reports' \subseteq Node \X {"DEAD", "ALIVE"}
  BY <1>2, <1>3, <1>4, <1>5 DEF ClusterTyped
<1>8. ClusterTyped'
  BY <1>2, <1>3, <1>6, <1>7 DEF ClusterTyped
<1>9. \A x : /\ x \in late => StateOf(member', x) = "DEAD" /\ <<x, "DEAD">> \in reports'
             /\ x \notin late => StateOf(member', x) = StateOf(member, x)
  BY <1>2, <1>4, <1>5, <1>6 DEF StateOf
<1>10. \A x : /\ <<x, "ALIVE">> \in reports' <=> <<x, "ALIVE">> \in reports
              /\ <<x, "DEAD">> \in reports => <<x, "DEAD">> \in reports'
  BY <1>2
<1>11. QED
  BY <1>2, <1>8, <1>9, <1>10, SeenStep

LEMMA UpInv ==
    ASSUME ClusterInv, UNCHANGED <<hash, ring, parts, member, reports, blind>>,
           up' \in [Node -> BOOLEAN]
    PROVE  ClusterInv'
<1>1. ClusterTyped'
  BY DEF ClusterInv, ClusterTyped
<1>2. member' = member /\ reports' = reports
  OBVIOUS
<1>3. QED
  BY <1>1, <1>2, SeenStep

LEMMA HandleFailureInv ==
    ASSUME ClusterInv, NEW n \in Node, HandleFailure(n)
    PROVE  ClusterInv'
<1>1. /\ reports' = reports \ {<<n, "DEAD">>}
      /\ parts' = [p \in Partition |-> FailureHandled(member, parts[p], n)]
      /\ blind' = [p \in Partition |->
                      IF ~HasReplica(parts[p], n) THEN blind[p]
                      ELSE blind[p] \ ({"state"} \cup {x \in {"leader"} : parts[p].leader = n})]
      /\ UNCHANGED <<hash, ring, member, up>>
  BY DEF HandleFailure
<1>2. RingOK(ring, hash) /\ ClusterTyped
  BY DEF ClusterInv
<1>3. IsFiniteSet(ring.nodes)
  BY <1>2, RingTyped
<1>4. ASSUME NEW p \in Partition
      PROVE  /\ parts'[p] \in PartType /\ parts'[p] \in Placed(ring'.nodes)
             /\ blind'[p] \in SUBSET {"leader", "state"}
             /\ Fit(member', reports', parts'[p], blind'[p])
  <2>1. parts[p] \in Placed(ring.nodes) /\ Fit(member, reports, parts[p], blind[p])
    BY DEF ClusterInv, PartsInv
  <2>2. PICK part \in Placed(ring.nodes) : part = parts[p]
    BY <2>1
  <2>3. PICK q : q = FailureHandled(member, part, n)
    OBVIOUS
  <2>4. q \in Placed(ring.nodes) /\ (n \notin Reps(part) => q = part)
    BY <1>3, <2>3, FailureHandledIs
  <2>5. parts'[p] = q /\ q \in PartType
    BY <1>1, <2>2, <2>3, <2>4 DEF Placed
  <2>6. HasReplica(part, n) <=> n \in Reps(part)
    BY HasReplicaIs, RepsIs
  <2>7. blind[p] \in SUBSET {"leader", "state"}
    BY <1>2 DEF ClusterTyped
  <2>8. CASE n \in Reps(part)
    <3>1. PICK bl : bl = blind[p] \ ({"state"} \cup {x \in {"leader"} : part.leader = n})
      OBVIOUS
    <3>2. blind'[p] = bl
      BY <1>1, <2>2, <2>6, <2>8, <3>1
    <3>3. Fit(member, reports', q, bl)
      BY <1>1, <1>3, <2>1, <2>2, <2>3, <2>8, <3>1, FitFailure
    <3>4. QED
      BY <1>1, <2>4, <2>5, <2>7, <3>1, <3>2, <3>3
  <2>9. CASE n \notin Reps(part)
    <3>1. blind'[p] = blind[p] /\ q = part
      BY <1>1, <2>2, <2>4, <2>6, <2>9
    <3>2. \A x \in Reps(part) : x # n
      BY <2>9
    <3>3. \A x \in Reps(part), s \in {"DEAD", "ALIVE"} : <<x, s>> \in reports' <=> <<x, s>> \in reports
      BY <1>1, <3>2
    <3>4. Fit(member, reports', part, blind[p])
      BY <1>3, <2>1, <2>2, <3>3, FitSeen
    <3>5. QED
      BY <1>1, <2>4, <2>5, <2>7, <3>1, <3>4
  <2>10. QED
    BY <2>8, <2>9
<1>5. blind' \in [Partition -> SUBSET {"leader", "state"}] /\ parts' \in [Partition -> PartType]
  BY <1>1, <1>4
<1>6. ClusterTyped'
  BY <1>1, <1>2, <1>5 DEF ClusterTyped
<1>7. RingOK(ring', hash')
  BY <1>1, <1>2
<1>8. QED
  BY <1>4, <1>5, <1>6, <1>7 DEF ClusterInv, PartsInv

LEMMA HandleRecoveryInv ==
    ASSUME ClusterInv, NEW n \in Node, HandleRecovery(n)
    PROVE  ClusterInv'
<1>1. /\ reports' = reports \ {<<n, "ALIVE">>}
      /\ parts' = [p \in Partition |-> RecoveryHandled(member, parts[p], n)]
      /\ blind' = [p \in Partition |->
                      IF ~HasReplica(parts[p], n) THEN blind[p]
                      ELSE blind[p] \ {x \in {"leader"} : parts[p].leader = 0}]
      /\ UNCHANGED <<hash, ring, member, up>>
  BY DEF HandleRecovery
<1>2. RingOK(ring, hash) /\ ClusterTyped
  BY DEF ClusterInv
<1>3. IsFiniteSet(ring.nodes)
  BY <1>2, RingTyped
<1>4. ASSUME NEW p \in Partition
      PROVE  /\ parts'[p] \in PartType /\ parts'[p] \in Placed(ring'.nodes)
             /\ blind'[p] \in SUBSET {"leader", "state"}
             /\ Fit(member', reports', parts'[p], blind'[p])
  <2>1. parts[p] \in Placed(ring.nodes) /\ Fit(member, reports, parts[p], blind[p])
    BY DEF ClusterInv, PartsInv
  <2>2. PICK part \in Placed(ring.nodes) : part = parts[p]
    BY <2>1
  <2>3. PICK q : q = RecoveryHandled(member, part, n)
    OBVIOUS
  <2>4. q \in Placed(ring.nodes) /\ (n \notin Reps(part) => q = part)
    BY <1>3, <2>3, RecoveryHandledIs
  <2>5. parts'[p] = q /\ q \in PartType
    BY <1>1, <2>2, <2>3, <2>4 DEF Placed
  <2>6. HasReplica(part, n) <=> n \in Reps(part)
    BY HasReplicaIs, RepsIs
  <2>7. blind[p] \in SUBSET {"leader", "state"}
    BY <1>2 DEF ClusterTyped
  <2>8. CASE n \in Reps(part)
    <3>1. PICK bl : bl = blind[p] \ {x \in {"leader"} : part.leader = 0}
      OBVIOUS
    <3>2. blind'[p] = bl
      BY <1>1, <2>2, <2>6, <2>8, <3>1
    <3>3. Fit(member, reports', q, bl)
      BY <1>1, <1>3, <2>1, <2>2, <2>3, <2>8, <3>1, FitRecovery
    <3>4. QED
      BY <1>1, <2>4, <2>5, <2>7, <3>1, <3>2, <3>3
  <2>9. CASE n \notin Reps(part)
    <3>1. blind'[p] = blind[p] /\ q = part
      BY <1>1, <2>2, <2>4, <2>6, <2>9
    <3>2. \A x \in Reps(part) : x # n
      BY <2>9
    <3>3. \A x \in Reps(part), s \in {"DEAD", "ALIVE"} : <<x, s>> \in reports' <=> <<x, s>> \in reports
      BY <1>1, <3>2
    <3>4. Fit(member, reports', part, blind[p])
      BY <1>3, <2>1, <2>2, <3>3, FitSeen
    <3>5. QED
      BY <1>1, <2>4, <2>5, <2>7, <3>1, <3>4
  <2>10. QED
    BY <2>8, <2>9
<1>5. blind' \in [Partition -> SUBSET {"leader", "state"}] /\ parts' \in [Partition -> PartType]
  BY <1>1, <1>4
<1>6. ClusterTyped'
  BY <1>1, <1>2, <1>5 DEF ClusterTyped
<1>7. RingOK(ring', hash')
  BY <1>1, <1>2
<1>8. QED
  BY <1>4, <1>5, <1>6, <1>7 DEF ClusterInv, PartsInv

LEMMA ClusterInitInv ==
    ASSUME ClusterInit
    PROVE  ClusterInv
<1>1. /\ hash \in {s.hash : s \in Scenarios} /\ ring = EmptyRing
      /\ parts = [p \in Partition |-> [replicas |-> <<>>, leader |-> 0, state |-> "INIT"]]
      /\ member = [n \in {} |-> Alive] /\ up = [n \in Node |-> TRUE] /\ reports = {}
      /\ blind = [p \in Partition |-> {}]
  BY DEF ClusterInit
<1>2. ClusterTyped
  <2>1. DOMAIN member = {} /\ member \in [DOMAIN member -> MemberType]
    BY <1>1
  <2>2. QED
    BY <1>1, <2>1 DEF ClusterTyped
<1>3. RingOK(ring, hash)
  BY <1>1, EmptyRingOK
<1>4. ASSUME NEW p \in Partition
      PROVE  /\ parts[p] \in PartType /\ parts[p] \in Placed(ring.nodes)
             /\ Fit(member, reports, parts[p], blind[p])
  <2>1. PICK part : part = parts[p]
    OBVIOUS
  <2>2. part = [replicas |-> <<>>, leader |-> 0, state |-> "INIT"]
    BY <1>1, <2>1
  <2>3. part \in PartType /\ DOMAIN part.replicas = {} /\ part.leader = 0 /\ part.state = "INIT"
    BY <2>2 DEF PartType
  <2>4. Reps(part) = {}
    BY <2>3 DEF Reps
  <2>5. part \in Placed(ring.nodes)
    BY <2>3 DEF Placed, PlacedOn, Unique
  <2>6. KnownAlive(member, reports, part) = {}
    BY <2>4 DEF KnownAlive
  <2>7. QED
    BY <2>1, <2>3, <2>4, <2>5, <2>6 DEF Fit
<1>5. parts \in [Partition -> PartType]
  BY <1>1, <1>4
<1>6. QED
  BY <1>2, <1>3, <1>4, <1>5 DEF ClusterInv, PartsInv

LEMMA ClusterNextInv ==
    ASSUME ClusterInv, ClusterNext
    PROVE  ClusterInv'
<1>1. ASSUME NEW n \in Node, Crash(n) PROVE ClusterInv'
  BY <1>1, UpInv DEF Crash, ClusterInv, ClusterTyped
<1>2. ASSUME NEW n \in Node, Restart(n) PROVE ClusterInv'
  BY <1>2, UpInv DEF Restart, ClusterInv, ClusterTyped
<1>3. QED
  BY <1>1, <1>2, AddNodeInv, RemoveNodeInv, PingResponseInv, PingTimeoutInv, HandleFailureInv,
     HandleRecoveryInv, RebalanceInv, ElapseInv, TickInv DEF ClusterNext

-----------------------------------------------------------------------------
(* The store of a partition. *)

Slot == [key : Key, value : Value \cup {Absent}, deleted : BOOLEAN]

\* A key has at most one slot that is not deleted.
OneSlot(e) ==
    \A i, j \in DOMAIN e : e[i].key = e[j].key /\ ~e[i].deleted /\ ~e[j].deleted => i = j

Live(e, k) == {i \in DOMAIN e : e[i].key = k /\ ~e[i].deleted}

LEMMA FindEntryIs ==
    ASSUME NEW e \in Seq(Slot), NEW k
    PROVE  IF Live(e, k) = {} THEN FindEntry(e, k) = 0
           ELSE FindEntry(e, k) \in Live(e, k) /\ FindEntry(e, k) # 0
<1>1. FindEntry(e, k) = IF Live(e, k) = {} THEN 0
                        ELSE CHOOSE i \in Live(e, k) : \A j \in Live(e, k) : i <= j
  BY DEF FindEntry, Live
<1>2. Live(e, k) \in SUBSET Nat /\ 0 \notin Live(e, k)
  BY DEF Live
<1>3. CASE Live(e, k) # {}
  <2>1. \E i \in Live(e, k) : \A j \in Live(e, k) : i <= j
    BY <1>2, <1>3, LeastNat
  <2>2. FindEntry(e, k) \in Live(e, k)
    BY <1>1, <1>3, <2>1
  <2>3. QED
    BY <1>2, <1>3, <2>2
<1>4. QED
  BY <1>1, <1>3

\* storage_adapter_get gives the value of the slot, if there is one.
LEMMA GetEntryIs ==
    ASSUME NEW e \in Seq(Slot), OneSlot(e), NEW k
    PROVE  /\ \A i \in Live(e, k) : GetEntry(e, k) = e[i].value
           /\ Live(e, k) = {} => GetEntry(e, k) = Absent
<1>1. PICK i : i = FindEntry(e, k)
  OBVIOUS
<1>2. IF Live(e, k) = {} THEN i = 0 ELSE i \in Live(e, k) /\ i # 0
  BY <1>1, FindEntryIs
<1>3. GetEntry(e, k) = IF i = 0 THEN Absent ELSE e[i].value
  BY <1>1 DEF GetEntry
<1>4. \A a, b \in Live(e, k) : a = b
  BY DEF Live, OneSlot
<1>5. ASSUME NEW j \in Live(e, k) PROVE GetEntry(e, k) = e[j].value
  <2>1. i = j /\ i # 0
    BY <1>2, <1>4
  <2>2. QED
    BY <1>3, <2>1
<1>6. QED
  BY <1>2, <1>3, <1>5

LEMMA SlotTyped ==
    ASSUME NEW e \in Seq(Slot), NEW i \in DOMAIN e
    PROVE  /\ e[i] \in Slot /\ e[i].key \in Key /\ e[i].value \in Value \cup {Absent}
           /\ e[i].deleted \in BOOLEAN
<1>1. e[i] \in Slot
  BY ElementOf
<1>2. QED
  BY <1>1 DEF Slot

\* The same slots, of which those of key k that are not deleted may have changed, and
\* one may have come.
SameBut(e, f, k) ==
    /\ f \in Seq(Slot) /\ OneSlot(f)
    /\ \A x : x # k => /\ Live(f, x) = Live(e, x)
                       /\ \A i \in Live(e, x) : f[i].value = e[i].value

LEMMA SameButGet ==
    ASSUME NEW e \in Seq(Slot), OneSlot(e), NEW f, NEW k, SameBut(e, f, k), NEW x, x # k
    PROVE  GetEntry(f, x) = GetEntry(e, x)
<1>1. /\ f \in Seq(Slot) /\ OneSlot(f) /\ Live(f, x) = Live(e, x)
      /\ \A i \in Live(e, x) : f[i].value = e[i].value
  BY DEF SameBut
<1>2. CASE Live(e, x) = {}
  BY <1>1, <1>2, GetEntryIs
<1>3. CASE Live(e, x) # {}
  <2>1. PICK i : i \in Live(e, x)
    BY <1>3
  <2>2. GetEntry(e, x) = e[i].value
    BY <2>1, GetEntryIs
  <2>3. GetEntry(f, x) = f[i].value
    BY <1>1, <2>1, GetEntryIs
  <2>4. QED
    BY <1>1, <2>1, <2>2, <2>3
<1>4. QED
  BY <1>2, <1>3

LEMMA PutEntryIs ==
    ASSUME NEW e \in Seq(Slot), OneSlot(e), NEW k \in Key, NEW v \in Value, NEW f,
           f = PutEntry(e, k, v)
    PROVE  /\ SameBut(e, f, k) /\ Len(f) >= Len(e)
           /\ GetEntry(f, k) = v \/ (GetEntry(f, k) = Absent /\ Len(f) >= Slots)
<1>1. PICK i : i = FindEntry(e, k)
  OBVIOUS
<1>2. IF Live(e, k) = {} THEN i = 0 ELSE i \in Live(e, k) /\ i # 0
  BY <1>1, FindEntryIs
<1>3. CASE i # 0
  <2>1. f = [e EXCEPT ![i].value = v]
    BY <1>1, <1>3 DEF PutEntry
  <2>2. i \in DOMAIN e /\ e[i].key = k /\ ~e[i].deleted /\ e[i] \in Slot
    BY <1>2, <1>3, SlotTyped DEF Live
  <2>3. PICK s : s = [e[i] EXCEPT !.value = v]
    OBVIOUS
  <2>4. s \in Slot /\ s.key = k /\ s.value = v /\ s.deleted = e[i].deleted
    BY <2>2, <2>3 DEF Slot
  <2>5. f = [e EXCEPT ![i] = s]
    BY <2>1, <2>3
  <2>6. /\ f \in Seq(Slot) /\ DOMAIN f = DOMAIN e /\ f[i] = s
        /\ \A j \in DOMAIN e : j # i => f[j] = e[j]
    BY <2>2, <2>4, <2>5
  <2>7. /\ \A j \in DOMAIN e : f[j].key = e[j].key /\ f[j].deleted = e[j].deleted
        /\ \A j \in DOMAIN e : j # i => f[j].value = e[j].value
    BY <2>2, <2>4, <2>6
  <2>8. \A x : Live(f, x) = Live(e, x)
    BY <2>6, <2>7 DEF Live
  <2>9. OneSlot(f)
    BY <2>6, <2>7 DEF OneSlot
  <2>10. \A x : x # k => \A j \in Live(e, x) : f[j].value = e[j].value
    BY <2>2, <2>7 DEF Live
  <2>11. i \in Live(f, k)
    BY <2>2, <2>8 DEF Live
  <2>12. GetEntry(f, k) = v
    BY <2>4, <2>6, <2>9, <2>11, GetEntryIs
  <2>13. Len(f) >= Len(e)
    BY <2>6
  <2>14. QED
    BY <2>6, <2>8, <2>9, <2>10, <2>12, <2>13 DEF SameBut
<1>4. CASE i = 0 /\ Len(e) >= Slots
  <2>1. f = e
    BY <1>1, <1>4 DEF PutEntry
  <2>2. GetEntry(e, k) = Absent
    BY <1>2, <1>4, GetEntryIs
  <2>3. QED
    BY <1>4, <2>1, <2>2 DEF SameBut
<1>5. CASE i = 0 /\ ~(Len(e) >= Slots)
  <2>0. PICK s : s = [key |-> k, value |-> v, deleted |-> FALSE]
    OBVIOUS
  <2>1. f = Append(e, s)
    BY <1>1, <1>5, <2>0 DEF PutEntry
  <2>2. s \in Slot /\ s.key = k /\ s.value = v /\ s.deleted = FALSE
    BY <2>0 DEF Slot
  <2>3. PICK n \in Nat : n = Len(e) + 1
    OBVIOUS
  <2>4. /\ f \in Seq(Slot) /\ n \in DOMAIN f /\ f[n] = s /\ n \notin DOMAIN e
        /\ DOMAIN f = DOMAIN e \cup {n}
        /\ \A j \in DOMAIN e : f[j] = e[j]
    BY <2>1, <2>2, <2>3
  <2>5. \A j \in DOMAIN e : e[j].key = k => e[j].deleted
    BY <1>2, <1>5, SlotTyped DEF Live
  <2>6. OneSlot(f)
    BY <2>2, <2>4, <2>5 DEF OneSlot
  <2>7. \A x : x # k => Live(f, x) = Live(e, x)
    BY <2>2, <2>4 DEF Live
  <2>8. \A x : \A j \in Live(e, x) : f[j].value = e[j].value
    BY <2>4 DEF Live
  <2>9. n \in Live(f, k)
    BY <2>2, <2>4 DEF Live
  <2>10. GetEntry(f, k) = v
    BY <2>2, <2>4, <2>6, <2>9, GetEntryIs
  <2>11. Len(f) >= Len(e)
    BY <2>1
  <2>12. QED
    BY <2>4, <2>6, <2>7, <2>8, <2>10, <2>11 DEF SameBut
<1>6. QED
  BY <1>3, <1>4, <1>5

LEMMA DeleteEntryIs ==
    ASSUME NEW e \in Seq(Slot), OneSlot(e), NEW k \in Key, NEW f, f = DeleteEntry(e, k)
    PROVE  SameBut(e, f, k) /\ GetEntry(f, k) = Absent /\ Len(f) >= Len(e)
<1>1. PICK i : i = FindEntry(e, k)
  OBVIOUS
<1>2. IF Live(e, k) = {} THEN i = 0 ELSE i \in Live(e, k) /\ i # 0
  BY <1>1, FindEntryIs
<1>3. CASE i # 0
  <2>1. f = [e EXCEPT ![i].deleted = TRUE]
    BY <1>1, <1>3 DEF DeleteEntry
  <2>2. i \in DOMAIN e /\ e[i].key = k /\ ~e[i].deleted /\ e[i] \in Slot
    BY <1>2, <1>3, SlotTyped DEF Live
  <2>3. PICK s : s = [e[i] EXCEPT !.deleted = TRUE]
    OBVIOUS
  <2>4. s \in Slot /\ s.key = k /\ s.deleted = TRUE
    BY <2>2, <2>3 DEF Slot
  <2>5. f = [e EXCEPT ![i] = s]
    BY <2>1, <2>3
  <2>6. /\ f \in Seq(Slot) /\ DOMAIN f = DOMAIN e /\ f[i] = s
        /\ \A j \in DOMAIN e : j # i => f[j] = e[j]
    BY <2>2, <2>4, <2>5
  <2>7. OneSlot(f)
    BY <2>4, <2>6 DEF OneSlot
  <2>8. \A x : x # k => Live(f, x) = Live(e, x)
    BY <2>2, <2>4, <2>6 DEF Live
  <2>9. \A x : x # k => \A j \in Live(e, x) : f[j].value = e[j].value
    BY <2>2, <2>6 DEF Live
  <2>10. Live(f, k) = {}
    <3>1. \A j \in Live(e, k) : j = i
      BY <2>2 DEF Live, OneSlot
    <3>2. QED
      BY <2>4, <2>6, <3>1 DEF Live
  <2>11. GetEntry(f, k) = Absent
    BY <2>6, <2>7, <2>10, GetEntryIs
  <2>12. Len(f) >= Len(e)
    BY <2>6
  <2>13. QED
    BY <2>6, <2>7, <2>8, <2>9, <2>11, <2>12 DEF SameBut
<1>4. CASE i = 0
  <2>1. f = e
    BY <1>1, <1>4 DEF DeleteEntry
  <2>2. GetEntry(e, k) = Absent
    BY <1>2, <1>4, GetEntryIs
  <2>3. QED
    BY <2>1, <2>2 DEF SameBut
<1>5. QED
  BY <1>3, <1>4

\* The store shows w for key k: it holds w, or it is full and holds no k.
Shows(e, k, w) == GetEntry(e, k) = w \/ (GetEntry(e, k) = Absent /\ Len(e) >= Slots)

\* apply_entry changes what the store shows of one key.
LEMMA ApplyEntryIs ==
    ASSUME NEW e \in Seq(Slot), OneSlot(e), NEW op \in Op, NEW f, f = ApplyEntry(e, op)
    PROVE  /\ f \in Seq(Slot) /\ OneSlot(f)
           /\ \A x, w : Shows(e, x, w) => Shows(f, x, IF op.key = x THEN op.value ELSE w)
<1>1. op.key \in Key /\ op.value \in Value \cup {Absent}
  BY DEF Op
<1>2. PICK k \in Key : k = op.key
  BY <1>1
<1>3. SameBut(e, f, k) /\ Len(f) >= Len(e) /\ Shows(f, k, op.value)
  <2>1. CASE op.value = Absent
    <3>1. f = DeleteEntry(e, k)
      BY <1>2, <2>1 DEF ApplyEntry
    <3>2. QED
      BY <2>1, <3>1, DeleteEntryIs DEF Shows
  <2>2. CASE op.value # Absent
    <3>1. PICK v \in Value : v = op.value
      BY <1>1, <2>2
    <3>2. f = PutEntry(e, k, v)
      BY <1>2, <2>2, <3>1 DEF ApplyEntry
    <3>3. QED
      BY <3>1, <3>2, PutEntryIs DEF Shows
  <2>3. QED
    BY <2>1, <2>2
<1>4. \A x : x # k => GetEntry(f, x) = GetEntry(e, x)
  BY <1>3, SameButGet
<1>5. Len(e) \in Nat /\ Len(f) \in Nat /\ Slots \in Nat
  BY <1>3, KeyAssumption DEF SameBut
<1>6. ASSUME NEW x, NEW w, Shows(e, x, w), x # k PROVE Shows(f, x, w)
  <2>1. GetEntry(f, x) = GetEntry(e, x)
    BY <1>4, <1>6
  <2>2. QED
    BY <1>3, <1>5, <1>6, <2>1 DEF Shows
<1>7. QED
  BY <1>2, <1>3, <1>6 DEF SameBut

-----------------------------------------------------------------------------
(* The log of a replication group. *)

\* v is what the last of the first n operations on k left, or old if there is none.
LastIs(ops, n, k, old, v) ==
    /\ \A i \in 1 .. n : ops[i].key = k /\ (\A j \in i + 1 .. n : ops[j].key # k) => v = ops[i].value
    /\ (\A i \in 1 .. n : ops[i].key # k) => v = old

LEMMA LastUnique ==
    ASSUME NEW ops, NEW n \in Nat, NEW k, NEW old, NEW v, NEW w,
           LastIs(ops, n, k, old, v), LastIs(ops, n, k, old, w)
    PROVE  v = w
<1> DEFINE T == {i \in 1 .. n : ops[i].key = k}
<1>1. CASE T = {}
  BY <1>1 DEF LastIs
<1>2. CASE T # {}
  <2>1. T \in SUBSET Nat /\ \A x \in T : x <= n
    OBVIOUS
  <2>2. PICK m \in T : \A y \in T : y <= m
    BY <1>2, <2>1, GreatestNat
  <2>3. m \in 1 .. n /\ ops[m].key = k
    BY <2>2
  <2>4. \A j \in m + 1 .. n : j \in 1 .. n /\ ~(j <= m)
    BY <2>3
  <2>5. \A j \in m + 1 .. n : ops[j].key # k
    BY <2>2, <2>4
  <2>6. QED
    BY <2>3, <2>5 DEF LastIs
<1>3. QED
  BY <1>1, <1>2

LEMMA LastNext ==
    ASSUME NEW ops, NEW n \in Nat \ {0}, NEW k, NEW old, NEW v, LastIs(ops, n - 1, k, old, v),
           NEW w, w = IF ops[n].key = k THEN ops[n].value ELSE v
    PROVE  LastIs(ops, n, k, old, w)
<1>1. \A i \in 1 .. n : i \in 1 .. n - 1 \/ i = n
  OBVIOUS
<1>2. CASE ops[n].key = k
  <2>1. \A i \in 1 .. n - 1 : n \in i + 1 .. n
    OBVIOUS
  <2>2. n \in 1 .. n
    OBVIOUS
  <2>3. QED
    BY <1>1, <1>2, <2>1, <2>2 DEF LastIs
<1>3. CASE ops[n].key # k
  <2>1. w = v
    BY <1>3
  <2>2. \A i \in 1 .. n - 1 : i \in 1 .. n /\ \A j \in i + 1 .. n - 1 : j \in i + 1 .. n
    OBVIOUS
  <2>3. ASSUME NEW i \in 1 .. n, ops[i].key = k, \A j \in i + 1 .. n : ops[j].key # k
        PROVE  w = ops[i].value
    <3>1. i \in 1 .. n - 1
      BY <1>1, <1>3, <2>3
    <3>2. \A j \in i + 1 .. n - 1 : ops[j].key # k
      BY <2>2, <2>3, <3>1
    <3>3. QED
      BY <2>1, <2>3, <3>1, <3>2 DEF LastIs
  <2>4. ASSUME \A i \in 1 .. n : ops[i].key # k PROVE w = old
    BY <2>1, <2>2, <2>4 DEF LastIs
  <2>5. QED
    BY <2>3, <2>4 DEF LastIs
<1>4. QED
  BY <1>2, <1>3

\* The stores that hold at most one slot of a key.
Stores == {e \in Seq(Slot) : OneSlot(e)}

LoopsApply(g, entries, ops) ==
    g = [i \in 0 .. Len(ops) |-> IF i = 0 THEN entries ELSE ApplyEntry(g[i - 1], ops[i])]

\* Applying the rest of the log leaves for each key what the last operation on it says.
LEMMA AppliedIs ==
    ASSUME NEW e \in Stores, NEW ops \in Seq(Op)
    PROVE  /\ Applied(e, ops) \in Stores
           /\ \A x, old : Shows(e, x, old) =>
                 \E w : LastIs(ops, Len(ops), x, old, w) /\ Shows(Applied(e, ops), x, w)
<1> DEFINE n == Len(ops)
           F == [x \in (1 .. n) \X Stores |-> ApplyEntry(x[2], ops[x[1]])]
           It == CHOOSE g : LoopsApply(g, e, ops)
<1>0. n \in Nat /\ \A i \in 1 .. n : ops[i] \in Op
  OBVIOUS
<1>1. \A i \in 1 .. n, t \in Stores :
         /\ ApplyEntry(t, ops[i]) \in Stores
         /\ \A x, w : Shows(t, x, w) =>
               Shows(ApplyEntry(t, ops[i]), x, IF ops[i].key = x THEN ops[i].value ELSE w)
  <2> TAKE i \in 1 .. n, t \in Stores
  <2>1. t \in Seq(Slot) /\ OneSlot(t) /\ ops[i] \in Op
    BY <1>0 DEF Stores
  <2>2. PICK f : f = ApplyEntry(t, ops[i])
    OBVIOUS
  <2>3. /\ f \in Seq(Slot) /\ OneSlot(f)
        /\ \A x, w : Shows(t, x, w) => Shows(f, x, IF ops[i].key = x THEN ops[i].value ELSE w)
    BY <2>1, <2>2, ApplyEntryIs
  <2>4. QED
    BY <2>2, <2>3 DEF Stores
<1>2. Applied(e, ops) = It[Len(ops)]
  BY Zenon DEF Applied, LoopsApply
<1>3. F \in [(1 .. n) \X Stores -> Stores] /\ \A i \in 1 .. n, t \in Stores : F[<<i, t>>] = ApplyEntry(t, ops[i])
  BY <1>1
<1> HIDE DEF F, n
<1>4. LoopsApply(It, e, ops)
  <2>1. StepsIn(F, n, Stores)
    BY <1>3 DEF StepsIn
  <2>2. PICK g : Recurs(g, n, Stores, F, e)
    BY <1>0, <2>1, RecursionExists
  <2>3. ASSUME NEW i \in 0 .. n
        PROVE  g[i] = IF i = 0 THEN e ELSE ApplyEntry(g[i - 1], ops[i])
    <3>1. CASE i = 0
      BY <2>2, <3>1 DEF Recurs
    <3>2. CASE i # 0
      <4>1. i \in 1 .. n /\ i - 1 \in 0 .. n
        BY <1>0, <3>2
      <4>2. g[i] = F[<<i, g[i - 1]>>] /\ g[i - 1] \in Stores
        BY <2>2, <4>1 DEF Recurs
      <4>3. QED
        BY <1>3, <3>2, <4>1, <4>2
    <3>3. QED
      BY <3>1, <3>2
  <2>4. g = [i \in 0 .. n |-> g[i]]
    BY <2>2 DEF Recurs
  <2>5. LoopsApply(g, e, ops)
    BY <2>3, <2>4 DEF LoopsApply, n
  <2>6. QED
    BY <2>5, Zenon
<1> HIDE DEF It
<1>5. PICK it : it = It
  OBVIOUS
<1>6. \A i \in 0 .. n : it[i] = IF i = 0 THEN e ELSE ApplyEntry(it[i - 1], ops[i])
  BY <1>4, <1>5 DEF LoopsApply, n
<1> DEFINE Good(i) == /\ it[i] \in Stores
                      /\ \A x, old : Shows(e, x, old) =>
                            \E w : LastIs(ops, i, x, old, w) /\ Shows(it[i], x, w)
           S == {i \in 0 .. n : Good(i)}
<1>7. 0 \in S
  <2>1. it[0] = e /\ 1 .. 0 = {}
    BY <1>0, <1>6
  <2>2. Good(0)
    BY <2>1 DEF LastIs
  <2>3. QED
    BY <1>0, <2>2
<1>8. ASSUME NEW k \in 0 .. n - 1, k \in S PROVE k + 1 \in S
  <2>1. PICK i : i = k + 1
    OBVIOUS
  <2>2. i \in 1 .. n /\ i \in 0 .. n /\ i # 0 /\ i - 1 = k /\ i \in Nat \ {0}
    BY <1>0, <2>1
  <2>3. it[i] = ApplyEntry(it[k], ops[i]) /\ Good(k)
    BY <1>6, <1>8, <2>2
  <2>4. /\ it[i] \in Stores
        /\ \A x, w : Shows(it[k], x, w) => Shows(it[i], x, IF ops[i].key = x THEN ops[i].value ELSE w)
    BY <1>1, <2>2, <2>3
  <2>5. ASSUME NEW x, NEW old, Shows(e, x, old)
        PROVE  \E w : LastIs(ops, i, x, old, w) /\ Shows(it[i], x, w)
    <3>1. PICK u : LastIs(ops, i - 1, x, old, u) /\ Shows(it[k], x, u)
      BY <2>2, <2>3, <2>5
    <3>2. PICK w : w = IF ops[i].key = x THEN ops[i].value ELSE u
      OBVIOUS
    <3>3. LastIs(ops, i, x, old, w)
      BY <2>2, <3>1, <3>2, LastNext
    <3>4. Shows(it[i], x, w)
      BY <2>4, <3>1, <3>2
    <3>5. QED
      BY <3>3, <3>4
  <2>6. Good(i)
    BY <2>4, <2>5
  <2> HIDE DEF Good
  <2>7. QED
    BY <2>1, <2>2, <2>6
<1> HIDE DEF S
<1>9. n \in S
  <2>1. \A k \in 0 .. n : k \in S
    BY <1>0, <1>7, <1>8, UpTo
  <2>2. QED
    BY <1>0, <2>1
<1>10. /\ it[n] \in Stores
       /\ \A x, old : Shows(e, x, old) => \E w : LastIs(ops, n, x, old, w) /\ Shows(it[n], x, w)
  BY <1>9 DEF S
<1>11. QED
  BY <1>2, <1>5, <1>10 DEF n

-----------------------------------------------------------------------------
(* The invariant of the replication groups. *)

Map == [Key -> Value \cup {Absent}]

GroupType == [peers : SUBSET Peer, role : {"FOLLOWER", "CANDIDATE", "LEADER"}, log : Seq(Op),
              commit : Nat, applied : Nat, entries : Seq(Slot)]

AckedType == [all : Map, agreed : Map]

\* The entries of the log that are not applied yet.
Pending(g) == SubSeq(g.log, g.applied + 1, Len(g.log))

\* The store shows what was agreed, and with the rest of the log all that was
\* acknowledged.
GroupOK(g, a) ==
    /\ g \in GroupType /\ a \in AckedType
    /\ OneSlot(g.entries)
    /\ g.applied = g.commit /\ g.applied <= Len(g.log)
    /\ \A k \in Key :
          /\ Shows(g.entries, k, a.agreed[k])
          /\ LastIs(Pending(g), Len(Pending(g)), k, a.agreed[k], a.all[k])

Groups(gs, as) ==
    /\ gs \in [Partition -> GroupType] /\ as \in [Partition -> AckedType]
    /\ \A p \in Partition : GroupOK(gs[p], as[p])

\* What is left of a sequence from a position on.
LEMMA RestOf ==
    ASSUME NEW S, NEW s \in Seq(S), NEW n \in Nat, n = Len(s), NEW d \in 0 .. n
    PROVE  /\ SubSeq(s, d + 1, n) \in Seq(S)
           /\ Len(SubSeq(s, d + 1, n)) = n - d
           /\ \A i \in 1 .. n - d : SubSeq(s, d + 1, n)[i] = s[d + i]
<1>1. \A i \in d + 1 .. n : i \in 1 .. Len(s)
  OBVIOUS
<1>2. SubSeq(s, d + 1, n) \in Seq(S)
  BY <1>1
<1>3. Len(SubSeq(s, d + 1, n)) = n - d
  OBVIOUS
<1>4. ASSUME NEW i \in 1 .. n - d PROVE SubSeq(s, d + 1, n)[i] = s[d + i]
  <2>1. SubSeq(s, d + 1, n)[i] = s[d + 1 + i - 1]
    BY <1>4
  <2>2. d + 1 + i - 1 = d + i
    OBVIOUS
  <2>3. QED
    BY <2>1, <2>2
<1>5. QED
  BY <1>2, <1>3, <1>4

LEMMA PendingIs ==
    ASSUME NEW lg \in Seq(Op), NEW d \in 0 .. Len(lg), NEW op \in Op
    PROVE  /\ SubSeq(lg, d + 1, Len(lg)) \in Seq(Op)
           /\ Len(SubSeq(lg, d + 1, Len(lg))) = Len(lg) - d
           /\ SubSeq(Append(lg, op), d + 1, Len(lg) + 1) \in Seq(Op)
           /\ Len(SubSeq(Append(lg, op), d + 1, Len(lg) + 1)) = Len(lg) - d + 1
           /\ \A i \in 1 .. Len(lg) - d :
                 SubSeq(Append(lg, op), d + 1, Len(lg) + 1)[i] = SubSeq(lg, d + 1, Len(lg))[i]
           /\ SubSeq(Append(lg, op), d + 1, Len(lg) + 1)[Len(lg) - d + 1] = op
<1>1. PICK big \in Seq(Op) : big = Append(lg, op)
  <2>1. Append(lg, op) \in Seq(Op)
    OBVIOUS
  <2>2. QED
    BY <2>1
<1>2. PICK m \in Nat : m = Len(lg)
  OBVIOUS
<1>3. PICK n \in Nat : n = m + 1
  OBVIOUS
<1>4. n = Len(big) /\ d \in 0 .. m /\ d \in 0 .. n
  BY <1>1, <1>2, <1>3
<1>5. PICK u : u = SubSeq(lg, d + 1, m)
  OBVIOUS
<1>6. PICK w : w = SubSeq(big, d + 1, n)
  OBVIOUS
<1>7. u \in Seq(Op) /\ Len(u) = m - d /\ \A i \in 1 .. m - d : u[i] = lg[d + i]
  BY <1>2, <1>4, <1>5, RestOf
<1>8. w \in Seq(Op) /\ Len(w) = n - d /\ \A i \in 1 .. n - d : w[i] = big[d + i]
  BY <1>4, <1>6, RestOf
<1>9. (\A i \in 1 .. m : big[i] = lg[i]) /\ big[n] = op
  BY <1>1, <1>2, <1>3
<1>10. \A i \in 1 .. m - d : i \in 1 .. n - d /\ d + i \in 1 .. m
  BY <1>3, <1>4
<1>11. n - d \in 1 .. n - d /\ d + (n - d) = n /\ n - d = m - d + 1
  BY <1>3, <1>4
<1>12. \A i \in 1 .. m - d : w[i] = u[i]
  BY <1>7, <1>8, <1>9, <1>10
<1>13. w[m - d + 1] = op
  <2>1. w[n - d] = big[d + (n - d)]
    BY <1>8, <1>11
  <2>2. QED
    BY <1>9, <1>11, <2>1
<1>14. u = SubSeq(lg, d + 1, Len(lg)) /\ w = SubSeq(Append(lg, op), d + 1, Len(lg) + 1)
  BY <1>1, <1>2, <1>3, <1>5, <1>6
<1>15. /\ u \in Seq(Op) /\ Len(u) = Len(lg) - d /\ w \in Seq(Op) /\ Len(w) = Len(lg) - d + 1
       /\ \A i \in 1 .. Len(lg) - d : w[i] = u[i]
       /\ w[Len(lg) - d + 1] = op
  BY <1>2, <1>7, <1>8, <1>11, <1>12, <1>13
<1>16. QED
  BY <1>14, <1>15

LEMMA LastSame ==
    ASSUME NEW ops, NEW q, NEW n \in Nat, \A i \in 1 .. n : q[i] = ops[i], NEW k, NEW old, NEW v,
           LastIs(ops, n, k, old, v)
    PROVE  LastIs(q, n, k, old, v)
<1>1. \A i \in 1 .. n : \A j \in i + 1 .. n : j \in 1 .. n
  OBVIOUS
<1>2. QED
  BY <1>1 DEF LastIs

\* raft_group_propose keeps the group in step with what is acknowledged.
LEMMA ProposeOK ==
    ASSUME NEW g, NEW a, GroupOK(g, a), NEW op \in Op, NEW all, all = [a.all EXCEPT ![op.key] = op.value]
    PROVE  /\ GroupOK(Propose(g, op), [all |-> all, agreed |-> IF g.peers = {} THEN all ELSE a.agreed])
           /\ Propose(g, op).peers = g.peers /\ Propose(g, op).role = g.role
<1>1. /\ g \in GroupType /\ a \in AckedType /\ OneSlot(g.entries)
      /\ g.applied = g.commit /\ g.applied <= Len(g.log)
      /\ \A k \in Key :
            /\ Shows(g.entries, k, a.agreed[k])
            /\ LastIs(Pending(g), Len(Pending(g)), k, a.agreed[k], a.all[k])
  BY DEF GroupOK
<1>2. PICK lg \in Seq(Op) : lg = g.log
  BY <1>1 DEF GroupType
<1>3. PICK d \in 0 .. Len(lg) : d = g.applied
  BY <1>1, <1>2 DEF GroupType
<1>4. PICK rest : rest = SubSeq(lg, d + 1, Len(lg))
  OBVIOUS
<1>5. PICK more : more = SubSeq(Append(lg, op), d + 1, Len(lg) + 1)
  OBVIOUS
<1>6. PICK n \in Nat \ {0} : n = Len(lg) - d + 1
  <2>1. Len(lg) \in Nat
    OBVIOUS
  <2>2. Len(lg) - d + 1 \in Nat \ {0}
    BY <2>1
  <2>3. QED
    BY <2>2
<1>7. /\ rest \in Seq(Op) /\ Len(rest) = n - 1 /\ more \in Seq(Op) /\ Len(more) = n
      /\ \A i \in 1 .. n - 1 : more[i] = rest[i]
      /\ more[n] = op
  <2>1. Len(lg) - d = n - 1 /\ Len(lg) \in Nat
    BY <1>6
  <2>2. QED
    BY <1>4, <1>5, <1>6, <2>1, PendingIs
<1>8. PICK big \in Seq(Op) : big = Append(lg, op) /\ Len(big) = Len(lg) + 1
  <2>1. Append(lg, op) \in Seq(Op)
    OBVIOUS
  <2>2. Len(Append(lg, op)) = Len(lg) + 1
    OBVIOUS
  <2>3. QED
    BY <2>1, <2>2
<1>9. all \in Map /\ \A k \in Key : all[k] = IF op.key = k THEN op.value ELSE a.all[k]
  <2>1. op.key \in Key /\ op.value \in Value \cup {Absent} /\ a.all \in Map
    BY <1>1 DEF Op, AckedType
  <2>2. QED
    BY <2>1 DEF Map
<1>10. \A k \in Key : LastIs(more, n, k, a.agreed[k], all[k])
  <2> TAKE k \in Key
  <2>1. LastIs(rest, n - 1, k, a.agreed[k], a.all[k])
    BY <1>1, <1>2, <1>3, <1>4, <1>7 DEF Pending
  <2>2. LastIs(more, n - 1, k, a.agreed[k], a.all[k])
    <3>1. n - 1 \in Nat
      OBVIOUS
    <3>2. \A i \in 1 .. n - 1 : more[i] = rest[i]
      BY <1>7
    <3>3. QED
      BY <2>1, <3>1, <3>2, LastSame, Zenon
  <2>3. all[k] = IF more[n].key = k THEN more[n].value ELSE a.all[k]
    BY <1>7, <1>9
  <2>4. QED
    BY <2>2, <2>3, LastNext
<1>11. a.agreed \in Map /\ g.entries \in Seq(Slot) /\ g.entries \in Stores
  BY <1>1 DEF AckedType, GroupType, Stores
<1>12. PICK q : q = Propose(g, op)
  OBVIOUS
<1>13. CASE g.peers # {}
  <2>1. q = [g EXCEPT !.log = big]
    BY <1>2, <1>8, <1>12, <1>13 DEF Propose
  <2>2. /\ q \in GroupType /\ q.log = big /\ q.applied = d /\ q.commit = d /\ q.entries = g.entries
        /\ q.peers = g.peers /\ q.role = g.role
    BY <1>1, <1>3, <1>8, <2>1 DEF GroupType
  <2>3. Pending(q) = more
    BY <1>5, <1>8, <2>2 DEF Pending
  <2>4. PICK b : b = [all |-> all, agreed |-> a.agreed]
    OBVIOUS
  <2>5. b \in AckedType /\ b.all = all /\ b.agreed = a.agreed
    BY <1>9, <1>11, <2>4 DEF AckedType
  <2>6. d <= Len(big)
    BY <1>8
  <2>7. GroupOK(q, b)
    BY <1>1, <1>7, <1>10, <2>2, <2>3, <2>5, <2>6 DEF GroupOK
  <2>8. QED
    BY <1>12, <1>13, <2>2, <2>4, <2>7
<1>14. CASE g.peers = {}
  <2>1. PICK f : f = Applied(g.entries, more)
    OBVIOUS
  <2>2. q = [g EXCEPT !.log = big, !.commit = Len(big), !.applied = Len(big), !.entries = f]
    BY <1>2, <1>3, <1>5, <1>8, <1>12, <1>14, <2>1 DEF Propose
  <2>3. /\ f \in Stores
        /\ \A x, old : Shows(g.entries, x, old) => \E w : LastIs(more, n, x, old, w) /\ Shows(f, x, w)
    BY <1>7, <1>11, <2>1, AppliedIs
  <2>4. f \in Seq(Slot) /\ OneSlot(f)
    BY <2>3 DEF Stores
  <2>5. /\ q \in GroupType /\ q.log = big /\ q.applied = Len(big) /\ q.commit = Len(big) /\ q.entries = f
        /\ q.peers = g.peers /\ q.role = g.role
    <3>1. PICK c \in Nat : c = Len(big)
      OBVIOUS
    <3>2. q = [g EXCEPT !.log = big, !.commit = c, !.applied = c, !.entries = f]
      BY <2>2, <3>1
    <3>3. /\ q \in GroupType /\ q.log = big /\ q.applied = c /\ q.commit = c /\ q.entries = f
          /\ q.peers = g.peers /\ q.role = g.role
      BY <1>1, <2>4, <3>2 DEF GroupType
    <3>4. QED
      BY <3>1, <3>3
  <2>6. \A k \in Key : Shows(f, k, all[k])
    <3> TAKE k \in Key
    <3>1. PICK w : LastIs(more, n, k, a.agreed[k], w) /\ Shows(f, k, w)
      BY <1>1, <2>3
    <3>2. w = all[k]
      BY <1>10, <3>1, LastUnique
    <3>3. QED
      BY <3>1, <3>2
  <2>7. Len(Pending(q)) = 0
    BY <1>8, <2>5 DEF Pending
  <2>8. PICK b : b = [all |-> all, agreed |-> all]
    OBVIOUS
  <2>9. b \in AckedType /\ b.all = all /\ b.agreed = all
    BY <1>9, <2>8 DEF AckedType
  <2>10. \A k \in Key : LastIs(Pending(q), Len(Pending(q)), k, b.agreed[k], b.all[k])
    <3>1. 1 .. 0 = {}
      OBVIOUS
    <3>2. QED
      BY <2>7, <2>9, <3>1 DEF LastIs
  <2>11. Len(big) <= Len(big)
    OBVIOUS
  <2>12. GroupOK(q, b)
    BY <2>4, <2>5, <2>6, <2>9, <2>10, <2>11 DEF GroupOK
  <2>13. QED
    BY <1>12, <1>14, <2>5, <2>8, <2>12
<1>15. QED
  BY <1>13, <1>14

LEMMA PartitionOfKey == \A k \in Key : PartitionOf(k) \in Partition
BY KeyAssumption, ClusterAssumption DEF PartitionOf, Partition

\* A write that a leader takes, in the logs gs and in the history as.
LEMMA WrittenOK ==
    ASSUME NEW gs, NEW as, Groups(gs, as), NEW op \in Op,
           \A p \in Partition : gs[p].peers = group[p].peers
    PROVE  /\ Groups(Written(gs, op), Acknowledged(as, op))
           /\ \A p \in Partition : Written(gs, op)[p].peers = group[p].peers
<1>1. PICK p \in Partition : p = PartitionOf(op.key)
  BY PartitionOfKey DEF Op
<1>2. /\ gs \in [Partition -> GroupType] /\ as \in [Partition -> AckedType]
      /\ \A x \in Partition : GroupOK(gs[x], as[x])
  BY DEF Groups
<1>3. PICK all : all = [as[p].all EXCEPT ![op.key] = op.value]
  OBVIOUS
<1>4. PICK q : q = Propose(gs[p], op)
  OBVIOUS
<1>5. PICK b : b = [all |-> all, agreed |-> IF group[p].peers = {} THEN all ELSE as[p].agreed]
  OBVIOUS
<1>6. GroupOK(q, b) /\ q.peers = gs[p].peers
  <2>1. PICK g : g = gs[p]
    OBVIOUS
  <2>2. PICK a : a = as[p]
    OBVIOUS
  <2>3. GroupOK(g, a) /\ all = [a.all EXCEPT ![op.key] = op.value]
    BY <1>2, <1>3, <2>1, <2>2
  <2>4. /\ GroupOK(Propose(g, op), [all |-> all, agreed |-> IF g.peers = {} THEN all ELSE a.agreed])
        /\ Propose(g, op).peers = g.peers
    BY <2>3, ProposeOK
  <2>5. g.peers = group[p].peers
    BY <2>1
  <2>6. QED
    BY <1>4, <1>5, <2>1, <2>2, <2>4, <2>5
<1>7. q \in GroupType /\ b \in AckedType
  BY <1>6 DEF GroupOK
<1>8. PICK gs2 : gs2 = Written(gs, op)
  OBVIOUS
<1>9. PICK as2 : as2 = Acknowledged(as, op)
  OBVIOUS
<1>10. gs2 = [gs EXCEPT ![p] = q]
  BY <1>1, <1>4, <1>8 DEF Written
<1>11. as2 = [as EXCEPT ![p] = b]
  BY <1>1, <1>2, <1>3, <1>5, <1>9 DEF Acknowledged
<1>12. /\ gs2 \in [Partition -> GroupType] /\ as2 \in [Partition -> AckedType]
       /\ gs2[p] = q /\ as2[p] = b
       /\ \A x \in Partition : x # p => gs2[x] = gs[x] /\ as2[x] = as[x]
  BY <1>2, <1>7, <1>10, <1>11
<1>13. \A x \in Partition : GroupOK(gs2[x], as2[x])
  BY <1>2, <1>6, <1>12
<1>14. \A x \in Partition : gs2[x].peers = group[x].peers
  BY <1>6, <1>12
<1>15. Groups(gs2, as2)
  BY <1>12, <1>13 DEF Groups
<1>16. QED
  BY <1>8, <1>9, <1>14, <1>15

\* A step that changes the peers or the role of one group and nothing else.
LEMMA GroupStep ==
    ASSUME Groups(group, acked), NEW p \in Partition, NEW q, q \in GroupType,
           q.log = group[p].log /\ q.commit = group[p].commit /\ q.applied = group[p].applied,
           q.entries = group[p].entries, group' = [group EXCEPT ![p] = q], acked' = acked
    PROVE  Groups(group', acked')
<1>1. /\ group \in [Partition -> GroupType] /\ acked \in [Partition -> AckedType]
      /\ \A x \in Partition : GroupOK(group[x], acked[x])
  BY DEF Groups
<1>2. /\ group' \in [Partition -> GroupType] /\ group'[p] = q
      /\ \A x \in Partition : x # p => group'[x] = group[x]
  BY <1>1
<1>3. Pending(q) = Pending(group[p])
  BY DEF Pending
<1>4. GroupOK(q, acked[p])
  <2>1. GroupOK(group[p], acked[p])
    BY <1>1
  <2>2. QED
    BY <1>3, <2>1 DEF GroupOK
<1>5. \A x \in Partition : GroupOK(group'[x], acked'[x])
  BY <1>1, <1>2, <1>4
<1>6. acked' \in [Partition -> AckedType]
  BY <1>1
<1>7. QED
  BY <1>2, <1>5, <1>6 DEF Groups

LEMMA GroupTyped ==
    ASSUME Groups(group, acked), NEW p \in Partition
    PROVE  group[p] \in GroupType /\ group \in [Partition -> GroupType]
BY DEF Groups

LEMMA GroupTickInv ==
    ASSUME Groups(group, acked), NEW p \in Partition, GroupTick(p)
    PROVE  Groups(group', acked')
<1>1. PICK q : q = [group[p] EXCEPT !.role = "LEADER"]
  OBVIOUS
<1>2. group[p] \in GroupType
  BY GroupTyped
<1>3. /\ q \in GroupType /\ q.log = group[p].log /\ q.commit = group[p].commit
      /\ q.applied = group[p].applied /\ q.entries = group[p].entries
  BY <1>1, <1>2 DEF GroupType
<1>4. group' = [group EXCEPT ![p] = q] /\ acked' = acked
  BY <1>1 DEF GroupTick
<1>5. QED
  BY <1>3, <1>4, GroupStep

LEMMA TriggerElectionInv ==
    ASSUME Groups(group, acked), NEW p \in Partition, TriggerElection(p)
    PROVE  Groups(group', acked')
<1>0. PICK role : role = IF group[p].peers = {} THEN "LEADER" ELSE "CANDIDATE"
  OBVIOUS
<1>1. PICK q : q = [group[p] EXCEPT !.role = role]
  OBVIOUS
<1>2. group[p] \in GroupType
  BY GroupTyped
<1>3. /\ q \in GroupType /\ q.log = group[p].log /\ q.commit = group[p].commit
      /\ q.applied = group[p].applied /\ q.entries = group[p].entries
  BY <1>0, <1>1, <1>2 DEF GroupType
<1>4. group' = [group EXCEPT ![p] = q] /\ acked' = acked
  BY <1>0, <1>1 DEF TriggerElection
<1>5. QED
  BY <1>3, <1>4, GroupStep

LEMMA PeersInv ==
    ASSUME Groups(group, acked), NEW p \in Partition, NEW n \in Peer, AddPeer(p, n) \/ RemovePeer(p, n)
    PROVE  Groups(group', acked')
<1>0. PICK peers \in SUBSET Peer :
         /\ group' = [group EXCEPT ![p].peers = peers]
         /\ acked' = acked
  <2>1. group[p].peers \in SUBSET Peer
    BY GroupTyped DEF GroupType
  <2>2. CASE AddPeer(p, n)
    <3>1. group' = [group EXCEPT ![p].peers = group[p].peers \cup {n}] /\ acked' = acked
      BY <2>2 DEF AddPeer
    <3>2. group[p].peers \cup {n} \in SUBSET Peer
      BY <2>1
    <3>3. QED
      BY <3>1, <3>2
  <2>3. CASE RemovePeer(p, n)
    <3>1. group' = [group EXCEPT ![p].peers = group[p].peers \ {n}] /\ acked' = acked
      BY <2>3 DEF RemovePeer
    <3>2. group[p].peers \ {n} \in SUBSET Peer
      BY <2>1
    <3>3. QED
      BY <3>1, <3>2
  <2>4. QED
    BY <2>2, <2>3
<1>1. PICK q : q = [group[p] EXCEPT !.peers = peers]
  OBVIOUS
<1>2. group[p] \in GroupType
  BY GroupTyped
<1>3. /\ q \in GroupType /\ q.log = group[p].log /\ q.commit = group[p].commit
      /\ q.applied = group[p].applied /\ q.entries = group[p].entries
  BY <1>1, <1>2 DEF GroupType
<1>4. group' = [group EXCEPT ![p] = q] /\ acked' = acked
  BY <1>0, <1>1
<1>5. QED
  BY <1>3, <1>4, GroupStep

LEMMA BatchPutInv ==
    ASSUME Groups(group, acked), NEW a \in Op, NEW b \in Op, BatchPut(a, b)
    PROVE  Groups(group', acked')
<1>1. /\ Groups(Written(group, a), Acknowledged(acked, a))
      /\ \A p \in Partition : Written(group, a)[p].peers = group[p].peers
  BY WrittenOK
<1>2. CASE group' = Written(group, a) /\ acked' = Acknowledged(acked, a)
  BY <1>1, <1>2
<1>3. CASE /\ group' = Written(Written(group, a), b)
           /\ acked' = Acknowledged(Acknowledged(acked, a), b)
  <2>1. PICK gs : gs = Written(group, a)
    OBVIOUS
  <2>2. PICK as : as = Acknowledged(acked, a)
    OBVIOUS
  <2>3. Groups(gs, as) /\ \A p \in Partition : gs[p].peers = group[p].peers
    BY <1>1, <2>1, <2>2
  <2>4. Groups(Written(gs, b), Acknowledged(as, b))
    BY <2>3, WrittenOK
  <2>5. group' = Written(gs, b) /\ acked' = Acknowledged(as, b)
    BY <1>3, <2>1, <2>2
  <2>6. QED
    BY <2>4, <2>5
<1>4. QED
  BY <1>2, <1>3 DEF BatchPut

LEMMA InitGroups ==
    ASSUME Init
    PROVE  Groups(group, acked)
<1>1. PICK no : no = [k \in Key |-> Absent]
  OBVIOUS
<1>2. PICK a : a = [all |-> no, agreed |-> no]
  OBVIOUS
<1>3. no \in Map /\ a \in AckedType /\ a.all = no /\ a.agreed = no /\ \A k \in Key : no[k] = Absent
  BY <1>1, <1>2 DEF Map, AckedType
<1>4. PICK g : g = NewGroup
  OBVIOUS
<1>5. /\ g \in GroupType /\ g.log = <<>> /\ g.entries = <<>> /\ g.applied = 0 /\ g.commit = 0
  BY <1>4 DEF GroupType, NewGroup
<1>6. OneSlot(<<>>) /\ Live(<<>>, 0) = {} /\ \A k : Live(<<>>, k) = {}
  BY DEF OneSlot, Live
<1>7. \A k \in Key : Shows(g.entries, k, Absent)
  <2>1. <<>> \in Seq(Slot)
    OBVIOUS
  <2>2. QED
    BY <1>5, <1>6, <2>1, GetEntryIs DEF Shows
<1>8. Len(Pending(g)) = 0 /\ g.applied <= Len(g.log)
  <2>1. Pending(g) = SubSeq(<<>>, 0 + 1, Len(<<>>)) /\ Len(<<>>) = 0
    BY <1>5 DEF Pending
  <2>2. Len(SubSeq(<<>>, 1, 0)) = 0
    OBVIOUS
  <2>3. QED
    BY <1>5, <2>1, <2>2
<1>9. \A k \in Key : LastIs(Pending(g), Len(Pending(g)), k, a.agreed[k], a.all[k])
  <2>1. 1 .. 0 = {}
    OBVIOUS
  <2>2. QED
    BY <1>3, <1>8, <2>1 DEF LastIs
<1>10. GroupOK(g, a)
  BY <1>3, <1>5, <1>6, <1>7, <1>8, <1>9 DEF GroupOK
<1>11. group = [p \in Partition |-> g] /\ acked = [p \in Partition |-> a]
  BY <1>1, <1>2, <1>4 DEF Init
<1>12. QED
  BY <1>3, <1>5, <1>10, <1>11 DEF Groups

-----------------------------------------------------------------------------
(* The inductive invariant and what it implies. *)

Inv == ClusterInv /\ Groups(group, acked)

LEMMA InitInv == Init => Inv
BY ClusterInitInv, InitGroups DEF Init, Inv

LEMMA NextInv == Inv /\ [Next]_vars => Inv'
<1> SUFFICES ASSUME Inv, [Next]_vars PROVE Inv'
  OBVIOUS
<1>0. ClusterInv /\ Groups(group, acked)
  BY DEF Inv
<1>u. up \in [Node -> BOOLEAN]
  BY <1>0 DEF ClusterInv, ClusterTyped
<1>1. CASE ClusterNext /\ UNCHANGED <<group, acked>>
  <2>1. ClusterInv'
    BY <1>0, <1>1, ClusterNextInv
  <2>2. group' = group /\ acked' = acked
    BY <1>1
  <2>3. Groups(group', acked')
    BY <1>0, <2>2
  <2>4. QED
    BY <2>1, <2>3 DEF Inv
<1>2. ASSUME NEW p \in Partition, GroupTick(p) PROVE Inv'
  <2>1. Groups(group', acked')
    BY <1>0, <1>2, GroupTickInv
  <2>2. ClusterInv'
    BY <1>0, <1>u, <1>2, UpInv DEF GroupTick, clusterVars
  <2>3. QED
    BY <2>1, <2>2 DEF Inv
<1>3. ASSUME NEW p \in Partition, TriggerElection(p) PROVE Inv'
  <2>1. Groups(group', acked')
    BY <1>0, <1>3, TriggerElectionInv
  <2>2. ClusterInv'
    BY <1>0, <1>u, <1>3, UpInv DEF TriggerElection
  <2>3. QED
    BY <2>1, <2>2 DEF Inv
<1>4. ASSUME NEW p \in Partition, NEW n \in Peer, AddPeer(p, n) \/ RemovePeer(p, n) PROVE Inv'
  <2>1. Groups(group', acked')
    BY <1>0, <1>4, PeersInv
  <2>2. ClusterInv'
    BY <1>0, <1>u, <1>4, UpInv DEF AddPeer, RemovePeer, clusterVars
  <2>3. QED
    BY <2>1, <2>2 DEF Inv
<1>5. ASSUME NEW k \in Key, NEW v \in Value \cup {Absent},
             group' = Written(group, [key |-> k, value |-> v]),
             acked' = Acknowledged(acked, [key |-> k, value |-> v]),
             UNCHANGED <<hash, ring, parts, member, up, reports, blind>>
      PROVE  Inv'
  <2>1. PICK op \in Op : op = [key |-> k, value |-> v]
    BY DEF Op
  <2>2. Groups(Written(group, op), Acknowledged(acked, op))
    BY <1>0, WrittenOK
  <2>3. Groups(group', acked')
    BY <1>5, <2>1, <2>2
  <2>4. ClusterInv'
    BY <1>0, <1>u, <1>5, UpInv
  <2>5. QED
    BY <2>3, <2>4 DEF Inv
<1>6. ASSUME NEW k \in Key, NEW v \in Value, Put(k, v) PROVE Inv'
  BY <1>5, <1>6 DEF Put
<1>7. ASSUME NEW k \in Key, Delete(k) PROVE Inv'
  BY <1>5, <1>7 DEF Delete
<1>8. ASSUME NEW a \in [key : Key, value : Value], NEW b \in [key : Key, value : Value], BatchPut(a, b)
      PROVE  Inv'
  <2>1. a \in Op /\ b \in Op
    BY DEF Op
  <2>2. Groups(group', acked')
    BY <1>0, <1>8, <2>1, BatchPutInv
  <2>3. ClusterInv'
    BY <1>0, <1>u, <1>8, UpInv DEF BatchPut
  <2>4. QED
    BY <2>2, <2>3 DEF Inv
<1>9. CASE UNCHANGED vars
  <2>1. ClusterInv'
    BY <1>0, <1>u, <1>9, UpInv DEF vars, clusterVars
  <2>2. group' = group /\ acked' = acked
    BY <1>9 DEF vars
  <2>3. Groups(group', acked')
    BY <1>0, <2>2
  <2>4. QED
    BY <2>1, <2>3 DEF Inv
<1>10. QED
  BY <1>1, <1>2, <1>3, <1>4, <1>6, <1>7, <1>8, <1>9 DEF Next

LEMMA InvHolds == Spec => []Inv
BY InitInv, NextInv, PTL DEF Spec

LEMMA InvTypes == Inv => TypeOK
<1> SUFFICES ASSUME Inv PROVE TypeOK
  OBVIOUS
<1>1. ClusterTyped /\ RingOK(ring, hash) /\ PartsInv /\ Groups(group, acked)
  BY DEF Inv, ClusterInv
<1>2. ring.nodes \subseteq Node
  BY <1>1, RingTyped
<1>3. ASSUME NEW p \in Partition
      PROVE  /\ \A i \in DOMAIN parts[p].replicas : parts[p].replicas[i] \in Node
             /\ parts[p].leader \in Node \cup {0}
             /\ parts[p].state \in {"INIT", "ACTIVE", "READONLY", "OFFLINE"}
  <2>1. parts[p] \in PartType
    BY <1>1 DEF PartsInv
  <2>2. parts[p].replicas \in Seq(Node)
    BY <2>1 DEF PartType
  <2>3. \A i \in DOMAIN parts[p].replicas : parts[p].replicas[i] \in Node
    BY <2>2, ElementOf
  <2>4. QED
    BY <2>1, <2>3 DEF PartType
<1>4. ASSUME NEW n \in DOMAIN member
      PROVE  /\ member[n].state \in {"ALIVE", "SUSPECT", "DEAD"}
             /\ member[n].missed \in 0 .. FailureThreshold
             /\ member[n].age \in 0 .. SuspicionTimeout
  BY <1>1, MemberTyped
<1>5. ClusterTypeOK
  BY <1>1, <1>2, <1>3, <1>4 DEF ClusterTypeOK, ClusterTyped
<1>6. ASSUME NEW p \in Partition
      PROVE  /\ group[p].peers \subseteq Peer
             /\ group[p].role \in {"FOLLOWER", "CANDIDATE", "LEADER"}
             /\ \A i \in DOMAIN group[p].log : group[p].log[i] \in Op
             /\ group[p].applied = group[p].commit /\ group[p].commit \in 0 .. Len(group[p].log)
  <2>1. GroupOK(group[p], acked[p])
    BY <1>1 DEF Groups
  <2>2. /\ group[p] \in GroupType /\ group[p].applied = group[p].commit
        /\ group[p].applied <= Len(group[p].log)
    BY <2>1 DEF GroupOK
  <2>3. group[p].log \in Seq(Op) /\ group[p].commit \in Nat
    BY <2>2 DEF GroupType
  <2>4. \A i \in DOMAIN group[p].log : group[p].log[i] \in Op
    BY <2>3, ElementOf
  <2>5. group[p].commit \in 0 .. Len(group[p].log)
    BY <2>2, <2>3
  <2>6. QED
    BY <2>2, <2>4, <2>5 DEF GroupType
<1>7. QED
  BY <1>5, <1>6 DEF TypeOK

LEMMA InvLeaders == Inv => LeadersSettled
<1> SUFFICES ASSUME Inv PROVE LeadersSettled
  OBVIOUS
<1>1. ASSUME NEW p \in Partition
      PROVE  Fit(member, reports, parts[p], blind[p])
  BY DEF Inv, ClusterInv, PartsInv
<1>2. NoDeadLeader
  BY <1>1 DEF NoDeadLeader, Fit
<1>3. ASSUME NEW p \in Partition, parts[p].leader = 0, NEW i \in DOMAIN parts[p].replicas,
             StateOf(member, parts[p].replicas[i]) = "ALIVE",
             <<parts[p].replicas[i], "ALIVE">> \notin reports
      PROVE  "leader" \in blind[p]
  <2>1. parts[p].replicas[i] \in Reps(parts[p])
    BY DEF Reps
  <2>2. KnownAlive(member, reports, parts[p]) # {}
    BY <1>3, <2>1 DEF KnownAlive
  <2>3. QED
    BY <1>1, <1>3, <2>2 DEF Fit
<1>4. LeaderWhenAlive
  BY <1>3 DEF LeaderWhenAlive
<1>5. QED
  BY <1>2, <1>4 DEF LeadersSettled

LEMMA InvReadOnly == Inv => ReadOnlyWhenShort
<1> SUFFICES ASSUME Inv,
                    NEW p \in Partition,
                    Reps(parts[p]) # {},
                    \A n \in Reps(parts[p]) : /\ StateOf(member, n) # "SUSPECT"
                                              /\ \A s \in {"DEAD", "ALIVE"} : <<n, s>> \notin reports
             PROVE  \/ parts[p].state = IF Available(member, parts[p]) < MinReplicas
                                        THEN "READONLY" ELSE "ACTIVE"
                    \/ Available(member, parts[p]) < MinReplicas /\ "state" \in blind[p]
  BY DEF ReadOnlyWhenShort, Reps
<1>1. /\ ClusterTyped /\ RingOK(ring, hash) /\ parts[p] \in Placed(ring.nodes)
      /\ Fit(member, reports, parts[p], blind[p])
  BY DEF Inv, ClusterInv, PartsInv
<1>2. IsFiniteSet(ring.nodes)
  BY <1>1, RingTyped
<1>3. PICK part \in Placed(ring.nodes) : part = parts[p]
  BY <1>1
<1>4. Available(member, part) = Cardinality(AliveReps(member, part)) /\ Available(member, part) \in Nat
  BY <1>2, AvailableIs
<1>5. \A n \in Reps(part) : StateOf(member, n) \in {"ALIVE", "DEAD"}
  <2> TAKE n \in Reps(part)
  <2>1. StateOf(member, n) \in {"ALIVE", "SUSPECT", "DEAD"}
    BY <1>1, MemberTyped DEF StateOf
  <2>2. QED
    BY <1>3, <2>1
<1>6. KnownAlive(member, reports, part) = AliveReps(member, part)
  BY <1>3 DEF KnownAlive, AliveReps
<1>7. MaybeAlive(member, reports, part) = AliveReps(member, part)
  BY <1>3, <1>5 DEF MaybeAlive, AliveReps
<1>8. part.state \in {"INIT", "ACTIVE", "READONLY"}
  BY DEF Placed, PartType
<1>9. MinReplicas \in Nat
  BY ClusterAssumption
<1>10. QED
  BY <1>1, <1>3, <1>4, <1>6, <1>7, <1>8, <1>9 DEF Fit

LEMMA InvReads == Inv => ReadsAgreed
<1> SUFFICES ASSUME Inv, NEW k \in Key, NEW c \in {"LINEARIZABLE", "EVENTUAL"},
                    Get(k, c) \in Value \cup {Absent}
             PROVE  \/ Get(k, c) = acked[PartitionOf(k)].agreed[k]
                    \/ Get(k, c) = Absent /\ Len(group[PartitionOf(k)].entries) >= Slots
  BY DEF ReadsAgreed
<1>1. PICK p \in Partition : p = PartitionOf(k)
  BY PartitionOfKey
<1>2. GroupOK(group[p], acked[p])
  BY DEF Inv, Groups
<1>3. Shows(group[p].entries, k, acked[p].agreed[k])
  BY <1>2 DEF GroupOK
<1>4. Get(k, c) \in {"PARTITION", "NOT_LEADER", GetEntry(group[p].entries, k)}
  BY <1>1 DEF Get
<1>5. "PARTITION" \notin Value \cup {Absent} /\ "NOT_LEADER" \notin Value \cup {Absent}
  BY KeyAssumption
<1>6. QED
  BY <1>1, <1>3, <1>4, <1>5 DEF Shows

LEMMA StepReplicas ==
    ASSUME Inv, [Next]_vars, NEW h \in 0 .. hash.points - 1, NEW kept,
           kept = GetReplicas(ring', h, Replication)
    PROVE  NearestNodes(kept, h, ring'.nodes)
<1>1. hash' = hash
  BY DEF Next, ClusterNext, AddNode, RemoveNode, PingResponse, PingTimeout, HandleFailure,
         HandleRecovery, Crash, Restart, Rebalance, Elapse, Tick, GroupTick, TriggerElection,
         AddPeer, RemovePeer, Put, Delete, BatchPut, vars, clusterVars
<1>2. Inv'
  BY NextInv
<1>3. RingOK(ring', hash') /\ HashOK(hash)
  BY <1>2, HashesOK DEF Inv, ClusterInv, ClusterTyped
<1>4. PICK r : r = ring'
  OBVIOUS
<1>5. RingOK(r, hash) /\ HashOK(hash)
  BY <1>1, <1>3, <1>4
<1>6. Replication \in Nat \ {0} /\ h \in Nat /\ Cardinality(r.nodes) \in Nat
  BY <1>5, RingTyped, ClusterAssumption DEF HashOK
<1>7. Len(GetReplicas(r, h, Replication)) = Smaller(Replication, Cardinality(r.nodes))
  BY <1>5, <1>6, GetReplicasMany
<1>8. kept = GetReplicas(r, h, Replication)
  BY <1>4
<1>9. \/ Len(kept) = Replication
      \/ Len(kept) < Replication /\ Len(kept) = Cardinality(r.nodes)
  BY <1>6, <1>7, <1>8 DEF Smaller
<1>10. ASSUME NEW i \in DOMAIN kept, NEW n \in r.nodes, n \notin {kept[j] : j \in 1 .. i}
       PROVE  Away(kept[i], h) < Away(n, h)
  <2>1. Replication \in Nat
    BY <1>6
  <2>2. QED
    BY <1>5, <1>8, <1>10, <2>1, ReplicasNearest
<1>11. /\ \A i \in DOMAIN kept : kept[i] \in r.nodes
       /\ \A i, j \in DOMAIN kept : kept[i] = kept[j] => i = j
  <2>1. Replication \in Nat
    BY <1>6
  <2>2. /\ kept \in Seq(Node)
        /\ \A a, b \in Positions(kept) : kept[a] = kept[b] => a = b
        /\ \A a \in Positions(kept) : kept[a] \in r.nodes
    <3>1. RingOK(r, hash) /\ h \in Nat
      BY <1>5, <1>6
    <3>2. /\ GetReplicas(r, h, Replication) \in Seq(Node)
          /\ \A a, b \in Positions(GetReplicas(r, h, Replication)) :
                GetReplicas(r, h, Replication)[a] = GetReplicas(r, h, Replication)[b] => a = b
          /\ \A a \in Positions(GetReplicas(r, h, Replication)) :
                GetReplicas(r, h, Replication)[a] \in r.nodes
      BY <2>1, <3>1, GetReplicasNodes, Zenon
    <3>3. QED
      BY <1>8, <3>2, Zenon
  <2>3. DOMAIN kept = Positions(kept)
    BY <2>2 DEF Positions
  <2>4. QED
    BY <2>2, <2>3
<1>12. QED
  BY <1>4, <1>9, <1>10, <1>11 DEF NearestNodes

\* What coordinator.c, gossip.c, failover.c, raft_group.c and storage_adapter.c keep has
\* its type in every reachable state; the last applied entry is the committed one and
\* lies in the log.
THEOREM TypeCorrect == Spec => []TypeOK
BY InvHolds, InvTypes, PTL

\* failover_handle_node_failure and _recovery settle who leads a partition, whatever
\* callbacks come late and in whatever order: no dead leader and no missing one, once
\* the callbacks are acted on and but for what a command set.
THEOREM LeadersAreSettled == Spec => []LeadersSettled
BY InvHolds, InvLeaders, PTL

\* A partition is READONLY just when fewer than min_replicas of its replicas are alive,
\* once failover.c has been told all the detector (gossip.c) knows of them.
THEOREM ReadOnlyIffShort == Spec => []ReadOnlyWhenShort
BY InvHolds, InvReadOnly, PTL

\* dkv_client_get_with_consistency gives what the writes left that raft_group_propose
\* committed, in the order in which they were acknowledged; of a key a full store has
\* no slot for it gives nothing, and never an older value.
THEOREM ReadsAreAgreed == Spec => []ReadsAgreed
BY InvHolds, InvReads, PTL

\* After every hash_ring_add_node and hash_ring_remove_node, hash_ring_get_replicas
\* gives for every hash the nearest nodes clockwise, each once, nearest first.
THEOREM ReplicasAreClockwise == Spec => ReplicasClockwise
<1>1. ASSUME Inv, [Next]_vars
      PROVE  [ring' # ring =>
               \A h \in 0 .. hash.points - 1 : \E kept \in {GetReplicas(ring', h, Replication)} :
                  NearestNodes(kept, h, ring'.nodes)]_clusterVars
  <2>1. ASSUME NEW h \in 0 .. hash.points - 1
        PROVE  \E kept \in {GetReplicas(ring', h, Replication)} : NearestNodes(kept, h, ring'.nodes)
    <3>1. PICK kept : kept = GetReplicas(ring', h, Replication)
      OBVIOUS
    <3>2. NearestNodes(kept, h, ring'.nodes)
      BY <1>1, <3>1, StepReplicas
    <3>3. kept \in {GetReplicas(ring', h, Replication)}
      BY <3>1
    <3>4. QED
      BY <3>2, <3>3, Zenon
  <2>2. QED
    BY <2>1
<1>2. QED
  BY <1>1, InvHolds, PTL DEF Spec, ReplicasClockwise
=============================================================================
