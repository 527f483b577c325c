---------------------------- MODULE FsLogProofs ----------------------------
(***************************************************************************)
(* Proofs about FsLog and the buffer cache under it, for any number of     *)
(* threads, blocks, buffers and log blocks.                                *)
(***************************************************************************)
EXTENDS FsLog, FiniteSetTheorems, WellFoundedInduction, SequenceTheorems, TLAPS

-----------------------------------------------------------------------------
(* The inductive invariant. *)

\* A buffer of a home or log block holds contents of a block.
Buffer == {b \in [blockno : Addr \cup {Block0}, refcnt : Int, data : Val \cup Seq(Block) \cup {Block0}] :
             b.blockno \in Block \cup Slot => b.data \in Val}

\* The cache holds a block once, and the buffers that were never used are at its end.
CacheOK(c) ==
    /\ c \in Seq(Buffer) /\ Len(c) = NBuf
    /\ \A i, j \in 1 .. NBuf : c[i].blockno = c[j].blockno /\ c[i].blockno # Block0 => i = j
    /\ \A i \in 1 .. NBuf : c[i].blockno = Block0 => c[i].refcnt = 0
    /\ \A i, j \in 1 .. NBuf : i < j /\ c[i].blockno = Block0 => c[j].blockno = Block0

Ref(c, a) == c[Find(c, a)].refcnt

\* The threads inside an operation, and those inside end_op's commit.
Ops == {t \in Thread : pc[t] = "active"}
Committer(t) == pc[t] \in {"write_log", "write_head", "install", "clear_head", "release"}

TypeInv ==
    /\ disk \in [Addr -> Val \cup Seq(Block)]
    /\ \A a \in Block \cup Slot : disk[a] \in Val
    /\ disk[LogStart] \in Seq(Block) /\ Len(disk[LogStart]) < NLog
    /\ CacheOK(cache)
    /\ lh \in Seq(Block) /\ Len(lh) < NLog
    /\ IsFiniteSet(Ops) /\ outstanding = Cardinality(Ops)
    /\ committing \in BOOLEAN
    /\ pc \in [Thread -> Pc]
    /\ tail \in Slot
    /\ boot \in {"read_head", "install", "clear_head", "up"}
    /\ wrote \in [Thread -> SUBSET Block] /\ \A t \in Thread : IsFiniteSet(wrote[t])

\* One thread commits at a time, and nobody is inside an operation then; no
\* thread runs before loginit is through; and the loops are inside the log.
CommitInv ==
    /\ \A t, u \in Thread : Committer(t) /\ Committer(u) => t = u
    /\ \A t \in Thread : Committer(t) => committing
    /\ committing => Ops = {}
    /\ boot # "up" => (\A t \in Thread : pc[t] = "idle") /\ ~committing
    /\ boot = "read_head" => cache = EmptyCache(NBuf, Block0) /\ tail = 1
    /\ boot = "install" => tail \in DOMAIN lh
    /\ \A t \in Thread : pc[t] \in {"write_log", "install"} => tail \in DOMAIN lh
    /\ \A t \in Thread : pc[t] = "write_head" => tail = 1 /\ lh # << >>

\* The log blocks that are still reserved: for each operation one for each block it
\* may write and has not.
Reserved == {x \in Ops \X (1 .. MaxOpBlocks) : x[2] > Cardinality(wrote[x[1]])}

\* What is reserved and what is used fit into the log, and what an operation wrote
\* is in the log.
ReserveInv ==
    /\ Cardinality(Reserved) + Len(lh) < NLog
    /\ \A t \in Thread : t \notin Ops => wrote[t] = {}
    /\ \A t \in Ops : \A b \in wrote[t] : Contains(lh, b)

\* A logged block that install_trans has yet to write.
Installing == boot = "install" \/ \E t \in Thread : pc[t] = "install"
Pending(a) == \E j \in DOMAIN lh : lh[j] = a /\ (Installing => tail <= j)

Distinct(s) == \A i, j \in DOMAIN s : s[i] = s[j] => i = j

\* A recovery ends with an unbalanced bunpin of each block it installed: with
\* crashes a home block may stay one reference short.
Low == IF MayCrash THEN -1 ELSE 0
Floor(a) == IF Pending(a) THEN Low + 1 ELSE IF a \in Block THEN Low ELSE 0

Refs == \A a \in Addr : Cached(cache, a) => Ref(cache, a) >= Floor(a)
Pins == \A a \in Addr : Pending(a) => Cached(cache, a)

RefInv == Distinct(lh) /\ Distinct(disk[LogStart]) /\ Refs

\* Without a crash a logged block stays cached until it is installed.
PinInv == (boot # "up" => boot = "read_head" /\ disk[LogStart] = << >>) /\ Pins

\* Every operation keeps to MAXOPBLOCKS.
Disciplined == OpBlocks <= MaxOpBlocks

IInv ==
    /\ TypeInv /\ CommitInv /\ RefInv
    /\ Disciplined => ReserveInv
    /\ ~MayCrash => PinInv

-----------------------------------------------------------------------------
(* Extrema. *)

LEMMA LeastNat ==
    ASSUME NEW T \in SUBSET Nat, T # {}
    PROVE  \E m \in T : \A y \in T : m <= y
<1> DEFINE R == {ss \in Nat \X Nat : ss[1] < ss[2]}
<1>1. IsWellFoundedOn(R, Nat)
  BY NatLessThanWellFounded, Zenon DEF OpToRel
<1>2. \A a, b \in Nat : a < b => <<a, b>> \in R
  OBVIOUS
<1> HIDE DEF R
<1>3. PICK m \in T : \A y \in T : ~(<<y, m>> \in R)
  BY <1>1, WFMin
<1>4. \A y \in T : m <= y
  <2> TAKE y \in T
  <2>1. m \in Nat /\ y \in Nat
    OBVIOUS
  <2>2. ~(y < m)
    BY <1>2, <1>3, <2>1, Zenon
  <2>3. QED
    BY <2>1, <2>2
<1>5. QED
  BY <1>4

LEMMA GreatestNat ==
    ASSUME NEW T \in SUBSET Nat, T # {}, NEW b \in Nat, \A x \in T : x <= b
    PROVE  \E m \in T : \A y \in T : y <= m
<1> DEFINE D == {b - x : x \in T}
<1>1. D \in SUBSET Nat
  <2>1. \A x \in T : b - x \in Nat
    OBVIOUS
  <2>2. QED
    BY <2>1, Zenon
<1>2. D # {}
  BY Zenon
<1> HIDE DEF D
<1>3. PICK d \in D : \A y \in D : d <= y
  BY <1>1, <1>2, LeastNat
<1>4. PICK m \in T : d = b - m
  BY <1>3 DEF D
<1>5. \A y \in T : y <= m
  <2> TAKE y \in T
  <2>1. b - y \in D
    BY DEF D
  <2>2. b - m <= b - y
    BY <1>3, <1>4, <2>1
  <2>3. QED
    BY <2>2
<1>6. QED
  BY <1>5

-----------------------------------------------------------------------------
(* The buffer cache. *)

\* Where a block's buffer is.
LEMMA FindSpec ==
    ASSUME NEW c, Len(c) = NBuf, NEW a
    PROVE  /\ Cached(c, a) <=> \E i \in 1 .. NBuf : c[i].blockno = a
           /\ Cached(c, a) => Find(c, a) \in 1 .. NBuf /\ c[Find(c, a)].blockno = a
<1> DEFINE I == {i \in 1 .. NBuf : c[i].blockno = a}
<1>1. Find(c, a) = IF I # {} THEN Min(I) ELSE 0
  BY DEF Find, SelectInSeq
<1>2. CASE I = {}
  BY <1>1, <1>2 DEF Cached
<1>3. CASE I # {}
  <2>1. I \in SUBSET Nat
    BY FsLogAssumption
  <2> HIDE DEF I
  <2>2. \E m \in I : \A y \in I : m <= y
    BY <1>3, <2>1, LeastNat
  <2>3. Min(I) \in I
    BY <2>2 DEF Min
  <2>4. QED
    BY <1>1, <1>3, <2>3 DEF I, Cached
<1>4. QED
  BY <1>2, <1>3

LEMMA FindUnique ==
    ASSUME NEW c, CacheOK(c), NEW a \in Addr, NEW i \in 1 .. NBuf, c[i].blockno = a
    PROVE  Cached(c, a) /\ Find(c, a) = i
<1>1. Len(c) = NBuf /\ a # Block0
  BY FsLogAssumption DEF CacheOK
<1>2. Cached(c, a) /\ Find(c, a) \in 1 .. NBuf /\ c[Find(c, a)].blockno = a
  BY <1>1, FindSpec
<1>3. QED
  BY <1>1, <1>2 DEF CacheOK

\* A buffer that moves to the front of the list, or replaces another there.
AtFront(c, p, b) == <<b>> \o RemoveAt(c, p)
Shift(p, j) == IF j <= p THEN j - 1 ELSE j

Fronted(c, p, b, r) ==
    /\ r \in Seq(Buffer) /\ Len(r) = NBuf /\ r[1] = b
    /\ \A j \in 2 .. NBuf : r[j] = c[Shift(p, j)]

LEMMA MoveFront ==
    ASSUME NEW c \in Seq(Buffer), Len(c) = NBuf, NEW p \in 1 .. NBuf, NEW b \in Buffer,
           NEW r, r = AtFront(c, p, b)
    PROVE  Fronted(c, p, b, r)
<1> DEFINE s1 == SubSeq(c, 1, p - 1)
           s2 == SubSeq(c, p + 1, NBuf)
<1>0. NBuf \in Nat /\ p \in Nat
  BY FsLogAssumption
<1>1. /\ s1 \in Seq(Buffer) /\ Len(s1) = p - 1
      /\ \A i \in 1 .. p - 1 : s1[i] = c[i]
  <2>1. \A i \in 1 .. p - 1 : i \in 1 .. Len(c)
    BY <1>0
  <2>2. SubSeq(c, 1, p - 1) \in Seq(Buffer)
    BY <1>0, <2>1, SubSeqProperties
  <2>3. QED
    BY <1>0, <2>2, SubSeqProperties
<1>2. /\ s2 \in Seq(Buffer) /\ Len(s2) = NBuf - p
      /\ \A i \in 1 .. NBuf - p : s2[i] = c[p + i]
  <2>1. \A i \in p + 1 .. NBuf : i \in 1 .. Len(c)
    BY <1>0
  <2>2. SubSeq(c, p + 1, NBuf) \in Seq(Buffer)
    BY <1>0, <2>1, SubSeqProperties
  <2>3. QED
    BY <1>0, <2>2, SubSeqProperties
<1>3. r = <<b>> \o (s1 \o s2)
  BY DEF RemoveAt, AtFront
<1> HIDE DEF s1, s2
<1>4. PICK m : m = s1 \o s2
  OBVIOUS
<1>5. /\ m \in Seq(Buffer) /\ Len(m) = Len(s1) + Len(s2)
      /\ \A i \in 1 .. Len(s1) + Len(s2) : m[i] = IF i <= Len(s1) THEN s1[i] ELSE s2[i - Len(s1)]
  BY <1>1, <1>2, <1>4, ConcatProperties, Zenon
<1>6. Len(m) = NBuf - 1 /\ Len(s1) + Len(s2) = NBuf - 1
  BY <1>0, <1>1, <1>2, <1>5
<1>7. PICK f : f = <<b>>
  OBVIOUS
<1>a. f \in Seq(Buffer) /\ Len(f) = 1 /\ f[1] = b
  BY <1>7
<1>8. /\ r \in Seq(Buffer) /\ Len(r) = Len(f) + Len(m)
      /\ \A i \in 1 .. Len(f) + Len(m) : r[i] = IF i <= Len(f) THEN f[i] ELSE m[i - Len(f)]
  <2>0. f \in Seq(Buffer) /\ m \in Seq(Buffer)
    BY <1>5, <1>a
  <2>1. PICK q : q = f \o m
    OBVIOUS
  <2>2. /\ q \in Seq(Buffer) /\ Len(q) = Len(f) + Len(m)
        /\ \A i \in 1 .. Len(f) + Len(m) : q[i] = IF i <= Len(f) THEN f[i] ELSE m[i - Len(f)]
    BY <2>0, <2>1, ConcatProperties, Zenon
  <2>3. r = q
    BY <1>3, <1>4, <1>7, <2>1
  <2>4. QED
    BY <2>2, <2>3
<1>b. Len(f) + Len(m) = NBuf
  BY <1>0, <1>6, <1>a
<1>c. r[1] = b
  BY <1>0, <1>8, <1>a, <1>b
<1>9. ASSUME NEW j \in 2 .. NBuf PROVE r[j] = c[Shift(p, j)]
  <2>1. j - 1 \in 1 .. NBuf - 1 /\ j \in 1 .. NBuf /\ ~(j <= 1) /\ j \in Nat
    BY <1>0
  <2>2. r[j] = m[j - 1]
    BY <1>8, <1>a, <1>b, <2>1
  <2>3. m[j - 1] = IF j - 1 <= p - 1 THEN s1[j - 1] ELSE s2[j - 1 - (p - 1)]
    BY <1>1, <1>5, <1>6, <2>1
  <2>4. CASE j <= p
    <3>1. j - 1 \in 1 .. p - 1 /\ j - 1 <= p - 1
      BY <1>0, <2>1, <2>4
    <3>2. s1[j - 1] = c[j - 1]
      BY <1>1, <3>1
    <3>3. QED
      BY <2>2, <2>3, <2>4, <3>1, <3>2 DEF Shift
  <2>5. CASE ~(j <= p)
    <3>1. j - p \in 1 .. NBuf - p /\ j - 1 - (p - 1) = j - p /\ p + (j - p) = j /\ ~(j - 1 <= p - 1)
      BY <1>0, <2>1, <2>5
    <3>2. s2[j - p] = c[p + (j - p)]
      BY <1>2, <3>1
    <3>3. QED
      BY <2>2, <2>3, <2>5, <3>1, <3>2 DEF Shift
  <2>6. QED
    BY <2>4, <2>5
<1>10. QED
  BY <1>8, <1>9, <1>b, <1>c DEF Fronted

\* Every buffer has been used.
Full(c) == \A i \in 1 .. NBuf : c[i].blockno # Block0

\* Everything of a cached block but its place.
Same(c, r, a) ==
    /\ Cached(r, a) <=> Cached(c, a)
    /\ Cached(c, a) => Ref(r, a) = Ref(c, a) /\ Data(r, a) = Data(c, a)

\* A list with another buffer of block a at the front.
LEMMA FrontOK ==
    ASSUME NEW c, CacheOK(c), NEW p \in 1 .. NBuf, NEW b \in Buffer, NEW a \in Addr, b.blockno = a,
           \A i \in 1 .. NBuf : c[i].blockno = a => i = p
    PROVE  LET r == AtFront(c, p, b)
           IN  /\ CacheOK(r) /\ Cached(r, a) /\ Ref(r, a) = b.refcnt /\ Data(r, a) = b.data
               /\ (\A i \in 1 .. NBuf : i = p \/ c[i].blockno # Block0) => Full(r)
               /\ \A x \in Addr : x # a /\ x # c[p].blockno => Same(c, r, x)
               /\ \A x \in Addr : x # a /\ x = c[p].blockno => ~Cached(r, x)
<1>1. PICK r : r = AtFront(c, p, b)
  OBVIOUS
<1>2. PICK from : from = [j \in 2 .. NBuf |-> Shift(p, j)]
  OBVIOUS
<1>0. NBuf \in Nat /\ p \in Nat /\ NBuf >= 2
  BY FsLogAssumption
<1>a. c \in Seq(Buffer) /\ Len(c) = NBuf
  BY DEF CacheOK
<1>3. /\ r \in Seq(Buffer) /\ Len(r) = NBuf /\ r[1] = b
      /\ \A j \in 2 .. NBuf : r[j] = c[Shift(p, j)]
  <2>1. Fronted(c, p, b, r)
    BY <1>a, <1>1, MoveFront
  <2>2. QED
    BY <2>1 DEF Fronted
<1>4. /\ \A j \in 2 .. NBuf : from[j] \in 1 .. NBuf /\ from[j] # p /\ r[j] = c[from[j]]
      /\ \A i, j \in 2 .. NBuf : from[i] = from[j] => i = j
      /\ \A i, j \in 2 .. NBuf : i < j => from[i] < from[j]
      /\ \A q \in 1 .. NBuf : q # p => \E j \in 2 .. NBuf : from[j] = q
  <2>0. \A j \in 2 .. NBuf : r[j] = c[from[j]]
    BY <1>2, <1>3
  <2>1. \A j \in 2 .. NBuf : from[j] = IF j <= p THEN j - 1 ELSE j
    BY <1>2 DEF Shift
  <2>2. \A j \in 2 .. NBuf : from[j] \in 1 .. NBuf /\ from[j] # p
    BY <1>0, <2>1
  <2>3. \A i, j \in 2 .. NBuf : from[i] = from[j] => i = j
    BY <1>0, <2>1
  <2>4. ASSUME NEW q \in 1 .. NBuf, q # p PROVE \E j \in 2 .. NBuf : from[j] = q
    <3>1. CASE q < p
      <4>1. q + 1 \in 2 .. NBuf /\ q + 1 <= p
        BY <1>0, <3>1
      <4>2. from[q + 1] = q
        BY <1>0, <2>1, <4>1
      <4>3. QED
        BY <4>1, <4>2
    <3>2. CASE q > p
      <4>1. q \in 2 .. NBuf /\ ~(q <= p)
        BY <1>0, <3>2
      <4>2. QED
        BY <2>1, <4>1
    <3>3. QED
      BY <1>0, <2>4, <3>1, <3>2
  <2>5. \A i, j \in 2 .. NBuf : i < j => from[i] < from[j]
    BY <1>0, <2>1
  <2>6. QED
    BY <2>0, <2>2, <2>3, <2>4, <2>5
<1>5. \A i \in 1 .. NBuf : i = 1 \/ i \in 2 .. NBuf
  BY <1>0
<1>6. \A j \in 2 .. NBuf : r[j].blockno # a
  BY <1>4
<1>b. r[1].blockno # Block0
  BY <1>3, FsLogAssumption
<1>7. CacheOK(r)
  <2>1. ASSUME NEW i \in 1 .. NBuf, NEW j \in 1 .. NBuf, r[i].blockno = r[j].blockno, r[i].blockno # Block0
        PROVE  i = j
    <3>1. CASE i = 1 \/ j = 1
      BY <1>3, <1>5, <1>6, <2>1, <3>1
    <3>2. CASE i \in 2 .. NBuf /\ j \in 2 .. NBuf
      <4>1. /\ from[i] \in 1 .. NBuf /\ from[j] \in 1 .. NBuf
            /\ c[from[i]].blockno = c[from[j]].blockno /\ c[from[i]].blockno # Block0
        BY <1>4, <2>1, <3>2
      <4>2. from[i] = from[j]
        BY <4>1 DEF CacheOK
      <4>3. QED
        BY <1>4, <3>2, <4>2
    <3>3. QED
      BY <1>5, <3>1, <3>2
  <2>2. ASSUME NEW i \in 1 .. NBuf, r[i].blockno = Block0 PROVE r[i].refcnt = 0
    <3>1. i \in 2 .. NBuf
      BY <1>5, <1>b, <2>2
    <3>2. QED
      BY <1>4, <2>2, <3>1, SMTT(30) DEF CacheOK
  <2>3. ASSUME NEW i \in 1 .. NBuf, NEW j \in 1 .. NBuf, i < j, r[i].blockno = Block0
        PROVE  r[j].blockno = Block0
    <3>1. i \in 2 .. NBuf /\ j \in 2 .. NBuf
      BY <1>0, <1>5, <1>b, <2>3
    <3>2. from[i] \in 1 .. NBuf /\ from[j] \in 1 .. NBuf /\ from[i] < from[j] /\ c[from[i]].blockno = Block0
      BY <1>4, <2>3, <3>1
    <3>3. c[from[j]].blockno = Block0
      BY <3>2 DEF CacheOK
    <3>4. QED
      BY <1>4, <3>1, <3>3
  <2>4. QED
    BY <1>3, <2>1, <2>2, <2>3 DEF CacheOK
<1>c. ASSUME \A i \in 1 .. NBuf : i = p \/ c[i].blockno # Block0 PROVE Full(r)
  BY <1>4, <1>5, <1>b, <1>c DEF Full
<1>8. Cached(r, a) /\ Find(r, a) = 1
  <2>1. 1 \in 1 .. NBuf
    BY <1>0
  <2>2. QED
    BY <1>3, <1>7, <2>1, FindUnique
<1>9. Ref(r, a) = b.refcnt /\ Data(r, a) = b.data
  BY <1>3, <1>8 DEF Ref, Data
<1>10. ASSUME NEW x \in Addr, x # a, x # c[p].blockno PROVE Same(c, r, x)
  <2>1. ASSUME Cached(c, x) PROVE Cached(r, x) /\ r[Find(r, x)] = c[Find(c, x)]
    <3>1. PICK q \in 1 .. NBuf : q = Find(c, x) /\ c[q].blockno = x
      BY <1>a, <2>1, FindSpec
    <3>2. PICK j \in 2 .. NBuf : from[j] = q
      BY <1>4, <1>10, <3>1
    <3>3. r[j] = c[q] /\ j \in 1 .. NBuf
      BY <1>0, <1>4, <3>2
    <3>4. Find(r, x) = j /\ Cached(r, x)
      BY <1>7, <3>1, <3>3, FindUnique
    <3>5. QED
      BY <3>1, <3>3, <3>4
  <2>2. ASSUME Cached(r, x) PROVE Cached(c, x)
    <3>1. PICK j \in 1 .. NBuf : r[j].blockno = x
      BY <1>3, <2>2, FindSpec
    <3>2. j \in 2 .. NBuf
      BY <1>3, <1>5, <1>10, <3>1
    <3>3. from[j] \in 1 .. NBuf /\ c[from[j]].blockno = x
      BY <1>4, <3>1, <3>2
    <3>4. QED
      BY <3>3, FindUnique
  <2>3. QED
    BY <2>1, <2>2 DEF Same, Ref, Data
<1>11. ASSUME NEW x \in Addr, x # a, x = c[p].blockno PROVE ~Cached(r, x)
  <2> SUFFICES ASSUME Cached(r, x) PROVE FALSE
    OBVIOUS
  <2>1. PICK j \in 1 .. NBuf : r[j].blockno = x
    BY <1>3, FindSpec
  <2>2. j \in 2 .. NBuf
    BY <1>3, <1>5, <1>11, <2>1
  <2>3. from[j] \in 1 .. NBuf /\ c[from[j]].blockno = x /\ from[j] # p /\ x # Block0
    BY <1>4, <2>1, <2>2, FsLogAssumption
  <2>4. QED
    BY <1>11, <2>3 DEF CacheOK
<1>12. QED
  BY <1>1, <1>7, <1>8, <1>9, <1>10, <1>11, <1>c

\* The effect of an operation on the buffer of block a, apart from its place.
Changed(c, a, n, d, r) ==
    /\ CacheOK(r) /\ Cached(r, a) /\ Ref(r, a) = Ref(c, a) + n /\ Data(r, a) = d
    /\ Full(c) => Full(r)
    /\ \A x \in Addr : x # a => Same(c, r, x)

\* A buffer changed in place.
Placed(c, p, b, r) ==
    r \in Seq(Buffer) /\ Len(r) = NBuf /\ r[p] = b /\ \A i \in 1 .. NBuf : i # p => r[i] = c[i]

LEMMA Update ==
    ASSUME NEW c \in Seq(Buffer), Len(c) = NBuf, NEW p \in 1 .. NBuf, NEW b \in Buffer
    PROVE  Placed(c, p, b, [c EXCEPT ![p] = b])
<1>1. PICK r : r = [c EXCEPT ![p] = b]
  OBVIOUS
<1>2. DOMAIN c = 1 .. NBuf /\ NBuf \in Nat
  BY FsLogAssumption
<1>3. r \in Seq(Buffer) /\ Len(r) = NBuf /\ r[p] = b /\ \A i \in 1 .. NBuf : i # p => r[i] = c[i]
  BY <1>1, <1>2
<1>4. QED
  BY <1>1, <1>3 DEF Placed

LEMMA PlaceOK ==
    ASSUME NEW c, CacheOK(c), NEW a \in Addr, Cached(c, a), NEW b \in Buffer, b.blockno = a,
           NEW n, NEW d, b.refcnt = Ref(c, a) + n, b.data = d
    PROVE  Changed(c, a, n, d, [c EXCEPT ![Find(c, a)] = b])
<1>1. PICK p : p = Find(c, a)
  OBVIOUS
<1>2. PICK r : r = [c EXCEPT ![p] = b]
  OBVIOUS
<1>3. c \in Seq(Buffer) /\ Len(c) = NBuf
  BY DEF CacheOK
<1>4. p \in 1 .. NBuf /\ c[p].blockno = a
  BY <1>1, <1>3, FindSpec
<1>5. r \in Seq(Buffer) /\ Len(r) = NBuf /\ r[p] = b /\ \A i \in 1 .. NBuf : i # p => r[i] = c[i]
  <2>1. Placed(c, p, b, r)
    BY <1>2, <1>3, <1>4, Update
  <2>2. QED
    BY <2>1 DEF Placed
<1>6. \A i \in 1 .. NBuf : r[i].blockno = c[i].blockno
  BY <1>4, <1>5
<1>a. \A i \in 1 .. NBuf : r[i].blockno = Block0 => r[i].refcnt = c[i].refcnt
  <2>1. b.blockno # Block0
    BY FsLogAssumption
  <2>2. QED
    BY <1>5, <2>1
<1>7. CacheOK(r)
  BY <1>5, <1>6, <1>a DEF CacheOK
<1>b. Full(c) => Full(r)
  BY <1>6 DEF Full
<1>8. Cached(r, a) /\ Find(r, a) = p
  BY <1>4, <1>6, <1>7, FindUnique
<1>9. ASSUME NEW x \in Addr, x # a PROVE Same(c, r, x)
  <2>1. ASSUME Cached(c, x) PROVE Cached(r, x) /\ r[Find(r, x)] = c[Find(c, x)]
    <3>1. PICK q \in 1 .. NBuf : q = Find(c, x) /\ c[q].blockno = x
      BY <1>3, <2>1, FindSpec
    <3>2. Find(r, x) = q /\ Cached(r, x)
      BY <1>6, <1>7, <3>1, FindUnique
    <3>3. QED
      BY <1>4, <1>5, <1>9, <3>1, <3>2
  <2>2. ASSUME Cached(r, x) PROVE Cached(c, x)
    <3>1. PICK q \in 1 .. NBuf : r[q].blockno = x
      BY <1>5, <2>2, FindSpec
    <3>2. QED
      BY <1>6, <3>1, FindUnique
  <2>3. QED
    BY <2>1, <2>2 DEF Same, Ref, Data
<1>10. Ref(r, a) = Ref(c, a) + n /\ Data(r, a) = d
  BY <1>5, <1>8 DEF Ref, Data
<1>11. QED
  BY <1>1, <1>2, <1>7, <1>8, <1>9, <1>10, <1>b DEF Changed

-----------------------------------------------------------------------------
(* The operations of the cache, each by what it does to the blocks. *)

\* Contents that block a may have.
Fits(a, d) == d \in Val \cup Seq(Block) /\ (a \in Block \cup Slot => d \in Val)

\* Only a buffer nobody references, and only once every buffer has been used.
Evicted(c, r, x) == Cached(c, x) /\ Ref(c, x) = 0 /\ ~Cached(r, x) /\ Full(r)

Others(c, r, a) == \A x \in Addr : x # a => Same(c, r, x) \/ Evicted(c, r, x)

OldRef(c, a) == IF Cached(c, a) THEN Ref(c, a) ELSE 0

\* The effect of bread, and of operations that start with it.
Loaded(c, a, n, d, r) ==
    /\ CacheOK(r) /\ Cached(r, a) /\ Ref(r, a) = OldRef(c, a) + n /\ Data(r, a) = d
    /\ Full(c) => Full(r)
    /\ Others(c, r, a)

LEMMA BufferAt ==
    ASSUME NEW c, CacheOK(c), NEW a \in Addr, Cached(c, a)
    PROVE  /\ Find(c, a) \in 1 .. NBuf /\ c[Find(c, a)] \in Buffer
           /\ c[Find(c, a)].blockno = a /\ Ref(c, a) \in Int
           /\ \A i \in 1 .. NBuf : c[i].blockno = a => i = Find(c, a)
<1>1. Len(c) = NBuf /\ c \in Seq(Buffer)
  BY DEF CacheOK
<1>2. Find(c, a) \in 1 .. NBuf /\ c[Find(c, a)].blockno = a
  BY <1>1, FindSpec
<1>3. c[Find(c, a)] \in Buffer
  BY <1>1, <1>2
<1>4. Ref(c, a) \in Int
  BY <1>3 DEF Ref, Buffer
<1>5. \A i \in 1 .. NBuf : c[i].blockno = a => i = Find(c, a)
  BY FindUnique
<1>6. QED
  BY <1>2, <1>3, <1>4, <1>5

LEMMA BpinOK ==
    ASSUME NEW c, CacheOK(c), NEW a \in Addr, Cached(c, a)
    PROVE  Changed(c, a, 1, Data(c, a), Bpin(c, a))
<1>1. PICK f : f = Find(c, a)
  OBVIOUS
<1>2. /\ f \in 1 .. NBuf /\ c[f] \in Buffer /\ c[f].blockno = a /\ c[f].refcnt \in Int
      /\ Ref(c, a) = c[f].refcnt /\ Data(c, a) = c[f].data
  BY <1>1, BufferAt DEF Ref, Data
<1>3. PICK b : b = [c[f] EXCEPT !.refcnt = @ + 1]
  OBVIOUS
<1>4. b \in Buffer /\ b.blockno = a /\ b.refcnt = Ref(c, a) + 1 /\ b.data = Data(c, a)
  BY <1>2, <1>3 DEF Buffer, Fits
<1>5. Bpin(c, a) = [c EXCEPT ![Find(c, a)] = b]
  BY <1>1, <1>3 DEF Bpin
<1>6. \A n, e : b.refcnt = Ref(c, a) + n /\ b.data = e => Changed(c, a, n, e, [c EXCEPT ![Find(c, a)] = b])
  BY <1>4, PlaceOK
<1>7. QED
  BY <1>4, <1>5, <1>6

LEMMA BunpinOK ==
    ASSUME NEW c, CacheOK(c), NEW a \in Addr, Cached(c, a)
    PROVE  Changed(c, a, -1, Data(c, a), Bunpin(c, a))
<1>1. PICK f : f = Find(c, a)
  OBVIOUS
<1>2. /\ f \in 1 .. NBuf /\ c[f] \in Buffer /\ c[f].blockno = a /\ c[f].refcnt \in Int
      /\ Ref(c, a) = c[f].refcnt /\ Data(c, a) = c[f].data
  BY <1>1, BufferAt DEF Ref, Data
<1>3. PICK b : b = [c[f] EXCEPT !.refcnt = @ - 1]
  OBVIOUS
<1>4. b \in Buffer /\ b.blockno = a /\ b.refcnt = Ref(c, a) + (-1) /\ b.data = Data(c, a)
  BY <1>2, <1>3 DEF Buffer, Fits
<1>5. Bunpin(c, a) = [c EXCEPT ![Find(c, a)] = b]
  BY <1>1, <1>3 DEF Bunpin
<1>6. \A n, e : b.refcnt = Ref(c, a) + n /\ b.data = e => Changed(c, a, n, e, [c EXCEPT ![Find(c, a)] = b])
  BY <1>4, PlaceOK
<1>7. QED
  BY <1>4, <1>5, <1>6

LEMMA FillOK ==
    ASSUME NEW c, CacheOK(c), NEW a \in Addr, Cached(c, a), NEW d, Fits(a, d)
    PROVE  Changed(c, a, 0, d, Fill(c, a, d))
<1>1. PICK f : f = Find(c, a)
  OBVIOUS
<1>2. /\ f \in 1 .. NBuf /\ c[f] \in Buffer /\ c[f].blockno = a /\ c[f].refcnt \in Int
      /\ Ref(c, a) = c[f].refcnt
  BY <1>1, BufferAt DEF Ref, Data
<1>3. PICK b : b = [c[f] EXCEPT !.data = d]
  OBVIOUS
<1>4. b \in Buffer /\ b.blockno = a /\ b.refcnt = Ref(c, a) + 0 /\ b.data = d
  BY <1>2, <1>3 DEF Buffer, Fits
<1>5. Fill(c, a, d) = [c EXCEPT ![Find(c, a)] = b]
  BY <1>1, <1>3 DEF Fill
<1>6. \A n, e : b.refcnt = Ref(c, a) + n /\ b.data = e => Changed(c, a, n, e, [c EXCEPT ![Find(c, a)] = b])
  BY <1>4, PlaceOK
<1>7. QED
  BY <1>4, <1>5, <1>6

LEMMA BrelseOK ==
    ASSUME NEW c, CacheOK(c), NEW a \in Addr, Cached(c, a)
    PROVE  Changed(c, a, -1, Data(c, a), Brelse(c, a))
<1>1. PICK f : f = Find(c, a)
  OBVIOUS
<1>2. /\ f \in 1 .. NBuf /\ c[f] \in Buffer /\ c[f].blockno = a /\ c[f].refcnt \in Int
      /\ Ref(c, a) = c[f].refcnt /\ Data(c, a) = c[f].data
      /\ \A i \in 1 .. NBuf : c[i].blockno = a => i = f
  BY <1>1, BufferAt DEF Ref, Data
<1>3. PICK b : b = [c[f] EXCEPT !.refcnt = @ - 1]
  OBVIOUS
<1>4. b \in Buffer /\ b.blockno = a /\ b.refcnt = Ref(c, a) + (-1) /\ b.data = Data(c, a)
  BY <1>2, <1>3 DEF Buffer, Fits
<1>5. Brelse(c, a) = IF b.refcnt = 0 THEN AtFront(c, f, b) ELSE [c EXCEPT ![Find(c, a)] = b]
  BY <1>1, <1>3 DEF Brelse, AtFront
<1>6. CASE b.refcnt = 0
  <2>1. PICK r : r = AtFront(c, f, b)
    OBVIOUS
  <2>2. /\ CacheOK(r) /\ Cached(r, a) /\ Ref(r, a) = b.refcnt /\ Data(r, a) = b.data
        /\ (\A i \in 1 .. NBuf : i = f \/ c[i].blockno # Block0) => Full(r)
        /\ \A x \in Addr : x # a /\ x # c[f].blockno => Same(c, r, x)
    BY <1>2, <1>4, <2>1, FrontOK
  <2>3. QED
    BY <1>2, <1>4, <1>5, <1>6, <2>1, <2>2 DEF Changed, Full
<1>7. CASE b.refcnt # 0
  <2>1. \A n, e : b.refcnt = Ref(c, a) + n /\ b.data = e => Changed(c, a, n, e, [c EXCEPT ![Find(c, a)] = b])
    BY <1>4, PlaceOK
  <2>2. QED
    BY <1>4, <1>5, <1>7, <2>1
<1>8. QED
  BY <1>6, <1>7

\* The buffer that bget recycles is nobody's.
LEMMA Recycled ==
    ASSUME NEW c, CacheOK(c), NEW i \in 1 .. NBuf, c[i].refcnt = 0
    PROVE  LET p == SelectLastInSeq(c, LAMBDA b : b.refcnt = 0)
           IN  p \in 1 .. NBuf /\ c[p].refcnt = 0 /\ \A j \in 1 .. NBuf : c[j].refcnt = 0 => j <= p
<1> DEFINE I == {j \in 1 .. NBuf : c[j].refcnt = 0}
<1>1. Len(c) = NBuf /\ NBuf \in Nat
  BY FsLogAssumption DEF CacheOK
<1>2. SelectLastInSeq(c, LAMBDA b : b.refcnt = 0) = IF I # {} THEN Max(I) ELSE 0
  BY <1>1 DEF SelectLastInSeq
<1>3. I # {} /\ I \in SUBSET Nat /\ \A x \in I : x <= NBuf
  BY <1>1
<1> HIDE DEF I
<1>4. \E m \in I : \A y \in I : y <= m
  BY <1>1, <1>3, GreatestNat
<1>5. Max(I) \in I /\ \A y \in I : y <= Max(I)
  BY <1>4 DEF Max
<1>6. QED
  BY <1>2, <1>3, <1>5 DEF I

LEMMA BreadOK ==
    ASSUME NEW c, CacheOK(c), NEW a \in Addr, Available(c, a), NEW d, Fits(a, d)
    PROVE  Loaded(c, a, 1, IF Cached(c, a) THEN Data(c, a) ELSE d, Bread(c, a, d))
<1>1. CASE Cached(c, a)
  <2>1. Bread(c, a, d) = Bpin(c, a)
    BY <1>1 DEF Bread, Bpin
  <2>2. Changed(c, a, 1, Data(c, a), Bread(c, a, d))
    BY <1>1, <2>1, BpinOK
  <2>3. QED
    BY <1>1, <2>2 DEF Changed, Loaded, Others, OldRef
<1>2. CASE ~Cached(c, a)
  <2>1. Len(c) = NBuf /\ c \in Seq(Buffer) /\ DOMAIN c = 1 .. NBuf
    BY FsLogAssumption DEF CacheOK
  <2>2. PICK i \in 1 .. NBuf : c[i].refcnt = 0
    BY <1>2, <2>1 DEF Available
  <2>3. PICK p : p = SelectLastInSeq(c, LAMBDA b : b.refcnt = 0)
    OBVIOUS
  <2>4. p \in 1 .. NBuf /\ c[p].refcnt = 0 /\ \A j \in 1 .. NBuf : c[j].refcnt = 0 => j <= p
    BY <2>2, <2>3, Recycled
  <2>5. PICK b : b = [blockno |-> a, refcnt |-> 1, data |-> d]
    OBVIOUS
  <2>6. b \in Buffer /\ b.blockno = a /\ b.refcnt = 1 /\ b.data = d
    BY <2>5 DEF Buffer, Fits
  <2>7. PICK r : r = AtFront(c, p, b)
    OBVIOUS
  <2>8. Bread(c, a, d) = r
    BY <1>2, <2>3, <2>5, <2>7 DEF Bread, AtFront
  <2>9. \A j \in 1 .. NBuf : c[j].blockno # a
    BY <1>2, <2>1, FindSpec
  <2>10. /\ CacheOK(r) /\ Cached(r, a) /\ Ref(r, a) = b.refcnt /\ Data(r, a) = b.data
         /\ (\A j \in 1 .. NBuf : j = p \/ c[j].blockno # Block0) => Full(r)
         /\ \A x \in Addr : x # a /\ x # c[p].blockno => Same(c, r, x)
         /\ \A x \in Addr : x # a /\ x = c[p].blockno => ~Cached(r, x)
    BY <2>4, <2>6, <2>7, <2>9, FrontOK
  <2>11. \A x \in Addr : x = c[p].blockno => Cached(c, x) /\ Ref(c, x) = 0
    BY <2>4, FindUnique DEF Ref
  <2>12. c[p].blockno # Block0 => Full(c)
    <3> SUFFICES ASSUME c[p].blockno # Block0, NEW j \in 1 .. NBuf, c[j].blockno = Block0 PROVE FALSE
      BY DEF Full
    <3>1. c[j].refcnt = 0
      BY DEF CacheOK
    <3>2. j <= p /\ j # p
      BY <2>4, <3>1
    <3>3. j < p
      BY <2>4, <3>2, FsLogAssumption
    <3>4. QED
      BY <2>4, <3>3 DEF CacheOK
  <2>13. Full(c) => Full(r)
    BY <2>10 DEF Full
  <2>14. \A x \in Addr : x = c[p].blockno => Full(r)
    BY <2>12, <2>13, FsLogAssumption
  <2>15. QED
    BY <1>2, <2>6, <2>8, <2>10, <2>11, <2>13, <2>14 DEF Loaded, Others, OldRef, Evicted
<1>3. QED
  BY <1>1, <1>2

\* What bread of block a, whose contents on disk are d, finds.
Content(c, a, d) == IF Cached(c, a) THEN Data(c, a) ELSE d

LEMMA RefType ==
    ASSUME NEW c, CacheOK(c), NEW a \in Addr
    PROVE  OldRef(c, a) \in Int
  BY BufferAt DEF OldRef

LEMMA ContentFits ==
    ASSUME NEW c, CacheOK(c), NEW a \in Block \cup Slot, NEW d \in Val
    PROVE  Content(c, a, d) \in Val /\ Fits(a, Content(c, a, d))
<1>1. a \in Addr
  BY DEF Addr
<1>2. CASE Cached(c, a)
  <2>1. c[Find(c, a)] \in Buffer /\ c[Find(c, a)].blockno = a
    BY <1>1, <1>2, BufferAt
  <2>2. Data(c, a) \in Val
    BY <2>1 DEF Data, Buffer
  <2>3. QED
    BY <1>2, <2>2 DEF Content, Fits
<1>3. CASE ~Cached(c, a)
  BY <1>3 DEF Content, Fits
<1>4. QED
  BY <1>2, <1>3

LEMMA LoadedThen ==
    ASSUME NEW c, CacheOK(c), NEW a \in Addr, NEW n \in Int, NEW m \in Int, NEW d, NEW e, NEW c1, NEW r,
           Loaded(c, a, n, d, c1), Changed(c1, a, m, e, r)
    PROVE  Loaded(c, a, n + m, e, r)
<1>1. Ref(r, a) = OldRef(c, a) + (n + m)
  <2>1. Ref(c1, a) = OldRef(c, a) + n /\ Ref(r, a) = Ref(c1, a) + m
    BY DEF Loaded, Changed
  <2>2. OldRef(c, a) \in Int
    BY RefType
  <2>3. QED
    BY <2>1, <2>2
<1>2. ASSUME NEW x \in Addr, x # a PROVE Same(c, r, x) \/ Evicted(c, r, x)
  <2>1. Same(c, c1, x) \/ Evicted(c, c1, x)
    BY <1>2 DEF Loaded, Others
  <2>2. Same(c1, r, x)
    BY <1>2 DEF Changed
  <2>3. Full(c1) => Full(r)
    BY DEF Changed
  <2>4. QED
    BY <2>1, <2>2, <2>3 DEF Same, Evicted
<1>3. QED
  BY <1>1, <1>2 DEF Loaded, Changed, Others

\* bread, brelse.
LEMMA TouchOK ==
    ASSUME NEW c, CacheOK(c), NEW a \in Addr, Available(c, a), NEW d, Fits(a, d)
    PROVE  Loaded(c, a, 0, Content(c, a, d), Brelse(Bread(c, a, d), a))
<1>1. PICK c1 : c1 = Bread(c, a, d)
  OBVIOUS
<1>2. Loaded(c, a, 1, Content(c, a, d), c1)
  BY <1>1, BreadOK DEF Content
<1>3. CacheOK(c1) /\ Cached(c1, a) /\ Data(c1, a) = Content(c, a, d)
  BY <1>2 DEF Loaded
<1>4. Changed(c1, a, -1, Content(c, a, d), Brelse(c1, a))
  BY <1>3, BrelseOK
<1>5. Loaded(c, a, 1 + (-1), Content(c, a, d), Brelse(c1, a))
  BY <1>2, <1>4, LoadedThen
<1>6. QED
  BY <1>1, <1>5

\* bread and a new contents.
LEMMA BreadFillOK ==
    ASSUME NEW c, CacheOK(c), NEW a \in Addr, Available(c, a), NEW d, Fits(a, d), NEW e, Fits(a, e)
    PROVE  Loaded(c, a, 1, e, Fill(Bread(c, a, d), a, e))
<1>1. PICK c1 : c1 = Bread(c, a, d)
  OBVIOUS
<1>2. Loaded(c, a, 1, Content(c, a, d), c1)
  BY <1>1, BreadOK DEF Content
<1>3. CacheOK(c1) /\ Cached(c1, a)
  BY <1>2 DEF Loaded
<1>4. Changed(c1, a, 0, e, Fill(c1, a, e))
  BY <1>3, FillOK
<1>5. Loaded(c, a, 1 + 0, e, Fill(c1, a, e))
  BY <1>2, <1>4, LoadedThen
<1>6. QED
  BY <1>1, <1>5

\* The same and brelse, without and with bpin.
LEMMA WriteOK ==
    ASSUME NEW c, CacheOK(c), NEW a \in Addr, Available(c, a), NEW d, Fits(a, d), NEW e, Fits(a, e)
    PROVE  /\ Loaded(c, a, 0, e, Brelse(Fill(Bread(c, a, d), a, e), a))
           /\ Loaded(c, a, 1, e, Brelse(Bpin(Fill(Bread(c, a, d), a, e), a), a))
<1>1. PICK c1 : c1 = Fill(Bread(c, a, d), a, e)
  OBVIOUS
<1>2. Loaded(c, a, 1, e, c1)
  BY <1>1, BreadFillOK
<1>3. CacheOK(c1) /\ Cached(c1, a) /\ Data(c1, a) = e
  BY <1>2 DEF Loaded
<1>4. Changed(c1, a, -1, e, Brelse(c1, a))
  BY <1>3, BrelseOK
<1>5. Loaded(c, a, 1 + (-1), e, Brelse(c1, a))
  BY <1>2, <1>4, LoadedThen
<1>6. PICK c2 : c2 = Bpin(c1, a)
  OBVIOUS
<1>7. Changed(c1, a, 1, e, c2)
  BY <1>3, <1>6, BpinOK
<1>8. Loaded(c, a, 1 + 1, e, c2)
  BY <1>2, <1>7, LoadedThen
<1>9. CacheOK(c2) /\ Cached(c2, a) /\ Data(c2, a) = e
  BY <1>7 DEF Changed
<1>10. Changed(c2, a, -1, e, Brelse(c2, a))
  BY <1>9, BrelseOK
<1>11. Loaded(c, a, 2 + (-1), e, Brelse(c2, a))
  <2>1. Loaded(c, a, 2, e, c2)
    BY <1>8
  <2>2. QED
    BY <2>1, <1>10, LoadedThen
<1>12. QED
  BY <1>1, <1>5, <1>6, <1>11

\* A copy of block src to block dst, whose count changes by n.
Copied(c, src, dst, n, d, r) ==
    /\ CacheOK(r)
    /\ Cached(r, src) /\ Ref(r, src) = OldRef(c, src) /\ Data(r, src) = d
    /\ Cached(r, dst) /\ Ref(r, dst) = OldRef(c, dst) + n /\ Data(r, dst) = d
    /\ Full(c) => Full(r)
    /\ \A x \in Addr : x # src /\ x # dst => Same(c, r, x) \/ Evicted(c, r, x)

LEMMA CopyOK ==
    ASSUME NEW c, CacheOK(c), NEW src \in Addr, NEW dst \in Addr, src # dst, NEW u \in BOOLEAN,
           NEW v, NEW c1, Loaded(c, src, 1, v, c1), OldRef(c, src) >= 0,
           Available(c1, dst), NEW d, Fits(dst, d), Fits(dst, v), NEW c2,
           c2 = Fill(Bread(c1, dst, d), dst, v)
    PROVE  Copied(c, src, dst, IF u THEN -1 ELSE 0, v, Brelse(Brelse(IF u THEN Bunpin(c2, dst) ELSE c2, src), dst))
<1> DEFINE n == IF u THEN -1 ELSE 0
<1>1. n \in Int /\ OldRef(c, src) \in Int /\ OldRef(c, dst) \in Int
  BY RefType
<1>2. CacheOK(c1) /\ Cached(c1, src) /\ Ref(c1, src) = OldRef(c, src) + 1 /\ Data(c1, src) = v /\ Others(c, c1, src)
  BY DEF Loaded
<1>f. Full(c) => Full(c1)
  BY DEF Loaded
<1>3. Loaded(c1, dst, 1, v, c2)
  BY <1>2, BreadFillOK
<1>4. /\ CacheOK(c2) /\ Cached(c2, dst) /\ Ref(c2, dst) = OldRef(c1, dst) + 1 /\ Data(c2, dst) = v
      /\ Others(c1, c2, dst) /\ (Full(c1) => Full(c2))
  BY <1>3 DEF Loaded
<1>5. Cached(c2, src) /\ Ref(c2, src) = OldRef(c, src) + 1 /\ Data(c2, src) = v
  <2>1. Ref(c1, src) # 0
    BY <1>1, <1>2
  <2>2. Same(c1, c2, src)
    BY <1>4, <2>1 DEF Others, Evicted
  <2>3. QED
    BY <1>2, <2>2 DEF Same
<1>6. OldRef(c1, dst) = OldRef(c, dst)
  BY <1>2 DEF Others, Same, Evicted, OldRef
<1>7. PICK c3 : c3 = IF u THEN Bunpin(c2, dst) ELSE c2
  OBVIOUS
<1>8. /\ CacheOK(c3) /\ Cached(c3, dst) /\ Ref(c3, dst) = Ref(c2, dst) + n /\ Data(c3, dst) = v
      /\ Full(c2) => Full(c3)
      /\ \A x \in Addr : x # dst => Same(c2, c3, x)
  <2>1. CASE u
    <3>1. Changed(c2, dst, -1, v, c3)
      BY <1>4, <1>7, <2>1, BunpinOK
    <3>2. QED
      BY <2>1, <3>1 DEF Changed
  <2>2. CASE ~u
    <3>1. Ref(c2, dst) \in Int
      BY <1>4, BufferAt
    <3>2. Ref(c2, dst) + n = Ref(c2, dst)
      BY <2>2, <3>1
    <3>3. \A x \in Addr : Same(c2, c3, x)
      BY <1>7, <2>2 DEF Same
    <3>4. QED
      BY <1>4, <1>7, <2>2, <3>2, <3>3
  <2>3. QED
    BY <2>1, <2>2
<1>9. Cached(c3, src) /\ Ref(c3, src) = OldRef(c, src) + 1 /\ Data(c3, src) = v
  BY <1>5, <1>8 DEF Same
<1>10. PICK c4 : c4 = Brelse(c3, src)
  OBVIOUS
<1>11. /\ CacheOK(c4) /\ Cached(c4, src) /\ Ref(c4, src) = Ref(c3, src) + (-1) /\ Data(c4, src) = v
       /\ Full(c3) => Full(c4)
       /\ \A x \in Addr : x # src => Same(c3, c4, x)
  <2>1. Changed(c3, src, -1, v, c4)
    BY <1>8, <1>9, <1>10, BrelseOK
  <2>2. QED
    BY <2>1 DEF Changed
<1>12. Cached(c4, dst) /\ Ref(c4, dst) = Ref(c3, dst) /\ Data(c4, dst) = v
  BY <1>8, <1>11 DEF Same
<1>13. PICK r : r = Brelse(c4, dst)
  OBVIOUS
<1>14. /\ CacheOK(r) /\ Cached(r, dst) /\ Ref(r, dst) = Ref(c4, dst) + (-1) /\ Data(r, dst) = v
       /\ Full(c4) => Full(r)
       /\ \A x \in Addr : x # dst => Same(c4, r, x)
  <2>1. Changed(c4, dst, -1, v, r)
    BY <1>11, <1>12, <1>13, BrelseOK
  <2>2. QED
    BY <2>1 DEF Changed
<1>15. Cached(r, src) /\ Ref(r, src) = Ref(c4, src) /\ Data(r, src) = v
  BY <1>11, <1>14 DEF Same
<1>16. Ref(r, src) = OldRef(c, src)
  BY <1>1, <1>9, <1>11, <1>15
<1>17. Ref(r, dst) = OldRef(c, dst) + n
  BY <1>1, <1>4, <1>6, <1>8, <1>12, <1>14
<1>18. ASSUME NEW x \in Addr, x # src, x # dst PROVE Same(c, r, x) \/ Evicted(c, r, x)
  <2>1. Same(c, c1, x) \/ Evicted(c, c1, x)
    BY <1>2, <1>18 DEF Others
  <2>2. Same(c1, c2, x) \/ Evicted(c1, c2, x)
    BY <1>4, <1>18 DEF Others
  <2>3. Same(c2, c3, x) /\ Same(c3, c4, x) /\ Same(c4, r, x)
    BY <1>8, <1>11, <1>14, <1>18
  <2>4. (Full(c1) => Full(r)) /\ (Full(c2) => Full(r))
    BY <1>4, <1>8, <1>11, <1>14
  <2>5. QED
    BY <2>1, <2>2, <2>3, <2>4 DEF Same, Evicted
<1>19. r = Brelse(Brelse(IF u THEN Bunpin(c2, dst) ELSE c2, src), dst)
  BY <1>7, <1>10, <1>13
<1> HIDE DEF n
<1>20. Copied(c, src, dst, n, v, r)
  BY <1>4, <1>8, <1>11, <1>14, <1>15, <1>16, <1>17, <1>18, <1>f DEF Copied
<1>21. QED
  BY <1>19, <1>20 DEF n

\* One iteration of write_log or install_trans: a bread may fail.
NoBuffer(src, dst) ==
    \/ ~Available(cache, src) /\ cache' = cache
    \/ \E c1 : /\ Loaded(cache, src, 1, Content(cache, src, disk[src]), c1) /\ ~Available(c1, dst)
               /\ Loaded(cache, src, 0, Content(cache, src, disk[src]), cache')

LEMMA CopyBlockOK ==
    ASSUME TypeInv, NEW src \in Block \cup Slot, NEW dst \in Block \cup Slot, src # dst, NEW u \in BOOLEAN,
           OldRef(cache, src) >= 0, CopyBlock(src, dst, u)
    PROVE  \/ NoBuffer(src, dst) /\ disk' = disk
           \/ /\ Copied(cache, src, dst, IF u THEN -1 ELSE 0, Content(cache, src, disk[src]), cache')
              /\ disk' = [disk EXCEPT ![dst] = Content(cache, src, disk[src])]
<1>1. CacheOK(cache) /\ src \in Addr /\ dst \in Addr /\ disk[src] \in Val /\ disk[dst] \in Val
  BY DEF TypeInv, Addr
<1>2. Fits(src, disk[src]) /\ Fits(dst, disk[dst])
  BY <1>1 DEF Fits
<1>3. PICK v : v = Content(cache, src, disk[src])
  OBVIOUS
<1>4. v \in Val /\ Fits(dst, v)
  BY <1>1, <1>3, ContentFits DEF Fits
<1>5. CASE ~Available(cache, src)
  BY <1>5 DEF CopyBlock, NoBuffer
<1>6. CASE Available(cache, src)
  <2>1. PICK c1 : c1 = Bread(cache, src, disk[src])
    OBVIOUS
  <2>2. Loaded(cache, src, 1, v, c1)
    BY <1>1, <1>2, <1>3, <1>6, <2>1, BreadOK DEF Content
  <2>3. CacheOK(c1) /\ Cached(c1, src) /\ Data(c1, src) = v
    BY <2>2 DEF Loaded
  <2>4. CASE ~Available(c1, dst)
    <3>1. cache' = Brelse(c1, src) /\ disk' = disk
      BY <1>6, <2>1, <2>4 DEF CopyBlock
    <3>2. Changed(c1, src, -1, v, cache')
      BY <1>1, <2>3, <3>1, BrelseOK
    <3>3. Loaded(cache, src, 1 + (-1), v, cache')
      BY <1>1, <2>2, <3>2, LoadedThen
    <3>4. QED
      BY <1>3, <2>2, <2>4, <3>1, <3>3 DEF NoBuffer
  <2>5. CASE Available(c1, dst)
    <3>1. PICK c2 : c2 = Fill(Bread(c1, dst, disk[dst]), dst, v)
      OBVIOUS
    <3>2. /\ cache' = Brelse(Brelse(IF u THEN Bunpin(c2, dst) ELSE c2, src), dst)
          /\ disk' = [disk EXCEPT ![dst] = v]
      BY <1>6, <2>1, <2>3, <2>5, <3>1 DEF CopyBlock
    <3>3. Copied(cache, src, dst, IF u THEN -1 ELSE 0, v, cache')
      BY <1>1, <1>2, <1>4, <2>2, <2>5, <3>1, <3>2, CopyOK
    <3>4. QED
      BY <1>3, <3>2, <3>3
  <2>6. QED
    BY <2>4, <2>5
<1>7. QED
  BY <1>5, <1>6

-----------------------------------------------------------------------------
(* References. *)

LEMMA LowFacts == Low \in Int /\ (Low = 0 \/ Low = -1) /\ (MayCrash => Low = -1) /\ (~MayCrash => Low = 0)
  BY FsLogAssumption DEF Low

LEMMA AddrFacts ==
    /\ Block \subseteq Addr /\ Slot \subseteq Addr /\ LogStart \in Addr /\ Block0 \notin Addr
    /\ \A b \in Block : b \notin Slot /\ b # LogStart
    /\ \A i \in Slot : i \notin Block /\ i # LogStart
  BY FsLogAssumption DEF Addr

LEMMA PendingBlock ==
    ASSUME TypeInv, NEW a, Pending(a)
    PROVE  a \in Block
<1>1. PICK j \in DOMAIN lh : lh[j] = a
  BY DEF Pending
<1>2. lh \in Seq(Block)
  BY DEF TypeInv
<1>3. lh[j] \in Block
  BY <1>1, <1>2
<1>4. QED
  BY <1>1, <1>3

LEMMA PendingBlockNext ==
    ASSUME TypeInv'
    PROVE  \A a \in Addr : Pending(a)' => a \in Block
<1>1. lh' \in Seq(Block)
  BY DEF TypeInv
<1>2. \A j \in DOMAIN lh' : lh'[j] \in Block
  BY <1>1
<1>3. QED
  BY <1>2 DEF Pending

\* What the floor of the references says of one block.
LEMMA FloorFacts ==
    ASSUME TypeInv, Refs, ~MayCrash => Pins, NEW a \in Addr
    PROVE  /\ OldRef(cache, a) \in Int /\ OldRef(cache, a) >= Low
           /\ a \notin Block => OldRef(cache, a) >= 0
           /\ Pending(a) => OldRef(cache, a) >= Low + 1 /\ OldRef(cache, a) >= 0
<1>1. OldRef(cache, a) \in Int
  BY RefType DEF TypeInv
<1>2. CASE Cached(cache, a)
  <2>1. OldRef(cache, a) >= Floor(a)
    BY <1>2 DEF Refs, OldRef
  <2>2. QED
    BY <1>1, <2>1, LowFacts, PendingBlock DEF Floor
<1>3. CASE ~Cached(cache, a)
  <2>1. OldRef(cache, a) = 0
    BY <1>3 DEF OldRef
  <2>2. Pending(a) => MayCrash
    BY <1>3 DEF Pins
  <2>3. QED
    BY <2>1, <2>2, LowFacts
<1>4. QED
  BY <1>2, <1>3

\* A step after which each block has at least the references its floor asks for.
LEMMA RefsStep ==
    ASSUME TypeInv, Refs, ~MayCrash => Pins,
           \A x \in Addr : \/ Same(cache, cache', x) \/ Evicted(cache, cache', x)
                           \/ /\ Cached(cache', x) /\ Ref(cache', x) \in Int
                              /\ Ref(cache', x) >= IF x \in Block THEN Low ELSE 0
                              /\ Pending(x)' => Ref(cache', x) >= Low + 1,
           \A x \in Addr : Pending(x)' => x \in Block,
           \A x \in Addr : Pending(x)' => Pending(x) \/ (~Same(cache, cache', x) /\ ~Evicted(cache, cache', x))
    PROVE  Refs' /\ (~MayCrash => Pins')
<1>1. ASSUME NEW x \in Addr, Cached(cache', x) PROVE Ref(cache', x) >= Floor(x)'
  <2>0. Floor(x)' = IF Pending(x)' THEN Low + 1 ELSE IF x \in Block THEN Low ELSE 0
    BY DEF Floor, Low
  <2>1. CASE Same(cache, cache', x)
    <3>1. Cached(cache, x) /\ Ref(cache', x) = OldRef(cache, x)
      BY <1>1, <2>1 DEF Same, OldRef
    <3>2. Pending(x)' => Pending(x) /\ x \in Block
      BY <2>1
    <3>3. QED
      BY <2>0, <3>1, <3>2, FloorFacts, LowFacts
  <2>2. CASE ~Same(cache, cache', x)
    BY <1>1, <2>0, <2>2, LowFacts DEF Evicted
  <2>3. QED
    BY <2>1, <2>2
<1>2. ASSUME ~MayCrash, NEW x \in Addr, Pending(x)' PROVE Cached(cache', x)
  <2>1. CASE Same(cache, cache', x)
    <3>1. Pending(x)
      BY <1>2, <2>1
    <3>2. QED
      BY <1>2, <2>1, <3>1 DEF Same, Pins
  <2>2. CASE Evicted(cache, cache', x)
    <3>1. Pending(x) /\ OldRef(cache, x) = 0
      BY <1>2, <2>2 DEF Evicted, OldRef
    <3>2. QED
      BY <1>2, <3>1, FloorFacts, LowFacts
  <2>3. CASE ~Same(cache, cache', x) /\ ~Evicted(cache, cache', x)
    BY <2>3
  <2>4. QED
    BY <2>1, <2>2, <2>3
<1>3. QED
  BY <1>1, <1>2 DEF Refs, Pins

LEMMA UntouchedRefs ==
    ASSUME TypeInv, Refs, ~MayCrash => Pins, cache' = cache, \A x \in Addr : Pending(x)' => Pending(x)
    PROVE  Refs' /\ (~MayCrash => Pins')
<1>1. \A x \in Addr : Same(cache, cache', x)
  BY DEF Same
<1>2. \A x \in Addr : Pending(x)' => x \in Block
  BY PendingBlock
<1>3. \A x \in Addr : Pending(x)' => Pending(x) \/ (~Same(cache, cache', x) /\ ~Evicted(cache, cache', x))
  OBVIOUS
<1>4. QED
  BY <1>1, <1>2, <1>3, RefsStep

LEMMA LoadedRefs ==
    ASSUME TypeInv, Refs, ~MayCrash => Pins, NEW a \in Addr, NEW d, Loaded(cache, a, 0, d, cache'),
           \A x \in Addr : Pending(x)' => Pending(x)
    PROVE  Refs' /\ (~MayCrash => Pins')
<1>1. \A x \in Addr : Pending(x)' => x \in Block
  BY PendingBlock
<1>2. Cached(cache', a) /\ Ref(cache', a) = OldRef(cache, a) + 0 /\ Others(cache, cache', a)
  BY DEF Loaded
<1>3. /\ Ref(cache', a) \in Int /\ Ref(cache', a) >= (IF a \in Block THEN Low ELSE 0)
      /\ Pending(a)' => Ref(cache', a) >= Low + 1
  BY <1>2, FloorFacts, LowFacts
<1>4. \A x \in Addr : \/ Same(cache, cache', x) \/ Evicted(cache, cache', x)
                      \/ /\ Cached(cache', x) /\ Ref(cache', x) \in Int
                         /\ Ref(cache', x) >= IF x \in Block THEN Low ELSE 0
                         /\ Pending(x)' => Ref(cache', x) >= Low + 1
  BY <1>2, <1>3 DEF Others
<1>5. \A x \in Addr : Pending(x)' => Pending(x) \/ (~Same(cache, cache', x) /\ ~Evicted(cache, cache', x))
  OBVIOUS
<1>6. QED
  BY <1>1, <1>4, <1>5, RefsStep

LEMMA PinnedRefs ==
    ASSUME TypeInv, Refs, ~MayCrash => Pins, NEW b \in Block, NEW d, Loaded(cache, b, 1, d, cache'),
           \A x \in Addr : Pending(x)' => Pending(x) \/ x = b
    PROVE  Refs' /\ (~MayCrash => Pins')
<1>0. b \in Addr
  BY AddrFacts
<1>1. \A x \in Addr : Pending(x)' => x \in Block
  BY PendingBlock
<1>2. Cached(cache', b) /\ Ref(cache', b) = OldRef(cache, b) + 1 /\ Others(cache, cache', b)
  BY DEF Loaded
<1>3. OldRef(cache, b) \in Int /\ OldRef(cache, b) >= Low
  BY <1>0, FloorFacts
<1>4. Ref(cache', b) \in Int /\ Ref(cache', b) >= Low /\ Ref(cache', b) >= Low + 1
  BY <1>2, <1>3, LowFacts
<1>5. \A x \in Addr : \/ Same(cache, cache', x) \/ Evicted(cache, cache', x)
                      \/ /\ Cached(cache', x) /\ Ref(cache', x) \in Int
                         /\ Ref(cache', x) >= IF x \in Block THEN Low ELSE 0
                         /\ Pending(x)' => Ref(cache', x) >= Low + 1
  BY <1>2, <1>4 DEF Others
<1>6. ~Same(cache, cache', b) /\ ~Evicted(cache, cache', b)
  BY <1>2, <1>3 DEF Same, Evicted, OldRef
<1>7. \A x \in Addr : Pending(x)' => Pending(x) \/ (~Same(cache, cache', x) /\ ~Evicted(cache, cache', x))
  <2> SUFFICES ASSUME NEW x \in Addr, Pending(x)'
               PROVE  Pending(x) \/ (~Same(cache, cache', x) /\ ~Evicted(cache, cache', x))
    OBVIOUS
  <2>1. Pending(x) \/ x = b
    OBVIOUS
  <2>2. QED
    BY <1>6, <2>1
<1>8. QED
  BY <1>1, <1>5, <1>7, RefsStep

LEMMA CopiedRefs ==
    ASSUME TypeInv, Refs, ~MayCrash => Pins, NEW src \in Addr, NEW dst \in Addr, NEW n, NEW d,
           Copied(cache, src, dst, n, d, cache'),
           \A x \in Addr : Pending(x)' => Pending(x),
           n = 0 \/ (n = -1 /\ Pending(dst) /\ ~Pending(dst)')
    PROVE  Refs' /\ (~MayCrash => Pins')
<1>1. \A x \in Addr : Pending(x)' => x \in Block
  BY PendingBlock
<1>2. /\ Cached(cache', src) /\ Ref(cache', src) = OldRef(cache, src)
      /\ Cached(cache', dst) /\ Ref(cache', dst) = OldRef(cache, dst) + n
      /\ \A x \in Addr : x # src /\ x # dst => Same(cache, cache', x) \/ Evicted(cache, cache', x)
  BY DEF Copied
<1>3. /\ Ref(cache', src) \in Int /\ Ref(cache', src) >= (IF src \in Block THEN Low ELSE 0)
      /\ Pending(src)' => Ref(cache', src) >= Low + 1
  BY <1>2, FloorFacts, LowFacts
<1>4. /\ Ref(cache', dst) \in Int /\ Ref(cache', dst) >= (IF dst \in Block THEN Low ELSE 0)
      /\ Pending(dst)' => Ref(cache', dst) >= Low + 1
  <2>1. /\ OldRef(cache, dst) \in Int /\ OldRef(cache, dst) >= Low
        /\ dst \notin Block => OldRef(cache, dst) >= 0
        /\ Pending(dst) => OldRef(cache, dst) >= Low + 1 /\ dst \in Block
    BY FloorFacts, PendingBlock
  <2>2. CASE n = 0
    BY <1>2, <2>1, <2>2, LowFacts
  <2>3. CASE n = -1 /\ Pending(dst) /\ ~Pending(dst)'
    BY <1>2, <2>1, <2>3, LowFacts
  <2>4. QED
    BY <2>2, <2>3
<1>5. \A x \in Addr : \/ Same(cache, cache', x) \/ Evicted(cache, cache', x)
                      \/ /\ Cached(cache', x) /\ Ref(cache', x) \in Int
                         /\ Ref(cache', x) >= IF x \in Block THEN Low ELSE 0
                         /\ Pending(x)' => Ref(cache', x) >= Low + 1
  BY <1>2, <1>3, <1>4
<1>6. \A x \in Addr : Pending(x)' => Pending(x) \/ (~Same(cache, cache', x) /\ ~Evicted(cache, cache', x))
  OBVIOUS
<1>7. QED
  BY <1>1, <1>5, <1>6, RefsStep

LEMMA NoBufferRefs ==
    ASSUME TypeInv, Refs, ~MayCrash => Pins, NEW src \in Addr, NEW dst \in Addr, NoBuffer(src, dst),
           \A x \in Addr : Pending(x)' => Pending(x)
    PROVE  CacheOK(cache') /\ Refs' /\ (~MayCrash => Pins')
<1>1. CASE cache' = cache
  BY <1>1, UntouchedRefs DEF TypeInv
<1>2. CASE Loaded(cache, src, 0, Content(cache, src, disk[src]), cache')
  <2>1. CacheOK(cache')
    BY <1>2 DEF Loaded
  <2>2. QED
    BY <1>2, <2>1, LoadedRefs
<1>3. QED
  BY <1>1, <1>2 DEF NoBuffer

\* An empty cache holds no block.
LEMMA EmptyOK ==
    ASSUME NEW c, c = EmptyCache(NBuf, Block0)
    PROVE  /\ CacheOK(c) /\ \A a \in Addr : ~Cached(c, a)
           /\ \A a : Available(c, a)
<1>1. PICK b : b = [blockno |-> Block0, refcnt |-> 0, data |-> Block0]
  OBVIOUS
<1>2. b \in Buffer /\ b.blockno = Block0 /\ b.refcnt = 0
  BY <1>1, AddrFacts DEF Buffer, Addr
<1>3. NBuf \in Nat /\ 1 \in 1 .. NBuf
  BY FsLogAssumption
<1>4. c = [i \in 1 .. NBuf |-> b]
  BY <1>1 DEF EmptyCache
<1>5. c \in Seq(Buffer) /\ Len(c) = NBuf /\ DOMAIN c = 1 .. NBuf /\ \A i \in 1 .. NBuf : c[i] = b
  BY <1>2, <1>3, <1>4
<1>6. CacheOK(c)
  BY <1>2, <1>5 DEF CacheOK
<1>7. \A a \in Addr : ~Cached(c, a)
  BY <1>2, <1>5, AddrFacts, FindSpec
<1>8. \A a : Available(c, a)
  BY <1>2, <1>3, <1>5 DEF Available
<1>9. QED
  BY <1>6, <1>7, <1>8

-----------------------------------------------------------------------------
(* Operations begin and end. *)

LEMMA IInvParts ==
    ASSUME IInv
    PROVE  /\ TypeInv /\ CommitInv /\ Distinct(lh) /\ Distinct(disk[LogStart]) /\ Refs
           /\ Disciplined => ReserveInv
           /\ ~MayCrash => Pins
           /\ ~MayCrash => (boot # "up" => boot = "read_head" /\ disk[LogStart] = << >>)
  BY DEF IInv, RefInv, PinInv

\* A step that leaves the header and the boot phase alone keeps the rest of PinInv.
LEMMA Assembled ==
    ASSUME TypeInv', CommitInv', Distinct(lh)', Distinct(disk[LogStart])', Refs', ~MayCrash => Pins',
           Disciplined => ReserveInv', ~MayCrash => (boot # "up" => boot = "read_head" /\ disk[LogStart] = << >>)'
    PROVE  IInv'
  BY DEF IInv, RefInv, PinInv, Disciplined

LEMMA NumFacts == /\ NLog \in Nat /\ NLog >= 2 /\ NBuf \in Nat /\ NBuf >= 2
                  /\ MaxOpBlocks \in Nat /\ MaxOpBlocks >= 1 /\ OpBlocks \in Nat
                  /\ Slot = 1 .. NLog - 1 /\ 1 \in Slot
  BY FsLogAssumption DEF Slot

\* A thread outside begin_op goes where it is not inside either.
LEMMA OpsKept ==
    ASSUME TypeInv, NEW t \in Thread, pc[t] # "active", NEW s \in Pc, s # "active", pc' = [pc EXCEPT ![t] = s]
    PROVE  Ops' = Ops /\ pc' \in [Thread -> Pc]
  BY DEF TypeInv, Ops

\* The reservations hold when nobody is inside an operation.
LEMMA ReserveQuiet ==
    ASSUME Ops' = {}, Len(lh') \in Nat, Len(lh') < NLog, \A t \in Thread : wrote'[t] = {}
    PROVE  ReserveInv'
<1>1. Reserved' = {}
  BY DEF Reserved
<1>2. Cardinality(Reserved') = 0
  BY <1>1, FS_EmptySet
<1>3. Cardinality(Reserved') + Len(lh') < NLog
  BY <1>2, NumFacts
<1>4. QED
  BY <1>3 DEF ReserveInv

LEMMA ReservedFinite ==
    ASSUME TypeInv
    PROVE  IsFiniteSet(Reserved)
<1>1. IsFiniteSet(Ops) /\ IsFiniteSet(1 .. MaxOpBlocks)
  BY NumFacts, FS_Interval DEF TypeInv
<1>2. IsFiniteSet(Ops \X (1 .. MaxOpBlocks))
  BY <1>1, FS_Product
<1>3. Reserved \subseteq Ops \X (1 .. MaxOpBlocks)
  BY DEF Reserved
<1>4. QED
  BY <1>2, <1>3, FS_Subset

LEMMA BeginStep ==
    ASSUME IInv, NEW t \in Thread, BeginOp(t)
    PROVE  IInv'
<1>1. /\ TypeInv /\ CommitInv /\ Distinct(lh) /\ Distinct(disk[LogStart]) /\ Refs
      /\ Disciplined => ReserveInv
      /\ ~MayCrash => Pins
      /\ ~MayCrash => (boot # "up" => boot = "read_head" /\ disk[LogStart] = << >>)
  BY IInvParts
<1>2. UNCHANGED <<disk, cache, lh, committing, tail, boot, wrote>> /\ boot = "up" /\ pc[t] \in {"idle", "begin"}
  BY DEF BeginOp
<1>a. pc \in [Thread -> Pc] /\ IsFiniteSet(Ops) /\ outstanding = Cardinality(Ops)
  BY <1>1 DEF TypeInv
<1>3. CASE committing \/ ~Room
  <2>1. pc' = [pc EXCEPT ![t] = "waiting"] /\ outstanding' = outstanding
    BY <1>3 DEF BeginOp
  <2>2. Ops' = Ops /\ pc' \in [Thread -> Pc]
    BY <1>1, <1>2, <2>1, OpsKept DEF Pc
  <2>3. TypeInv'
    BY <1>1, <1>2, <2>1, <2>2 DEF TypeInv, Ops
  <2>4. CommitInv'
    BY <1>1, <1>2, <1>a, <2>1, <2>2 DEF CommitInv, Committer
  <2>5. \A x \in Addr : Pending(x)' => Pending(x)
    BY <1>2, <1>a, <2>1 DEF Pending, Installing
  <2>6. Refs' /\ (~MayCrash => Pins')
    BY <1>1, <1>2, <2>5, UntouchedRefs
  <2>7. Reserved' = Reserved
    BY <1>2, <2>2 DEF Reserved
  <2>8. Disciplined => ReserveInv'
    BY <1>1, <1>2, <2>2, <2>7 DEF ReserveInv
  <2>9. QED
    BY <1>1, <1>2, <2>3, <2>4, <2>6, <2>8, Assembled
<1>4. CASE ~committing /\ Room
  <2>1. pc' = [pc EXCEPT ![t] = "active"] /\ outstanding' = outstanding + 1
    BY <1>4 DEF BeginOp
  <2>2. Ops' = Ops \cup {t} /\ t \notin Ops /\ pc' \in [Thread -> Pc]
    BY <1>2, <1>a, <2>1 DEF Ops, Pc
  <2>3. IsFiniteSet(Ops') /\ outstanding' = Cardinality(Ops')
    BY <1>a, <2>1, <2>2, FS_AddElement
  <2>4. TypeInv'
    BY <1>1, <1>2, <2>2, <2>3 DEF TypeInv
  <2>5. CommitInv'
    BY <1>1, <1>2, <1>4, <1>a, <2>1, <2>2 DEF CommitInv, Committer
  <2>6. \A x \in Addr : Pending(x)' => Pending(x)
    BY <1>2, <1>a, <2>1 DEF Pending, Installing
  <2>7. Refs' /\ (~MayCrash => Pins')
    BY <1>1, <1>2, <2>6, UntouchedRefs
  <2>8. ASSUME Disciplined PROVE ReserveInv'
    <3>1. ReserveInv /\ wrote[t] = {}
      BY <1>1, <2>2, <2>8 DEF ReserveInv
    <3>2. Reserved' \subseteq Ops' \X (1 .. MaxOpBlocks)
      BY DEF Reserved
    <3>3. IsFiniteSet(1 .. MaxOpBlocks) /\ Cardinality(1 .. MaxOpBlocks) = MaxOpBlocks
      BY NumFacts, FS_Interval
    <3>4. /\ IsFiniteSet(Ops' \X (1 .. MaxOpBlocks))
          /\ Cardinality(Ops' \X (1 .. MaxOpBlocks)) = (outstanding + 1) * MaxOpBlocks
      <4>1. /\ IsFiniteSet(Ops' \X (1 .. MaxOpBlocks))
            /\ Cardinality(Ops' \X (1 .. MaxOpBlocks)) = Cardinality(Ops') * Cardinality(1 .. MaxOpBlocks)
        BY <2>3, <3>3, FS_Product, Zenon
      <4>2. QED
        BY <2>1, <2>3, <3>3, <4>1
    <3>5. Cardinality(Reserved') <= (outstanding + 1) * MaxOpBlocks /\ Cardinality(Reserved') \in Nat
      BY <3>2, <3>4, FS_Subset, FS_CardinalityType
    <3>6. Len(lh) + (outstanding + 1) * MaxOpBlocks <= NLog - 1
      BY <1>4 DEF Room
    <3>7. Len(lh) \in Nat /\ outstanding \in Nat /\ (outstanding + 1) * MaxOpBlocks \in Nat
      BY <1>1, <1>a, NumFacts, FS_CardinalityType DEF TypeInv
    <3>8. Cardinality(Reserved') + Len(lh) < NLog
      BY <3>5, <3>6, <3>7, NumFacts
    <3>9. \A u \in Thread : u \notin Ops' => wrote[u] = {}
      BY <2>2, <3>1 DEF ReserveInv
    <3>10. \A u \in Ops' : \A b \in wrote[u] : Contains(lh, b)
      BY <2>2, <3>1 DEF ReserveInv
    <3>11. QED
      BY <1>2, <3>8, <3>9, <3>10 DEF ReserveInv
  <2>9. QED
    BY <1>1, <1>2, <2>4, <2>5, <2>7, <2>8, Assembled
<1>5. QED
  BY <1>3, <1>4

LEMMA EndStep ==
    ASSUME IInv, NEW t \in Thread, EndOp(t)
    PROVE  IInv'
<1>1. /\ TypeInv /\ CommitInv /\ Distinct(lh) /\ Distinct(disk[LogStart]) /\ Refs
      /\ Disciplined => ReserveInv
      /\ ~MayCrash => Pins
      /\ ~MayCrash => (boot # "up" => boot = "read_head" /\ disk[LogStart] = << >>)
  BY IInvParts
<1>a. pc \in [Thread -> Pc] /\ IsFiniteSet(Ops) /\ outstanding = Cardinality(Ops)
  BY <1>1 DEF TypeInv
<1>2. /\ UNCHANGED <<disk, cache, lh, boot>> /\ pc[t] = "active" /\ outstanding' = outstanding - 1
      /\ wrote' = [wrote EXCEPT ![t] = {}]
  BY DEF EndOp
<1>3. t \in Ops
  BY <1>2 DEF Ops
<1>4. IsFiniteSet(Ops \ {t}) /\ Cardinality(Ops \ {t}) = Cardinality(Ops) - 1 /\ Cardinality(Ops) \in Nat
  BY <1>3, <1>a, FS_RemoveElement, FS_CardinalityType
<1>5. PICK s \in {"release", "write_log", "idle"} : pc' = [pc EXCEPT ![t] = s]
  BY DEF EndOp
<1>6. Ops' = Ops \ {t} /\ pc' \in [Thread -> Pc]
  BY <1>5, <1>a DEF Ops, Pc
<1>7. boot = "up" /\ ~committing
  BY <1>1, <1>2, <1>3 DEF CommitInv
<1>8. wrote \in [Thread -> SUBSET Block] /\ \A u \in Thread : IsFiniteSet(wrote[u])
  BY <1>1 DEF TypeInv
<1>9. /\ wrote' \in [Thread -> SUBSET Block] /\ wrote'[t] = {}
      /\ \A u \in Thread : u # t => wrote'[u] = wrote[u]
  BY <1>2, <1>8
<1>10. \A u \in Thread : IsFiniteSet(wrote'[u])
  BY <1>8, <1>9, FS_EmptySet
<1>11. committing' \in BOOLEAN /\ tail' \in Slot
  BY <1>1, NumFacts DEF EndOp, TypeInv
<1>12. TypeInv'
  <2>1. outstanding' = Cardinality(Ops') /\ IsFiniteSet(Ops')
    BY <1>2, <1>4, <1>6, <1>a
  <2>2. QED
    BY <1>1, <1>2, <1>6, <1>9, <1>10, <1>11, <2>1 DEF TypeInv
<1>13. CommitInv'
  <2>1. \A u \in Thread : ~Committer(u)
    BY <1>1, <1>7 DEF CommitInv
  <2>2. CASE outstanding = 1
    <3>1. Ops' = {}
      BY <1>2, <1>4, <1>6, <1>a, <2>2, FS_EmptySet
    <3>2. committing' = TRUE /\ tail' = 1 /\ pc' = [pc EXCEPT ![t] = IF lh = << >> THEN "release" ELSE "write_log"]
      BY <2>2 DEF EndOp
    <3>3. lh # << >> => 1 \in DOMAIN lh
      BY <1>1 DEF TypeInv
    <3>4. \A u \in Thread : u # t => pc'[u] = pc[u]
      BY <1>a, <3>2
    <3>5. pc'[t] = IF lh = << >> THEN "release" ELSE "write_log"
      BY <1>a, <3>2
    <3>6. QED
      BY <1>2, <1>7, <2>1, <3>1, <3>2, <3>3, <3>4, <3>5 DEF CommitInv, Committer
  <2>3. CASE outstanding # 1
    <3>1. pc' = [pc EXCEPT ![t] = "idle"] /\ committing' = committing /\ tail' = tail
      BY <2>3 DEF EndOp
    <3>2. \A u \in Thread : ~Committer(u)'
      BY <1>a, <2>1, <3>1 DEF Committer
    <3>3. QED
      BY <1>2, <1>7, <3>1, <3>2 DEF CommitInv, Committer
  <2>4. QED
    BY <2>2, <2>3
<1>14. \A x \in Addr : Pending(x)' => Pending(x)
  <2>1. ~Installing
    BY <1>1, <1>7 DEF Installing, CommitInv, Committer
  <2>2. QED
    BY <1>2, <2>1 DEF Pending
<1>15. Refs' /\ (~MayCrash => Pins')
  BY <1>1, <1>2, <1>14, UntouchedRefs
<1>16. ASSUME Disciplined PROVE ReserveInv'
  <2>1. ReserveInv
    BY <1>1, <1>16
  <2>2. Reserved' \subseteq Reserved
    BY <1>6, <1>9 DEF Reserved, Ops
  <2>3. IsFiniteSet(Reserved)
    BY <1>1, ReservedFinite
  <2>4. Cardinality(Reserved') <= Cardinality(Reserved) /\ Cardinality(Reserved') \in Nat /\ Cardinality(Reserved) \in Nat
    BY <2>2, <2>3, FS_Subset, FS_CardinalityType
  <2>5. Cardinality(Reserved) + Len(lh) < NLog /\ Len(lh) \in Nat
    BY <1>1, <2>1 DEF ReserveInv, TypeInv
  <2>6. Cardinality(Reserved') + Len(lh') < NLog
    BY <1>2, <2>4, <2>5, NumFacts
  <2>7. \A u \in Thread : u \notin Ops' => wrote'[u] = {}
    BY <1>6, <1>9, <2>1 DEF ReserveInv
  <2>8. \A u \in Ops' : \A b \in wrote'[u] : Contains(lh, b)
    BY <1>6, <1>9, <2>1 DEF ReserveInv, Ops
  <2>9. QED
    BY <1>2, <2>6, <2>7, <2>8 DEF ReserveInv
<1>17. QED
  BY <1>1, <1>2, <1>12, <1>13, <1>15, <1>16, Assembled

LEMMA ReleaseStep ==
    ASSUME IInv, NEW t \in Thread, Release(t)
    PROVE  IInv'
<1>1. /\ TypeInv /\ CommitInv /\ Distinct(lh) /\ Distinct(disk[LogStart]) /\ Refs
      /\ Disciplined => ReserveInv
      /\ ~MayCrash => Pins
      /\ ~MayCrash => (boot # "up" => boot = "read_head" /\ disk[LogStart] = << >>)
  BY IInvParts
<1>a. pc \in [Thread -> Pc] /\ IsFiniteSet(Ops) /\ outstanding = Cardinality(Ops)
  BY <1>1 DEF TypeInv
<1>2. UNCHANGED <<disk, cache, lh, outstanding, tail, boot, wrote>> /\ pc[t] = "release" /\ committing' = FALSE
  BY DEF Release
<1>3. \A u \in Thread : pc'[u] = IF u = t THEN "idle" ELSE IF pc[u] = "waiting" THEN "begin" ELSE pc[u]
  BY DEF Release
<1>4. pc' \in [Thread -> Pc]
  BY <1>a DEF Release, Pc
<1>5. Ops' = Ops
  BY <1>2, <1>3 DEF Ops
<1>6. \A u \in Thread : Committer(u) => u = t
  BY <1>1, <1>2 DEF CommitInv, Committer
<1>7. \A u \in Thread : ~Committer(u)'
  BY <1>3, <1>6 DEF Committer
<1>8. boot = "up"
  BY <1>1, <1>2 DEF CommitInv
<1>9. TypeInv'
  BY <1>1, <1>2, <1>4, <1>5 DEF TypeInv
<1>10. CommitInv'
  BY <1>2, <1>7, <1>8 DEF CommitInv, Committer
<1>11. \A x \in Addr : Pending(x)' => Pending(x)
  <2>1. ~Installing
    BY <1>2, <1>6, <1>8 DEF Installing, Committer
  <2>2. QED
    BY <1>2, <2>1 DEF Pending
<1>12. Refs' /\ (~MayCrash => Pins')
  BY <1>1, <1>2, <1>11, UntouchedRefs
<1>13. Reserved' = Reserved
  BY <1>2, <1>5 DEF Reserved
<1>14. Disciplined => ReserveInv'
  BY <1>1, <1>2, <1>5, <1>13 DEF ReserveInv
<1>15. QED
  BY <1>1, <1>2, <1>9, <1>10, <1>12, <1>14, Assembled

-----------------------------------------------------------------------------
(* Blocks are read and written. *)

LEMMA DiskFits ==
    ASSUME TypeInv, NEW a \in Addr
    PROVE  Fits(a, disk[a])
<1>1. disk \in [Addr -> Val \cup Seq(Block)] /\ (a \in Block \cup Slot => disk[a] \in Val)
  BY DEF TypeInv
<1>2. disk[a] \in Val \cup Seq(Block)
  BY <1>1
<1>3. QED
  BY <1>1, <1>2 DEF Fits

\* log_write absorbs or drops the write, or appends and pins the block.
LEMMA LogWriteOK ==
    ASSUME TypeInv, NEW b \in Block, NEW v \in Val, Available(cache, b),
           LogWrite(Fill(Bread(cache, b, disk[b]), b, v), b)
    PROVE  \/ /\ Len(lh) >= NLog - 1 \/ Contains(lh, b)
              /\ lh' = lh /\ Loaded(cache, b, 0, v, cache')
           \/ /\ Len(lh) < NLog - 1 /\ ~Contains(lh, b)
              /\ lh' = Append(lh, b) /\ Loaded(cache, b, 1, v, cache')
<1>1. CacheOK(cache) /\ b \in Addr /\ Fits(b, disk[b]) /\ Fits(b, v) /\ Len(lh) \in Nat
  BY AddrFacts, DiskFits DEF Fits, TypeInv
<1>2. PICK c : c = Fill(Bread(cache, b, disk[b]), b, v)
  OBVIOUS
<1>3. Loaded(cache, b, 0, v, Brelse(c, b)) /\ Loaded(cache, b, 1, v, Brelse(Bpin(c, b), b))
  BY <1>1, <1>2, WriteOK
<1>4. CASE Len(lh) >= NLog - 1 \/ Contains(lh, b)
  BY <1>2, <1>3, <1>4 DEF LogWrite
<1>5. CASE ~(Len(lh) >= NLog - 1 \/ Contains(lh, b))
  <2>1. Len(lh) < NLog - 1 /\ ~Contains(lh, b)
    BY <1>1, <1>5, NumFacts
  <2>2. QED
    BY <1>2, <1>3, <1>5, <2>1 DEF LogWrite
<1>6. QED
  BY <1>4, <1>5

\* A disciplined operation never finds the log full: its block is logged.
LEMMA Logged ==
    ASSUME TypeInv, Disciplined, ReserveInv, NEW t \in Ops, NEW b \in Block,
           Cardinality(wrote[t] \cup {b}) <= OpBlocks
    PROVE  Contains(lh, b) \/ Len(lh) < NLog - 1
<1>1. CASE b \in wrote[t]
  BY <1>1 DEF ReserveInv
<1>2. CASE b \notin wrote[t]
  <2>0. IsFiniteSet(wrote[t]) /\ Len(lh) \in Nat
    BY DEF TypeInv, Ops
  <2>1. PICK k : k = Cardinality(wrote[t])
    OBVIOUS
  <2>2. k \in Nat /\ Cardinality(wrote[t] \cup {b}) = k + 1
    BY <1>2, <2>0, <2>1, FS_AddElement, FS_CardinalityType
  <2>3. k + 1 \in 1 .. MaxOpBlocks
    BY <2>2, NumFacts DEF Disciplined
  <2>4. <<t, k + 1>> \in Reserved
    BY <2>1, <2>2, <2>3 DEF Reserved
  <2>5. IsFiniteSet(Reserved) /\ Cardinality(Reserved) \in Nat /\ Cardinality(Reserved) # 0
    BY <2>4, ReservedFinite, FS_CardinalityType, FS_EmptySet
  <2>6. Cardinality(Reserved) + Len(lh) < NLog
    BY DEF ReserveInv
  <2>7. QED
    BY <2>0, <2>5, <2>6, NumFacts
<1>3. QED
  BY <1>1, <1>2

LEMMA WriteStep ==
    ASSUME IInv, NEW t \in Thread, NEW b \in Block, NEW v \in Val, WriteBlock(t, b, v)
    PROVE  IInv'
<1>1. /\ TypeInv /\ CommitInv /\ Distinct(lh) /\ Distinct(disk[LogStart]) /\ Refs
      /\ Disciplined => ReserveInv
      /\ ~MayCrash => Pins
      /\ ~MayCrash => (boot # "up" => boot = "read_head" /\ disk[LogStart] = << >>)
  BY IInvParts
<1>a. pc \in [Thread -> Pc] /\ IsFiniteSet(Ops) /\ outstanding = Cardinality(Ops)
  BY <1>1 DEF TypeInv
<1>2. /\ boot = "up" /\ pc[t] = "active" /\ Cardinality(wrote[t] \cup {b}) <= OpBlocks
      /\ wrote' = [wrote EXCEPT ![t] = @ \cup {b}]
      /\ UNCHANGED <<disk, outstanding, committing, pc, tail, boot>>
  BY DEF WriteBlock
<1>3. t \in Ops /\ Ops' = Ops
  BY <1>2 DEF Ops
<1>4. \/ /\ Len(lh) >= NLog - 1 \/ Contains(lh, b)
         /\ lh' = lh /\ Loaded(cache, b, 0, v, cache')
      \/ /\ Len(lh) < NLog - 1 /\ ~Contains(lh, b)
         /\ lh' = Append(lh, b) /\ Loaded(cache, b, 1, v, cache')
  BY <1>1, LogWriteOK DEF WriteBlock
<1>5. lh \in Seq(Block) /\ Len(lh) \in Nat /\ Len(lh) < NLog /\ DOMAIN lh = 1 .. Len(lh)
  BY <1>1 DEF TypeInv
<1>6. wrote \in [Thread -> SUBSET Block] /\ \A u \in Thread : IsFiniteSet(wrote[u])
  BY <1>1 DEF TypeInv
<1>7. /\ wrote' \in [Thread -> SUBSET Block] /\ wrote'[t] = wrote[t] \cup {b}
      /\ \A u \in Thread : u # t => wrote'[u] = wrote[u]
  BY <1>2, <1>6
<1>8. \A u \in Thread : IsFiniteSet(wrote'[u])
  <2>1. IsFiniteSet(wrote[t] \cup {b})
    BY <1>6, FS_AddElement
  <2>2. QED
    BY <1>6, <1>7, <2>1
<1>9. CacheOK(cache')
  BY <1>4 DEF Loaded
<1>10. ~committing /\ ~Installing
  <2>1. ~committing
    BY <1>1, <1>3 DEF CommitInv
  <2>2. QED
    BY <1>1, <1>2, <2>1 DEF Installing, CommitInv, Committer
<1>11. /\ lh' \in Seq(Block) /\ Len(lh') < NLog /\ Distinct(lh') /\ Len(lh') \in Nat
       /\ \A x : Contains(lh', x) => Contains(lh, x) \/ x = b
       /\ \A x : Contains(lh, x) => Contains(lh', x)
       /\ Contains(lh, b) \/ Len(lh) < NLog - 1 => Contains(lh', b)
  <2>1. CASE lh' = lh /\ (Len(lh) >= NLog - 1 \/ Contains(lh, b))
    BY <1>1, <1>5, <2>1, NumFacts
  <2>2. CASE Len(lh) < NLog - 1 /\ ~Contains(lh, b) /\ lh' = Append(lh, b)
    <3>1. /\ lh' \in Seq(Block) /\ Len(lh') = Len(lh) + 1 /\ lh'[Len(lh) + 1] = b
          /\ \A i \in 1 .. Len(lh) : lh'[i] = lh[i]
      BY <1>5, <2>2
    <3>2. \A i \in 1 .. Len(lh) : lh[i] # b
      BY <2>2 DEF Contains
    <3>3. \A i \in 1 .. Len(lh') : i \in 1 .. Len(lh) \/ i = Len(lh) + 1
      BY <1>5, <3>1
    <3>4. DOMAIN lh' = 1 .. Len(lh')
      BY <3>1
    <3>5. Distinct(lh')
      BY <1>1, <1>5, <3>1, <3>2, <3>3, <3>4 DEF Distinct
    <3>6. \A x : Contains(lh', x) => Contains(lh, x) \/ x = b
      BY <3>1, <3>3 DEF Contains
    <3>7. \A i \in 1 .. Len(lh) : i \in 1 .. Len(lh')
      BY <1>5, <3>1
    <3>8. \A x : Contains(lh, x) => Contains(lh', x)
      BY <3>1, <3>7 DEF Contains
    <3>9. Contains(lh', b)
      <4>1. Len(lh) + 1 \in 1 .. Len(lh')
        BY <1>5, <3>1
      <4>2. QED
        BY <3>1, <4>1 DEF Contains
    <3>10. QED
      BY <1>5, <2>2, <3>1, <3>5, <3>6, <3>8, <3>9, NumFacts
  <2>3. QED
    BY <1>4, <2>1, <2>2
<1>12. TypeInv'
  BY <1>1, <1>2, <1>3, <1>7, <1>8, <1>9, <1>11 DEF TypeInv
<1>13. CommitInv'
  <2>1. \A u \in Thread : ~Committer(u)
    BY <1>1, <1>10 DEF CommitInv
  <2>2. QED
    BY <1>2, <1>10, <2>1 DEF CommitInv, Committer
<1>14. \A x : Pending(x) <=> Contains(lh, x)
  BY <1>5, <1>10 DEF Pending, Contains
<1>15. \A x : Pending(x)' <=> Contains(lh', x)
  <2>1. DOMAIN lh' = 1 .. Len(lh') /\ Installing' = Installing
    BY <1>2, <1>11 DEF Installing
  <2>2. QED
    BY <1>10, <2>1 DEF Pending, Contains
<1>16. Refs' /\ (~MayCrash => Pins')
  <2>1. CASE lh' = lh /\ Loaded(cache, b, 0, v, cache')
    <3>1. \A x \in Addr : Pending(x)' => Pending(x)
      BY <1>14, <1>15, <2>1
    <3>2. b \in Addr
      BY AddrFacts
    <3>3. QED
      BY <1>1, <2>1, <3>1, <3>2, LoadedRefs
  <2>2. CASE Loaded(cache, b, 1, v, cache')
    <3>1. \A x \in Addr : Pending(x)' => Pending(x) \/ x = b
      BY <1>11, <1>14, <1>15
    <3>2. QED
      BY <1>1, <2>2, <3>1, PinnedRefs
  <2>3. QED
    BY <1>4, <2>1, <2>2
<1>17. ASSUME Disciplined PROVE ReserveInv'
  <2>1. ReserveInv
    BY <1>1, <1>17
  <2>2. IsFiniteSet(Reserved) /\ Cardinality(Reserved) \in Nat
    BY <1>1, ReservedFinite, FS_CardinalityType
  <2>3. Cardinality(Reserved) + Len(lh) < NLog
    BY <2>1 DEF ReserveInv
  <2>4. Cardinality(Reserved') + Len(lh') < NLog
    <3>1. CASE b \in wrote[t]
      <4>1. wrote'[t] = wrote[t]
        BY <1>7, <3>1
      <4>2. Reserved' = Reserved
        BY <1>3, <1>7, <4>1 DEF Reserved, Ops
      <4>3. Contains(lh, b)
        BY <1>3, <2>1, <3>1 DEF ReserveInv
      <4>4. lh' = lh
        BY <1>4, <1>5, <4>3, NumFacts
      <4>5. QED
        BY <2>3, <4>2, <4>4
    <3>2. CASE b \notin wrote[t]
      <4>1. PICK k : k = Cardinality(wrote[t])
        OBVIOUS
      <4>2. k \in Nat /\ Cardinality(wrote[t] \cup {b}) = k + 1
        BY <1>6, <3>2, <4>1, FS_AddElement, FS_CardinalityType
      <4>3. k + 1 \in 1 .. MaxOpBlocks
        BY <1>2, <1>17, <4>2, NumFacts DEF Disciplined
      <4>4. <<t, k + 1>> \in Reserved
        BY <1>3, <4>1, <4>2, <4>3 DEF Reserved
      <4>5. Reserved' = Reserved \ {<<t, k + 1>>}
        <5>1. \A x : x \in Reserved' <=> x \in Ops \X (1 .. MaxOpBlocks) /\ x[2] > Cardinality(wrote'[x[1]])
          BY <1>3 DEF Reserved
        <5>2. ASSUME NEW u \in Ops, NEW m \in 1 .. MaxOpBlocks
              PROVE  <<u, m>> \in Reserved' <=> <<u, m>> \in Reserved \ {<<t, k + 1>>}
          <6>1. CASE u = t
            <7>1. m > k + 1 <=> m > k /\ m # k + 1
              BY <4>2, NumFacts
            <7>2. Cardinality(wrote'[u]) = k + 1 /\ Cardinality(wrote[u]) = k
              BY <1>7, <4>1, <4>2, <6>1
            <7>3. QED
              BY <5>1, <6>1, <7>1, <7>2 DEF Reserved
          <6>2. CASE u # t
            <7>1. wrote'[u] = wrote[u]
              BY <1>7, <6>2 DEF Ops
            <7>2. QED
              BY <5>1, <6>2, <7>1 DEF Reserved
          <6>3. QED
            BY <6>1, <6>2
        <5>3. \A x : x \in Reserved => \E u \in Ops, m \in 1 .. MaxOpBlocks : x = <<u, m>>
          BY DEF Reserved
        <5>4. \A x : x \in Reserved' => \E u \in Ops, m \in 1 .. MaxOpBlocks : x = <<u, m>>
          BY <5>1
        <5>5. \A x : x \in Reserved' <=> x \in Reserved \ {<<t, k + 1>>}
          BY <5>2, <5>3, <5>4
        <5>6. QED
          BY <5>5
      <4>6. Cardinality(Reserved') = Cardinality(Reserved) - 1
        BY <2>2, <4>4, <4>5, FS_RemoveElement
      <4>7. Len(lh') <= Len(lh) + 1
        BY <1>4, <1>5
      <4>8. QED
        BY <1>5, <1>11, <2>2, <2>3, <4>6, <4>7, NumFacts
    <3>3. QED
      BY <3>1, <3>2
  <2>5. \A u \in Thread : u \notin Ops' => wrote'[u] = {}
    BY <1>3, <1>7, <2>1 DEF ReserveInv
  <2>6. ASSUME NEW u \in Ops', NEW x \in wrote'[u] PROVE Contains(lh', x)
    <3>1. u \in Ops /\ u \in Thread
      BY <1>3 DEF Ops
    <3>2. CASE x \in wrote[u]
      <4>1. Contains(lh, x)
        BY <2>1, <3>1, <3>2 DEF ReserveInv
      <4>2. QED
        BY <1>11, <4>1
    <3>3. CASE x \notin wrote[u]
      <4>1. u = t /\ x = b
        BY <1>7, <2>6, <3>1, <3>3
      <4>2. Contains(lh, b) \/ Len(lh) < NLog - 1
        BY <1>1, <1>2, <1>3, <1>17, <2>1, Logged
      <4>3. Contains(lh', b)
        BY <1>11, <4>2
      <4>4. QED
        BY <4>1, <4>3
    <3>4. QED
      BY <3>2, <3>3
  <2>7. QED
    BY <2>4, <2>5, <2>6 DEF ReserveInv
<1>18. QED
  BY <1>1, <1>2, <1>11, <1>12, <1>13, <1>16, <1>17, Assembled

\* Steps that leave the control alone.
LEMMA ReserveKept ==
    ASSUME UNCHANGED <<lh, pc, wrote>>, Disciplined => ReserveInv
    PROVE  Disciplined => ReserveInv'
<1>1. Ops' = Ops
  BY DEF Ops
<1>2. Reserved' = Reserved
  BY <1>1 DEF Reserved
<1>3. QED
  BY <1>1, <1>2 DEF ReserveInv

LEMMA CommitKept ==
    ASSUME UNCHANGED <<lh, pc, committing, tail, boot>>, CommitInv, boot # "read_head"
    PROVE  CommitInv'
<1>1. Ops' = Ops
  BY DEF Ops
<1>2. QED
  BY <1>1 DEF CommitInv, Committer

LEMMA PendingKept ==
    ASSUME UNCHANGED <<lh, pc, tail, boot>>
    PROVE  \A x \in Addr : Pending(x)' => Pending(x)
  BY DEF Pending, Installing

\* Writing a block of the image.
DiskOK ==
    /\ disk \in [Addr -> Val \cup Seq(Block)]
    /\ \A a \in Block \cup Slot : disk[a] \in Val
    /\ disk[LogStart] \in Seq(Block) /\ Len(disk[LogStart]) < NLog

LEMMA DiskWrite ==
    ASSUME TypeInv, NEW a \in Block \cup Slot, NEW v \in Val, disk' = [disk EXCEPT ![a] = v]
    PROVE  DiskOK' /\ disk'[LogStart] = disk[LogStart]
<1>1. a \in Addr /\ a # LogStart /\ LogStart \in Addr /\ \A x \in Block \cup Slot : x \in Addr
  BY AddrFacts
<1>2. DiskOK
  BY DEF TypeInv, DiskOK
<1>3. /\ disk' \in [Addr -> Val \cup Seq(Block)]
      /\ \A x \in Addr : disk'[x] = IF x = a THEN v ELSE disk[x]
  BY <1>1, <1>2 DEF DiskOK
<1>4. \A x \in Block \cup Slot : disk'[x] \in Val
  BY <1>1, <1>2, <1>3 DEF DiskOK
<1>5. disk'[LogStart] = disk[LogStart]
  BY <1>1, <1>3
<1>6. QED
  BY <1>2, <1>3, <1>4, <1>5 DEF DiskOK

\* write_head of the log in memory.
LEMMA HeadWrite ==
    ASSUME TypeInv, Distinct(lh), Distinct(disk[LogStart]), WriteHead(lh)
    PROVE  /\ DiskOK' /\ Distinct(disk'[LogStart]) /\ CacheOK(cache')
           /\ cache' = cache \/ Loaded(cache, LogStart, 0, lh, cache')
<1>1. DiskOK /\ CacheOK(cache) /\ lh \in Seq(Block) /\ Len(lh) < NLog
  BY DEF TypeInv, DiskOK
<1>2. CASE Available(cache, LogStart)
  <2>1. disk' = [disk EXCEPT ![LogStart] = lh]
    BY <1>2 DEF WriteHead
  <2>2. /\ disk' \in [Addr -> Val \cup Seq(Block)]
        /\ \A x \in Addr : disk'[x] = IF x = LogStart THEN lh ELSE disk[x]
    BY <1>1, <2>1, AddrFacts DEF DiskOK
  <2>3. DiskOK' /\ disk'[LogStart] = lh
    BY <1>1, <2>2, AddrFacts DEF DiskOK
  <2>4. Fits(LogStart, disk[LogStart]) /\ Fits(LogStart, lh)
    BY <1>1, AddrFacts, DiskFits DEF Fits
  <2>5. Loaded(cache, LogStart, 0, lh, cache')
    BY <1>1, <1>2, <2>4, AddrFacts, WriteOK DEF WriteHead
  <2>6. CacheOK(cache')
    BY <2>5 DEF Loaded
  <2>7. QED
    BY <2>3, <2>5, <2>6
<1>3. CASE ~Available(cache, LogStart)
  <2>1. disk' = disk /\ cache' = cache
    BY <1>3 DEF WriteHead
  <2>2. QED
    BY <1>1, <2>1 DEF DiskOK
<1>4. QED
  BY <1>2, <1>3

LEMMA HeadRefs ==
    ASSUME TypeInv, Refs, ~MayCrash => Pins, cache' = cache \/ Loaded(cache, LogStart, 0, lh, cache'),
           \A x \in Addr : Pending(x)' => Pending(x)
    PROVE  Refs' /\ (~MayCrash => Pins')
  BY UntouchedRefs, LoadedRefs, AddrFacts

LEMMA BypassStep ==
    ASSUME IInv, NEW b \in Block, NEW v \in Val, BypassLog(b, v)
    PROVE  IInv'
<1>1. /\ TypeInv /\ CommitInv /\ Distinct(lh) /\ Distinct(disk[LogStart]) /\ Refs
      /\ Disciplined => ReserveInv
      /\ ~MayCrash => Pins
      /\ ~MayCrash => (boot # "up" => boot = "read_head" /\ disk[LogStart] = << >>)
  BY IInvParts
<1>a. pc \in [Thread -> Pc] /\ IsFiniteSet(Ops) /\ outstanding = Cardinality(Ops)
  BY <1>1 DEF TypeInv
<1>2. /\ UNCHANGED <<lh, outstanding, committing, pc, tail, boot, wrote>> /\ boot = "up"
      /\ disk' = [disk EXCEPT ![b] = v] /\ Available(cache, b)
      /\ cache' = Brelse(Fill(Bread(cache, b, disk[b]), b, v), b)
  BY DEF BypassLog
<1>3. b \in Addr /\ CacheOK(cache) /\ Fits(b, disk[b]) /\ Fits(b, v)
  BY <1>1, AddrFacts, DiskFits DEF TypeInv, Fits
<1>4. Loaded(cache, b, 0, v, cache')
  BY <1>2, <1>3, WriteOK
<1>5. Refs' /\ (~MayCrash => Pins')
  BY <1>1, <1>2, <1>3, <1>4, PendingKept, LoadedRefs
<1>6. DiskOK' /\ disk'[LogStart] = disk[LogStart]
  BY <1>1, <1>2, DiskWrite
<1>7. Ops' = Ops /\ CacheOK(cache')
  BY <1>2, <1>4 DEF Ops, Loaded
<1>8. TypeInv'
  BY <1>1, <1>2, <1>6, <1>7 DEF TypeInv, DiskOK
<1>9. CommitInv'
  BY <1>1, <1>2, CommitKept
<1>10. Disciplined => ReserveInv'
  BY <1>1, <1>2, ReserveKept
<1>11. QED
  BY <1>1, <1>2, <1>5, <1>6, <1>8, <1>9, <1>10, Assembled

LEMMA ReadStep ==
    ASSUME IInv, NEW b \in Block, ReadBlock(b)
    PROVE  IInv'
<1>1. /\ TypeInv /\ CommitInv /\ Distinct(lh) /\ Distinct(disk[LogStart]) /\ Refs
      /\ Disciplined => ReserveInv
      /\ ~MayCrash => Pins
      /\ ~MayCrash => (boot # "up" => boot = "read_head" /\ disk[LogStart] = << >>)
  BY IInvParts
<1>a. pc \in [Thread -> Pc] /\ IsFiniteSet(Ops) /\ outstanding = Cardinality(Ops)
  BY <1>1 DEF TypeInv
<1>2. /\ UNCHANGED <<disk, lh, outstanding, committing, pc, tail, boot, wrote>> /\ boot = "up"
      /\ Available(cache, b) /\ cache' = Brelse(Bread(cache, b, disk[b]), b)
  BY DEF ReadBlock, Touch
<1>3. b \in Addr /\ CacheOK(cache) /\ Fits(b, disk[b])
  BY <1>1, AddrFacts, DiskFits DEF TypeInv
<1>4. Loaded(cache, b, 0, Content(cache, b, disk[b]), cache')
  BY <1>2, <1>3, TouchOK
<1>5. Refs' /\ (~MayCrash => Pins')
  BY <1>1, <1>2, <1>3, <1>4, PendingKept, LoadedRefs
<1>6. Ops' = Ops /\ CacheOK(cache')
  BY <1>2, <1>4 DEF Ops, Loaded
<1>7. TypeInv'
  BY <1>1, <1>2, <1>6 DEF TypeInv
<1>8. CommitInv'
  BY <1>1, <1>2, CommitKept
<1>9. Disciplined => ReserveInv'
  BY <1>1, <1>2, ReserveKept
<1>10. QED
  BY <1>1, <1>2, <1>5, <1>7, <1>8, <1>9, Assembled

-----------------------------------------------------------------------------
(* commit *)

\* A committing thread is alone.
LEMMA Alone ==
    ASSUME TypeInv, CommitInv, NEW t \in Thread, Committer(t)
    PROVE  /\ boot = "up" /\ committing /\ Ops = {}
           /\ \A u \in Thread : u # t => ~Committer(u)
           /\ Installing <=> pc[t] = "install"
<1>1. boot = "up" /\ committing /\ Ops = {}
  BY DEF CommitInv, Committer
<1>2. \A u \in Thread : u # t => ~Committer(u)
  BY DEF CommitInv
<1>3. QED
  BY <1>1, <1>2 DEF Installing, Committer

\* The reservations while somebody commits.
LEMMA CommitReserve ==
    ASSUME Disciplined => ReserveInv, Ops = {}, Ops' = {}, wrote' = wrote, Len(lh') \in Nat, Len(lh') < NLog
    PROVE  Disciplined => ReserveInv'
<1> SUFFICES ASSUME Disciplined PROVE ReserveInv'
  OBVIOUS
<1>1. \A t \in Thread : wrote'[t] = {}
  BY DEF ReserveInv
<1>2. QED
  BY <1>1, ReserveQuiet

\* The next step of commit.
LEMMA CommitAdvance ==
    ASSUME TypeInv, CommitInv, NEW t \in Thread, Committer(t),
           NEW s \in {"write_log", "write_head", "install", "clear_head", "release"},
           pc' = [pc EXCEPT ![t] = s], UNCHANGED <<boot, committing>>,
           s \in {"write_log", "install"} => tail' \in DOMAIN lh',
           s = "write_head" => tail' = 1 /\ lh' # << >>
    PROVE  CommitInv' /\ Ops' = {} /\ pc' \in [Thread -> Pc]
<1>1. /\ boot = "up" /\ committing /\ Ops = {}
      /\ \A u \in Thread : u # t => ~Committer(u)
  BY Alone
<1>2. pc \in [Thread -> Pc]
  BY DEF TypeInv
<1>3. pc' \in [Thread -> Pc] /\ pc'[t] = s /\ \A u \in Thread : u # t => pc'[u] = pc[u]
  BY <1>2 DEF Pc
<1>4. Ops' = {}
  BY <1>1, <1>3 DEF Ops
<1>5. \A u \in Thread : u # t => ~Committer(u)'
  BY <1>1, <1>3 DEF Committer
<1>6. \A u \in Thread : u # t => pc'[u] \notin {"write_log", "write_head", "install"}
  BY <1>5 DEF Committer
<1>7. QED
  BY <1>1, <1>3, <1>4, <1>5, <1>6 DEF CommitInv

LEMMA LogStep ==
    ASSUME IInv, NEW t \in Thread, CommitLog(t)
    PROVE  IInv'
<1>1. /\ TypeInv /\ CommitInv /\ Distinct(lh) /\ Distinct(disk[LogStart]) /\ Refs
      /\ Disciplined => ReserveInv
      /\ ~MayCrash => Pins
      /\ ~MayCrash => (boot # "up" => boot = "read_head" /\ disk[LogStart] = << >>)
  BY IInvParts
<1>a. pc \in [Thread -> Pc] /\ IsFiniteSet(Ops) /\ outstanding = Cardinality(Ops)
  BY <1>1 DEF TypeInv
<1>2. /\ UNCHANGED <<lh, outstanding, committing, boot, wrote>> /\ pc[t] = "write_log"
      /\ CopyBlock(lh[tail], tail, FALSE)
  BY DEF CommitLog, WriteLog
<1>3. /\ boot = "up" /\ committing /\ Ops = {} /\ ~Installing /\ Committer(t) /\ tail \in DOMAIN lh
      /\ \A u \in Thread : u # t => ~Committer(u)
  <2>1. Committer(t)
    BY <1>2 DEF Committer
  <2>2. QED
    BY <1>1, <1>2, <2>1, Alone DEF CommitInv
<1>4. lh \in Seq(Block) /\ Len(lh) < NLog /\ Len(lh) \in Nat /\ DOMAIN lh = 1 .. Len(lh) /\ tail \in Slot
  BY <1>1 DEF TypeInv
<1>5. lh[tail] \in Block
  BY <1>3, <1>4
<1>6. lh[tail] # tail /\ lh[tail] \in Addr /\ tail \in Addr
  BY <1>4, <1>5, AddrFacts
<1>7. PICK s \in {"write_log", "write_head"} :
         /\ pc' = [pc EXCEPT ![t] = s]
         /\ s = "write_log" => tail < Len(lh) /\ tail' = tail + 1
         /\ s = "write_head" => tail' = 1
  BY <1>2, <1>a DEF CommitLog
<1>8. tail' \in Slot /\ tail' \in DOMAIN lh
  BY <1>3, <1>4, <1>7, NumFacts
<1>9. CommitInv' /\ Ops' = {} /\ pc' \in [Thread -> Pc]
  <2>1. s \in {"write_log", "install"} => tail' \in DOMAIN lh'
    BY <1>2, <1>8
  <2>2. s = "write_head" => tail' = 1 /\ lh' # << >>
    BY <1>2, <1>4, <1>7, <1>8
  <2>3. s \in {"write_log", "write_head", "install", "clear_head", "release"}
    BY <1>7
  <2>4. QED
    BY <1>1, <1>2, <1>3, <1>7, <2>1, <2>2, <2>3, CommitAdvance
<1>10. \A x \in Addr : Pending(x)' => Pending(x)
  BY <1>2, <1>3 DEF Pending
<1>11. OldRef(cache, lh[tail]) >= 0
  <2>1. Pending(lh[tail])
    BY <1>3 DEF Pending
  <2>2. QED
    BY <1>1, <1>6, <2>1, FloorFacts
<1>12. PICK v : v = Content(cache, lh[tail], disk[lh[tail]])
  OBVIOUS
<1>13. v \in Val
  BY <1>1, <1>5, <1>12, ContentFits DEF TypeInv
<1>14. \/ NoBuffer(lh[tail], tail) /\ disk' = disk
       \/ Copied(cache, lh[tail], tail, 0, v, cache') /\ disk' = [disk EXCEPT ![tail] = v]
  BY <1>1, <1>2, <1>4, <1>5, <1>6, <1>11, <1>12, CopyBlockOK
<1>15. DiskOK' /\ disk'[LogStart] = disk[LogStart] /\ CacheOK(cache') /\ Refs' /\ (~MayCrash => Pins')
  <2>1. CASE NoBuffer(lh[tail], tail) /\ disk' = disk
    <3>1. DiskOK' /\ disk'[LogStart] = disk[LogStart]
      BY <1>1, <2>1 DEF TypeInv, DiskOK
    <3>2. QED
      BY <1>1, <1>6, <1>10, <2>1, <3>1, NoBufferRefs
  <2>2. CASE Copied(cache, lh[tail], tail, 0, v, cache') /\ disk' = [disk EXCEPT ![tail] = v]
    <3>1. DiskOK' /\ disk'[LogStart] = disk[LogStart]
      BY <1>1, <1>4, <1>13, <2>2, DiskWrite
    <3>2. CacheOK(cache')
      BY <2>2 DEF Copied
    <3>3. QED
      BY <1>1, <1>6, <1>10, <2>2, <3>1, <3>2, CopiedRefs
  <2>3. QED
    BY <1>14, <2>1, <2>2
<1>16. TypeInv'
  BY <1>1, <1>2, <1>3, <1>8, <1>9, <1>15 DEF TypeInv, DiskOK
<1>17. Disciplined => ReserveInv'
  BY <1>1, <1>2, <1>3, <1>4, <1>9, CommitReserve
<1>18. QED
  BY <1>1, <1>2, <1>3, <1>9, <1>15, <1>16, <1>17, Assembled

LEMMA HeadStep ==
    ASSUME IInv, NEW t \in Thread, CommitHead(t)
    PROVE  IInv'
<1>1. /\ TypeInv /\ CommitInv /\ Distinct(lh) /\ Distinct(disk[LogStart]) /\ Refs
      /\ Disciplined => ReserveInv
      /\ ~MayCrash => Pins
      /\ ~MayCrash => (boot # "up" => boot = "read_head" /\ disk[LogStart] = << >>)
  BY IInvParts
<1>a. pc \in [Thread -> Pc] /\ IsFiniteSet(Ops) /\ outstanding = Cardinality(Ops)
  BY <1>1 DEF TypeInv
<1>2. /\ UNCHANGED <<lh, outstanding, committing, tail, boot, wrote>> /\ pc[t] = "write_head"
      /\ WriteHead(lh) /\ pc' = [pc EXCEPT ![t] = "install"]
  BY DEF CommitHead
<1>3. boot = "up" /\ committing /\ Ops = {} /\ ~Installing /\ Committer(t) /\ tail = 1 /\ lh # << >>
  <2>1. Committer(t)
    BY <1>2 DEF Committer
  <2>2. QED
    BY <1>1, <1>2, <2>1, Alone DEF CommitInv
<1>4. lh \in Seq(Block) /\ Len(lh) < NLog /\ Len(lh) \in Nat /\ DOMAIN lh = 1 .. Len(lh)
  BY <1>1 DEF TypeInv
<1>5. tail' \in DOMAIN lh'
  BY <1>2, <1>3, <1>4
<1>6. CommitInv' /\ Ops' = {} /\ pc' \in [Thread -> Pc]
  BY <1>1, <1>2, <1>3, <1>5, CommitAdvance
<1>7. \A x \in Addr : Pending(x)' => Pending(x)
  BY <1>2, <1>3 DEF Pending
<1>8. /\ DiskOK' /\ Distinct(disk'[LogStart]) /\ CacheOK(cache')
      /\ cache' = cache \/ Loaded(cache, LogStart, 0, lh, cache')
  BY <1>1, <1>2, HeadWrite
<1>9. Refs' /\ (~MayCrash => Pins')
  BY <1>1, <1>7, <1>8, HeadRefs
<1>10. TypeInv'
  BY <1>1, <1>2, <1>3, <1>6, <1>8 DEF TypeInv, DiskOK
<1>11. Disciplined => ReserveInv'
  BY <1>1, <1>2, <1>3, <1>4, <1>6, CommitReserve
<1>12. QED
  BY <1>1, <1>2, <1>3, <1>6, <1>8, <1>9, <1>10, <1>11, Assembled

LEMMA ClearStep ==
    ASSUME IInv, NEW t \in Thread, CommitClear(t)
    PROVE  IInv'
<1>1. /\ TypeInv /\ CommitInv /\ Distinct(lh) /\ Distinct(disk[LogStart]) /\ Refs
      /\ Disciplined => ReserveInv
      /\ ~MayCrash => Pins
      /\ ~MayCrash => (boot # "up" => boot = "read_head" /\ disk[LogStart] = << >>)
  BY IInvParts
<1>a. pc \in [Thread -> Pc] /\ IsFiniteSet(Ops) /\ outstanding = Cardinality(Ops)
  BY <1>1 DEF TypeInv
<1>2. /\ UNCHANGED <<lh, outstanding, committing, tail, boot, wrote>> /\ pc[t] = "clear_head"
      /\ WriteHead(lh) /\ pc' = [pc EXCEPT ![t] = "release"]
  BY DEF CommitClear
<1>3. boot = "up" /\ committing /\ Ops = {} /\ ~Installing /\ Committer(t)
  <2>1. Committer(t)
    BY <1>2 DEF Committer
  <2>2. QED
    BY <1>1, <1>2, <2>1, Alone
<1>4. Len(lh) < NLog /\ Len(lh) \in Nat
  BY <1>1 DEF TypeInv
<1>5. CommitInv' /\ Ops' = {} /\ pc' \in [Thread -> Pc]
  BY <1>1, <1>2, <1>3, CommitAdvance
<1>6. \A x \in Addr : Pending(x)' => Pending(x)
  BY <1>2, <1>3 DEF Pending
<1>7. /\ DiskOK' /\ Distinct(disk'[LogStart]) /\ CacheOK(cache')
      /\ cache' = cache \/ Loaded(cache, LogStart, 0, lh, cache')
  BY <1>1, <1>2, HeadWrite
<1>8. Refs' /\ (~MayCrash => Pins')
  BY <1>1, <1>6, <1>7, HeadRefs
<1>9. TypeInv'
  BY <1>1, <1>2, <1>3, <1>5, <1>7 DEF TypeInv, DiskOK
<1>10. Disciplined => ReserveInv'
  BY <1>1, <1>2, <1>3, <1>4, <1>5, CommitReserve
<1>11. QED
  BY <1>1, <1>2, <1>3, <1>5, <1>7, <1>8, <1>9, <1>10, Assembled

\* One iteration of install_trans, in a commit or in a recovery: the block it
\* unpins is no longer in the log, or behind the loop.
LEMMA InstallOne ==
    ASSUME TypeInv, Distinct(lh), Refs, ~MayCrash => Pins, Installing, tail \in DOMAIN lh, InstallTrans(tail),
           lh' = << >> \/ (lh' = lh /\ tail' = tail + 1 /\ Installing')
    PROVE  DiskOK' /\ disk'[LogStart] = disk[LogStart] /\ CacheOK(cache') /\ Refs' /\ (~MayCrash => Pins')
<1>0. PICK b : b = lh[tail]
  OBVIOUS
<1>i. PICK i : i = tail
  OBVIOUS
<1>1. /\ lh \in Seq(Block) /\ Len(lh) \in Nat /\ DOMAIN lh = 1 .. Len(lh)
      /\ i \in Slot /\ i \in DOMAIN lh /\ lh[i] = b
  BY <1>0, <1>i DEF TypeInv
<1>2. b \in Block
  BY <1>1
<1>3. b # i /\ b \in Addr /\ i \in Addr /\ i \notin Block /\ i \in Nat
  BY <1>1, <1>2, AddrFacts, NumFacts
<1>4. Pending(b)
  BY <1>1, <1>3, <1>i DEF Pending
<1>5. (\A x \in Addr : Pending(x)' => Pending(x)) /\ ~Pending(b)'
  <2>1. CASE lh' = << >>
    <3>1. DOMAIN lh' = {}
      BY <2>1
    <3>2. ASSUME NEW x PROVE ~Pending(x)'
      BY <3>1 DEF Pending
    <3>3. QED
      BY <3>2
  <2>2. CASE lh' = lh /\ tail' = tail + 1 /\ Installing'
    <3>1. \A j \in DOMAIN lh : i + 1 <= j => i <= j /\ j # i
      BY <1>1, <1>3
    <3>2. \A x \in Addr : Pending(x)' => Pending(x)
      BY <1>i, <2>2, <3>1 DEF Pending
    <3>3. ~Pending(b)'
      BY <1>1, <1>i, <2>2, <3>1 DEF Pending, Distinct
    <3>4. QED
      BY <3>2, <3>3
  <2>3. QED
    BY <2>1, <2>2
<1>6. OldRef(cache, i) >= 0
  BY <1>3, FloorFacts
<1>7. PICK v : v = Content(cache, i, disk[i])
  OBVIOUS
<1>8. v \in Val
  BY <1>1, <1>7, ContentFits DEF TypeInv
<1>9. \/ NoBuffer(i, b) /\ disk' = disk
      \/ Copied(cache, i, b, -1, v, cache') /\ disk' = [disk EXCEPT ![b] = v]
  <2>1. CopyBlock(i, b, TRUE)
    BY <1>0, <1>i DEF InstallTrans
  <2>2. QED
    BY <1>1, <1>2, <1>3, <1>6, <1>7, <2>1, CopyBlockOK
<1>10. CASE NoBuffer(i, b) /\ disk' = disk
  <2>1. DiskOK' /\ disk'[LogStart] = disk[LogStart]
    BY <1>10 DEF TypeInv, DiskOK
  <2>2. QED
    BY <1>3, <1>5, <1>10, <2>1, NoBufferRefs
<1>11. CASE Copied(cache, i, b, -1, v, cache') /\ disk' = [disk EXCEPT ![b] = v]
  <2>1. DiskOK' /\ disk'[LogStart] = disk[LogStart]
    BY <1>2, <1>8, <1>11, DiskWrite
  <2>2. CacheOK(cache')
    BY <1>11 DEF Copied
  <2>3. QED
    BY <1>3, <1>4, <1>5, <1>11, <2>1, <2>2, CopiedRefs
<1>12. QED
  BY <1>9, <1>10, <1>11

LEMMA InstallStep ==
    ASSUME IInv, NEW t \in Thread, CommitInstall(t)
    PROVE  IInv'
<1>1. /\ TypeInv /\ CommitInv /\ Distinct(lh) /\ Distinct(disk[LogStart]) /\ Refs
      /\ Disciplined => ReserveInv
      /\ ~MayCrash => Pins
      /\ ~MayCrash => (boot # "up" => boot = "read_head" /\ disk[LogStart] = << >>)
  BY IInvParts
<1>a. pc \in [Thread -> Pc] /\ IsFiniteSet(Ops) /\ outstanding = Cardinality(Ops)
  BY <1>1 DEF TypeInv
<1>2. UNCHANGED <<outstanding, committing, boot, wrote>> /\ pc[t] = "install" /\ InstallTrans(tail)
  BY DEF CommitInstall
<1>3. boot = "up" /\ committing /\ Ops = {} /\ Installing /\ Committer(t) /\ tail \in DOMAIN lh
  <2>1. Committer(t)
    BY <1>2 DEF Committer
  <2>2. QED
    BY <1>1, <1>2, <2>1, Alone DEF CommitInv
<1>4. lh \in Seq(Block) /\ Len(lh) < NLog /\ Len(lh) \in Nat /\ DOMAIN lh = 1 .. Len(lh) /\ tail \in Slot
  BY <1>1 DEF TypeInv
<1>5. \/ lh' = lh /\ tail' = tail + 1 /\ tail < Len(lh) /\ pc' = [pc EXCEPT ![t] = "install"]
      \/ lh' = << >> /\ tail' = 1 /\ pc' = [pc EXCEPT ![t] = "clear_head"]
  BY <1>2, <1>a DEF CommitInstall
<1>6. PICK s \in {"install", "clear_head"} :
         /\ pc' = [pc EXCEPT ![t] = s]
         /\ s = "install" => lh' = lh /\ tail' = tail + 1 /\ tail' \in DOMAIN lh'
  BY <1>3, <1>4, <1>5
<1>7. CommitInv' /\ Ops' = {} /\ pc' \in [Thread -> Pc]
  <2>1. s \in {"write_log", "install"} => tail' \in DOMAIN lh'
    BY <1>6
  <2>2. s = "write_head" => tail' = 1 /\ lh' # << >>
    BY <1>6
  <2>3. s \in {"write_log", "write_head", "install", "clear_head", "release"}
    BY <1>6
  <2>4. QED
    BY <1>1, <1>2, <1>3, <1>6, <2>1, <2>2, <2>3, CommitAdvance
<1>8. lh' = << >> \/ (lh' = lh /\ tail' = tail + 1 /\ Installing')
  <2>1. ASSUME pc' = [pc EXCEPT ![t] = "install"] PROVE Installing'
    BY <1>a, <2>1 DEF Installing
  <2>2. QED
    BY <1>5, <2>1
<1>9. DiskOK' /\ disk'[LogStart] = disk[LogStart] /\ CacheOK(cache') /\ Refs' /\ (~MayCrash => Pins')
  BY <1>1, <1>2, <1>3, <1>8, InstallOne
<1>10. lh' \in Seq(Block) /\ Len(lh') < NLog /\ Len(lh') \in Nat /\ Distinct(lh') /\ tail' \in Slot
  <2>1. CASE lh' = << >> /\ tail' = 1
    BY <2>1, NumFacts DEF Distinct
  <2>2. CASE lh' = lh /\ tail' = tail + 1 /\ tail < Len(lh)
    BY <1>1, <1>4, <2>2, NumFacts
  <2>3. QED
    BY <1>5, <2>1, <2>2
<1>11. TypeInv'
  BY <1>1, <1>2, <1>3, <1>7, <1>9, <1>10 DEF TypeInv, DiskOK
<1>12. Disciplined => ReserveInv'
  BY <1>1, <1>2, <1>3, <1>7, <1>10, CommitReserve
<1>13. QED
  BY <1>1, <1>2, <1>3, <1>7, <1>9, <1>10, <1>11, <1>12, Assembled

-----------------------------------------------------------------------------
(* Crash and recovery. *)

\* Nobody is inside the log.
LEMMA AllIdle ==
    ASSUME \A t \in Thread : pc'[t] = "idle"
    PROVE  Ops' = {} /\ \A t \in Thread : ~Committer(t)'
  BY DEF Ops, Committer

LEMMA CrashStep ==
    ASSUME IInv, Crash
    PROVE  IInv'
<1>1. /\ TypeInv /\ CommitInv /\ Distinct(lh) /\ Distinct(disk[LogStart]) /\ Refs
      /\ Disciplined => ReserveInv
      /\ ~MayCrash => Pins
      /\ ~MayCrash => (boot # "up" => boot = "read_head" /\ disk[LogStart] = << >>)
  BY IInvParts
<1>a. pc \in [Thread -> Pc] /\ IsFiniteSet(Ops) /\ outstanding = Cardinality(Ops)
  BY <1>1 DEF TypeInv
<1>2. /\ MayCrash /\ disk' = disk /\ lh' = << >> /\ outstanding' = 0 /\ committing' = FALSE /\ tail' = 1
      /\ boot' = "read_head" /\ cache' = EmptyCache(NBuf, Block0)
      /\ pc' \in [Thread -> Pc] /\ \A t \in Thread : pc'[t] = "idle"
      /\ wrote' \in [Thread -> SUBSET Block] /\ \A t \in Thread : wrote'[t] = {}
  BY DEF Crash, Pc
<1>3. Ops' = {} /\ \A t \in Thread : ~Committer(t)'
  BY <1>2, AllIdle
<1>4. IsFiniteSet(Ops') /\ Cardinality(Ops') = 0 /\ \A t \in Thread : IsFiniteSet(wrote'[t])
  BY <1>2, <1>3, FS_EmptySet
<1>5. CacheOK(cache') /\ \A a \in Addr : ~Cached(cache', a)
  BY <1>2, EmptyOK
<1>6. lh' \in Seq(Block) /\ Len(lh') = 0 /\ Distinct(lh')
  BY <1>2 DEF Distinct
<1>7. TypeInv'
  <2>1. DiskOK'
    BY <1>1, <1>2 DEF TypeInv, DiskOK
  <2>2. tail' \in Slot /\ Len(lh') < NLog
    BY <1>2, <1>6, NumFacts
  <2>3. committing' \in BOOLEAN /\ boot' \in {"read_head", "install", "clear_head", "up"}
    BY <1>2
  <2>4. IsFiniteSet(Ops') /\ outstanding' = Cardinality(Ops')
    BY <1>2, <1>4
  <2>5. QED
    BY <1>2, <1>4, <1>5, <1>6, <2>1, <2>2, <2>3, <2>4 DEF TypeInv, DiskOK
<1>8. CommitInv'
  BY <1>2, <1>3 DEF CommitInv
<1>9. Refs'
  BY <1>5 DEF Refs
<1>10. ReserveInv'
  BY <1>2, <1>3, <1>6, NumFacts, ReserveQuiet
<1>11. QED
  BY <1>1, <1>2, <1>6, <1>7, <1>8, <1>9, <1>10, Assembled

LEMMA BootFacts ==
    ASSUME TypeInv, CommitInv, boot # "up"
    PROVE  /\ \A t \in Thread : pc[t] = "idle" /\ ~Committer(t)
           /\ ~committing /\ Ops = {}
  BY DEF CommitInv, Committer, Ops

LEMMA RecoverHeadStep ==
    ASSUME IInv, RecoverHead
    PROVE  IInv'
<1>1. /\ TypeInv /\ CommitInv /\ Distinct(lh) /\ Distinct(disk[LogStart]) /\ Refs
      /\ Disciplined => ReserveInv
      /\ ~MayCrash => Pins
      /\ ~MayCrash => (boot # "up" => boot = "read_head" /\ disk[LogStart] = << >>)
  BY IInvParts
<1>a. pc \in [Thread -> Pc] /\ IsFiniteSet(Ops) /\ outstanding = Cardinality(Ops)
  BY <1>1 DEF TypeInv
<1>2. /\ UNCHANGED <<disk, outstanding, committing, pc, tail, wrote>> /\ boot = "read_head" /\ lh' = disk[LogStart]
      /\ cache' = Brelse(Bread(cache, LogStart, disk[LogStart]), LogStart)
      /\ boot' = IF lh' = << >> THEN "up" ELSE "install"
  BY DEF RecoverHead, Touch
<1>3. /\ \A t \in Thread : pc[t] = "idle" /\ ~Committer(t)
      /\ ~committing /\ Ops = {} /\ tail = 1 /\ cache = EmptyCache(NBuf, Block0)
  BY <1>1, <1>2, BootFacts DEF CommitInv
<1>4. disk[LogStart] \in Seq(Block) /\ Len(disk[LogStart]) < NLog /\ Len(disk[LogStart]) \in Nat
  BY <1>1 DEF TypeInv
<1>5. CacheOK(cache) /\ (\A a \in Addr : ~Cached(cache, a)) /\ Available(cache, LogStart)
  BY <1>3, EmptyOK
<1>6. Fits(LogStart, disk[LogStart])
  BY <1>1, AddrFacts, DiskFits
<1>7. Loaded(cache, LogStart, 0, Content(cache, LogStart, disk[LogStart]), cache')
  BY <1>2, <1>5, <1>6, AddrFacts, TouchOK
<1>8. /\ CacheOK(cache') /\ Ref(cache', LogStart) = 0
      /\ \A x \in Addr : x # LogStart => ~Cached(cache', x)
  BY <1>5, <1>7, AddrFacts DEF Loaded, Others, Same, Evicted, OldRef
<1>9. \A t \in Thread : ~Committer(t)' /\ pc'[t] = "idle"
  BY <1>2, <1>3 DEF Committer
<1>10. Ops' = {}
  BY <1>2, <1>3 DEF Ops
<1>11. TypeInv'
  BY <1>1, <1>2, <1>3, <1>4, <1>8, <1>10 DEF TypeInv
<1>12. CommitInv'
  <2>1. boot' = "install" => tail' \in DOMAIN lh'
    BY <1>2, <1>3, <1>4
  <2>2. QED
    BY <1>2, <1>3, <1>9, <1>10, <2>1 DEF CommitInv
<1>13. Refs'
  <2>1. \A x \in Addr : Pending(x)' => x \in Block
    BY <1>11, PendingBlockNext
  <2>2. Floor(LogStart)' = 0
    <3>1. ~Pending(LogStart)'
      BY <2>1, AddrFacts
    <3>2. QED
      BY <3>1, AddrFacts DEF Floor
  <2>3. ASSUME NEW x \in Addr, Cached(cache', x) PROVE Ref(cache', x) >= Floor(x)'
    <3>1. x = LogStart
      BY <1>8, <2>3
    <3>2. QED
      BY <1>8, <2>2, <3>1
  <2>4. QED
    BY <2>3 DEF Refs
<1>14. ~MayCrash => Pins'
  <2> SUFFICES ASSUME ~MayCrash PROVE Pins'
    OBVIOUS
  <2>1. lh' = << >>
    BY <1>1, <1>2
  <2>2. DOMAIN lh' = {}
    BY <2>1
  <2>3. QED
    BY <2>2 DEF Pins, Pending
<1>15. Disciplined => ReserveInv'
  BY <1>1, <1>2, <1>3, <1>4, <1>10, CommitReserve
<1>16. ~MayCrash => boot' = "up"
  BY <1>1, <1>2
<1>17. QED
  BY <1>1, <1>2, <1>11, <1>12, <1>13, <1>14, <1>15, <1>16, Assembled

LEMMA RecoverInstallStep ==
    ASSUME IInv, RecoverInstall
    PROVE  IInv'
<1>1. /\ TypeInv /\ CommitInv /\ Distinct(lh) /\ Distinct(disk[LogStart]) /\ Refs
      /\ Disciplined => ReserveInv
      /\ ~MayCrash => Pins
      /\ ~MayCrash => (boot # "up" => boot = "read_head" /\ disk[LogStart] = << >>)
  BY IInvParts
<1>a. pc \in [Thread -> Pc] /\ IsFiniteSet(Ops) /\ outstanding = Cardinality(Ops)
  BY <1>1 DEF TypeInv
<1>2. UNCHANGED <<outstanding, committing, pc, wrote>> /\ boot = "install" /\ InstallTrans(tail)
  BY DEF RecoverInstall
<1>3. /\ \A t \in Thread : pc[t] = "idle" /\ ~Committer(t)
      /\ ~committing /\ Ops = {} /\ tail \in DOMAIN lh /\ Installing
  BY <1>1, <1>2, BootFacts DEF CommitInv, Installing
<1>4. lh \in Seq(Block) /\ Len(lh) < NLog /\ Len(lh) \in Nat /\ DOMAIN lh = 1 .. Len(lh) /\ tail \in Slot
  BY <1>1 DEF TypeInv
<1>5. \/ lh' = lh /\ tail' = tail + 1 /\ tail < Len(lh) /\ boot' = "install"
      \/ lh' = << >> /\ tail' = 1 /\ boot' = "clear_head"
  BY <1>2 DEF RecoverInstall
<1>6. lh' = << >> \/ (lh' = lh /\ tail' = tail + 1 /\ Installing')
  BY <1>5 DEF Installing
<1>7. DiskOK' /\ disk'[LogStart] = disk[LogStart] /\ CacheOK(cache') /\ Refs' /\ (~MayCrash => Pins')
  BY <1>1, <1>2, <1>3, <1>6, InstallOne
<1>8. lh' \in Seq(Block) /\ Len(lh') < NLog /\ Len(lh') \in Nat /\ Distinct(lh') /\ tail' \in Slot
  <2>1. CASE lh' = << >> /\ tail' = 1
    BY <2>1, NumFacts DEF Distinct
  <2>2. CASE lh' = lh /\ tail' = tail + 1 /\ tail < Len(lh)
    BY <1>1, <1>4, <2>2, NumFacts
  <2>3. QED
    BY <1>5, <2>1, <2>2
<1>9. \A t \in Thread : ~Committer(t)' /\ pc'[t] = "idle"
  BY <1>2, <1>3 DEF Committer
<1>10. Ops' = {}
  BY <1>2, <1>3 DEF Ops
<1>11. boot' \in {"install", "clear_head"} /\ (boot' = "install" => tail' \in DOMAIN lh')
  BY <1>3, <1>4, <1>5
<1>12. TypeInv'
  BY <1>1, <1>2, <1>3, <1>7, <1>8, <1>10, <1>11 DEF TypeInv, DiskOK
<1>13. CommitInv'
  BY <1>2, <1>3, <1>9, <1>10, <1>11 DEF CommitInv
<1>14. Disciplined => ReserveInv'
  BY <1>1, <1>2, <1>3, <1>8, <1>10, CommitReserve
<1>15. MayCrash
  BY <1>1, <1>2
<1>16. QED
  BY <1>1, <1>7, <1>8, <1>12, <1>13, <1>14, <1>15, Assembled

LEMMA RecoverClearStep ==
    ASSUME IInv, RecoverClear
    PROVE  IInv'
<1>1. /\ TypeInv /\ CommitInv /\ Distinct(lh) /\ Distinct(disk[LogStart]) /\ Refs
      /\ Disciplined => ReserveInv
      /\ ~MayCrash => Pins
      /\ ~MayCrash => (boot # "up" => boot = "read_head" /\ disk[LogStart] = << >>)
  BY IInvParts
<1>a. pc \in [Thread -> Pc] /\ IsFiniteSet(Ops) /\ outstanding = Cardinality(Ops)
  BY <1>1 DEF TypeInv
<1>2. /\ UNCHANGED <<lh, outstanding, committing, pc, tail, wrote>> /\ boot = "clear_head" /\ boot' = "up"
      /\ WriteHead(lh)
  BY DEF RecoverClear
<1>3. /\ \A t \in Thread : pc[t] = "idle" /\ ~Committer(t)
      /\ ~committing /\ Ops = {}
  BY <1>1, <1>2, BootFacts
<1>4. ~Installing
  BY <1>2, <1>3 DEF Installing
<1>5. \A x \in Addr : Pending(x)' => Pending(x)
  BY <1>2, <1>4 DEF Pending
<1>6. /\ DiskOK' /\ Distinct(disk'[LogStart]) /\ CacheOK(cache')
      /\ cache' = cache \/ Loaded(cache, LogStart, 0, lh, cache')
  BY <1>1, <1>2, HeadWrite
<1>7. Refs' /\ (~MayCrash => Pins')
  BY <1>1, <1>5, <1>6, HeadRefs
<1>8. \A t \in Thread : ~Committer(t)' /\ pc'[t] = "idle"
  BY <1>2, <1>3 DEF Committer
<1>9. Ops' = {}
  BY <1>2, <1>3 DEF Ops
<1>10. TypeInv'
  BY <1>1, <1>2, <1>3, <1>6, <1>9 DEF TypeInv, DiskOK
<1>11. CommitInv'
  BY <1>2, <1>3, <1>8, <1>9 DEF CommitInv
<1>12. Disciplined => ReserveInv'
  BY <1>1, <1>2, ReserveKept
<1>13. QED
  BY <1>1, <1>2, <1>6, <1>7, <1>10, <1>11, <1>12, Assembled

-----------------------------------------------------------------------------
(* The invariant. *)

LEMMA InitIInv == Init => IInv
<1> SUFFICES ASSUME Init PROVE IInv
  OBVIOUS
<1>1. /\ lh = << >> /\ outstanding = 0 /\ committing = FALSE /\ tail = 1
      /\ boot = "read_head" /\ cache = EmptyCache(NBuf, Block0)
      /\ pc \in [Thread -> Pc] /\ \A t \in Thread : pc[t] = "idle"
      /\ wrote \in [Thread -> SUBSET Block] /\ \A t \in Thread : wrote[t] = {}
  BY DEF Init, Pc
<1>2. PICK v \in Val : disk = [a \in Addr |-> IF a = LogStart THEN << >> ELSE v]
  BY DEF Init
<1>3. DiskOK /\ disk[LogStart] = << >>
  <2>1. << >> \in Seq(Block) /\ Len(<< >>) < NLog
    BY NumFacts
  <2>2. \A a \in Addr : disk[a] = IF a = LogStart THEN << >> ELSE v
    BY <1>2
  <2>3. disk \in [Addr -> Val \cup Seq(Block)]
    BY <1>2, <2>1
  <2>4. QED
    BY <2>1, <2>2, <2>3, AddrFacts DEF DiskOK
<1>4. Ops = {} /\ \A t \in Thread : ~Committer(t)
  BY <1>1 DEF Ops, Committer
<1>5. IsFiniteSet(Ops) /\ Cardinality(Ops) = 0 /\ \A t \in Thread : IsFiniteSet(wrote[t])
  BY <1>1, <1>4, FS_EmptySet
<1>6. CacheOK(cache) /\ \A a \in Addr : ~Cached(cache, a)
  BY <1>1, EmptyOK
<1>7. lh \in Seq(Block) /\ Len(lh) = 0 /\ DOMAIN lh = {} /\ Distinct(lh) /\ Distinct(disk[LogStart])
  BY <1>1, <1>3 DEF Distinct
<1>8. TypeInv
  <2>1. tail \in Slot /\ Len(lh) < NLog
    BY <1>1, <1>7, NumFacts
  <2>2. committing \in BOOLEAN /\ boot \in {"read_head", "install", "clear_head", "up"}
    BY <1>1
  <2>3. outstanding = Cardinality(Ops)
    BY <1>1, <1>5
  <2>4. QED
    BY <1>1, <1>3, <1>5, <1>6, <1>7, <2>1, <2>2, <2>3 DEF TypeInv, DiskOK
<1>9. CommitInv
  BY <1>1, <1>4 DEF CommitInv
<1>10. Refs
  BY <1>6 DEF Refs
<1>11. Pins
  BY <1>7 DEF Pins, Pending
<1>12. ReserveInv
  <2>1. Reserved = {}
    BY <1>4 DEF Reserved
  <2>2. Cardinality(Reserved) + Len(lh) < NLog
    BY <1>7, <2>1, FS_EmptySet, NumFacts
  <2>3. QED
    BY <1>1, <1>4, <2>2 DEF ReserveInv
<1>13. QED
  BY <1>1, <1>3, <1>7, <1>8, <1>9, <1>10, <1>11, <1>12 DEF IInv, RefInv, PinInv

LEMMA StutterStep ==
    ASSUME IInv, UNCHANGED vars
    PROVE  IInv'
<1>1. UNCHANGED <<disk, cache, lh, outstanding, committing, pc, tail, boot, wrote>>
  BY DEF vars
<1>2. Ops' = Ops
  BY <1>1 DEF Ops
<1>3. TypeInv'
  BY <1>1, <1>2 DEF IInv, TypeInv
<1>4. CommitInv'
  BY <1>1, <1>2 DEF IInv, CommitInv, Committer
<1>5. Refs' /\ (~MayCrash => Pins')
  BY <1>1, IInvParts, PendingKept, UntouchedRefs
<1>6. Disciplined => ReserveInv'
  BY <1>1, ReserveKept DEF IInv
<1>7. QED
  BY <1>1, <1>3, <1>4, <1>5, <1>6, IInvParts, Assembled

LEMMA NextIInv == IInv /\ [Next]_vars => IInv'
<1> SUFFICES ASSUME IInv, [Next]_vars PROVE IInv'
  OBVIOUS
<1>1. ASSUME NEW t \in Thread, Step(t) PROVE IInv'
  BY <1>1, BeginStep, EndStep, LogStep, HeadStep, InstallStep, ClearStep, ReleaseStep DEF Step
<1>2. ASSUME NEW t \in Thread, BeginOp(t) PROVE IInv'
  BY <1>2, BeginStep
<1>3. ASSUME NEW t \in Thread, NEW b \in Block, NEW v \in Val, WriteBlock(t, b, v) PROVE IInv'
  BY <1>3, WriteStep
<1>4. ASSUME NEW b \in Block, NEW v \in Val, BypassLog(b, v) PROVE IInv'
  BY <1>4, BypassStep
<1>5. ASSUME NEW b \in Block, ReadBlock(b) PROVE IInv'
  BY <1>5, ReadStep
<1>6. CASE Crash
  BY <1>6, CrashStep
<1>7. CASE RecoverHead
  BY <1>7, RecoverHeadStep
<1>8. CASE RecoverInstall
  BY <1>8, RecoverInstallStep
<1>9. CASE RecoverClear
  BY <1>9, RecoverClearStep
<1>10. CASE UNCHANGED vars
  BY <1>10, StutterStep
<1>11. QED
  BY <1>1, <1>2, <1>3, <1>4, <1>5, <1>6, <1>7, <1>8, <1>9, <1>10 DEF Next

LEMMA Invariant == Spec => []IInv
  BY InitIInv, NextIInv, PTL DEF Spec

-----------------------------------------------------------------------------
(* The theorems. *)

LEMMA IInvType == IInv => TypeOK
<1> SUFFICES ASSUME IInv PROVE TypeOK
  OBVIOUS
<1>1. TypeInv
  BY DEF IInv
<1>2. disk \in [Addr -> Val \cup Seq(Block)] /\ (\A a \in Block \cup Slot : disk[a] \in Val) /\ disk[LogStart] \in Seq(Block)
  BY <1>1 DEF TypeInv
<1>3. \A a \in Addr \ {LogStart} : a \in Block \cup Slot
  BY DEF Addr
<1>4. \A i \in DOMAIN disk[LogStart] : disk[LogStart][i] \in Block
  BY <1>2
<1>5. cache \in Seq(Buffer) /\ Len(cache) = NBuf /\ DOMAIN cache = 1 .. NBuf
  BY <1>1, NumFacts DEF TypeInv, CacheOK
<1>6. \A i \in 1 .. NBuf : cache[i] \in Buffer
  BY <1>5
<1>7. \A i \in 1 .. NBuf : cache[i].blockno \in Addr \cup {Block0}
  BY <1>6 DEF Buffer
<1>8. \A i \in DOMAIN lh : lh[i] \in Block
  BY <1>1 DEF TypeInv
<1>9. outstanding = Cardinality({t \in Thread : pc[t] = "active"})
  BY <1>1 DEF TypeInv, Ops
<1>10. QED
  BY <1>1, <1>2, <1>3, <1>4, <1>5, <1>7, <1>8, <1>9 DEF TypeInv, TypeOK

\* Type correctness of the log and the cache (log.c, buf.c), for any number of
\* threads, blocks and buffers, with crashes and with writes outside an operation.
\* Most of it: the log in memory and the header on disk never name more blocks than
\* there are log blocks, the loops of write_log and install_trans stay inside
\* the log, and outstanding counts the operations.  That the cache keeps its NBUF
\* buffers rests on the references: a buffer that a loop holds is never recycled by its
\* second bread, although a recovery leaves the blocks it installed one reference short.
THEOREM TypeCorrect == Spec => []TypeOK
  BY Invariant, IInvType, PTL

LEMMA IInvReserve == Disciplined => (IInv => ReservationHolds)
<1> SUFFICES ASSUME Disciplined, IInv, NEW t \in Thread, pc[t] = "active",
                    Cardinality(wrote[t]) < MaxOpBlocks
             PROVE  Len(lh) < NLog - 1
  BY DEF ReservationHolds
<1>1. TypeInv /\ ReserveInv
  BY DEF IInv
<1>2. t \in Ops /\ IsFiniteSet(wrote[t]) /\ Len(lh) \in Nat
  BY <1>1 DEF Ops, TypeInv
<1>3. PICK k : k = Cardinality(wrote[t])
  OBVIOUS
<1>4. k \in Nat /\ k + 1 \in 1 .. MaxOpBlocks
  BY <1>2, <1>3, NumFacts, FS_CardinalityType
<1>5. <<t, k + 1>> \in Reserved
  BY <1>2, <1>3, <1>4 DEF Reserved
<1>6. IsFiniteSet(Reserved) /\ Cardinality(Reserved) \in Nat /\ Cardinality(Reserved) # 0
  BY <1>1, <1>5, ReservedFinite, FS_CardinalityType, FS_EmptySet
<1>7. Cardinality(Reserved) + Len(lh) < NLog
  BY <1>1 DEF ReserveInv
<1>8. QED
  BY <1>2, <1>6, <1>7, NumFacts

\* begin_op's reservation (log.c): when every operation keeps to MAXOPBLOCKS, none
\* of them finds the log full while it may still write, however many run at once
\* and whatever crashes come between.
THEOREM ReservationsHold == Disciplined => (Spec => []ReservationHolds)
<1>1. Disciplined => (IInv => ReservationHolds)
  BY IInvReserve
<1>2. ASSUME Disciplined PROVE Spec => []ReservationHolds
  <2>1. IInv => ReservationHolds
    BY <1>1, <1>2
  <2>2. QED
    BY <2>1, Invariant, PTL
<1>3. QED
  BY <1>2

LEMMA IInvPinned == ~MayCrash => (IInv => Pinned)
<1> SUFFICES ASSUME ~MayCrash, IInv, boot = "up", ~(\E t \in Thread : pc[t] = "install"), NEW i \in DOMAIN lh
             PROVE  Cached(cache, lh[i])
  BY DEF Pinned
<1>1. TypeInv /\ Pins
  BY DEF IInv, PinInv
<1>2. Pending(lh[i]) /\ lh[i] \in Addr
  BY <1>1, AddrFacts DEF Pending, Installing, TypeInv
<1>3. QED
  BY <1>1, <1>2 DEF Pins

\* bpin and bunpin (log.c): until the first recovery after a crash, a logged block stays
\* in the cache from log_write until install_trans has written it, however small
\* the cache is and whatever the threads read meanwhile.
THEOREM LoggedStayPinned == ~MayCrash => (Spec => []Pinned)
<1>1. ASSUME ~MayCrash PROVE Spec => []Pinned
  <2>1. IInv => Pinned
    BY <1>1, IInvPinned
  <2>2. QED
    BY <2>1, Invariant, PTL
<1>2. QED
  BY <1>1
=============================================================================
