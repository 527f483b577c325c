----------------------------- MODULE LsmProofs -----------------------------
(***************************************************************************)
(* The storage engine, for any keys and values, any number of levels and   *)
(* files and any sizes: what its levels keep in order, what a crash leaves *)
(* and what a compaction may change.                                       *)
(***************************************************************************)
EXTENDS LsmStore, RecursionProofs
LOCAL INSTANCE LowerBound

-----------------------------------------------------------------------------
(* Sequences. *)

\* t is u followed by v.
Joined(u, v, t) ==
    /\ Len(t) = Len(u) + Len(v)
    /\ \A k \in 1 .. Len(u) : t[k] = u[k]
    /\ \A k \in 1 .. Len(v) : t[Len(u) + k] = v[k]

LEMMA ConcatIs ==
    ASSUME NEW S, NEW u \in Seq(S), NEW v \in Seq(S)
    PROVE  u \o v \in Seq(S) /\ Joined(u, v, u \o v)
<1>0. PICK t : t = u \o v
  OBVIOUS
<1>1. t \in Seq(S)
  BY <1>0
<1>2. Len(t) = Len(u) + Len(v)
  BY <1>0
<1>3. Len(u) \in Nat /\ Len(v) \in Nat
  OBVIOUS
<1>4. \A k \in 1 .. Len(u) + Len(v) : t[k] = IF k <= Len(u) THEN u[k] ELSE v[k - Len(u)]
  BY <1>0
<1>5. ASSUME NEW k \in 1 .. Len(u) PROVE t[k] = u[k]
  <2>1. k \in 1 .. Len(u) + Len(v) /\ k <= Len(u)
    BY <1>3
  <2>2. QED
    BY <1>4, <2>1
<1>6. ASSUME NEW k \in 1 .. Len(v) PROVE t[Len(u) + k] = v[k]
  <2>1. Len(u) + k \in 1 .. Len(u) + Len(v) /\ ~(Len(u) + k <= Len(u)) /\ (Len(u) + k) - Len(u) = k
    BY <1>3
  <2>2. QED
    BY <1>4, <2>1
<1>7. Joined(u, v, t)
  BY <1>2, <1>5, <1>6 DEF Joined
<1>8. QED
  BY <1>0, <1>1, <1>7, Zenon

LEMMA SubSeqIs ==
    ASSUME NEW S, NEW s \in Seq(S), NEW a \in Nat, NEW b \in Nat, 1 <= a, a <= b + 1, b <= Len(s),
           NEW t, t = SubSeq(s, a, b)
    PROVE  /\ t \in Seq(S) /\ Len(t) = b - a + 1
           /\ \A i \in 1 .. Len(t) : t[i] = s[a + i - 1]
<1>1. Len(s) \in Nat /\ \A i \in a .. b : i \in 1 .. Len(s)
  OBVIOUS
<1>2. t \in Seq(S)
  BY <1>1
<1>3. Len(t) = b - a + 1
  OBVIOUS
<1>4. ASSUME NEW i \in 1 .. Len(t) PROVE t[i] = s[a + i - 1]
  <2>1. i \in 1 .. b - a + 1
    BY <1>3
  <2>2. QED
    BY <2>1
<1>5. QED
  BY <1>2, <1>3, <1>4

LEMMA ElementIn == ASSUME NEW S, NEW s \in Seq(S), NEW i \in DOMAIN s PROVE s[i] \in S
OBVIOUS

LEMMA DomainIs == ASSUME NEW S, NEW s \in Seq(S) PROVE DOMAIN s = 1 .. Len(s) /\ Len(s) \in Nat
OBVIOUS

\* t is s with f put in behind its first pos elements.
Inserted(s, pos, f, t) ==
    /\ Len(t) = Len(s) + 1
    /\ t[pos + 1] = f
    /\ \A i \in 1 .. pos : t[i] = s[i]
    /\ \A i \in pos + 1 .. Len(s) : t[i + 1] = s[i]

Spliced(s, pos, f) == SubSeq(s, 1, pos) \o <<f>> \o SubSeq(s, pos + 1, Len(s))

LEMMA InsertIs ==
    ASSUME NEW S, NEW s \in Seq(S), NEW pos \in 0 .. Len(s), NEW f \in S
    PROVE  Spliced(s, pos, f) \in Seq(S) /\ Inserted(s, pos, f, Spliced(s, pos, f))
<1>t. PICK t : t = Spliced(s, pos, f)
  OBVIOUS
<1>0. PICK n \in Nat : n = Len(s)
  OBVIOUS
<1>1. PICK u : u = SubSeq(s, 1, pos)
  OBVIOUS
<1>2. PICK v : v = SubSeq(s, pos + 1, n)
  OBVIOUS
<1>3. pos \in Nat /\ pos <= n
  BY <1>0
<1>4. u \in Seq(S) /\ Len(u) = pos /\ \A i \in 1 .. pos : u[i] = s[i]
  <2>1. /\ u \in Seq(S) /\ Len(u) = pos - 1 + 1
        /\ \A i \in 1 .. Len(u) : u[i] = s[1 + i - 1]
    BY <1>0, <1>1, <1>3, SubSeqIs
  <2>2. \A i \in 1 .. pos : 1 + i - 1 = i
    BY <1>3
  <2>3. QED
    BY <1>3, <2>1, <2>2
<1>5. v \in Seq(S) /\ Len(v) = n - pos /\ \A i \in 1 .. n - pos : v[i] = s[pos + i]
  <2>1. /\ v \in Seq(S) /\ Len(v) = n - (pos + 1) + 1
        /\ \A i \in 1 .. Len(v) : v[i] = s[pos + 1 + i - 1]
    BY <1>0, <1>2, <1>3, SubSeqIs
  <2>2. \A i \in 1 .. n - pos : pos + 1 + i - 1 = pos + i
    BY <1>3
  <2>3. QED
    BY <1>3, <2>1, <2>2
<1>6. PICK e : e = <<f>>
  OBVIOUS
<1>7. e \in Seq(S) /\ Len(e) = 1 /\ e[1] = f
  BY <1>6
<1>8. PICK w : w = u \o e
  OBVIOUS
<1>9. w \in Seq(S) /\ Joined(u, e, w)
  BY <1>4, <1>7, <1>8, ConcatIs
<1>10. Len(w) = pos + 1 /\ w[pos + 1] = f /\ \A i \in 1 .. pos : w[i] = s[i]
  <2>1. Len(w) = pos + 1 /\ \A i \in 1 .. pos : w[i] = u[i]
    BY <1>3, <1>4, <1>7, <1>9 DEF Joined
  <2>2. \A i \in 1 .. 1 : w[pos + i] = e[i]
    BY <1>3, <1>4, <1>7, <1>9 DEF Joined
  <2>3. QED
    BY <1>3, <1>4, <1>7, <2>1, <2>2
<1>11. t = w \o v
  BY <1>t, <1>0, <1>1, <1>2, <1>6, <1>8 DEF Spliced
<1>12. t \in Seq(S) /\ Joined(w, v, t)
  BY <1>5, <1>9, <1>11, ConcatIs
<1>13. Len(t) = n + 1
  <2>1. Len(t) = Len(w) + Len(v)
    BY <1>12 DEF Joined
  <2>2. Len(w) = pos + 1 /\ Len(v) = n - pos
    BY <1>5, <1>10
  <2>3. (pos + 1) + (n - pos) = n + 1
    BY <1>3
  <2>4. QED
    BY <2>1, <2>2, <2>3, Zenon
<1>14. \A i \in 1 .. pos + 1 : t[i] = w[i]
  BY <1>10, <1>12 DEF Joined
<1>15. t[pos + 1] = f /\ \A i \in 1 .. pos : t[i] = s[i]
  <2>1. pos + 1 \in 1 .. pos + 1 /\ \A i \in 1 .. pos : i \in 1 .. pos + 1
    BY <1>3
  <2>2. t[pos + 1] = w[pos + 1] /\ \A i \in 1 .. pos : t[i] = w[i]
    BY <1>14, <2>1
  <2>3. QED
    BY <1>10, <2>2
<1>16. ASSUME NEW i \in pos + 1 .. n PROVE t[i + 1] = s[i]
  <2>1. i - pos \in 1 .. n - pos /\ pos + 1 + (i - pos) = i + 1 /\ pos + (i - pos) = i
    BY <1>3
  <2>2. \A k \in 1 .. n - pos : t[pos + 1 + k] = v[k]
    BY <1>5, <1>10, <1>12 DEF Joined
  <2>3. t[pos + 1 + (i - pos)] = v[i - pos]
    BY <2>1, <2>2
  <2>4. v[i - pos] = s[pos + (i - pos)]
    BY <1>5, <2>1
  <2>5. QED
    BY <2>1, <2>3, <2>4
<1>17. Inserted(s, pos, f, t)
  BY <1>0, <1>13, <1>15, <1>16 DEF Inserted
<1>18. QED
  BY <1>t, <1>12, <1>17

\* f is an element of s; no element of s comes twice.
In(f, s) == \E i \in DOMAIN s : s[i] = f

Unique(s) == \A i, j \in DOMAIN s : s[i] = s[j] => i = j

\* What level_remove_sstable leaves of a list, when no file is listed twice.
LEMMA DroppedIs ==
    ASSUME NEW S, NEW s \in Seq(S), Unique(s), NEW f, NEW t, t = Dropped(s, f)
    PROVE  /\ t \in Seq(S) /\ Unique(t)
           /\ \A g : In(g, t) <=> In(g, s) /\ g # f
           /\ \E map \in [DOMAIN t -> DOMAIN s] :
                 /\ \A i \in DOMAIN t : t[i] = s[map[i]]
                 /\ \A i, j \in DOMAIN t : i < j => map[i] < map[j]
<1>0. PICK n \in Nat : n = Len(s) /\ DOMAIN s = 1 .. n
  OBVIOUS
<1> DEFINE at == {i \in DOMAIN s : s[i] = f}
<1>1. CASE at = {}
  <2>1. t = s
    BY <1>1 DEF Dropped
  <2>2. \A i \in DOMAIN s : s[i] # f
    BY <1>1
  <2>3. \A g : In(g, t) <=> In(g, s) /\ g # f
    BY <2>1, <2>2 DEF In
  <2>4. PICK map : map = [i \in DOMAIN s |-> i]
    OBVIOUS
  <2>5. map \in [DOMAIN t -> DOMAIN s] /\ \A i \in DOMAIN t : map[i] = i
    BY <2>1, <2>4
  <2>6. /\ \A i \in DOMAIN t : t[i] = s[map[i]]
        /\ \A i, j \in DOMAIN t : i < j => map[i] < map[j]
    BY <2>1, <2>5
  <2>7. \E m \in [DOMAIN t -> DOMAIN s] :
           /\ \A i \in DOMAIN t : t[i] = s[m[i]]
           /\ \A i, j \in DOMAIN t : i < j => m[i] < m[j]
    BY <2>5, <2>6
  <2>8. QED
    BY <2>1, <2>3, <2>7
<1>2. CASE at # {}
  <2>1. at \in SUBSET Nat
    BY <1>0
  <2>2. \E i \in at : \A j \in at : i <= j
    BY <1>2, <2>1, LeastNat
  <2>3. PICK p : p = CHOOSE i \in at : \A j \in at : i <= j
    OBVIOUS
  <2>4. p \in at
    BY <2>2, <2>3
  <2>5. p \in 1 .. n /\ s[p] = f
    BY <1>0, <2>4
  <2>6. t = SubSeq(s, 1, p - 1) \o SubSeq(s, p + 1, Len(s))
    BY <1>2, <2>3 DEF Dropped
  <2>7. PICK u : u = SubSeq(s, 1, p - 1)
    OBVIOUS
  <2>8. PICK v : v = SubSeq(s, p + 1, n)
    OBVIOUS
  <2>9. u \in Seq(S) /\ Len(u) = p - 1 /\ \A i \in 1 .. p - 1 : u[i] = s[i]
    <3>1. p - 1 \in Nat /\ 1 <= p - 1 + 1 /\ p - 1 <= Len(s)
      BY <1>0, <2>5
    <3>2. /\ u \in Seq(S) /\ Len(u) = p - 1 - 1 + 1
          /\ \A i \in 1 .. Len(u) : u[i] = s[1 + i - 1]
      BY <2>7, <3>1, SubSeqIs
    <3>3. \A i \in 1 .. p - 1 : 1 + i - 1 = i
      BY <2>5
    <3>4. QED
      BY <2>5, <3>2, <3>3
  <2>10. v \in Seq(S) /\ Len(v) = n - p /\ \A i \in 1 .. n - p : v[i] = s[p + i]
    <3>1. p + 1 \in Nat /\ 1 <= p + 1 /\ p + 1 <= n + 1
      BY <2>5
    <3>2. /\ v \in Seq(S) /\ Len(v) = n - (p + 1) + 1
          /\ \A i \in 1 .. Len(v) : v[i] = s[p + 1 + i - 1]
      BY <1>0, <2>8, <3>1, SubSeqIs
    <3>3. \A i \in 1 .. n - p : p + 1 + i - 1 = p + i
      BY <2>5
    <3>4. QED
      BY <2>5, <3>2, <3>3
  <2>11. t = u \o v
    BY <1>0, <2>6, <2>7, <2>8
  <2>12. /\ t \in Seq(S) /\ Len(t) = Len(u) + Len(v)
         /\ \A k \in 1 .. Len(u) : t[k] = u[k]
         /\ \A k \in 1 .. Len(v) : t[Len(u) + k] = v[k]
    <3>1. t \in Seq(S) /\ Joined(u, v, t)
      BY <2>9, <2>10, <2>11, ConcatIs
    <3>2. QED
      BY <3>1 DEF Joined
  <2>13. Len(t) = n - 1 /\ DOMAIN t = 1 .. n - 1
    <3>1. Len(t) = n - 1
      BY <1>0, <2>5, <2>9, <2>10, <2>12
    <3>2. QED
      BY <2>12, <3>1, DomainIs
  <2>14. PICK map : map = [i \in 1 .. n - 1 |-> IF i < p THEN i ELSE i + 1]
    OBVIOUS
  <2>15. map \in [1 .. n - 1 -> 1 .. n] /\ \A i \in 1 .. n - 1 : map[i] = IF i < p THEN i ELSE i + 1
    BY <2>5, <2>14
  <2>16. ASSUME NEW i \in 1 .. n - 1 PROVE t[i] = s[map[i]]
    <3>1. CASE i < p
      <4>1. i \in 1 .. Len(u) /\ i \in 1 .. p - 1 /\ map[i] = i
        BY <2>5, <2>9, <2>15, <3>1
      <4>2. QED
        BY <2>9, <2>12, <4>1
    <3>2. CASE ~(i < p)
      <4>1. /\ i - (p - 1) \in 1 .. Len(v) /\ i - (p - 1) \in 1 .. n - p
            /\ Len(u) + (i - (p - 1)) = i /\ p + (i - (p - 1)) = i + 1 /\ map[i] = i + 1
        BY <2>5, <2>9, <2>10, <2>15, <3>2
      <4>2. t[Len(u) + (i - (p - 1))] = v[i - (p - 1)] /\ v[i - (p - 1)] = s[p + (i - (p - 1))]
        BY <2>10, <2>12, <4>1
      <4>3. QED
        BY <4>1, <4>2
    <3>3. QED
      BY <3>1, <3>2
  <2>17. \A i, j \in 1 .. n - 1 : i < j => map[i] < map[j]
    BY <2>5, <2>15
  <2>18. \A i \in 1 .. n - 1 : map[i] \in 1 .. n /\ map[i] # p
    BY <2>5, <2>15
  <2>19. \A i \in 1 .. n : i # p => \E j \in 1 .. n - 1 : map[j] = i
    <3> TAKE i \in 1 .. n
    <3> HAVE i # p
    <3>1. CASE i < p
      <4>1. i \in 1 .. n - 1 /\ map[i] = i
        BY <2>5, <2>15, <3>1
      <4>2. QED
        BY <4>1
    <3>2. CASE i > p
      <4>1. i - 1 \in 1 .. n - 1 /\ map[i - 1] = i
        BY <2>5, <2>15, <3>2
      <4>2. QED
        BY <4>1
    <3>3. QED
      BY <2>5, <3>1, <3>2
  <2>20. \A g : In(g, t) <=> In(g, s) /\ g # f
    <3> TAKE g
    <3>1. ASSUME In(g, t) PROVE In(g, s) /\ g # f
      <4>1. PICK i \in 1 .. n - 1 : t[i] = g
        BY <2>13, <3>1 DEF In
      <4>2. map[i] \in 1 .. n /\ map[i] # p /\ s[map[i]] = g
        BY <2>16, <2>18, <4>1
      <4>3. g # f
        BY <1>0, <2>5, <4>2 DEF Unique
      <4>4. QED
        BY <1>0, <4>2, <4>3 DEF In
    <3>2. ASSUME In(g, s), g # f PROVE In(g, t)
      <4>1. PICK i \in 1 .. n : s[i] = g
        BY <1>0, <3>2 DEF In
      <4>2. i # p
        BY <2>5, <3>2, <4>1
      <4>3. PICK j \in 1 .. n - 1 : map[j] = i
        BY <2>19, <4>2
      <4>4. t[j] = g
        BY <2>16, <4>1, <4>3
      <4>5. QED
        BY <2>13, <4>4 DEF In
    <3>3. QED
      BY <3>1, <3>2
  <2>21. Unique(t)
    <3> SUFFICES ASSUME NEW i \in 1 .. n - 1, NEW j \in 1 .. n - 1, t[i] = t[j] PROVE i = j
      BY <2>13 DEF Unique
    <3>1. s[map[i]] = s[map[j]] /\ map[i] \in 1 .. n /\ map[j] \in 1 .. n
      BY <2>16, <2>18
    <3>2. map[i] = map[j]
      BY <1>0, <3>1 DEF Unique
    <3>3. ~(i < j) /\ ~(j < i)
      BY <2>15, <2>17, <3>2
    <3>4. QED
      BY <3>3
  <2>22. \E m \in [DOMAIN t -> DOMAIN s] :
            /\ \A i \in DOMAIN t : t[i] = s[m[i]]
            /\ \A i, j \in DOMAIN t : i < j => m[i] < m[j]
    BY <1>0, <2>13, <2>15, <2>16, <2>17
  <2>23. QED
    BY <2>12, <2>20, <2>21, <2>22
<1>3. QED
  BY <1>1, <1>2

-----------------------------------------------------------------------------
(* Key ranges. *)

Content == [Key -> Entry]

\* A finite set of natural numbers has an upper bound.
LEMMA FiniteBound ==
    ASSUME NEW T \in SUBSET Nat, IsFiniteSet(T)
    PROVE  \E b \in Nat : \A x \in T : x <= b
<1>1. PICK n \in Nat : ExistsSurjection(1 .. n, T)
  BY FS_NatSurjection
<1>2. PICK f \in Surjection(1 .. n, T) : TRUE
  BY <1>1 DEF ExistsSurjection
<1>3. f \in [1 .. n -> T] /\ \A x \in T : \E i \in 1 .. n : f[i] = x
  BY <1>2 DEF Surjection
<1> DEFINE S == {m \in 0 .. n : \E b \in Nat : \A i \in 1 .. m : f[i] <= b}
<1>4. 0 \in S
  BY <1>3
<1>5. ASSUME NEW m \in 0 .. n - 1, m \in S PROVE m + 1 \in S
  <2>1. PICK b \in Nat : \A i \in 1 .. m : f[i] <= b
    BY <1>5
  <2>2. m + 1 \in 1 .. n /\ f[m + 1] \in Nat
    <3>1. m + 1 \in 1 .. n
      OBVIOUS
    <3>2. f[m + 1] \in T
      BY <1>3, <3>1
    <3>3. QED
      BY <3>1, <3>2
  <2>3. PICK c \in Nat : b <= c /\ f[m + 1] <= c
    <3>1. b + f[m + 1] \in Nat /\ b <= b + f[m + 1] /\ f[m + 1] <= b + f[m + 1]
      BY <2>2
    <3>2. QED
      BY <3>1
  <2>4. ASSUME NEW i \in 1 .. m + 1 PROVE f[i] <= c
    <3>1. CASE i = m + 1
      BY <2>3, <3>1
    <3>2. CASE i # m + 1
      <4>1. i \in 1 .. m /\ i \in 1 .. n
        BY <3>2
      <4>2. f[i] <= b /\ f[i] \in Nat
        BY <1>3, <2>1, <4>1
      <4>3. QED
        BY <2>3, <4>2
    <3>3. QED
      BY <3>1, <3>2
  <2>5. m + 1 \in 0 .. n /\ \E d \in Nat : \A i \in 1 .. m + 1 : f[i] <= d
    BY <2>2, <2>3, <2>4, SMTT(30)
  <2>6. QED
    BY <2>5, Zenon
<1> HIDE DEF S
<1>6. n \in S
  <2>1. \A m \in 0 .. n : m \in S
    BY <1>4, <1>5, UpTo
  <2>2. QED
    BY <2>1
<1>7. PICK b \in Nat : \A i \in 1 .. n : f[i] <= b
  BY <1>6 DEF S
<1>8. QED
  BY <1>3, <1>7

LEMMA KeyIs == Key \subseteq Nat /\ 0 \notin Key /\ \E b \in Nat : \A k \in Key : k <= b
<1>1. Key \in SUBSET Nat /\ IsFiniteSet(Key) /\ 0 \notin Key
  BY LsmAssumption
<1>2. QED
  BY <1>1, FiniteBound

LEMMA EntryIs == Absent \in Entry /\ Tomb \in Entry /\ Value \subseteq Entry /\ Tomb # Absent
                 /\ Tomb \notin Value /\ Absent \notin Value
BY LsmAssumption DEF Entry

\* The least key of a content and the greatest, both 0 when there are none.
LEMMA KeysIn == ASSUME NEW c PROVE Keys(c) \in SUBSET Key /\ Keys(c) \in SUBSET Nat
BY KeyIs DEF Keys

LEMMA MinKeyIs ==
    ASSUME NEW c
    PROVE  /\ MinKey(c) \in Nat
           /\ Keys(c) = {} => MinKey(c) = 0
           /\ Keys(c) # {} => MinKey(c) \in Keys(c) /\ MinKey(c) > 0
           /\ \A k \in Keys(c) : MinKey(c) <= k
<1>1. CASE Keys(c) = {}
  BY <1>1 DEF MinKey
<1>2. CASE Keys(c) # {}
  <2>1. \E k \in Keys(c) : \A j \in Keys(c) : k <= j
    BY <1>2, KeysIn, LeastNat
  <2>2. MinKey(c) = CHOOSE k \in Keys(c) : \A j \in Keys(c) : k <= j
    BY <1>2 DEF MinKey
  <2>3. MinKey(c) \in Keys(c) /\ \A j \in Keys(c) : MinKey(c) <= j
    BY <2>1, <2>2, Zenon
  <2>4. MinKey(c) \in Key
    BY <2>3, KeysIn
  <2>5. MinKey(c) \in Nat /\ MinKey(c) > 0
    <3>1. MinKey(c) \in Nat /\ MinKey(c) # 0
      BY <2>4, KeyIs, Zenon
    <3>2. QED
      BY <3>1
  <2>6. QED
    BY <1>2, <2>3, <2>5
<1>3. QED
  BY <1>1, <1>2

LEMMA MaxKeyIs ==
    ASSUME NEW c
    PROVE  /\ MaxKey(c) \in Nat
           /\ Keys(c) = {} => MaxKey(c) = 0
           /\ Keys(c) # {} => MaxKey(c) \in Keys(c) /\ MaxKey(c) > 0
           /\ \A k \in Keys(c) : k <= MaxKey(c)
<1>1. CASE Keys(c) = {}
  BY <1>1 DEF MaxKey
<1>2. CASE Keys(c) # {}
  <2>0. PICK b \in Nat : \A k \in Key : k <= b
    BY KeyIs
  <2>1a. \A k \in Keys(c) : k <= b
    BY <2>0, KeysIn
  <2>1. \E k \in Keys(c) : \A j \in Keys(c) : j <= k
    BY <1>2, <2>1a, KeysIn, GreatestNat
  <2>1b. \E k \in Keys(c) : \A j \in Keys(c) : k >= j
    BY <2>1, KeysIn
  <2>2. MaxKey(c) = CHOOSE k \in Keys(c) : \A j \in Keys(c) : k >= j
    BY <1>2 DEF MaxKey
  <2>3. MaxKey(c) \in Keys(c) /\ \A j \in Keys(c) : MaxKey(c) >= j
    BY <2>1b, <2>2, Zenon
  <2>4. MaxKey(c) \in Key
    BY <2>3, KeysIn
  <2>5. MaxKey(c) \in Nat /\ MaxKey(c) > 0
    <3>1. MaxKey(c) \in Nat /\ MaxKey(c) # 0
      BY <2>4, KeyIs, Zenon
    <3>2. QED
      BY <3>1
  <2>6. \A j \in Keys(c) : j <= MaxKey(c)
    BY <2>3, <2>5, KeysIn
  <2>7. QED
    BY <1>2, <2>3, <2>5, <2>6
<1>3. QED
  BY <1>1, <1>2

LEMMA MinMax == ASSUME NEW c PROVE MinKey(c) <= MaxKey(c)
<1>1. CASE Keys(c) = {}
  BY <1>1, MinKeyIs, MaxKeyIs
<1>2. CASE Keys(c) # {}
  BY <1>2, MinKeyIs, MaxKeyIs
<1>3. QED
  BY <1>1, <1>2

\* Files in order have their least and their greatest keys in order.
LEMMA PrecedesKeys ==
    ASSUME NEW a, NEW b, Precedes(a, b)
    PROVE  /\ MinKey(a) <= MinKey(b) /\ MaxKey(a) <= MaxKey(b)
           /\ Keys(a) # {} => Keys(b) # {}
           /\ Keys(b) # {} => MaxKey(a) < MinKey(b)
           /\ \A i \in Keys(a), j \in Keys(b) : i < j
<1>1. /\ MinKey(a) \in Nat /\ MaxKey(a) \in Nat /\ MinKey(b) \in Nat /\ MaxKey(b) \in Nat
      /\ MinKey(a) <= MaxKey(a) /\ MinKey(b) <= MaxKey(b)
  BY MinKeyIs, MaxKeyIs, MinMax
<1>2. CASE MaxKey(a) < MinKey(b)
  <2>1. Keys(b) # {}
    BY <1>1, <1>2, MinKeyIs
  <2>2. ASSUME NEW i \in Keys(a), NEW j \in Keys(b) PROVE i < j
    <3>1. i <= MaxKey(a) /\ MinKey(b) <= j /\ i \in Nat /\ j \in Nat
      BY MinKeyIs, MaxKeyIs, KeysIn
    <3>2. QED
      BY <1>1, <1>2, <3>1
  <2>3. QED
    BY <1>1, <1>2, <2>1, <2>2
<1>3. CASE Keys(a) \cup Keys(b) = {}
  <2>1. Keys(a) = {} /\ Keys(b) = {}
    BY <1>3
  <2>2. QED
    BY <2>1, MinKeyIs, MaxKeyIs
<1>4. QED
  BY <1>2, <1>3 DEF Precedes

\* Two files of which one precedes the other are ordered by their least keys.
LEMMA PrecedesBy ==
    ASSUME NEW a, NEW b, Precedes(a, b) \/ Precedes(b, a)
    PROVE  /\ MinKey(a) < MinKey(b) => Precedes(a, b)
           /\ ~(MinKey(a) < MinKey(b)) => Precedes(b, a)
<1>1. /\ MinKey(a) \in Nat /\ MaxKey(a) \in Nat /\ MinKey(b) \in Nat /\ MaxKey(b) \in Nat
      /\ MinKey(a) <= MaxKey(a) /\ MinKey(b) <= MaxKey(b)
  BY MinKeyIs, MaxKeyIs, MinMax
<1>2. ASSUME MinKey(a) < MinKey(b) PROVE Precedes(a, b)
  BY <1>1, <1>2, PrecedesKeys
<1>3. ASSUME ~(MinKey(a) < MinKey(b)), Precedes(a, b) PROVE Precedes(b, a)
  <2>1. ~(MaxKey(a) < MinKey(b))
    BY <1>1, <1>3
  <2>2. QED
    BY <1>3, <2>1 DEF Precedes
<1>4. QED
  BY <1>2, <1>3

-----------------------------------------------------------------------------
(* The log. *)

Record == [key : Key, val : Entry \ {Absent}]

LogOK(w) == w \in Seq(Record \cup {Torn})

\* Only the last record of w may be Torn.
TornLast(w) == \A i \in 1 .. Len(w) - 1 : w[i] # Torn

\* The last whole record of k in w says x.
Newest(w, k, x) ==
    \E i \in 1 .. Len(w) :
        /\ w[i] # Torn /\ w[i].key = k /\ w[i].val = x
        /\ \A j \in i + 1 .. Len(w) : w[j] # Torn => w[j].key # k

LEMMA TornIs == Torn \notin Record
<1>1. Entry \ {Absent} = Value \cup {Tomb}
  BY EntryIs DEF Entry
<1>2. QED
  BY <1>1, LsmAssumption DEF Record

LEMMA RecordIs ==
    ASSUME NEW w, LogOK(w), NEW i \in 1 .. Len(w), w[i] # Torn
    PROVE  w[i] \in Record /\ w[i].key \in Key /\ w[i].val \in Entry /\ w[i].val # Absent
<1>1. w[i] \in Record \cup {Torn}
  BY DEF LogOK
<1>2. w[i] \in Record
  BY <1>1
<1>3. QED
  BY <1>2 DEF Record

LEMMA IntactIs ==
    ASSUME NEW w, LogOK(w)
    PROVE  /\ Intact(w) \in Seq(Record) /\ Len(Intact(w)) <= Len(w)
           /\ \A i \in 1 .. Len(Intact(w)) : Intact(w)[i] = w[i] /\ w[i] # Torn
           /\ Len(Intact(w)) = Len(w) \/ w[Len(Intact(w)) + 1] = Torn
<1> DEFINE torn == {i \in DOMAIN w : w[i] = Torn}
<1>0. PICK n \in Nat : n = Len(w) /\ DOMAIN w = 1 .. n
  BY DEF LogOK
<1>1. CASE torn = {}
  <2>1. Intact(w) = w
    BY <1>1 DEF Intact
  <2>2. \A i \in 1 .. n : w[i] # Torn
    BY <1>0, <1>1
  <2>3. \A i \in 1 .. n : w[i] \in Record
    BY <1>0, <2>2, RecordIs
  <2>4. w \in Seq(Record)
    BY <1>0, <2>3 DEF LogOK
  <2>5. QED
    BY <1>0, <2>1, <2>2, <2>4
<1>2. CASE torn # {}
  <2>1. torn \in SUBSET Nat
    BY <1>0
  <2>2. \E i \in torn : \A j \in torn : i <= j
    BY <1>2, <2>1, LeastNat
  <2>3. PICK p : p = CHOOSE i \in torn : \A j \in torn : i <= j
    OBVIOUS
  <2>4. p \in torn /\ \A j \in torn : p <= j
    BY <2>2, <2>3, Zenon
  <2>5. p \in 1 .. n /\ w[p] = Torn
    BY <1>0, <2>4
  <2>6. \A i \in 1 .. p - 1 : w[i] # Torn /\ i \in 1 .. n
    BY <1>0, <2>4, <2>5
  <2>7. Intact(w) = SubSeq(w, 1, p - 1)
    BY <1>2, <2>3 DEF Intact
  <2>8. PICK t : t = Intact(w)
    OBVIOUS
  <2>9. p - 1 \in Nat /\ 1 <= p - 1 + 1 /\ p - 1 <= Len(w)
    BY <1>0, <2>5
  <2>10. /\ Len(t) = p - 1 - 1 + 1
         /\ \A i \in 1 .. Len(t) : t[i] = w[1 + i - 1]
    BY <2>7, <2>8, <2>9, SubSeqIs DEF LogOK
  <2>11. Len(t) = p - 1 /\ \A i \in 1 .. p - 1 : t[i] = w[i]
    <3>1. p - 1 - 1 + 1 = p - 1 /\ \A i \in 1 .. p - 1 : 1 + i - 1 = i
      BY <2>5
    <3>2. QED
      BY <2>10, <3>1
  <2>12. \A i \in 1 .. p - 1 : t[i] \in Record
    BY <1>0, <2>6, <2>11, RecordIs
  <2>13. t \in Seq(Record)
    <3>1. t \in Seq(Record \cup {Torn})
      BY <2>7, <2>8, <2>9, SubSeqIs DEF LogOK
    <3>2. QED
      BY <2>11, <2>12, <3>1
  <2>14. p - 1 <= Len(w) /\ p - 1 + 1 = p
    BY <2>5, <2>9
  <2>15. QED
    BY <2>5, <2>6, <2>8, <2>11, <2>13, <2>14
<1>3. QED
  BY <1>1, <1>2

\* WholeLog, of any log.
LEMMA WholeIs ==
    ASSUME NEW w, LogOK(w)
    PROVE  Len(w) <= Len(Intact(w)) + 1 <=> TornLast(w)
<1>1. PICK n \in Nat : n = Len(w)
  BY DEF LogOK
<1>2. PICK m \in Nat : m = Len(Intact(w))
  BY IntactIs
<1>3. m <= n /\ (\A i \in 1 .. m : w[i] # Torn) /\ (m = n \/ w[m + 1] = Torn)
  BY <1>1, <1>2, IntactIs
<1>4. ASSUME n <= m + 1 PROVE TornLast(w)
  <2>1. \A i \in 1 .. n - 1 : i \in 1 .. m
    BY <1>4
  <2>2. QED
    BY <1>1, <1>3, <2>1 DEF TornLast
<1>5. ASSUME TornLast(w), ~(n <= m + 1) PROVE FALSE
  <2>1. m + 1 \in 1 .. n - 1 /\ m # n
    BY <1>5
  <2>2. QED
    BY <1>1, <1>3, <1>5, <2>1 DEF TornLast
<1>6. QED
  BY <1>1, <1>2, <1>4, <1>5

LEMMA ReplayTyped == ASSUME NEW w, LogOK(w) PROVE Replay(Intact(w)) \in Content
<1>0. PICK s : s = Intact(w)
  OBVIOUS
<1>1. s \in Seq(Record)
  BY <1>0, IntactIs
<1>2. ASSUME NEW k \in Key PROVE Replay(s)[k] \in Entry
  <2> DEFINE hits == {i \in DOMAIN s : s[i].key = k}
  <2>1. Replay(s)[k] = IF hits = {} THEN Absent
                       ELSE s[CHOOSE i \in hits : \A j \in hits : i >= j].val
    BY DEF Replay
  <2>2. CASE hits = {}
    BY <2>1, <2>2, EntryIs
  <2>3. CASE hits # {}
    <3>1. DOMAIN s = 1 .. Len(s) /\ Len(s) \in Nat
      BY <1>1
    <3>2. hits \in SUBSET Nat /\ \A x \in hits : x <= Len(s)
      BY <3>1
    <3>3. \E m \in hits : \A y \in hits : y <= m
      BY <2>3, <3>1, <3>2, GreatestNat
    <3>4. \E m \in hits : \A y \in hits : m >= y
      BY <3>2, <3>3
    <3>5. PICK p : p = CHOOSE i \in hits : \A j \in hits : i >= j
      OBVIOUS
    <3>6. p \in hits
      BY <3>4, <3>5, Zenon
    <3>7. s[p] \in Record
      BY <1>1, <3>6
    <3>8. QED
      BY <2>1, <2>3, <3>5, <3>7 DEF Record
  <2>4. QED
    BY <2>2, <2>3
<1>3. Replay(s) = [k \in Key |-> Replay(s)[k]]
  BY DEF Replay
<1>4. Replay(s) \in [Key -> Entry]
  BY <1>2, <1>3
<1>5. QED
  BY <1>0, <1>4 DEF Content

\* When only the end of the log is Torn, the memtable that storage_open builds has
\* the last write of every key.
LEMMA ReplayNewest ==
    ASSUME NEW w, LogOK(w), TornLast(w), NEW k \in Key, NEW x, Newest(w, k, x)
    PROVE  Replay(Intact(w))[k] = x
<1>0. PICK s : s = Intact(w)
  OBVIOUS
<1>1. PICK n \in Nat : n = Len(w)
  BY DEF LogOK
<1>2. PICK m \in Nat : m = Len(s)
  BY <1>0, IntactIs
<1>3. /\ s \in Seq(Record) /\ m <= n
      /\ \A i \in 1 .. m : s[i] = w[i] /\ w[i] # Torn
      /\ m = n \/ w[m + 1] = Torn
  BY <1>0, <1>1, <1>2, IntactIs
<1>4. PICK i \in 1 .. n :
        /\ w[i] # Torn /\ w[i].key = k /\ w[i].val = x
        /\ \A j \in i + 1 .. n : w[j] # Torn => w[j].key # k
  BY <1>1 DEF Newest
<1>5. n <= m + 1
  BY <1>0, <1>1, <1>2, WholeIs
<1>6. i \in 1 .. m
  BY <1>3, <1>4, <1>5
<1> DEFINE hits == {j \in DOMAIN s : s[j].key = k}
<1>7. DOMAIN s = 1 .. m
  BY <1>2, <1>3
<1>8. i \in hits
  BY <1>3, <1>4, <1>6, <1>7
<1>9. ASSUME NEW j \in hits PROVE j <= i
  <2>1. j \in 1 .. m /\ s[j].key = k
    BY <1>7
  <2>2. w[j] # Torn /\ w[j].key = k
    BY <1>3, <2>1
  <2>3. ~(j \in i + 1 .. n)
    BY <1>4, <2>2
  <2>4. QED
    BY <1>3, <2>1, <2>3
<1>10. PICK p : p = CHOOSE q \in hits : \A j \in hits : q >= j
  OBVIOUS
<1>11. \A j \in hits : i >= j
  BY <1>7, <1>9
<1>12. p \in hits /\ \A j \in hits : p >= j
  BY <1>8, <1>10, <1>11, Zenon
<1>13. p \in 1 .. m /\ p >= i /\ p <= i
  BY <1>7, <1>8, <1>9, <1>12
<1>14. p = i
  BY <1>13
<1>15. Replay(s)[k] = IF hits = {} THEN Absent ELSE s[p].val
  BY <1>10 DEF Replay
<1>16. QED
  BY <1>0, <1>3, <1>4, <1>6, <1>8, <1>14, <1>15

\* What a write adds, and what it leaves.
LEMMA AppendIs ==
    ASSUME NEW S, NEW s \in Seq(S), NEW e \in S, NEW t, t = Append(s, e)
    PROVE  /\ t \in Seq(S) /\ Len(t) = Len(s) + 1 /\ t[Len(s) + 1] = e
           /\ \A i \in 1 .. Len(s) : t[i] = s[i]
<1>1. t \in Seq(S)
  OBVIOUS
<1>2. Len(t) = Len(s) + 1
  OBVIOUS
<1>3. t[Len(s) + 1] = e
  OBVIOUS
<1>4. \A i \in 1 .. Len(s) : t[i] = s[i]
  OBVIOUS
<1>5. QED
  BY <1>1, <1>2, <1>3, <1>4

LEMMA AppendTornLast ==
    ASSUME NEW w, LogOK(w), NEW e \in Record \cup {Torn}, NEW t, t = Append(w, e), TornLast(t)
    PROVE  TornLast(w)
<1>1. PICK n \in Nat : n = Len(w)
  BY DEF LogOK
<1>2. Len(t) = n + 1 /\ \A i \in 1 .. n : t[i] = w[i]
  BY <1>1, AppendIs DEF LogOK
<1>3. ASSUME NEW i \in 1 .. n - 1 PROVE w[i] # Torn
  <2>1. i \in 1 .. n /\ i \in 1 .. (n + 1) - 1
    OBVIOUS
  <2>2. QED
    BY <1>2, <2>1 DEF TornLast
<1>4. QED
  BY <1>1, <1>3 DEF TornLast

LEMMA NewestAfter ==
    ASSUME NEW w, LogOK(w), NEW e \in Record \cup {Torn}, NEW t, t = Append(w, e)
    PROVE  /\ LogOK(t)
           /\ e # Torn => Newest(t, e.key, e.val)
           /\ \A k, x : Newest(w, k, x) /\ (e = Torn \/ e.key # k) => Newest(t, k, x)
<1>1. PICK n \in Nat : n = Len(w)
  BY DEF LogOK
<1>2. Len(t) = n + 1 /\ t[n + 1] = e /\ \A i \in 1 .. n : t[i] = w[i]
  BY <1>1, AppendIs DEF LogOK
<1>3. LogOK(t)
  BY AppendIs DEF LogOK
<1>4. ASSUME e # Torn PROVE Newest(t, e.key, e.val)
  <2>1. n + 1 \in 1 .. n + 1 /\ \A j \in (n + 1) + 1 .. n + 1 : FALSE
    OBVIOUS
  <2>2. QED
    BY <1>2, <1>4, <2>1 DEF Newest
<1>5. ASSUME NEW k, NEW x, Newest(w, k, x), e = Torn \/ e.key # k PROVE Newest(t, k, x)
  <2>1. PICK i \in 1 .. n :
          /\ w[i] # Torn /\ w[i].key = k /\ w[i].val = x
          /\ \A j \in i + 1 .. n : w[j] # Torn => w[j].key # k
    BY <1>1, <1>5 DEF Newest
  <2>2. i \in 1 .. n + 1 /\ t[i] = w[i]
    BY <1>2
  <2>3. ASSUME NEW j \in i + 1 .. n + 1, t[j] # Torn PROVE t[j].key # k
    <3>1. CASE j = n + 1
      BY <1>2, <1>5, <2>3, <3>1
    <3>2. CASE j # n + 1
      <4>1. j \in i + 1 .. n /\ j \in 1 .. n
        BY <3>2
      <4>2. QED
        BY <1>2, <2>1, <2>3, <4>1
    <3>3. QED
      BY <3>1, <3>2
  <2>4. QED
    BY <1>2, <2>1, <2>2, <2>3 DEF Newest
<1>6. QED
  BY <1>3, <1>4, <1>5

\* What a power loss leaves of the log: its first n records and perhaps a Torn one.
Cut(w, n, tear) ==
    SubSeq(w, 1, n) \o (IF tear /\ n < Len(w) THEN <<Torn>> ELSE << >>)

LEMMA CutIs ==
    ASSUME NEW w, LogOK(w), NEW n \in 0 .. Len(w), NEW tear \in BOOLEAN, NEW t,
           t = Cut(w, n, tear)
    PROVE  /\ LogOK(t) /\ n <= Len(t)
           /\ \A i \in 1 .. n : t[i] = w[i]
           /\ Len(t) = n \/ (Len(t) = n + 1 /\ t[n + 1] = Torn /\ n < Len(w))
<1> DEFINE S == Record \cup {Torn}
<1>0. w \in Seq(S) /\ Len(w) \in Nat
  BY DEF LogOK
<1>1. PICK u : u = SubSeq(w, 1, n)
  OBVIOUS
<1>2. n \in Nat /\ 1 <= n + 1 /\ n <= Len(w)
  BY <1>0
<1>3. u \in Seq(S) /\ Len(u) = n /\ \A i \in 1 .. n : u[i] = w[i]
  <2>1. /\ u \in Seq(S) /\ Len(u) = n - 1 + 1
        /\ \A i \in 1 .. Len(u) : u[i] = w[1 + i - 1]
    BY <1>0, <1>1, <1>2, SubSeqIs
  <2>2. n - 1 + 1 = n /\ \A i \in 1 .. n : 1 + i - 1 = i
    BY <1>2
  <2>3. QED
    BY <2>1, <2>2
<1>4. PICK e : e = IF tear /\ n < Len(w) THEN <<Torn>> ELSE << >>
  OBVIOUS
<1>5. e \in Seq(S) /\ (Len(e) = 0 \/ (Len(e) = 1 /\ e[1] = Torn /\ n < Len(w)))
  <2>1. CASE tear /\ n < Len(w)
    <3>1. e = <<Torn>>
      BY <1>4, <2>1
    <3>2. QED
      BY <2>1, <3>1
  <2>2. CASE ~(tear /\ n < Len(w))
    <3>1. e = << >>
      BY <1>4, <2>2
    <3>2. QED
      BY <3>1
  <2>3. QED
    BY <2>1, <2>2
<1> HIDE DEF S
<1>6. t = u \o e
  BY <1>1, <1>4 DEF Cut
<1>7. t \in Seq(S) /\ Joined(u, e, t)
  BY <1>3, <1>5, <1>6, ConcatIs
<1>8. Len(t) = n + Len(e) /\ \A i \in 1 .. n : t[i] = w[i]
  BY <1>3, <1>7 DEF Joined
<1>9. Len(e) = 1 => t[n + 1] = e[1]
  <2>1. 1 \in 1 .. 1
    OBVIOUS
  <2>2. \A k \in 1 .. Len(e) : t[n + k] = e[k]
    BY <1>3, <1>7 DEF Joined
  <2>3. QED
    BY <2>1, <2>2
<1>10. Len(t) = n \/ (Len(t) = n + 1 /\ t[n + 1] = Torn /\ n < Len(w))
  <2>1. CASE Len(e) = 0
    BY <1>2, <1>8, <2>1
  <2>2. CASE Len(e) = 1 /\ e[1] = Torn /\ n < Len(w)
    <3>1. Len(t) = n + 1
      BY <1>8, <2>2
    <3>2. QED
      BY <1>9, <2>2, <3>1
  <2>3. QED
    BY <1>5, <2>1, <2>2
<1>11. n <= Len(t)
  BY <1>2, <1>10
<1>12. QED
  BY <1>7, <1>8, <1>10, <1>11 DEF LogOK, S

LEMMA CutTornLast ==
    ASSUME NEW w, LogOK(w), NEW n \in 0 .. Len(w), NEW tear \in BOOLEAN, NEW t,
           t = Cut(w, n, tear),
           TornLast(w)
    PROVE  TornLast(t)
<1>1. PICK m \in Nat : m = Len(w)
  BY DEF LogOK
<1>2. /\ \A i \in 1 .. n : t[i] = w[i]
      /\ Len(t) = n \/ (Len(t) = n + 1 /\ n < m)
  BY <1>1, CutIs
<1>3. n \in Nat /\ n <= m
  BY <1>1
<1>4. ASSUME NEW i \in 1 .. Len(t) - 1 PROVE t[i] # Torn
  <2>1. i \in 1 .. n /\ i \in 1 .. m - 1
    BY <1>2, <1>3
  <2>2. QED
    BY <1>1, <1>2, <2>1 DEF TornLast
<1>5. QED
  BY <1>4 DEF TornLast

LEMMA CutNewest ==
    ASSUME NEW w, LogOK(w), NEW n \in 0 .. Len(w), NEW tear \in BOOLEAN, NEW t,
           t = Cut(w, n, tear),
           NEW k \in Key, NEW x, Newest(w, k, x),
           ~ \E i \in n + 1 .. Len(w) : w[i] # Torn /\ w[i].key = k
    PROVE  Newest(t, k, x)
<1>1. PICK m \in Nat : m = Len(w)
  BY DEF LogOK
<1>2. /\ \A i \in 1 .. n : t[i] = w[i]
      /\ Len(t) = n \/ (Len(t) = n + 1 /\ t[n + 1] = Torn)
  BY <1>1, CutIs
<1>3. n \in Nat /\ n <= m
  BY <1>1
<1>4. PICK i \in 1 .. m :
        /\ w[i] # Torn /\ w[i].key = k /\ w[i].val = x
        /\ \A j \in i + 1 .. m : w[j] # Torn => w[j].key # k
  BY <1>1 DEF Newest
<1>5. ~(i \in n + 1 .. m)
  BY <1>1, <1>4
<1>6. i \in 1 .. n /\ i \in 1 .. Len(t)
  BY <1>2, <1>3, <1>4, <1>5
<1>7. ASSUME NEW j \in i + 1 .. Len(t), t[j] # Torn PROVE t[j].key # k
  <2>1. j \in 1 .. n /\ j \in i + 1 .. m
    BY <1>2, <1>3, <1>6, <1>7
  <2>2. QED
    BY <1>2, <1>4, <1>7, <2>1
<1>8. QED
  BY <1>2, <1>4, <1>6, <1>7 DEF Newest

-----------------------------------------------------------------------------
(* What the log promises, whatever happens and however often. *)

LogKeeps(w, x) == \A k \in Key : x[k] # Absent => Newest(w, k, x[k])

\* With sync_writes the records behind the last fsync are of writes that failed.
Unacked(w, n, x) ==
    SyncWrites => \A i \in n + 1 .. Len(w) : w[i] # Torn => x[w[i].key] = Absent

WalInv ==
    /\ up \in BOOLEAN
    /\ mem \in Content
    /\ LogOK(wal)
    /\ synced \in 0 .. Len(wal)
    /\ last \in Content
    /\ LogKeeps(wal, last)
    /\ Unacked(wal, synced, last)
    /\ failures \in [Kind -> Nat]

LEMMA NoEntriesTyped == NoEntries \in Content /\ \A k \in Key : NoEntries[k] = Absent
BY EntryIs DEF NoEntries, Content

LEMMA OpenTyped ==
    ASSUME NEW w, LogOK(w), NEW d, NEW m, StorageOpen(w, d, m)
    PROVE  /\ wal' = w /\ disk' = d /\ manifest' = m /\ pc' = "idle" /\ job' = NoJob
           /\ up' \in BOOLEAN /\ mem' \in Content
           /\ up' => mem' = Replay(Intact(w))
<1>1. CASE up' = TRUE /\ mem' = Replay(Intact(w))
  BY <1>1, ReplayTyped DEF StorageOpen
<1>2. CASE up' = FALSE /\ mem' = NoEntries
  BY <1>2, NoEntriesTyped DEF StorageOpen
<1>3. QED
  BY <1>1, <1>2 DEF StorageOpen

\* A counted failure leaves the other kinds' counts alone.
LEMMA FailIs ==
    ASSUME NEW f \in Kind, failures \in [Kind -> Nat], Fail(f)
    PROVE  /\ failures' \in [Kind -> Nat]
           /\ failures'[f] = failures[f] + 1
           /\ \A g \in Kind : g # f => failures'[g] = failures[g]
           /\ \E s \in MayFail : failures[f] < s[f] /\ \A g \in Kind : failures[g] <= s[g]
BY DEF Fail

\* The parts of a write that fails.
TearsLog == wal' = Append(wal, Torn) /\ last' = last

LogsUnacked(k, x) ==
    wal' = Append(wal, [key |-> k, val |-> x]) /\ last' = [last EXCEPT ![k] = Absent]

LEMMA WriteFailsIs ==
    ASSUME NEW k, NEW x, WriteFails(k, x)
    PROVE  /\ TearsLog \/ LogsUnacked(k, x)
           /\ UNCHANGED <<up, mem, synced, disk, manifest, levels, next_num, pc, job>>
           /\ Fail("write")
BY DEF WriteFails, TearsLog, LogsUnacked

\* One more record behind the last fsync.
LEMMA UnackedAfter ==
    ASSUME NEW w, LogOK(w), NEW n \in 0 .. Len(w), NEW x, NEW y,
           NEW e \in Record \cup {Torn}, NEW t, t = Append(w, e),
           Unacked(w, n, x), e # Torn => y[e.key] = Absent,
           \A k \in Key : x[k] = Absent => y[k] = Absent
    PROVE  Unacked(t, n, y)
<1>1. PICK m \in Nat : m = Len(w)
  BY DEF LogOK
<1>2. Len(t) = m + 1 /\ t[m + 1] = e /\ \A i \in 1 .. m : t[i] = w[i]
  BY <1>1, AppendIs DEF LogOK
<1>3. ASSUME SyncWrites, NEW i \in n + 1 .. m + 1, t[i] # Torn PROVE y[t[i].key] = Absent
  <2>1. CASE i = m + 1
    BY <1>2, <1>3, <2>1
  <2>2. CASE i # m + 1
    <3>1. i \in n + 1 .. m /\ i \in 1 .. m
      BY <1>1, <2>2
    <3>2. t[i] = w[i] /\ w[i] # Torn
      BY <1>2, <1>3, <3>1
    <3>3. w[i].key \in Key
      BY <1>1, <3>1, <3>2, RecordIs
    <3>4. x[w[i].key] = Absent
      BY <1>1, <1>3, <3>1, <3>2 DEF Unacked
    <3>5. QED
      BY <3>2, <3>3, <3>4
  <2>3. QED
    BY <2>1, <2>2
<1>4. QED
  BY <1>2, <1>3 DEF Unacked

LEMMA UnackedLater ==
    ASSUME NEW w, NEW x, NEW m \in Nat, NEW n \in Nat, Len(w) \in Nat, m <= n,
           Unacked(w, m, x)
    PROVE  Unacked(w, n, x)
<1>1. \A i \in n + 1 .. Len(w) : i \in m + 1 .. Len(w)
  OBVIOUS
<1>2. QED
  BY <1>1 DEF Unacked

LEMMA UnackedCut ==
    ASSUME NEW w, LogOK(w), NEW n \in 0 .. Len(w), NEW tear \in BOOLEAN, NEW t,
           t = Cut(w, n, tear), NEW x
    PROVE  Unacked(t, n, x)
<1>1. n \in Nat
  BY DEF LogOK
<1>2. Len(t) = n \/ (Len(t) = n + 1 /\ t[n + 1] = Torn)
  BY CutIs
<1>3. ASSUME NEW i \in n + 1 .. Len(t) PROVE t[i] = Torn
  <2>1. Len(t) = n + 1 /\ t[n + 1] = Torn /\ i = n + 1
    BY <1>1, <1>2, <1>3
  <2>2. QED
    BY <2>1
<1>4. QED
  BY <1>3 DEF Unacked

LEMMA WalInit == Init => WalInv
<1> SUFFICES ASSUME Init PROVE WalInv
  OBVIOUS
<1>1. LogOK(wal) /\ Len(wal) = 0 /\ up \in BOOLEAN /\ synced = 0
  BY DEF Init, LogOK
<1>2. mem \in Content /\ last \in Content /\ \A k \in Key : last[k] = Absent
  BY NoEntriesTyped DEF Init
<1>3. Unacked(wal, synced, last)
  BY <1>1 DEF Unacked
<1>4. failures \in [Kind -> Nat]
  BY DEF Init
<1>5. QED
  BY <1>1, <1>2, <1>3, <1>4 DEF WalInv, LogKeeps

LEMMA WalWrite ==
    ASSUME WalInv, NEW k \in Key, NEW x \in Value \cup {Tomb}, Write(k, x)
    PROVE  WalInv'
<1> USE DEF WalInv
<1>1. PICK e : e = [key |-> k, val |-> x]
  OBVIOUS
<1>2. x \in Entry /\ x # Absent
  BY EntryIs
<1>3. e \in Record /\ e # Torn /\ e.key = k /\ e.val = x
  BY <1>1, <1>2, TornIs DEF Record
<1>4. wal' = Append(wal, e)
  BY <1>1 DEF Write
<1>5. e \in Record \cup {Torn}
  BY <1>3
<1>6. /\ LogOK(wal') /\ Newest(wal', k, x)
      /\ \A j, y : Newest(wal, j, y) /\ (e = Torn \/ e.key # j) => Newest(wal', j, y)
  BY <1>3, <1>4, <1>5, NewestAfter
<1>7. mem' \in Content /\ last' \in Content
  BY <1>2 DEF Write, Content
<1>8. last'[k] = x /\ \A j \in Key : j # k => last'[j] = last[j]
  BY DEF Write, Content
<1>9. ASSUME NEW j \in Key, last'[j] # Absent PROVE Newest(wal', j, last'[j])
  <2>1. CASE j = k
    BY <1>6, <1>8, <2>1
  <2>2. CASE j # k
    <3>1. last'[j] = last[j] /\ Newest(wal, j, last[j])
      BY <1>8, <1>9, <2>2 DEF LogKeeps
    <3>2. QED
      BY <1>3, <1>6, <2>2, <3>1
  <2>3. QED
    BY <2>1, <2>2
<1>10. Len(wal') = Len(wal) + 1 /\ Len(wal) \in Nat
  BY <1>4, <1>5, AppendIs DEF LogOK
<1>11. synced' = IF SyncWrites THEN Len(wal) + 1 ELSE synced
  BY DEF Write
<1>12. synced' \in 0 .. Len(wal')
  BY <1>10, <1>11
<1>13. Unacked(wal', synced', last')
  <2>1. CASE SyncWrites
    <3>1. \A i \in synced' + 1 .. Len(wal') : FALSE
      BY <1>10, <1>11, <2>1
    <3>2. QED
      BY <3>1 DEF Unacked
  <2>2. QED
    BY <2>1 DEF Unacked
<1>14. up' \in BOOLEAN /\ failures' = failures
  BY DEF Write
<1>15. QED
  BY <1>6, <1>7, <1>9, <1>12, <1>13, <1>14 DEF LogKeeps

LEMMA WalWriteFails ==
    ASSUME WalInv, NEW k \in Key, NEW x \in Value \cup {Tomb}, WriteFails(k, x)
    PROVE  WalInv'
<1> USE DEF WalInv
<1>1. PICK e \in Record \cup {Torn} :
        /\ wal' = Append(wal, e)
        /\ (e = Torn /\ last' = last) \/
             (e # Torn /\ e.key = k /\ last' = [last EXCEPT ![k] = Absent])
  <2>1. CASE TearsLog
    BY <2>1 DEF TearsLog
  <2>2. CASE LogsUnacked(k, x)
    <3>1. PICK r : r = [key |-> k, val |-> x]
      OBVIOUS
    <3>2. x \in Entry /\ x # Absent
      BY EntryIs
    <3>3. r \in Record /\ r # Torn /\ r.key = k
      BY <3>1, <3>2, TornIs DEF Record
    <3>4. wal' = Append(wal, r) /\ last' = [last EXCEPT ![k] = Absent]
      BY <2>2, <3>1 DEF LogsUnacked
    <3>5. QED
      BY <3>3, <3>4
  <2>3. QED
    BY <2>1, <2>2, WriteFailsIs
<1>2. /\ LogOK(wal')
      /\ \A j, y : Newest(wal, j, y) /\ (e = Torn \/ e.key # j) => Newest(wal', j, y)
  BY <1>1, NewestAfter
<1>3. Len(wal') = Len(wal) + 1 /\ Len(wal) \in Nat
  BY <1>1, AppendIs DEF LogOK
<1>4. up' = up /\ mem' = mem /\ synced' = synced /\ Fail("write")
  BY WriteFailsIs
<1>5. last' \in Content /\ (e # Torn => last'[e.key] = Absent)
      /\ \A j \in Key : last'[j] # Absent => last'[j] = last[j] /\ (e = Torn \/ e.key # j)
  <2>1. CASE e = Torn /\ last' = last
    BY <2>1
  <2>2. CASE e # Torn /\ e.key = k /\ last' = [last EXCEPT ![k] = Absent]
    BY <2>2, EntryIs DEF Content
  <2>3. QED
    BY <1>1, <2>1, <2>2
<1>6. ASSUME NEW j \in Key, last'[j] # Absent PROVE Newest(wal', j, last'[j])
  <2>1. last'[j] = last[j] /\ (e = Torn \/ e.key # j)
    BY <1>5, <1>6
  <2>2. Newest(wal, j, last[j])
    BY <1>6, <2>1 DEF LogKeeps
  <2>3. QED
    BY <1>2, <2>1, <2>2
<1>7. synced' \in 0 .. Len(wal')
  BY <1>3, <1>4
<1>8. Unacked(wal', synced', last')
  <2>1. \A j \in Key : last[j] = Absent => last'[j] = Absent
    BY <1>5
  <2>2. Unacked(wal', synced, last')
    BY <1>1, <1>5, <2>1, UnackedAfter
  <2>3. QED
    BY <1>4, <2>2
<1>9. failures' \in [Kind -> Nat]
  BY <1>4, FailIs DEF Kind
<1>10. QED
  BY <1>2, <1>4, <1>5, <1>6, <1>7, <1>8, <1>9 DEF LogKeeps

LEMMA WalFlushDone ==
    ASSUME WalInv, FlushDone
    PROVE  WalInv'
<1>1. /\ up' = up /\ mem' = NoEntries /\ wal' = wal /\ synced' = Len(wal)
      /\ last' = last /\ failures' = failures
  BY DEF FlushDone
<1>2. synced' \in 0 .. Len(wal') /\ \A i \in synced' + 1 .. Len(wal') : FALSE
  BY <1>1 DEF WalInv, LogOK
<1>3. Unacked(wal', synced', last')
  BY <1>2 DEF Unacked
<1>4. QED
  BY <1>1, <1>2, <1>3, NoEntriesTyped DEF WalInv

LEMMA WalRestart ==
    ASSUME WalInv, Restart
    PROVE  WalInv'
<1>1. StorageOpen(wal, disk, manifest) /\ last' = last
      /\ synced' \in IF pc = "idle" THEN {synced, Len(wal)} ELSE {synced}
  BY DEF Restart
<1>2. wal' = wal /\ up' \in BOOLEAN /\ mem' \in Content
  BY <1>1, OpenTyped DEF WalInv
<1>3. synced' \in 0 .. Len(wal') /\ synced <= synced' /\ synced \in Nat
  BY <1>1, <1>2 DEF WalInv, LogOK
<1>4. Unacked(wal', synced', last')
  <2>1. Len(wal) \in Nat /\ synced \in Nat /\ synced' \in Nat /\ synced <= synced'
    BY <1>2, <1>3 DEF WalInv, LogOK
  <2>2. Unacked(wal, synced', last)
    BY <2>1, UnackedLater DEF WalInv
  <2>3. QED
    BY <1>1, <1>2, <2>2
<1>5. failures' \in [Kind -> Nat]
  BY FailIs DEF Kind, Restart, WalInv
<1>6. QED
  BY <1>1, <1>2, <1>3, <1>4, <1>5 DEF WalInv

\* The parts of a power loss.
LEMMA PowerIs ==
    ASSUME PowerLoss
    PROVE  \E n \in synced .. Len(wal), tear \in BOOLEAN,
              lost \in SUBSET {f \in File : Readable(disk, f)} :
             \E m \in {NoFile} \cup
                      IF manifest = NoFile THEN {}
                      ELSE {SubSeq(manifest, 1, i) : i \in 0 .. Len(manifest)} :
               /\ StorageOpen(Cut(wal, n, tear),
                              [f \in File |-> IF f \in lost THEN Garbage ELSE disk[f]], m)
               /\ synced' = n
               /\ last' = [k \in Key |->
                            IF \E i \in n + 1 .. Len(wal) : wal[i] # Torn /\ wal[i].key = k
                              THEN Absent ELSE last[k]]
BY Zenon DEF PowerLoss, Cut

LEMMA WalPowerLoss ==
    ASSUME WalInv, PowerLoss
    PROVE  WalInv'
<1> USE DEF WalInv
<1>0. PICK n \in synced .. Len(wal), tear \in BOOLEAN : \E d, m :
        /\ StorageOpen(Cut(wal, n, tear), d, m)
        /\ synced' = n
        /\ last' = [k \in Key |->
                      IF \E i \in n + 1 .. Len(wal) : wal[i] # Torn /\ wal[i].key = k
                        THEN Absent ELSE last[k]]
  BY PowerIs, Zenon
<1>1. PICK d, m :
        /\ StorageOpen(Cut(wal, n, tear), d, m)
        /\ synced' = n
        /\ last' = [k \in Key |->
                      IF \E i \in n + 1 .. Len(wal) : wal[i] # Torn /\ wal[i].key = k
                        THEN Absent ELSE last[k]]
  BY <1>0, Zenon
<1>2. PICK t : t = Cut(wal, n, tear)
  OBVIOUS
<1>3. n \in 0 .. Len(wal)
  BY DEF LogOK
<1>4. LogOK(t) /\ n <= Len(t)
  BY <1>2, <1>3, CutIs
<1>5. wal' = t /\ up' \in BOOLEAN /\ mem' \in Content
  BY <1>1, <1>2, <1>4, OpenTyped
<1>6. ASSUME NEW k \in Key
      PROVE  last'[k] \in Entry /\ (last'[k] # Absent =>
               /\ last'[k] = last[k]
               /\ ~ \E i \in n + 1 .. Len(wal) : wal[i] # Torn /\ wal[i].key = k)
  <2>1. last[k] \in Entry
    BY DEF Content
  <2>2. last'[k] = IF \E i \in n + 1 .. Len(wal) : wal[i] # Torn /\ wal[i].key = k
                     THEN Absent ELSE last[k]
    BY <1>1
  <2>3. QED
    BY <2>1, <2>2, EntryIs
<1>7. last' \in Content
  <2>1. DOMAIN last' = Key /\ last' = [k \in Key |-> last'[k]]
    BY <1>1
  <2>2. QED
    BY <1>6, <2>1 DEF Content
<1>8. ASSUME NEW k \in Key, last'[k] # Absent PROVE Newest(t, k, last'[k])
  <2>1. last'[k] = last[k] /\ ~ \E i \in n + 1 .. Len(wal) : wal[i] # Torn /\ wal[i].key = k
    BY <1>6, <1>8
  <2>2. Newest(wal, k, last[k])
    BY <1>8, <2>1 DEF LogKeeps
  <2>3. Newest(t, k, last[k])
    BY <1>2, <1>3, <2>1, <2>2, CutNewest
  <2>4. QED
    BY <2>1, <2>3
<1>9. LogKeeps(wal', last')
  BY <1>5, <1>8 DEF LogKeeps
<1>10. synced' \in 0 .. Len(wal')
  BY <1>1, <1>3, <1>4, <1>5 DEF LogOK
<1>11. Unacked(wal', synced', last')
  <2>1. Unacked(t, n, last')
    BY <1>2, <1>3, UnackedCut
  <2>2. QED
    BY <1>1, <1>5, <2>1
<1>12. failures' \in [Kind -> Nat]
  BY FailIs DEF Kind, PowerLoss
<1>13. QED
  BY <1>4, <1>5, <1>7, <1>9, <1>10, <1>11, <1>12

\* What the other actions leave alone.
NotLogged(f) ==
    /\ UNCHANGED <<up, mem, wal, synced, last>>
    /\ UNCHANGED failures \/ Fail(f)

LEMMA WalNotLogged ==
    ASSUME WalInv, NEW f \in Kind, NotLogged(f)
    PROVE  WalInv'
<1>1. failures' \in [Kind -> Nat]
  BY FailIs DEF NotLogged, WalInv
<1>2. QED
  BY <1>1 DEF NotLogged, WalInv

\* The steps of the engine other than writes, the end of a flush and restarts.
TableStep ==
    \/ FlushWrite \/ FlushFails \/ FlushOpenFails \/ FlushAdd \/ FlushNext
    \/ Compact \/ CompactMisses \/ CompactFails \/ CompactUnlink
    \/ CompactAdd \/ CompactOpenFails

LEMMA NextIs ==
    ASSUME [Next]_vars
    PROVE  \/ \E k \in Key, x \in Value \cup {Tomb} : Write(k, x)
           \/ \E k \in Key, x \in Value \cup {Tomb} : WriteFails(k, x)
           \/ TableStep \/ FlushDone \/ Restart \/ PowerLoss \/ UNCHANGED vars
BY DEF Next, TableStep

LEMMA TableStepIs ==
    ASSUME TableStep \/ UNCHANGED vars
    PROVE  \E f \in {"table", "read", "open"} : NotLogged(f)
<1>1. CASE FlushWrite \/ FlushAdd \/ FlushNext \/ Compact \/ CompactUnlink \/ CompactAdd
           \/ UNCHANGED vars
  <2>1. UNCHANGED <<up, mem, wal, synced, last, failures>>
    BY <1>1 DEF FlushWrite, FlushAdd, FlushNext, Compact, CompactLevel, CompactUnlink,
                CompactAdd, vars
  <2>2. QED
    BY <2>1 DEF NotLogged
<1>2. CASE FlushFails \/ CompactFails
  BY <1>2 DEF FlushFails, CompactFails, WriterFails, NotLogged
<1>3. CASE CompactMisses
  BY <1>3 DEF CompactMisses, CompactLevel, NotLogged
<1>4. CASE FlushOpenFails \/ CompactOpenFails
  BY <1>4 DEF FlushOpenFails, CompactOpenFails, NotLogged
<1>5. QED
  BY <1>1, <1>2, <1>3, <1>4 DEF TableStep

LEMMA WalNext == WalInv /\ [Next]_vars => WalInv'
<1> SUFFICES ASSUME WalInv, [Next]_vars PROVE WalInv'
  OBVIOUS
<1>1. CASE \E k \in Key, x \in Value \cup {Tomb} : Write(k, x)
  BY <1>1, WalWrite
<1>2. CASE \E k \in Key, x \in Value \cup {Tomb} : WriteFails(k, x)
  BY <1>2, WalWriteFails
<1>3. CASE TableStep \/ UNCHANGED vars
  BY <1>3, TableStepIs, WalNotLogged DEF Kind
<1>4. CASE FlushDone
  BY <1>4, WalFlushDone
<1>5. CASE Restart
  BY <1>5, WalRestart
<1>6. CASE PowerLoss
  BY <1>6, WalPowerLoss
<1>7. QED
  BY <1>1, <1>2, <1>3, <1>4, <1>5, <1>6, NextIs

\* Only storage_open reopens the engine.
LEMMA ReopenedIs == WalInv /\ [Next]_vars /\ Reopened => Restart \/ PowerLoss
<1> SUFFICES ASSUME WalInv, [Next]_vars, Reopened, ~Restart, ~PowerLoss PROVE FALSE
  OBVIOUS
<1>1. failures \in [Kind -> Nat]
  BY DEF WalInv
<1>2. ASSUME NEW f \in {"write", "table", "read", "open"}, UNCHANGED failures \/ Fail(f)
      PROVE  FALSE
  <2>1. f \in Kind /\ "restart" \in Kind /\ "power" \in Kind
        /\ f # "restart" /\ f # "power"
    BY DEF Kind
  <2>2. failures'["restart"] = failures["restart"] /\ failures'["power"] = failures["power"]
    BY <1>1, <1>2, <2>1, FailIs
  <2>3. QED
    BY <2>2 DEF Reopened
<1>3. CASE TableStep \/ UNCHANGED vars
  BY <1>2, <1>3, TableStepIs DEF NotLogged
<1>4. CASE \E k \in Key, x \in Value \cup {Tomb} : WriteFails(k, x)
  BY <1>2, <1>4, WriteFailsIs
<1>5. CASE (\E k \in Key, x \in Value \cup {Tomb} : Write(k, x)) \/ FlushDone
  BY <1>2, <1>5 DEF Write, FlushDone
<1>6. QED
  BY <1>3, <1>4, <1>5, NextIs

\* The log alone brings every put back.
LEMMA Restores ==
    ASSUME WalInv, [Next]_vars, Reopened, up', WholeLog,
           NEW k \in Key, last'[k] \in Value
    PROVE  StorageGet(k)' = last'[k]
<1>1. WalInv'
  BY WalNext
<1>2. TornLast(wal)
  BY WholeIs DEF WholeLog, WalInv
<1>3. TornLast(wal') /\ mem' = Replay(Intact(wal'))
  <2>1. CASE Restart
    <3>1. StorageOpen(wal, disk, manifest)
      BY <2>1 DEF Restart
    <3>2. wal' = wal /\ (up' => mem' = Replay(Intact(wal)))
      BY <3>1, OpenTyped DEF WalInv
    <3>3. QED
      BY <1>2, <3>2
  <2>2. CASE PowerLoss
    <3>0. PICK n \in synced .. Len(wal), tear \in BOOLEAN : \E d, m :
             StorageOpen(Cut(wal, n, tear), d, m)
      BY <2>2, PowerIs, Zenon
    <3>1. PICK d, m : StorageOpen(Cut(wal, n, tear), d, m)
      BY <3>0
    <3>2. PICK t : t = Cut(wal, n, tear)
      OBVIOUS
    <3>3. n \in 0 .. Len(wal) /\ LogOK(wal)
      BY DEF LogOK, WalInv
    <3>4. LogOK(t) /\ TornLast(t)
      BY <1>2, <3>2, <3>3, CutIs, CutTornLast
    <3>5. wal' = t /\ (up' => mem' = Replay(Intact(t)))
      BY <3>1, <3>2, <3>4, OpenTyped
    <3>6. QED
      BY <3>4, <3>5
  <2>3. QED
    BY <2>1, <2>2, ReopenedIs
<1>4. last'[k] # Absent
  BY EntryIs
<1>5. Newest(wal', k, last'[k]) /\ LogOK(wal')
  BY <1>1, <1>4 DEF WalInv, LogKeeps
<1>6. mem'[k] = last'[k]
  BY <1>3, <1>5, ReplayNewest
<1>7. StorageGet(k)' = IF mem'[k] \in Value THEN mem'[k]
                       ELSE IF LevelGet(k)' = Tomb THEN Absent ELSE LevelGet(k)'
  BY DEF StorageGet
<1>8. QED
  BY <1>6, <1>7

\* With sync_writes no acknowledged write is forgotten.
LEMMA Remembers ==
    ASSUME WalInv, [Next]_vars, Reopened, SyncWrites, NEW k \in Key, last[k] # Absent
    PROVE  last'[k] = last[k]
<1>1. CASE Restart
  BY <1>1 DEF Restart
<1>2. CASE PowerLoss
  <2>1. PICK n \in synced .. Len(wal) :
          last' = [j \in Key |->
                     IF \E i \in n + 1 .. Len(wal) : wal[i] # Torn /\ wal[i].key = j
                       THEN Absent ELSE last[j]]
    BY <1>2, PowerIs, Zenon
  <2>2. ASSUME NEW i \in n + 1 .. Len(wal), wal[i] # Torn, wal[i].key = k PROVE FALSE
    <3>1. i \in synced + 1 .. Len(wal)
      BY DEF WalInv, LogOK
    <3>2. last[wal[i].key] = Absent
      BY <2>2, <3>1 DEF WalInv, Unacked
    <3>3. QED
      BY <2>2, <3>2
  <2>3. QED
    BY <2>1, <2>2
<1>3. QED
  BY <1>1, <1>2, ReopenedIs

\* Whatever the sizes, and however often and wherever in a flush or a compaction the
\* process or the machine stops and a write, an fsync, a table or a read fails:
\* storage_open gives back every key whose last write was a put (with sync_writes the
\* last acknowledged one, without it the last one whose record was not lost), unless
\* the log goes on behind a record that was not written whole.
THEOREM RestartsRestore == Spec => RestartRestores
<1>1. Spec => []WalInv
  BY WalInit, WalNext, PTL DEF Spec
<1>2. ASSUME WalInv, [Next]_vars, Reopened, up', WholeLog,
             NEW k \in Key, Promised(k) \in Value
      PROVE  StorageGet(k)' = Promised(k)
  <2>1. Promised(k) = last'[k]
    <3>1. CASE SyncWrites
      <4>1. Promised(k) = last[k] /\ last[k] # Absent
        BY <1>2, <3>1, EntryIs DEF Promised
      <4>2. QED
        BY <1>2, <3>1, <4>1, Remembers
    <3>2. CASE ~SyncWrites
      BY <3>2 DEF Promised
    <3>3. QED
      BY <3>1, <3>2
  <2>2. QED
    BY <1>2, <2>1, Restores
<1>3. WalInv /\ [Next]_vars =>
        [Reopened /\ up' /\ WholeLog =>
           \A k \in Key : Promised(k) \in Value => StorageGet(k)' = Promised(k)]_vars
  BY <1>2
<1>4. QED
  BY <1>1, <1>3, PTL DEF Spec, RestartRestores

-----------------------------------------------------------------------------
(* The levels. *)

\* Every file of a list is whole; the list is sorted and its files do not overlap.
WholeIn(s, d) == \A i \in DOMAIN s : d[s[i]] \in Content

SortedIn(s, d) == \A i, j \in DOMAIN s : i < j => Precedes(d[s[i]], d[s[j]])

\* The levels ls over the files d, of which the numbers from nn on are free: each file
\* is listed once and is whole, and every level below L0 is sorted.
Stack(ls, d, nn) ==
    /\ ls \in [Level -> Seq(File)]
    /\ \A l, m \in Level : \A i \in DOMAIN ls[l], j \in DOMAIN ls[m] :
          ls[l][i] = ls[m][j] => l = m /\ i = j
    /\ \A l \in Level : WholeIn(ls[l], d)
    /\ \A l \in Level : \A i \in DOMAIN ls[l] : ls[l][i] < nn
    /\ \A l \in Level \ {0} : SortedIn(ls[l], d)

LEMMA LevelIs == Level \subseteq Nat /\ 0 \in Level /\ MaxLevels \in Nat /\ MaxLevels > 1
BY LsmAssumption DEF Level

LEMMA FileIs == File = 1 .. MaxFile /\ MaxFile \in Nat
BY LsmAssumption DEF File

\* x is what the files of the list s say of key k, at most one of which has it.
Sole(s, d, k, x) ==
    /\ \A i \in DOMAIN s : d[s[i]][k] # Absent => x = d[s[i]][k]
    /\ (\A i \in DOMAIN s : d[s[i]][k] = Absent) => x = Absent

\* x is what the last file of the list that has the key says of it.
LastWith(s, d, k, x) ==
    \/ x = Absent /\ \A i \in DOMAIN s : d[s[i]][k] = Absent
    \/ \E i \in DOMAIN s : /\ d[s[i]][k] = x /\ x # Absent
                           /\ \A j \in DOMAIN s : j > i => d[s[j]][k] = Absent

\* level_get in L0 and in a level below, of a list of files.
NewestIn(s, d, k) ==
    LET hits == {i \in DOMAIN s : d[s[i]][k] # Absent}
    IN  IF hits = {} THEN Absent
        ELSE d[s[CHOOSE i \in hits : \A j \in hits : i >= j]][k]

DeeperIn(s, d, k) ==
    LET n == Len(s)
        i == FirstNotBelow(n, {j \in 0 .. n - 1 : MaxKey(d[s[j + 1]]) < k})
    IN  IF i < n THEN d[s[i + 1]][k] ELSE Absent

LEMMA GreatestIn ==
    ASSUME NEW S, NEW s \in Seq(S), NEW T \in SUBSET (DOMAIN s), T # {}, NEW p,
           p = CHOOSE i \in T : \A j \in T : i >= j
    PROVE  p \in T /\ \A j \in T : j <= p
<1>1. DOMAIN s = 1 .. Len(s) /\ Len(s) \in Nat
  OBVIOUS
<1>2. T \in SUBSET Nat /\ \A x \in T : x <= Len(s)
  BY <1>1
<1>3. \E m \in T : \A y \in T : y <= m
  BY <1>1, <1>2, GreatestNat
<1>4. \E m \in T : \A y \in T : m >= y
  BY <1>2, <1>3
<1>5. p \in T /\ \A j \in T : p >= j
  BY <1>4, Zenon
<1>6. QED
  BY <1>2, <1>5

LEMMA NewestInIs ==
    ASSUME NEW s \in Seq(File), NEW d, WholeIn(s, d), NEW k \in Key
    PROVE  NewestIn(s, d, k) \in Entry /\ LastWith(s, d, k, NewestIn(s, d, k))
<1> DEFINE hits == {i \in DOMAIN s : d[s[i]][k] # Absent}
<1>1. CASE hits = {}
  <2>1. NewestIn(s, d, k) = Absent
    BY <1>1 DEF NewestIn
  <2>2. \A i \in DOMAIN s : d[s[i]][k] = Absent
    BY <1>1
  <2>3. QED
    BY <2>1, <2>2, EntryIs DEF LastWith
<1>2. CASE hits # {}
  <2>1. PICK p : p = CHOOSE i \in hits : \A j \in hits : i >= j
    OBVIOUS
  <2>2. p \in hits /\ \A j \in hits : j <= p
    BY <1>2, <2>1, GreatestIn
  <2>3. NewestIn(s, d, k) = d[s[p]][k]
    BY <1>2, <2>1 DEF NewestIn
  <2>4. p \in DOMAIN s /\ d[s[p]][k] # Absent /\ d[s[p]][k] \in Entry
    BY <2>2 DEF WholeIn, Content
  <2>5. ASSUME NEW j \in DOMAIN s, j > p PROVE d[s[j]][k] = Absent
    <3>1. j \in Nat /\ p \in Nat
      BY <2>4
    <3>2. ~(j <= p)
      BY <2>5, <3>1
    <3>3. QED
      BY <2>2, <3>2
  <2>6. QED
    BY <2>3, <2>4, <2>5 DEF LastWith
<1>3. QED
  BY <1>1, <1>2

LEMMA LastWithUnique ==
    ASSUME NEW s \in Seq(File), NEW d, NEW k, NEW x, NEW y,
           LastWith(s, d, k, x), LastWith(s, d, k, y)
    PROVE  x = y
<1>1. CASE \A i \in DOMAIN s : d[s[i]][k] = Absent
  BY <1>1 DEF LastWith
<1>2. CASE ~ \A i \in DOMAIN s : d[s[i]][k] = Absent
  <2>1. PICK i \in DOMAIN s : /\ d[s[i]][k] = x /\ x # Absent
                              /\ \A j \in DOMAIN s : j > i => d[s[j]][k] = Absent
    BY <1>2 DEF LastWith
  <2>2. PICK h \in DOMAIN s : /\ d[s[h]][k] = y /\ y # Absent
                              /\ \A j \in DOMAIN s : j > h => d[s[j]][k] = Absent
    BY <1>2 DEF LastWith
  <2>3. ~(i > h) /\ ~(h > i)
    BY <2>1, <2>2
  <2>4. i = h
    BY <2>3
  <2>5. QED
    BY <2>1, <2>2, <2>4
<1>3. QED
  BY <1>1, <1>2

LEMMA SoleUnique ==
    ASSUME NEW s, NEW d, NEW k, NEW x, NEW y, Sole(s, d, k, x), Sole(s, d, k, y)
    PROVE  x = y
BY DEF Sole

\* In a sorted list no two files have the same key.
LEMMA SortedApart ==
    ASSUME NEW s \in Seq(File), NEW d, SortedIn(s, d), NEW k \in Key,
           NEW i \in DOMAIN s, NEW j \in DOMAIN s,
           d[s[i]][k] # Absent, d[s[j]][k] # Absent
    PROVE  i = j
<1>1. k \in Keys(d[s[i]]) /\ k \in Keys(d[s[j]]) /\ k \in Nat
  BY KeyIs DEF Keys
<1>2. ASSUME NEW a \in DOMAIN s, NEW b \in DOMAIN s, a < b,
             k \in Keys(d[s[a]]), k \in Keys(d[s[b]])
      PROVE  FALSE
  <2>1. Precedes(d[s[a]], d[s[b]])
    BY <1>2 DEF SortedIn
  <2>2. k < k
    BY <1>2, <2>1, PrecedesKeys
  <2>3. QED
    BY <1>1, <2>2
<1>3. ~(i < j) /\ ~(j < i)
  BY <1>1, <1>2
<1>4. QED
  BY <1>3

\* The binary search of level_get finds the file that has the key.
LEMMA DeeperInIs ==
    ASSUME NEW s \in Seq(File), NEW d, WholeIn(s, d), SortedIn(s, d), NEW k \in Key
    PROVE  DeeperIn(s, d, k) \in Entry /\ Sole(s, d, k, DeeperIn(s, d, k))
<1>0. PICK n \in Nat : n = Len(s) /\ DOMAIN s = 1 .. n
  OBVIOUS
<1> DEFINE below == {j \in 0 .. n - 1 : MaxKey(d[s[j + 1]]) < k}
<1>1. PICK p : p = FirstNotBelow(n, below)
  OBVIOUS
<1>2. DeeperIn(s, d, k) = IF p < n THEN d[s[p + 1]][k] ELSE Absent
  BY <1>0, <1>1 DEF DeeperIn
<1>3. Stops(0, n, p, below)
  BY <1>1, FirstNotBelowStops
<1>4. p \in 0 .. n /\ (p = 0 \/ p - 1 \in below) /\ (p = n \/ p \notin below)
  BY <1>3 DEF Stops
<1>5. k \in Nat
  BY KeyIs
<1>6. ASSUME NEW q \in 1 .. n, d[s[q]][k] # Absent PROVE q = p + 1
  <2>1. k \in Keys(d[s[q]])
    BY <1>6 DEF Keys
  <2>2. MinKey(d[s[q]]) <= k /\ k <= MaxKey(d[s[q]])
        /\ MinKey(d[s[q]]) \in Nat /\ MaxKey(d[s[q]]) \in Nat
    BY <2>1, MinKeyIs, MaxKeyIs
  <2>3. ASSUME q <= p PROVE FALSE
    <3>1. p # 0 /\ p \in 1 .. n
      BY <1>4, <2>3
    <3>2. p - 1 \in below
      BY <1>4, <3>1
    <3>3. (p - 1) + 1 = p
      BY <3>1
    <3>4. MaxKey(d[s[p]]) < k
      BY <3>2, <3>3
    <3>5. q # p
      BY <1>5, <2>2, <3>4
    <3>6. q < p
      BY <2>3, <3>1, <3>5
    <3>7. Precedes(d[s[q]], d[s[p]])
      BY <1>0, <3>1, <3>6 DEF SortedIn
    <3>8. MaxKey(d[s[q]]) <= MaxKey(d[s[p]]) /\ MaxKey(d[s[p]]) \in Nat
      BY <3>7, PrecedesKeys, MaxKeyIs
    <3>9. QED
      BY <1>5, <2>2, <3>4, <3>8
  <2>4. ASSUME q > p + 1 PROVE FALSE
    <3>1. p # n /\ p + 1 \in 1 .. n /\ p \in 0 .. n - 1
      BY <1>4, <2>4
    <3>2. p \notin below
      BY <1>4, <3>1
    <3>3. ~(MaxKey(d[s[p + 1]]) < k)
      BY <3>1, <3>2
    <3>4. p + 1 < q
      BY <1>4, <2>4
    <3>5. Precedes(d[s[p + 1]], d[s[q]])
      BY <1>0, <3>1, <3>4 DEF SortedIn
    <3>6. MaxKey(d[s[p + 1]]) < MinKey(d[s[q]]) /\ MaxKey(d[s[p + 1]]) \in Nat
      BY <2>1, <3>5, PrecedesKeys, MaxKeyIs
    <3>7. QED
      BY <1>5, <2>2, <3>3, <3>6
  <2>5. QED
    BY <1>4, <2>3, <2>4
<1>7. CASE p < n
  <2>1. p + 1 \in 1 .. n
    BY <1>4, <1>7
  <2>2. DeeperIn(s, d, k) = d[s[p + 1]][k]
    BY <1>2, <1>7
  <2>3. d[s[p + 1]][k] \in Entry
    BY <1>0, <2>1 DEF WholeIn, Content
  <2>4. \A i \in 1 .. n : d[s[i]][k] # Absent => i = p + 1
    BY <1>6
  <2>5. QED
    BY <1>0, <2>1, <2>2, <2>3, <2>4 DEF Sole
<1>8. CASE ~(p < n)
  <2>1. DeeperIn(s, d, k) = Absent
    BY <1>2, <1>8
  <2>2. \A i \in 1 .. n : d[s[i]][k] = Absent
    BY <1>4, <1>6, <1>8
  <2>3. QED
    BY <1>0, <2>1, <2>2, EntryIs DEF Sole
<1>9. QED
  BY <1>7, <1>8

-----------------------------------------------------------------------------
(* Reads. *)

\* y is the first entry of w, which has one for each level, that is not Absent.
Leads(w, y) ==
    \/ y = Absent /\ \A m \in Level : w[m] = Absent
    \/ \E m \in Level : /\ w[m] = y /\ y # Absent
                        /\ \A j \in Level : j < m => w[j] = Absent

\* x is what level m says of k.
FoundIs(ls, d, m, k, x) == IF m = 0 THEN LastWith(ls[0], d, k, x) ELSE Sole(ls[m], d, k, x)

FoundIn(ls, d, m, k) == IF m = 0 THEN NewestIn(ls[0], d, k) ELSE DeeperIn(ls[m], d, k)

\* level_get over given levels and files.
LevelRead(ls, d, k) ==
    LET hits == {l \in Level : FoundIn(ls, d, l, k) # Absent}
    IN  IF hits = {} THEN Absent
        ELSE FoundIn(ls, d, CHOOSE l \in hits : \A m \in hits : l <= m, k)

\* storage_get, of a key for which the memtable has x and the levels y.
Answer(x, y) == IF x \in Value THEN x ELSE IF y = Tomb THEN Absent ELSE y

LEMMA NewestWithIs ==
    ASSUME NEW k
    PROVE  /\ NewestWith(k) = NewestIn(levels[0], disk, k)
           /\ NewestWith(k)' = NewestIn(levels'[0], disk', k)
<1>1. NewestWith(k) = NewestIn(levels[0], disk, k)
  BY DEF NewestWith, NewestIn
<1>2. NewestWith(k)' = NewestIn(levels'[0], disk', k)
  BY DEF NewestWith, NewestIn
<1>3. QED
  BY <1>1, <1>2

LEMMA LevelGetIs ==
    ASSUME NEW k
    PROVE  /\ LevelGet(k) = LevelRead(levels, disk, k)
           /\ LevelGet(k)' = LevelRead(levels', disk', k)
<1>1. LevelGet(k) = LevelRead(levels, disk, k)
  BY Zenon DEF LevelGet, LevelRead, FoundIn, NewestWith, NewestIn, DeeperWith, DeeperIn, At
<1>2. LevelGet(k)' = LevelRead(levels', disk', k)
  BY Zenon DEF LevelGet, LevelRead, FoundIn, NewestWith, NewestIn, DeeperWith, DeeperIn, At
<1>3. QED
  BY <1>1, <1>2

LEMMA StorageGetIs ==
    ASSUME NEW k
    PROVE  /\ StorageGet(k) = Answer(mem[k], LevelRead(levels, disk, k))
           /\ StorageGet(k)' = Answer(mem'[k], LevelRead(levels', disk', k))
<1>1. StorageGet(k) = Answer(mem[k], LevelGet(k))
  BY DEF StorageGet, Answer
<1>2. StorageGet(k)' = Answer(mem'[k], LevelGet(k)')
  BY DEF StorageGet, Answer
<1>3. QED
  BY <1>1, <1>2, LevelGetIs, Zenon

LEMMA LeadsUnique ==
    ASSUME NEW w, NEW y, NEW z, Leads(w, y), Leads(w, z)
    PROVE  y = z
<1>1. CASE \A m \in Level : w[m] = Absent
  BY <1>1 DEF Leads
<1>2. CASE ~ \A m \in Level : w[m] = Absent
  <2>1. PICK a \in Level : w[a] = y /\ y # Absent /\ \A j \in Level : j < a => w[j] = Absent
    BY <1>2 DEF Leads
  <2>2. PICK b \in Level : w[b] = z /\ z # Absent /\ \A j \in Level : j < b => w[j] = Absent
    BY <1>2 DEF Leads
  <2>3. ~(a < b) /\ ~(b < a)
    BY <2>1, <2>2
  <2>4. a = b
    BY <2>3, LevelIs
  <2>5. QED
    BY <2>1, <2>2, <2>4
<1>3. QED
  BY <1>1, <1>2

\* What level_get does.
LEMMA ReadIs ==
    ASSUME NEW ls, NEW d, NEW nn, Stack(ls, d, nn), NEW k \in Key
    PROVE  \E w \in [Level -> Entry] :
              /\ \A m \in Level : FoundIs(ls, d, m, k, w[m])
              /\ Leads(w, LevelRead(ls, d, k))
<1>1. ASSUME NEW m \in Level
      PROVE  FoundIn(ls, d, m, k) \in Entry /\ FoundIs(ls, d, m, k, FoundIn(ls, d, m, k))
  <2>1. ls[m] \in Seq(File) /\ WholeIn(ls[m], d)
    BY DEF Stack
  <2>2. CASE m = 0
    BY <2>1, <2>2, NewestInIs DEF FoundIn, FoundIs
  <2>3. CASE m # 0
    <3>1. SortedIn(ls[m], d)
      BY <2>3 DEF Stack
    <3>2. QED
      BY <2>1, <2>3, <3>1, DeeperInIs DEF FoundIn, FoundIs
  <2>4. QED
    BY <2>2, <2>3
<1>2. PICK w : w = [m \in Level |-> FoundIn(ls, d, m, k)]
  OBVIOUS
<1>3. w \in [Level -> Entry] /\ \A m \in Level : w[m] = FoundIn(ls, d, m, k)
  BY <1>1, <1>2
<1>4. \A m \in Level : FoundIs(ls, d, m, k, w[m])
  BY <1>1, <1>3
<1>5. Leads(w, LevelRead(ls, d, k))
  <2> DEFINE hits == {l \in Level : FoundIn(ls, d, l, k) # Absent}
  <2>1. CASE hits = {}
    <3>1. LevelRead(ls, d, k) = Absent
      BY <2>1 DEF LevelRead
    <3>2. QED
      BY <1>3, <2>1, <3>1 DEF Leads
  <2>2. CASE hits # {}
    <3>1. hits \in SUBSET Nat
      BY LevelIs
    <3>2. \E l \in hits : \A m \in hits : l <= m
      BY <2>2, <3>1, LeastNat
    <3>3. PICK p : p = CHOOSE l \in hits : \A m \in hits : l <= m
      OBVIOUS
    <3>4. p \in hits /\ \A m \in hits : p <= m
      BY <3>2, <3>3, Zenon
    <3>5. LevelRead(ls, d, k) = FoundIn(ls, d, p, k)
      BY <2>2, <3>3 DEF LevelRead
    <3>6. p \in Level /\ w[p] = FoundIn(ls, d, p, k) /\ FoundIn(ls, d, p, k) # Absent
      BY <1>3, <3>4
    <3>7. ASSUME NEW j \in Level, j < p PROVE w[j] = Absent
      <4>1. ~(p <= j)
        BY <3>6, <3>7, LevelIs
      <4>2. j \notin hits
        BY <3>4, <4>1
      <4>3. QED
        BY <1>3, <4>2
    <3>8. QED
      BY <3>5, <3>6, <3>7 DEF Leads
  <2>3. QED
    BY <2>1, <2>2
<1>6. QED
  BY <1>3, <1>4, <1>5

\* What is said of each level determines the answer.
LEMMA ReadUnique ==
    ASSUME NEW ls, NEW d, NEW nn, Stack(ls, d, nn), NEW k \in Key, NEW w \in [Level -> Entry],
           \A m \in Level : FoundIs(ls, d, m, k, w[m]), NEW y, Leads(w, y)
    PROVE  LevelRead(ls, d, k) = y
<1>1. PICK v \in [Level -> Entry] : /\ \A m \in Level : FoundIs(ls, d, m, k, v[m])
                                    /\ Leads(v, LevelRead(ls, d, k))
  BY ReadIs
<1>2. ASSUME NEW m \in Level PROVE v[m] = w[m]
  <2>1. ls[m] \in Seq(File)
    BY DEF Stack
  <2>2. FoundIs(ls, d, m, k, v[m]) /\ FoundIs(ls, d, m, k, w[m])
    BY <1>1
  <2>3. CASE m = 0
    BY <2>1, <2>2, <2>3, LastWithUnique DEF FoundIs
  <2>4. CASE m # 0
    BY <2>2, <2>4, SoleUnique DEF FoundIs
  <2>5. QED
    BY <2>3, <2>4
<1>3. v = w
  BY <1>1, <1>2
<1>4. QED
  BY <1>1, <1>3, LeadsUnique

-----------------------------------------------------------------------------
(* manifest_recover. *)

Disks == [File -> Content \cup {Garbage, NoFile}]

Note == [type : {"ADD", "NEXT"}, num : 1 .. MaxFile + 1]

\* A manifest adds files in the order of their numbers.
Ordered(m) ==
    /\ m \in Seq(Note)
    /\ \A i, j \in DOMAIN m : i < j /\ m[i].type = "ADD" => m[i].num < m[j].num

Tops == [l0 : Seq(File), next : 1 .. MaxFile + 1]

\* L0 lists whole files, each once, and the next number is above theirs.
TopOK(s, d) ==
    /\ Unique(s.l0)
    /\ \A j \in DOMAIN s.l0 : d[s.l0[j]] \in Content /\ s.l0[j] < s.next

\* Each file of s.l0 has an ADD_FILE among the first n records.
Logs(m, n, s) ==
    \A j \in DOMAIN s.l0 : \E h \in 1 .. n : m[h].type = "ADD" /\ m[h].num = s.l0[j]

LEMMA ReadableIs ==
    ASSUME NEW d \in Disks, NEW f
    PROVE  Readable(d, f) <=> f \in File /\ d[f] \in Content
<1>1. Garbage \notin Content /\ NoFile \notin Content
  BY LsmAssumption DEF Content, Entry
<1>2. DOMAIN d = File /\ \A g \in File : d[g] \in Content \cup {Garbage, NoFile}
  BY DEF Disks
<1>3. QED
  BY <1>1, <1>2 DEF Readable

LEMMA AppliedTyped ==
    ASSUME NEW s \in Tops, NEW r \in Note, NEW d \in Disks
    PROVE  /\ Applied(s, r, d) \in Tops
           /\ r.type = "NEXT" => Applied(s, r, d).l0 = s.l0 /\ Applied(s, r, d).next = r.num
           /\ r.type = "ADD" /\ Readable(d, r.num) =>
                /\ Applied(s, r, d).l0 = Append(s.l0, r.num)
                /\ Applied(s, r, d).next > r.num /\ Applied(s, r, d).next >= s.next
           /\ r.type = "ADD" /\ ~Readable(d, r.num) => Applied(s, r, d) = s
<1>0. /\ s.l0 \in Seq(File) /\ s.next \in 1 .. MaxFile + 1
      /\ r.type \in {"ADD", "NEXT"} /\ r.num \in 1 .. MaxFile + 1
  BY DEF Tops, Note
<1>1. PICK t : t = Applied(s, r, d)
  OBVIOUS
<1>2. CASE r.type = "NEXT"
  <2>1. t = [s EXCEPT !.next = r.num]
    BY <1>1, <1>2 DEF Applied
  <2>2. t \in Tops /\ t.l0 = s.l0 /\ t.next = r.num
    BY <1>0, <2>1 DEF Tops
  <2>3. QED
    BY <1>1, <1>2, <2>2
<1>3. CASE r.type = "ADD" /\ Readable(d, r.num)
  <2>1. t = [l0 |-> Append(s.l0, r.num),
             next |-> IF r.num >= s.next THEN r.num + 1 ELSE s.next]
    BY <1>1, <1>3 DEF Applied
  <2>2. r.num \in File
    BY <1>3, ReadableIs
  <2>3. PICK nx : nx = IF r.num >= s.next THEN r.num + 1 ELSE s.next
    OBVIOUS
  <2>4. nx \in 1 .. MaxFile + 1 /\ nx > r.num /\ nx >= s.next
    BY <1>0, <2>2, <2>3, FileIs
  <2>5. Append(s.l0, r.num) \in Seq(File)
    BY <1>0, <2>2
  <2>6. t \in Tops /\ t.l0 = Append(s.l0, r.num) /\ t.next = nx
    BY <2>1, <2>3, <2>4, <2>5 DEF Tops
  <2>7. QED
    BY <1>1, <1>3, <2>4, <2>6
<1>4. CASE r.type = "ADD" /\ ~Readable(d, r.num)
  <2>1. t = s
    BY <1>1, <1>4 DEF Applied
  <2>2. QED
    BY <1>1, <1>4, <2>1
<1>5. QED
  BY <1>0, <1>2, <1>3, <1>4

\* One record more.
LEMMA AppliedOK ==
    ASSUME NEW d \in Disks, NEW m, Ordered(m), NEW i \in 1 .. Len(m),
           NEW s \in Tops, TopOK(s, d), Logs(m, i - 1, s)
    PROVE  /\ Applied(s, m[i], d) \in Tops
           /\ TopOK(Applied(s, m[i], d), d) /\ Logs(m, i, Applied(s, m[i], d))
<1>0. m \in Seq(Note) /\ DOMAIN m = 1 .. Len(m) /\ Len(m) \in Nat /\ i \in DOMAIN m
  BY DEF Ordered
<1>1. PICK r : r = m[i]
  OBVIOUS
<1>2. PICK t : t = Applied(s, r, d)
  OBVIOUS
<1>3. r \in Note /\ r.type \in {"ADD", "NEXT"} /\ r.num \in Nat
  <2>1. r \in Note
    BY <1>0, <1>1, ElementIn
  <2>2. r.type \in {"ADD", "NEXT"} /\ r.num \in 1 .. MaxFile + 1
    BY <2>1 DEF Note
  <2>3. QED
    BY <2>1, <2>2
<1>4. t \in Tops /\ s.l0 \in Seq(File) /\ t.l0 \in Seq(File) /\ t.next \in Nat /\ s.next \in Nat
  BY <1>2, <1>3, AppliedTyped DEF Tops
<1>5. ASSUME NEW j \in DOMAIN s.l0 PROVE s.l0[j] < r.num
  <2>1. PICK h \in 1 .. i - 1 : m[h].type = "ADD" /\ m[h].num = s.l0[j]
    BY DEF Logs
  <2>2. h \in DOMAIN m /\ h < i
    BY <1>0
  <2>3. m[h].num < m[i].num
    BY <1>0, <2>1, <2>2 DEF Ordered
  <2>4. QED
    BY <1>1, <2>1, <2>3
<1>6. \A j \in DOMAIN s.l0 : \E h \in 1 .. i : m[h].type = "ADD" /\ m[h].num = s.l0[j]
  <2> TAKE j \in DOMAIN s.l0
  <2>1. PICK h \in 1 .. i - 1 : m[h].type = "ADD" /\ m[h].num = s.l0[j]
    BY DEF Logs
  <2>2. h \in 1 .. i
    BY <1>0
  <2>3. QED
    BY <2>1, <2>2
<1>7. CASE r.type = "NEXT"
  <2>1. t.l0 = s.l0 /\ t.next = r.num
    BY <1>2, <1>3, <1>7, AppliedTyped
  <2>2. TopOK(t, d)
    BY <1>5, <1>7, <2>1 DEF TopOK
  <2>3. Logs(m, i, t)
    BY <1>6, <2>1 DEF Logs
  <2>4. QED
    BY <1>1, <1>2, <1>4, <2>2, <2>3
<1>8. CASE r.type = "ADD" /\ Readable(d, r.num)
  <2>1. t.l0 = Append(s.l0, r.num) /\ t.next > r.num /\ t.next >= s.next
    BY <1>2, <1>3, <1>8, AppliedTyped
  <2>2. r.num \in File /\ d[r.num] \in Content
    BY <1>8, ReadableIs
  <2>3. PICK n \in Nat : n = Len(s.l0) /\ DOMAIN s.l0 = 1 .. n
    BY <1>4
  <2>4. PICK x : x = s.l0
    OBVIOUS
  <2>5. PICK y : y = t.l0
    OBVIOUS
  <2>6. /\ Len(y) = n + 1 /\ y[n + 1] = r.num
        /\ \A a \in 1 .. n : y[a] = x[a]
    BY <1>4, <2>1, <2>2, <2>3, <2>4, <2>5, AppendIs
  <2>7. DOMAIN y = 1 .. n + 1
    BY <1>4, <2>5, <2>6
  <2>8. \A a \in 1 .. n + 1 : a \in 1 .. n \/ a = n + 1
    OBVIOUS
  <2>9. \A a \in 1 .. n : x[a] < r.num /\ x[a] < s.next /\ d[x[a]] \in Content /\ x[a] \in Nat
    <3> TAKE a \in 1 .. n
    <3>1. x[a] < r.num
      BY <1>5, <1>8, <2>3, <2>4
    <3>2. x[a] < s.next /\ d[x[a]] \in Content
      BY <2>3, <2>4 DEF TopOK
    <3>3. x[a] \in File
      BY <1>4, <2>3, <2>4
    <3>4. QED
      BY <3>1, <3>2, <3>3, FileIs
  <2>10. Unique(y)
    <3> SUFFICES ASSUME NEW a \in 1 .. n + 1, NEW b \in 1 .. n + 1, y[a] = y[b] PROVE a = b
      BY <2>7 DEF Unique
    <3>1. CASE a \in 1 .. n /\ b \in 1 .. n
      BY <2>3, <2>4, <2>6, <3>1 DEF Unique, TopOK
    <3>2. CASE a \in 1 .. n /\ b = n + 1
      BY <1>3, <2>6, <2>9, <3>2
    <3>3. CASE a = n + 1 /\ b \in 1 .. n
      BY <1>3, <2>6, <2>9, <3>3
    <3>4. QED
      BY <2>8, <3>1, <3>2, <3>3
  <2>11. \A a \in 1 .. n + 1 : d[y[a]] \in Content /\ y[a] < t.next
    <3> TAKE a \in 1 .. n + 1
    <3>1. CASE a \in 1 .. n
      BY <1>4, <2>1, <2>6, <2>9, <3>1, SMTT(30)
    <3>2. CASE a = n + 1
      BY <1>3, <1>4, <2>1, <2>2, <2>6, <3>2
    <3>3. QED
      BY <2>8, <3>1, <3>2
  <2>12. TopOK(t, d)
    BY <2>5, <2>7, <2>10, <2>11 DEF TopOK
  <2>13. Logs(m, i, t)
    <3> SUFFICES ASSUME NEW a \in 1 .. n + 1
                 PROVE  \E h \in 1 .. i : m[h].type = "ADD" /\ m[h].num = y[a]
      BY <2>5, <2>7 DEF Logs
    <3>1. CASE a \in 1 .. n
      BY <1>6, <2>3, <2>4, <2>6, <3>1
    <3>2. CASE a = n + 1
      <4>1. i \in 1 .. i
        BY <1>0
      <4>2. QED
        BY <1>1, <1>8, <2>6, <3>2, <4>1
    <3>3. QED
      BY <2>8, <3>1, <3>2
  <2>14. QED
    BY <1>1, <1>2, <1>4, <2>12, <2>13
<1>9. CASE r.type = "ADD" /\ ~Readable(d, r.num)
  <2>1. t = s
    BY <1>2, <1>3, <1>9, AppliedTyped
  <2>2. Logs(m, i, t)
    BY <1>6, <2>1 DEF Logs
  <2>3. QED
    BY <1>1, <1>2, <1>4, <2>1, <2>2
<1>10. QED
  BY <1>3, <1>7, <1>8, <1>9

LoopsRecovered(g, m, d) ==
    g = [i \in 0 .. Len(m) |->
           IF i = 0 THEN [l0 |-> << >>, next |-> 1] ELSE Applied(g[i - 1], m[i], d)]

\* An ordered manifest is recovered to an L0 of whole files, each listed once.
LEMMA RecoveredIs ==
    ASSUME NEW d \in Disks, NEW m, Ordered(m)
    PROVE  Recovered(m, d) \in Tops /\ TopOK(Recovered(m, d), d)
<1> DEFINE n == Len(m)
           e == [l0 |-> << >>, next |-> 1]
           F == [x \in (1 .. n) \X Tops |-> Applied(x[2], m[x[1]], d)]
           It == CHOOSE g : LoopsRecovered(g, m, d)
<1>0. n \in Nat /\ m \in Seq(Note) /\ \A i \in 1 .. n : m[i] \in Note
  BY DEF Ordered
<1>1. \A i \in 1 .. n, t \in Tops : Applied(t, m[i], d) \in Tops
  BY <1>0, AppliedTyped
<1>2. Recovered(m, d) = It[Len(m)]
  BY Zenon DEF Recovered, LoopsRecovered
<1>3. F \in [(1 .. n) \X Tops -> Tops] /\ \A i \in 1 .. n, t \in Tops : F[<<i, t>>] = Applied(t, m[i], d)
  BY <1>1
<1>e. e \in Tops /\ TopOK(e, d) /\ e = [l0 |-> << >>, next |-> 1] /\ Logs(m, 0, e)
  <2>1. << >> \in Seq(File) /\ 1 \in 1 .. MaxFile + 1
    BY FileIs
  <2>2. e \in Tops /\ e.l0 = << >> /\ e.next = 1
    BY <2>1 DEF Tops
  <2>3. DOMAIN e.l0 = {}
    BY <2>2
  <2>4. QED
    BY <2>2, <2>3 DEF TopOK, Unique, Logs
<1> HIDE DEF F, n, e
<1>4. LoopsRecovered(It, m, d)
  <2>1. StepsIn(F, n, Tops)
    BY <1>3 DEF StepsIn
  <2>2. PICK g : Recurs(g, n, Tops, F, e)
    BY <1>0, <1>e, <2>1, RecursionExists
  <2>3. ASSUME NEW i \in 0 .. n
        PROVE  g[i] = IF i = 0 THEN e ELSE Applied(g[i - 1], m[i], d)
    <3>1. CASE i = 0
      BY <2>2, <3>1 DEF Recurs
    <3>2. CASE i # 0
      <4>1. i \in 1 .. n /\ i - 1 \in 0 .. n
        BY <1>0, <3>2
      <4>2. g[i] = F[<<i, g[i - 1]>>] /\ g[i - 1] \in Tops
        BY <2>2, <4>1 DEF Recurs
      <4>3. QED
        BY <1>3, <3>2, <4>1, <4>2
    <3>3. QED
      BY <3>1, <3>2
  <2>4. g = [i \in 0 .. n |-> g[i]]
    BY <2>2 DEF Recurs
  <2>5. LoopsRecovered(g, m, d)
    BY <2>3, <2>4 DEF LoopsRecovered, n, e
  <2>6. QED
    BY <2>5, Zenon
<1> HIDE DEF It
<1>5. PICK it : it = It
  OBVIOUS
<1>6. \A i \in 0 .. n : it[i] = IF i = 0 THEN e ELSE Applied(it[i - 1], m[i], d)
  BY <1>4, <1>5 DEF LoopsRecovered, n, e
<1> DEFINE Good(i) == it[i] \in Tops /\ TopOK(it[i], d) /\ Logs(m, i, it[i])
           S == {i \in 0 .. n : Good(i)}
<1>7. 0 \in S
  BY <1>0, <1>e, <1>6
<1>8. ASSUME NEW k \in 0 .. n - 1, k \in S PROVE k + 1 \in S
  <2>1. PICK i : i = k + 1
    OBVIOUS
  <2>2. i \in 1 .. n /\ i \in 0 .. n /\ i # 0 /\ i - 1 = k
    BY <1>0, <2>1
  <2>3. it[i] = Applied(it[k], m[i], d)
    BY <1>6, <2>2
  <2>4. it[k] \in Tops /\ TopOK(it[k], d) /\ Logs(m, i - 1, it[k])
    BY <1>8, <2>2
  <2>5. Good(i)
    BY <2>2, <2>3, <2>4, AppliedOK DEF n
  <2>6. QED
    BY <2>1, <2>2, <2>5
<1> HIDE DEF S
<1>9. n \in S
  <2>1. \A k \in 0 .. n : k \in S
    BY <1>0, <1>7, <1>8, UpTo
  <2>2. QED
    BY <1>0, <2>1
<1>10. it[n] \in Tops /\ TopOK(it[n], d)
  BY <1>9 DEF S
<1>11. QED
  BY <1>2, <1>5, <1>10 DEF n

\* Without a manifest every whole file goes to L0, each once.
LEMMA ScannedIs ==
    ASSUME NEW d \in Disks, NEW s \in Scanned(d)
    PROVE  s \in Tops /\ TopOK(s, d)
<1> DEFINE fs == {f \in File : Readable(d, f)}
           orders == {o \in [1 .. Cardinality(fs) -> fs] :
                        \A i, j \in DOMAIN o : o[i] = o[j] => i = j}
           top == CHOOSE n \in fs \cup {0} : \A f \in fs : n >= f
<1>1. PICK o \in orders : s = [l0 |-> o, next |-> 1 + top]
  BY Zenon DEF Scanned
<1>2. fs \in SUBSET File
  OBVIOUS
<1>3. Cardinality(fs) \in Nat
  <2>1. IsFiniteSet(File)
    <3>1. 1 \in Int /\ MaxFile \in Int
      BY FileIs
    <3>2. QED
      BY <3>1, FS_Interval, FileIs
  <2>2. IsFiniteSet(fs)
    BY <1>2, <2>1, FS_Subset
  <2>3. QED
    BY <2>2, FS_CardinalityType
<1>4. o \in [1 .. Cardinality(fs) -> fs] /\ \A i, j \in DOMAIN o : o[i] = o[j] => i = j
  OBVIOUS
<1>5. o \in Seq(File) /\ \A i \in DOMAIN o : o[i] \in fs
  <2>1. PICK c \in Nat : c = Cardinality(fs)
    BY <1>3
  <2> HIDE DEF fs
  <2>2. o \in [1 .. c -> fs]
    BY <1>4, <2>1
  <2>3. o \in [1 .. c -> File] /\ \A i \in DOMAIN o : o[i] \in fs
    BY <1>2, <2>2
  <2>4. \A x \in [1 .. c -> File] : x \in Seq(File)
    OBVIOUS
  <2>5. QED
    BY <2>3, <2>4
<1>6. top \in fs \cup {0} /\ \A f \in fs : top >= f
  <2>1. fs \in SUBSET Nat /\ \A f \in fs : f <= MaxFile /\ MaxFile \in Nat
    BY <1>2, FileIs
  <2>2. \E n \in fs \cup {0} : \A f \in fs : n >= f
    <3>1. CASE fs = {}
      BY <3>1
    <3>2. CASE fs # {}
      <4>1. \E n \in fs : \A f \in fs : f <= n
        BY <2>1, <3>2, GreatestNat, FileIs
      <4>2. QED
        BY <2>1, <4>1
    <3>3. QED
      BY <3>1, <3>2
  <2>3. QED
    BY <2>2, Zenon
<1>7. top \in 0 .. MaxFile
  <2> HIDE DEF fs, top
  <2>1. top \in File \/ top = 0
    BY <1>2, <1>6
  <2>2. QED
    BY <2>1, FileIs
<1>8. ASSUME NEW f \in fs PROVE d[f] \in Content /\ f < 1 + top
  <2>1. f \in File /\ Readable(d, f) /\ top >= f
    BY <1>6
  <2>2. QED
    BY <1>7, <2>1, ReadableIs, FileIs
<1> HIDE DEF fs, top
<1>9. s.l0 = o /\ s.next = 1 + top
  BY <1>1
<1>10. s \in Tops
  <2>1. 1 + top \in 1 .. MaxFile + 1
    BY <1>7, FileIs
  <2>2. QED
    BY <1>1, <1>5, <2>1 DEF Tops
<1>11. Unique(s.l0)
  BY <1>4, <1>9 DEF Unique
<1>12. \A j \in DOMAIN s.l0 : d[s.l0[j]] \in Content /\ s.l0[j] < s.next
  BY <1>5, <1>8, <1>9
<1>13. QED
  BY <1>10, <1>11, <1>12 DEF TopOK

\* What storage_open makes of the files and of an ordered manifest.
LEMMA OpenStack ==
    ASSUME NEW w, NEW d \in Disks, NEW m, m = NoFile \/ Ordered(m), StorageOpen(w, d, m)
    PROVE  Stack(levels', disk', next_num') /\ next_num' \in 1 .. MaxFile + 1
<1>0. disk' = d
  BY DEF StorageOpen
<1>1. CASE \E s \in IF m = NoFile THEN Scanned(d) ELSE {Recovered(m, d)} :
              /\ levels' = [l \in Level |-> IF l = 0 THEN s.l0 ELSE << >>]
              /\ next_num' = s.next
  <2>1. PICK s \in IF m = NoFile THEN Scanned(d) ELSE {Recovered(m, d)} :
              /\ levels' = [l \in Level |-> IF l = 0 THEN s.l0 ELSE << >>]
              /\ next_num' = s.next
    BY <1>1
  <2>2. s \in Tops /\ TopOK(s, d)
    <3>1. CASE m = NoFile
      BY <3>1, ScannedIs
    <3>2. CASE m # NoFile
      <4>1. s = Recovered(m, d) /\ Ordered(m)
        BY <2>1, <3>2
      <4>2. QED
        BY <4>1, RecoveredIs
    <3>3. QED
      BY <3>1, <3>2
  <2>3. s.l0 \in Seq(File) /\ s.next \in 1 .. MaxFile + 1
    BY <2>2 DEF Tops
  <2>4. PICK L : L = levels'
    OBVIOUS
  <2>5. L[0] = s.l0 /\ \A l \in Level : l # 0 => L[l] = << >>
    BY <2>1, <2>4, LevelIs
  <2>6. L \in [Level -> Seq(File)]
    <3>1. << >> \in Seq(File)
      OBVIOUS
    <3>2. QED
      BY <2>1, <2>3, <2>4, <3>1
  <2>7. \A l \in Level : l # 0 => DOMAIN L[l] = {}
    BY <2>5
  <2>8. \A l, k \in Level : \A i \in DOMAIN L[l], j \in DOMAIN L[k] :
          L[l][i] = L[k][j] => l = k /\ i = j
    BY <2>2, <2>5, <2>7 DEF TopOK, Unique
  <2>9. \A l \in Level : WholeIn(L[l], d)
    BY <2>2, <2>5, <2>7 DEF TopOK, WholeIn
  <2>10. \A l \in Level : \A i \in DOMAIN L[l] : L[l][i] < s.next
    BY <2>2, <2>5, <2>7 DEF TopOK
  <2>11. \A l \in Level \ {0} : SortedIn(L[l], d)
    BY <2>7 DEF SortedIn
  <2>12. Stack(L, d, s.next)
    BY <2>6, <2>8, <2>9, <2>10, <2>11 DEF Stack
  <2>13. QED
    BY <1>0, <2>1, <2>3, <2>4, <2>12
<1>2. CASE levels' = [l \in Level |-> << >>] /\ next_num' = 1
  <2>1. PICK L : L = levels'
    OBVIOUS
  <2>2. << >> \in Seq(File) /\ DOMAIN << >> = {}
    OBVIOUS
  <2>3. L \in [Level -> Seq(File)] /\ \A l \in Level : DOMAIN L[l] = {}
    BY <1>2, <2>1, <2>2
  <2>4. Stack(L, d, 1)
    BY <2>3 DEF Stack, WholeIn, SortedIn
  <2>5. QED
    BY <1>0, <1>2, <2>1, <2>4, FileIs
<1>3. QED
  BY <1>1, <1>2, Zenon DEF StorageOpen

-----------------------------------------------------------------------------
(* What the steps do to the levels. *)

\* Other files than those listed may change, and the next number may grow.
LEMMA StackKept ==
    ASSUME NEW ls, NEW d, NEW nn \in Nat, Stack(ls, d, nn), NEW e, NEW nm \in Nat, nn <= nm,
           \A l \in Level : \A i \in DOMAIN ls[l] : e[ls[l][i]] = d[ls[l][i]]
    PROVE  Stack(ls, e, nm)
<1>1. ASSUME NEW l \in Level PROVE WholeIn(ls[l], e)
  BY DEF Stack, WholeIn
<1>2. ASSUME NEW l \in Level, NEW i \in DOMAIN ls[l] PROVE ls[l][i] < nm
  <2>1. ls[l] \in Seq(File) /\ ls[l][i] < nn
    BY DEF Stack
  <2>2. ls[l][i] \in File
    BY <2>1
  <2>3. QED
    BY <2>1, <2>2, FileIs
<1>3. ASSUME NEW l \in Level \ {0} PROVE SortedIn(ls[l], e)
  BY DEF Stack, SortedIn
<1>4. QED
  BY <1>1, <1>2, <1>3 DEF Stack

\* A free number is not listed.
LEMMA FreeNotListed ==
    ASSUME NEW ls, NEW d, NEW nn \in Nat, Stack(ls, d, nn), NEW l \in Level
    PROVE  ~In(nn, ls[l])
<1>1. ASSUME NEW i \in DOMAIN ls[l] PROVE ls[l][i] # nn
  <2>1. ls[l] \in Seq(File) /\ ls[l][i] < nn
    BY DEF Stack
  <2>2. QED
    BY <2>1
<1>2. QED
  BY <1>1 DEF In

\* Position j is at i once something is put in behind the first pos.
Shifted(i, j, pos) == (j <= pos /\ i = j) \/ (j > pos /\ i = j + 1)

LEMMA InsertedFrom ==
    ASSUME NEW S, NEW s \in Seq(S), NEW t \in Seq(S), NEW pos \in 0 .. Len(s), NEW f,
           Inserted(s, pos, f, t), NEW i \in DOMAIN t, i # pos + 1
    PROVE  \E j \in DOMAIN s : /\ t[i] = s[j]
                               /\ Shifted(i, j, pos)
<1>0. PICK n \in Nat : n = Len(s) /\ DOMAIN s = 1 .. n
  OBVIOUS
<1>1. /\ DOMAIN t = 1 .. n + 1
      /\ \A j \in 1 .. pos : t[j] = s[j]
      /\ \A j \in pos + 1 .. n : t[j + 1] = s[j]
  BY <1>0 DEF Inserted
<1>2. CASE i <= pos
  <2>1. i \in 1 .. pos /\ i \in 1 .. n
    BY <1>0, <1>1, <1>2
  <2>2. t[i] = s[i]
    BY <1>1, <2>1
  <2>3. QED
    BY <1>0, <1>2, <2>1, <2>2 DEF Shifted
<1>3. CASE i > pos + 1
  <2>1. i - 1 \in pos + 1 .. n /\ i - 1 \in 1 .. n /\ (i - 1) + 1 = i /\ i - 1 > pos
    BY <1>0, <1>1, <1>3
  <2>2. t[(i - 1) + 1] = s[i - 1]
    BY <1>1, <2>1
  <2>3. QED
    BY <1>0, <2>1, <2>2 DEF Shifted
<1>4. QED
  BY <1>0, <1>1, <1>2, <1>3

LEMMA SortedInsert ==
    ASSUME NEW s \in Seq(File), NEW t \in Seq(File), NEW pos \in 0 .. Len(s), NEW f,
           Inserted(s, pos, f, t), NEW d, SortedIn(s, d),
           \A i \in 1 .. pos : Precedes(d[s[i]], d[f]),
           \A i \in pos + 1 .. Len(s) : Precedes(d[f], d[s[i]])
    PROVE  SortedIn(t, d)
<1>0. PICK n \in Nat : n = Len(s) /\ DOMAIN s = 1 .. n
  OBVIOUS
<1>1. DOMAIN t = 1 .. n + 1 /\ t[pos + 1] = f
  BY <1>0 DEF Inserted
<1> SUFFICES ASSUME NEW i \in DOMAIN t, NEW j \in DOMAIN t, i < j
             PROVE  Precedes(d[t[i]], d[t[j]])
  BY DEF SortedIn
<1>2. i \in Nat /\ j \in Nat /\ pos \in Nat
  BY <1>0, <1>1
<1>3. CASE i = pos + 1
  <2>1. PICK b \in DOMAIN s : t[j] = s[b] /\ Shifted(j, b, pos)
    BY <1>2, <1>3, InsertedFrom
  <2>2. b \in pos + 1 .. Len(s)
    BY <1>0, <1>2, <1>3, <2>1 DEF Shifted
  <2>3. QED
    BY <1>1, <1>3, <2>1, <2>2
<1>4. CASE j = pos + 1
  <2>1. PICK a \in DOMAIN s : t[i] = s[a] /\ Shifted(i, a, pos)
    BY <1>2, <1>4, InsertedFrom
  <2>2. a \in 1 .. pos
    BY <1>0, <1>2, <1>4, <2>1 DEF Shifted
  <2>3. QED
    BY <1>1, <1>4, <2>1, <2>2
<1>5. CASE i # pos + 1 /\ j # pos + 1
  <2>1. PICK a \in DOMAIN s : t[i] = s[a] /\ Shifted(i, a, pos)
    BY <1>5, InsertedFrom
  <2>2. PICK b \in DOMAIN s : t[j] = s[b] /\ Shifted(j, b, pos)
    BY <1>5, InsertedFrom
  <2>3. a < b
    BY <1>0, <1>2, <2>1, <2>2 DEF Shifted
  <2>4. QED
    BY <2>1, <2>2, <2>3 DEF SortedIn
<1>6. QED
  BY <1>3, <1>4, <1>5

\* A new file, with the first free number, joins a level.
LEMMA StackInsert ==
    ASSUME NEW ls, NEW d, NEW nn \in File, Stack(ls, d, nn), d[nn] \in Content,
           NEW l \in Level, NEW pos \in 0 .. Len(ls[l]), NEW t \in Seq(File),
           Inserted(ls[l], pos, nn, t), l # 0 => SortedIn(t, d),
           NEW L, L = [ls EXCEPT ![l] = t]
    PROVE  Stack(L, d, nn + 1)
<1>0. nn \in Nat /\ nn + 1 \in Nat /\ nn <= nn + 1
  BY FileIs
<1>1. ls \in [Level -> Seq(File)] /\ ls[l] \in Seq(File)
  BY DEF Stack
<1>2. L \in [Level -> Seq(File)] /\ L[l] = t /\ \A m \in Level : m # l => L[m] = ls[m]
  BY <1>1
<1>3. Stack(ls, d, nn + 1)
  BY <1>0, StackKept
<1>4. ASSUME NEW i \in DOMAIN t
      PROVE  \/ i = pos + 1 /\ t[i] = nn
             \/ \E j \in DOMAIN ls[l] : /\ t[i] = ls[l][j]
                                        /\ Shifted(i, j, pos)
  <2>1. CASE i = pos + 1
    BY <2>1 DEF Inserted
  <2>2. CASE i # pos + 1
    BY <1>1, <2>2, InsertedFrom
  <2>3. QED
    BY <2>1, <2>2
<1>5. \A m \in Level : \A i \in DOMAIN ls[m] : ls[m][i] # nn
  BY <1>0, FreeNotListed DEF In
<1>6. ASSUME NEW m \in Level, NEW k \in Level, NEW i \in DOMAIN L[m], NEW j \in DOMAIN L[k],
             L[m][i] = L[k][j]
      PROVE  m = k /\ i = j
  <2>1. \A a, b \in Level : \A x \in DOMAIN ls[a], y \in DOMAIN ls[b] :
           ls[a][x] = ls[b][y] => a = b /\ x = y
    BY DEF Stack
  <2>2. CASE m # l /\ k # l
    BY <1>2, <1>6, <2>1, <2>2
  <2>3. CASE m = l /\ k # l
    <3>1. i \in DOMAIN t /\ j \in DOMAIN ls[k] /\ t[i] = ls[k][j]
      BY <1>2, <1>6, <2>3
    <3>2. QED
      BY <1>4, <1>5, <2>1, <2>3, <3>1
  <2>4. CASE m # l /\ k = l
    <3>1. j \in DOMAIN t /\ i \in DOMAIN ls[m] /\ t[j] = ls[m][i]
      BY <1>2, <1>6, <2>4
    <3>2. QED
      BY <1>4, <1>5, <2>1, <2>4, <3>1
  <2>5. CASE m = l /\ k = l
    <3>1. i \in DOMAIN t /\ j \in DOMAIN t /\ t[i] = t[j]
      BY <1>2, <1>6, <2>5
    <3>2. CASE t[i] = nn
      <4>1. i = pos + 1
        BY <1>4, <1>5, <3>1, <3>2
      <4>2. j = pos + 1
        BY <1>4, <1>5, <3>1, <3>2
      <4>3. QED
        BY <2>5, <4>1, <4>2
    <3>3. CASE t[i] # nn
      <4>1. PICK a \in DOMAIN ls[l] : t[i] = ls[l][a] /\ Shifted(i, a, pos)
        BY <1>4, <3>1, <3>3
      <4>2. PICK b \in DOMAIN ls[l] : t[j] = ls[l][b] /\ Shifted(j, b, pos)
        BY <1>4, <3>1, <3>3
      <4>3. a = b
        <5>1. ls[l][a] = ls[l][b]
          BY <3>1, <4>1, <4>2
        <5>2. QED
          BY <2>1, <5>1
      <4>4. QED
        BY <2>5, <4>1, <4>2, <4>3 DEF Shifted
    <3>4. QED
      BY <3>2, <3>3
  <2>6. QED
    BY <2>2, <2>3, <2>4, <2>5
<1>7. ASSUME NEW m \in Level PROVE WholeIn(L[m], d) /\ \A i \in DOMAIN L[m] : L[m][i] < nn + 1
  <2>1. WholeIn(ls[m], d) /\ \A i \in DOMAIN ls[m] : ls[m][i] < nn + 1
    BY <1>3 DEF Stack
  <2>2. CASE m # l
    BY <1>2, <2>1, <2>2
  <2>3. CASE m = l
    <3>1. \A i \in DOMAIN t : d[t[i]] \in Content /\ t[i] < nn + 1
      BY <1>0, <1>4, <2>1, <2>3 DEF WholeIn
    <3>2. QED
      BY <1>2, <2>3, <3>1 DEF WholeIn
  <2>4. QED
    BY <2>2, <2>3
<1>8. ASSUME NEW m \in Level \ {0} PROVE SortedIn(L[m], d)
  BY <1>2, <1>3 DEF Stack
<1>9. QED
  BY <1>2, <1>6, <1>7, <1>8 DEF Stack

\* The disks d and e differ in file f only.
Elsewhere(d, e, f) == \A g : g # f => e[g] = d[g]

\* The levels L are ls without file f.
Without(ls, f, L) ==
    /\ DOMAIN L = Level /\ L = [l \in Level |-> L[l]]
    /\ \A l \in Level : L[l] = Dropped(ls[l], f) \/ (L[l] = ls[l] /\ ~In(f, ls[l]))

\* A file leaves the list it is in and its content is gone.
LEMMA StackDrop ==
    ASSUME NEW ls, NEW d, NEW nn \in Nat, Stack(ls, d, nn), NEW f, NEW e, Elsewhere(d, e, f),
           NEW L, Without(ls, f, L)
    PROVE  /\ Stack(L, e, nn)
           /\ \A l \in Level : \A g : In(g, L[l]) <=> In(g, ls[l]) /\ g # f
<1>1. ASSUME NEW l \in Level
      PROVE  /\ L[l] \in Seq(File)
             /\ \A g : In(g, L[l]) <=> In(g, ls[l]) /\ g # f
             /\ \E map \in [DOMAIN L[l] -> DOMAIN ls[l]] :
                   /\ \A i \in DOMAIN L[l] : L[l][i] = ls[l][map[i]]
                   /\ \A i, j \in DOMAIN L[l] : i < j => map[i] < map[j]
  <2>1. ls[l] \in Seq(File) /\ Unique(ls[l])
    BY DEF Stack, Unique
  <2>2. CASE L[l] = Dropped(ls[l], f)
    BY <2>1, <2>2, DroppedIs, SMTT(30)
  <2>3. CASE L[l] = ls[l] /\ ~In(f, ls[l])
    <3>1. \A g : In(g, L[l]) <=> In(g, ls[l]) /\ g # f
      BY <2>3
    <3>2. PICK map : map = [i \in DOMAIN ls[l] |-> i]
      OBVIOUS
    <3>3. /\ map \in [DOMAIN L[l] -> DOMAIN ls[l]]
          /\ \A i \in DOMAIN L[l] : L[l][i] = ls[l][map[i]]
          /\ \A i, j \in DOMAIN L[l] : i < j => map[i] < map[j]
      BY <2>3, <3>2
    <3>4. QED
      BY <2>1, <2>3, <3>1, <3>3
  <2>4. QED
    BY <2>2, <2>3, Zenon DEF Without
<1>2. ASSUME NEW l \in Level, NEW i \in DOMAIN L[l]
      PROVE  L[l][i] # f /\ e[L[l][i]] = d[L[l][i]]
  <2>1. In(L[l][i], L[l])
    BY DEF In
  <2>2. QED
    BY <1>1, <2>1 DEF Elsewhere
<1>3. L \in [Level -> Seq(File)]
  <2>1. DOMAIN L = Level /\ L = [l \in Level |-> L[l]]
    BY DEF Without
  <2>2. QED
    BY <1>1, <2>1
<1>4. ASSUME NEW m \in Level, NEW k \in Level, NEW i \in DOMAIN L[m], NEW j \in DOMAIN L[k],
             L[m][i] = L[k][j]
      PROVE  m = k /\ i = j
  <2>1. PICK p \in [DOMAIN L[m] -> DOMAIN ls[m]] :
           /\ \A a \in DOMAIN L[m] : L[m][a] = ls[m][p[a]]
           /\ \A a, b \in DOMAIN L[m] : a < b => p[a] < p[b]
    BY <1>1
  <2>2. PICK q \in [DOMAIN L[k] -> DOMAIN ls[k]] :
           /\ \A a \in DOMAIN L[k] : L[k][a] = ls[k][q[a]]
           /\ \A a, b \in DOMAIN L[k] : a < b => q[a] < q[b]
    BY <1>1
  <2>3. p[i] \in DOMAIN ls[m] /\ q[j] \in DOMAIN ls[k] /\ ls[m][p[i]] = ls[k][q[j]]
    BY <1>4, <2>1, <2>2
  <2>4. m = k /\ p[i] = q[j]
    BY <2>3 DEF Stack
  <2>5. j \in DOMAIN L[m] /\ p[j] \in DOMAIN ls[m] /\ ls[m][p[j]] = ls[m][p[i]]
    BY <1>4, <2>1, <2>4
  <2>6. p[i] = p[j]
    BY <2>3, <2>5 DEF Stack
  <2>7. i \in Nat /\ j \in Nat /\ p[i] \in Nat
    <3>1. L[m] \in Seq(File) /\ ls[m] \in Seq(File)
      BY <1>1 DEF Stack
    <3>2. DOMAIN L[m] \subseteq Nat /\ DOMAIN ls[m] \subseteq Nat
      BY <3>1
    <3>3. QED
      BY <2>3, <2>5, <3>2
  <2>8. ~(i < j) /\ ~(j < i)
    BY <2>1, <2>5, <2>6, <2>7
  <2>9. QED
    BY <2>4, <2>7, <2>8
<1>5. ASSUME NEW l \in Level PROVE WholeIn(L[l], e) /\ \A i \in DOMAIN L[l] : L[l][i] < nn
  <2>1. PICK p \in [DOMAIN L[l] -> DOMAIN ls[l]] : \A a \in DOMAIN L[l] : L[l][a] = ls[l][p[a]]
    BY <1>1
  <2>2. \A a \in DOMAIN L[l] : p[a] \in DOMAIN ls[l]
    BY <2>1
  <2>3. WholeIn(ls[l], d) /\ \A i \in DOMAIN ls[l] : ls[l][i] < nn
    BY DEF Stack
  <2>4. \A i \in DOMAIN L[l] : L[l][i] < nn
    BY <2>1, <2>2, <2>3
  <2>5. WholeIn(L[l], e)
    BY <1>2, <2>1, <2>2, <2>3 DEF WholeIn
  <2>6. QED
    BY <2>4, <2>5
<1>6. ASSUME NEW l \in Level \ {0} PROVE SortedIn(L[l], e)
  <2>1. PICK p \in [DOMAIN L[l] -> DOMAIN ls[l]] :
           /\ \A a \in DOMAIN L[l] : L[l][a] = ls[l][p[a]]
           /\ \A a, b \in DOMAIN L[l] : a < b => p[a] < p[b]
    BY <1>1
  <2>2. SortedIn(ls[l], d)
    BY DEF Stack
  <2>3. QED
    BY <1>2, <2>1, <2>2 DEF SortedIn
<1>7. QED
  BY <1>1, <1>3, <1>4, <1>5, <1>6 DEF Stack

\* level_add_sstable of the next file.
LEMMA AddIs ==
    ASSUME NEW l \in Level, NEW c, Stack(levels, disk, next_num), next_num \in File,
           disk[next_num] = c, c \in Content, AddToLevel(l, next_num, c),
           l # 0 => \A i \in DOMAIN levels[l] :
                       Precedes(disk[levels[l][i]], c) \/ Precedes(c, disk[levels[l][i]])
    PROVE  /\ Stack(levels', disk, next_num + 1)
           /\ \E pos \in 0 .. Len(levels[l]), t \in Seq(File) :
                 /\ Inserted(levels[l], pos, next_num, t)
                 /\ l = 0 => pos = Len(levels[l])
                 /\ levels' = [levels EXCEPT ![l] = t]
<1> DEFINE s == levels[l]
           n == Len(s)
           below == {i \in 0 .. n - 1 : MinKey(disk[At(l, i)]) < MinKey(c)}
           pos == IF l = 0 THEN n ELSE FirstNotBelow(n, below)
           t == SubSeq(s, 1, pos) \o <<next_num>> \o SubSeq(s, pos + 1, n)
<1>0. s \in Seq(File) /\ n \in Nat /\ DOMAIN s = 1 .. n /\ levels \in [Level -> Seq(File)]
  BY DEF Stack
<1>1. levels' = [levels EXCEPT ![l] = t]
  BY <1>0 DEF AddToLevel
<1>2. \A i \in 0 .. n - 1 : At(l, i) = s[i + 1]
  BY DEF At
<1>3. PICK p : p = pos
  OBVIOUS
<1>4. PICK B : B = below
  OBVIOUS
<1>5. /\ p \in 0 .. n
      /\ l = 0 => p = n
      /\ l # 0 => (p = 0 \/ p - 1 \in B) /\ (p = n \/ p \notin B)
  <2>1. CASE l = 0
    BY <1>0, <1>3, <2>1
  <2>2. CASE l # 0
    <3>1. p = FirstNotBelow(n, B)
      BY <1>3, <1>4, <2>2
    <3>2. Stops(0, n, p, B)
      BY <1>0, <3>1, FirstNotBelowStops
    <3>3. QED
      BY <2>2, <3>2 DEF Stops
  <2>3. QED
    BY <2>1, <2>2
<1>6. PICK u : u = t
  OBVIOUS
<1>7. u = SubSeq(s, 1, p) \o <<next_num>> \o SubSeq(s, p + 1, n)
  BY <1>3, <1>6
<1>8. \A i \in 0 .. n - 1 : i \in B <=> MinKey(disk[s[i + 1]]) < MinKey(c)
  BY <1>2, <1>4
<1> HIDE DEF pos, below, t
<1>9. PICK S : S = s
  OBVIOUS
<1>10. PICK N \in Nat : N = n
  BY <1>0
<1>11. S \in Seq(File) /\ N = Len(S) /\ DOMAIN S = 1 .. N /\ S = levels[l]
  BY <1>0, <1>9, <1>10
<1>12. u \in Seq(File) /\ Inserted(S, p, next_num, u)
  <2>1. p \in 0 .. Len(S) /\ u = Spliced(S, p, next_num)
    BY <1>5, <1>7, <1>9 DEF Spliced
  <2>2. QED
    BY <1>11, <2>1, InsertIs
<1>13. ASSUME l # 0 PROVE SortedIn(u, disk)
  <2>0. SortedIn(S, disk)
    BY <1>11, <1>13 DEF Stack
  <2>1. /\ p \in 0 .. N /\ (p = 0 \/ p - 1 \in B) /\ (p = N \/ p \notin B)
        /\ \A i \in 0 .. N - 1 : i \in B <=> MinKey(disk[S[i + 1]]) < MinKey(c)
    BY <1>5, <1>8, <1>9, <1>10, <1>13
  <2>2. \A i \in 1 .. N : Precedes(disk[S[i]], c) \/ Precedes(c, disk[S[i]])
    BY <1>11, <1>13
  <2>3. \A i \in 1 .. N : MinKey(disk[S[i]]) \in Nat /\ MinKey(c) \in Nat
    BY MinKeyIs
  <2>4. \A i, j \in 1 .. N : i < j => MinKey(disk[S[i]]) <= MinKey(disk[S[j]])
    BY <1>11, <2>0, PrecedesKeys DEF SortedIn
  <2>5. ASSUME NEW i \in 1 .. p PROVE Precedes(disk[S[i]], disk[next_num])
    <3>1. p \in 1 .. N /\ p - 1 \in 0 .. N - 1 /\ (p - 1) + 1 = p /\ p # 0 /\ i \in 1 .. N
      BY <2>1
    <3>2. MinKey(disk[S[p]]) < MinKey(c)
      BY <2>1, <3>1
    <3>3. i = p \/ i < p
      BY <3>1
    <3>4. MinKey(disk[S[i]]) <= MinKey(disk[S[p]])
      BY <2>3, <2>4, <3>1, <3>3
    <3>5. MinKey(disk[S[i]]) < MinKey(c)
      BY <2>3, <3>1, <3>2, <3>4
    <3>6. QED
      BY <2>2, <3>1, <3>5, PrecedesBy
  <2>6. ASSUME NEW i \in p + 1 .. N PROVE Precedes(disk[next_num], disk[S[i]])
    <3>1. p # N /\ p \in 0 .. N - 1 /\ p + 1 \in 1 .. N /\ i \in 1 .. N
      BY <2>1
    <3>2. ~(MinKey(disk[S[p + 1]]) < MinKey(c))
      BY <2>1, <3>1
    <3>3. i = p + 1 \/ p + 1 < i
      BY <3>1
    <3>4. MinKey(disk[S[p + 1]]) <= MinKey(disk[S[i]])
      BY <2>3, <2>4, <3>1, <3>3
    <3>5. ~(MinKey(disk[S[i]]) < MinKey(c))
      BY <2>3, <3>1, <3>2, <3>4
    <3>6. QED
      BY <2>2, <3>1, <3>5, PrecedesBy
  <2>7. QED
    BY <1>11, <1>12, <2>0, <2>1, <2>5, <2>6, SortedInsert
<1>14. levels' = [levels EXCEPT ![l] = u] /\ p \in 0 .. Len(levels[l]) /\ (l = 0 => p = Len(levels[l]))
  BY <1>1, <1>5, <1>6
<1>15. Inserted(levels[l], p, next_num, u) /\ u \in Seq(File)
  BY <1>11, <1>12
<1>16. Stack(levels', disk, next_num + 1)
  BY <1>13, <1>14, <1>15, StackInsert
<1>17. QED
  BY <1>14, <1>15, <1>16

-----------------------------------------------------------------------------
(* The inputs and the output of a compaction. *)

OverlapIn(s, d, lo, hi) ==
    LET n == Len(s)
        from == FirstNotBelow(n, {i \in 0 .. n - 1 : MaxKey(d[s[i + 1]]) < lo})
        past == {i \in from .. n - 1 : MinKey(d[s[i + 1]]) > hi}
        to == IF past = {} THEN n ELSE CHOOSE i \in past : \A j \in past : i <= j
    IN  SubSeq(s, from + 1, to)

\* The files of a sorted level that level_find_overlapping leaves out.
LEMMA OverlapIs ==
    ASSUME NEW s \in Seq(File), NEW d, SortedIn(s, d), NEW lo \in Nat, NEW hi \in Nat
    PROVE  \E from \in 0 .. Len(s) : \E to \in from .. Len(s) :
              /\ OverlapIn(s, d, lo, hi) = SubSeq(s, from + 1, to)
              /\ \A i \in 1 .. from : MaxKey(d[s[i]]) < lo
              /\ \A i \in to + 1 .. Len(s) : MinKey(d[s[i]]) > hi
<1> DEFINE n == Len(s)
           below == {i \in 0 .. n - 1 : MaxKey(d[s[i + 1]]) < lo}
           from == FirstNotBelow(n, below)
           past == {i \in from .. n - 1 : MinKey(d[s[i + 1]]) > hi}
           to == IF past = {} THEN n ELSE CHOOSE i \in past : \A j \in past : i <= j
<1>0. n \in Nat /\ DOMAIN s = 1 .. n
  OBVIOUS
<1>1. OverlapIn(s, d, lo, hi) = SubSeq(s, from + 1, to)
  BY DEF OverlapIn
<1>2. Stops(0, n, from, below)
  BY <1>0, FirstNotBelowStops
<1>3. PICK a : a = from
  OBVIOUS
<1>4. a \in 0 .. n /\ (a = 0 \/ a - 1 \in below)
  BY <1>2, <1>3 DEF Stops
<1>5. \A i \in 1 .. n : MaxKey(d[s[i]]) \in Nat /\ MinKey(d[s[i]]) \in Nat /\ MinKey(d[s[i]]) <= MaxKey(d[s[i]])
  BY MinKeyIs, MaxKeyIs, MinMax
<1>6. \A i, j \in 1 .. n : i < j => Precedes(d[s[i]], d[s[j]])
  BY <1>0 DEF SortedIn
<1>7. ASSUME NEW i \in 1 .. a PROVE MaxKey(d[s[i]]) < lo
  <2>1. a \in 1 .. n /\ a - 1 \in below /\ (a - 1) + 1 = a /\ i \in 1 .. n
    BY <1>0, <1>4
  <2>2. MaxKey(d[s[a]]) < lo
    BY <2>1
  <2>3. CASE i = a
    BY <2>2, <2>3
  <2>4. CASE i # a
    <3>1. i < a
      BY <2>1, <2>4
    <3>2. MaxKey(d[s[i]]) <= MaxKey(d[s[a]])
      BY <1>6, <2>1, <3>1, PrecedesKeys
    <3>3. QED
      BY <1>5, <2>1, <2>2, <3>2
  <2>5. QED
    BY <2>3, <2>4
<1>8. PICK P : P = past
  OBVIOUS
<1>9. \A i : i \in P <=> i \in a .. n - 1 /\ MinKey(d[s[i + 1]]) > hi
  BY <1>3, <1>8
<1>10. PICK b : b = to
  BY SMTT(30)
<1>11. b = IF P = {} THEN n ELSE CHOOSE i \in P : \A j \in P : i <= j
  BY <1>8, <1>10
<1> HIDE DEF n, below, from, past, to
<1>12. b \in a .. n /\ (b = n \/ b \in P)
  <2>1. CASE P = {}
    BY <1>0, <1>4, <1>11, <2>1
  <2>2. CASE P # {}
    <3>1. P \in SUBSET Nat
      BY <1>0, <1>4, <1>9
    <3>2. \E i \in P : \A j \in P : i <= j
      BY <2>2, <3>1, LeastNat
    <3>3. b \in P
      BY <1>11, <2>2, <3>2, Zenon
    <3>4. QED
      BY <1>0, <1>4, <1>9, <3>3
  <2>3. QED
    BY <2>1, <2>2
<1>13. ASSUME NEW i \in b + 1 .. n PROVE MinKey(d[s[i]]) > hi
  <2>1. b # n /\ b + 1 \in 1 .. n /\ i \in 1 .. n
    BY <1>0, <1>4, <1>12
  <2>2. MinKey(d[s[b + 1]]) > hi
    BY <1>9, <1>12, <2>1
  <2>3. CASE i = b + 1
    BY <2>2, <2>3
  <2>4. CASE i # b + 1
    <3>1. b + 1 < i
      BY <1>0, <1>4, <1>12, <2>1, <2>4
    <3>2. MinKey(d[s[b + 1]]) <= MinKey(d[s[i]])
      BY <1>6, <2>1, <3>1, PrecedesKeys
    <3>3. QED
      BY <1>5, <2>1, <2>2, <3>2
  <2>5. QED
    BY <2>3, <2>4
<1>14. a \in 0 .. Len(s) /\ b \in a .. Len(s)
  BY <1>4, <1>12 DEF n
<1>15. OverlapIn(s, d, lo, hi) = SubSeq(s, a + 1, b)
  BY <1>1, <1>3, <1>10
<1>16. \A i \in b + 1 .. Len(s) : MinKey(d[s[i]]) > hi
  BY <1>13 DEF n
<1>17. QED
  BY <1>7, <1>14, <1>15, <1>16

\* The merge of the files fs: what the last one that has a key says, except that
\* tombstones are dropped in the last level.
Kept(x, bottom) == IF x = Tomb /\ bottom THEN Absent ELSE x

LEMMA MergedIs ==
    ASSUME NEW fs \in Seq(File), WholeIn(fs, disk), NEW missed, NEW bottom \in BOOLEAN,
           NEW c, c = Merged(fs, missed, bottom)
    PROVE  /\ c \in Content
           /\ \A k \in Key : c[k] # Absent => \E i \in DOMAIN fs : disk[fs[i]][k] # Absent
           /\ \A k \in Key \ KeysMissed(fs, missed) :
                 c[k] = Kept(NewestIn(fs, disk, k), bottom)
<1>1. ASSUME NEW k \in Key
      PROVE  /\ c[k] \in Entry
             /\ c[k] # Absent => \E i \in DOMAIN fs : disk[fs[i]][k] # Absent
  <2> DEFINE hits == {i \in DOMAIN fs : disk[fs[i]][k] # Absent /\ <<fs[i], k>> \notin missed}
             x == disk[fs[CHOOSE i \in hits : \A j \in hits : i >= j]][k]
  <2>1. c[k] = IF hits = {} \/ (x = Tomb /\ bottom) THEN Absent ELSE x
    BY DEF Merged
  <2>2. CASE hits = {}
    BY <2>1, <2>2, EntryIs
  <2>3. CASE hits # {}
    <3>1. PICK p : p = CHOOSE i \in hits : \A j \in hits : i >= j
      OBVIOUS
    <3>2. p \in hits
      BY <2>3, <3>1, GreatestIn
    <3>3. p \in DOMAIN fs /\ disk[fs[p]][k] # Absent /\ disk[fs[p]][k] \in Entry
      BY <3>2 DEF WholeIn, Content
    <3>4. x = disk[fs[p]][k]
      BY <3>1
    <3> HIDE DEF hits, x
    <3>5. c[k] \in Entry
      BY <2>1, <3>3, <3>4, EntryIs
    <3>6. QED
      BY <3>3, <3>5
  <2>4. QED
    BY <2>2, <2>3
<1>2. ASSUME NEW k \in Key \ KeysMissed(fs, missed)
      PROVE  c[k] = Kept(NewestIn(fs, disk, k), bottom)
  <2> DEFINE some == {i \in DOMAIN fs : disk[fs[i]][k] # Absent /\ <<fs[i], k>> \notin missed}
             hits == {i \in DOMAIN fs : disk[fs[i]][k] # Absent}
             x == disk[fs[CHOOSE i \in hits : \A j \in hits : i >= j]][k]
  <2>1. some = hits
    BY <1>2 DEF KeysMissed
  <2>2. c[k] = IF some = {} \/ (disk[fs[CHOOSE i \in some : \A j \in some : i >= j]][k] = Tomb
                                /\ bottom)
                 THEN Absent ELSE disk[fs[CHOOSE i \in some : \A j \in some : i >= j]][k]
    BY DEF Merged
  <2>3. NewestIn(fs, disk, k) = IF hits = {} THEN Absent ELSE x
    BY DEF NewestIn
  <2>4. c[k] = IF hits = {} \/ (x = Tomb /\ bottom) THEN Absent ELSE x
    BY <2>1, <2>2
  <2> HIDE DEF some, hits, x
  <2>5. QED
    BY <2>3, <2>4, EntryIs DEF Kept
<1>3. c = [k \in Key |-> c[k]]
  <2> DEFINE hits(k) == {i \in DOMAIN fs : disk[fs[i]][k] # Absent /\ <<fs[i], k>> \notin missed}
             x(k) == disk[fs[CHOOSE i \in hits(k) : \A j \in hits(k) : i >= j]][k]
             of(k) == IF hits(k) = {} \/ (x(k) = Tomb /\ bottom) THEN Absent ELSE x(k)
  <2>1. c = [k \in Key |-> of(k)]
    BY Zenon DEF Merged
  <2> HIDE DEF of
  <2>2. QED
    BY <2>1
<1>4. QED
  BY <1>1, <1>2, <1>3 DEF Content

LEMMA MaxBytesTyped == ASSUME NEW l \in 1 .. MaxLevels PROVE MaxBytes[l] \in Nat
<1> DEFINE n == MaxLevels - 1
           F == [x \in (1 .. n) \X Nat |-> x[2] * Multiplier]
           Is(g) == g = [i \in 1 .. MaxLevels |-> IF i = 1 THEN L1Max ELSE g[i - 1] * Multiplier]
<1>0. n \in Nat /\ MaxLevels \in Nat /\ L1Max \in Nat /\ Multiplier \in Nat
  BY LsmAssumption
<1>1. \A x \in Nat : x * Multiplier \in Nat
  BY <1>0
<1>2. F \in [(1 .. n) \X Nat -> Nat] /\ \A i \in 1 .. n, x \in Nat : F[<<i, x>>] = x * Multiplier
  BY <1>1
<1> HIDE DEF F
<1>3. StepsIn(F, n, Nat)
  BY <1>2 DEF StepsIn
<1>4. PICK g : Recurs(g, n, Nat, F, L1Max)
  BY <1>0, <1>3, RecursionExists
<1>5. g \in [0 .. n -> Nat] /\ g[0] = L1Max /\ \A i \in 1 .. n : g[i] = F[<<i, g[i - 1]>>]
  BY <1>4 DEF Recurs
<1>6. PICK h : h = [i \in 1 .. MaxLevels |-> g[i - 1]]
  OBVIOUS
<1>7. \A i \in 1 .. MaxLevels : h[i] = g[i - 1]
  BY <1>6
<1>8. ASSUME NEW i \in 1 .. MaxLevels PROVE h[i] = IF i = 1 THEN L1Max ELSE h[i - 1] * Multiplier
  <2>1. CASE i = 1
    BY <1>5, <1>7, <2>1
  <2>2. CASE i # 1
    <3>1. i - 1 \in 1 .. n /\ i - 1 \in 1 .. MaxLevels /\ (i - 1) - 1 \in 0 .. n
      BY <1>0, <2>2
    <3>2. g[i - 1] = F[<<i - 1, g[(i - 1) - 1]>>] /\ g[(i - 1) - 1] \in Nat
      BY <1>5, <3>1
    <3>3. g[i - 1] = g[(i - 1) - 1] * Multiplier
      BY <1>2, <3>1, <3>2
    <3>4. h[i] = g[i - 1] /\ h[i - 1] = g[(i - 1) - 1]
      BY <1>7, <3>1
    <3>5. QED
      BY <2>2, <3>3, <3>4
  <2>3. QED
    BY <2>1, <2>2
<1>9. Is(h)
  BY <1>6, <1>8
<1>10. Is(MaxBytes)
  <2>1. MaxBytes = CHOOSE f : Is(f)
    BY Zenon DEF MaxBytes
  <2>2. QED
    BY <1>9, <2>1, Zenon
<1>11. PICK m : m = MaxBytes
  OBVIOUS
<1>12. \A i \in 1 .. MaxLevels : m[i] = IF i = 1 THEN L1Max ELSE m[i - 1] * Multiplier
  BY <1>10, <1>11
<1> DEFINE S == {i \in 0 .. n : m[i + 1] \in Nat}
<1>13. 0 \in S
  <2>1. 0 + 1 = 1 /\ 1 \in 1 .. MaxLevels /\ 0 \in 0 .. n
    BY <1>0, LevelIs
  <2>2. m[1] = L1Max
    BY <1>12, <2>1
  <2>3. QED
    BY <1>0, <2>1, <2>2
<1>14. ASSUME NEW k \in 0 .. n - 1, k \in S PROVE k + 1 \in S
  <2>1. m[k + 1] \in Nat
    BY <1>14
  <2>2. (k + 1) + 1 \in 1 .. MaxLevels /\ (k + 1) + 1 # 1 /\ ((k + 1) + 1) - 1 = k + 1 /\ k + 1 \in 0 .. n
    BY <1>0
  <2>3. m[(k + 1) + 1] = m[k + 1] * Multiplier
    BY <1>12, <2>2
  <2>4. QED
    BY <1>1, <2>1, <2>2, <2>3
<1>15. l - 1 \in S
  <2> HIDE DEF S, n
  <2>1. \A k \in 0 .. n : k \in S
    BY <1>0, <1>13, <1>14, UpTo
  <2>2. l - 1 \in 0 .. n
    BY <1>0 DEF n
  <2>3. QED
    BY <2>1, <2>2
<1>16. (l - 1) + 1 = l
  BY <1>0
<1>17. QED
  BY <1>11, <1>15, <1>16

\* compact_pick_level picks a level that has a file.
LEMMA PickedIs ==
    ASSUME NEW l, l = PickLevel, l >= 0, levels \in [Level -> Seq(File)]
    PROVE  l \in 0 .. MaxLevels - 2 /\ l \in Level /\ l + 1 \in Level /\ Len(levels[l]) >= 1
<1> DEFINE ls == {m \in 0 .. MaxLevels - 2 : NeedsCompaction(m)}
<1>0. MaxLevels \in Nat /\ MaxLevels > 1
  BY LevelIs
<1>1. l = IF ls = {} THEN -1 ELSE CHOOSE m \in ls : \A h \in ls : m <= h
  BY DEF PickLevel
<1>2. ls # {}
  BY <1>1
<1>3. ls \in SUBSET Nat
  BY <1>0
<1>4. \E m \in ls : \A h \in ls : m <= h
  BY <1>2, <1>3, LeastNat
<1>5. l \in ls
  BY <1>1, <1>2, <1>4, Zenon
<1>6. l \in 0 .. MaxLevels - 2 /\ NeedsCompaction(l)
  BY <1>5
<1>7. l \in Level /\ l + 1 \in Level
  BY <1>0, <1>6 DEF Level
<1>8. levels[l] \in Seq(File) /\ Len(levels[l]) \in Nat
  BY <1>7
<1>9. CASE l = 0
  <2>1. Len(levels[0]) >= L0Trigger /\ L0Trigger \in Nat \ {0}
    BY <1>6, <1>9, LsmAssumption DEF NeedsCompaction
  <2>2. QED
    BY <1>6, <1>7, <1>8, <1>9, <2>1
<1>10. CASE l # 0
  <2> DEFINE Is(g) == g = [i \in 0 .. Len(levels[l]) |->
                  IF i = 0 THEN 0 ELSE g[i - 1] + Cardinality(Keys(disk[levels[l][i]]))]
             It == CHOOSE g : Is(g)
  <2>1. It[Len(levels[l])] > MaxBytes[l]
    BY <1>6, <1>10, Zenon DEF NeedsCompaction
  <2>2. ASSUME Len(levels[l]) = 0 PROVE FALSE
    <3>1. PICK g : g = [i \in {0} |-> 0]
      OBVIOUS
    <3>2. 0 .. Len(levels[l]) = {0}
      BY <2>2
    <3>3. g = [i \in {0} |-> IF i = 0 THEN 0 ELSE g[i - 1] + Cardinality(Keys(disk[levels[l][i]]))]
      BY <3>1
    <3>4. Is(g)
      BY <3>2, <3>3
    <3>5. Is(It)
      BY <3>4, Zenon
    <3>6. PICK h : h = It
      OBVIOUS
    <3>7. h = [i \in {0} |-> IF i = 0 THEN 0 ELSE h[i - 1] + Cardinality(Keys(disk[levels[l][i]]))]
      BY <3>2, <3>5, <3>6
    <3> HIDE DEF It
    <3>8. h[0] = 0
      BY <3>7
    <3>9. MaxBytes[l] \in Nat
      <4>1. l \in 1 .. MaxLevels
        BY <1>0, <1>6, <1>10
      <4>2. QED
        BY <4>1, MaxBytesTyped
    <3>10. QED
      BY <2>1, <2>2, <3>6, <3>8, <3>9
  <2>3. QED
    BY <1>6, <1>7, <1>8, <2>2
<1>11. QED
  BY <1>9, <1>10

LEMMA ConcatIn ==
    ASSUME NEW S, NEW u \in Seq(S), NEW v \in Seq(S), NEW g
    PROVE  In(g, u \o v) <=> In(g, u) \/ In(g, v)
<1>1. PICK t : t = u \o v
  OBVIOUS
<1>2. t \in Seq(S) /\ Joined(u, v, t)
  BY <1>1, ConcatIs
<1>3. PICK a \in Nat, b \in Nat : a = Len(u) /\ b = Len(v) /\ DOMAIN u = 1 .. a /\ DOMAIN v = 1 .. b
  OBVIOUS
<1>4. /\ DOMAIN t = 1 .. a + b
      /\ \A k \in 1 .. a : t[k] = u[k]
      /\ \A k \in 1 .. b : t[a + k] = v[k]
  BY <1>2, <1>3 DEF Joined
<1>5. ASSUME In(g, t) PROVE In(g, u) \/ In(g, v)
  <2>1. PICK i \in 1 .. a + b : t[i] = g
    BY <1>4, <1>5 DEF In
  <2>2. CASE i <= a
    BY <1>3, <1>4, <2>1, <2>2 DEF In
  <2>3. CASE i > a
    <3>1. i - a \in 1 .. b /\ a + (i - a) = i
      BY <2>3
    <3>2. v[i - a] = g
      BY <1>4, <2>1, <3>1
    <3>3. QED
      BY <1>3, <3>1, <3>2 DEF In
  <2>4. QED
    BY <2>2, <2>3
<1>6. ASSUME In(g, u) PROVE In(g, t)
  <2>1. PICK i \in 1 .. a : u[i] = g
    BY <1>3, <1>6 DEF In
  <2>2. i \in 1 .. a + b /\ t[i] = g
    BY <1>4, <2>1
  <2>3. QED
    BY <1>4, <2>2 DEF In
<1>7. ASSUME In(g, v) PROVE In(g, t)
  <2>1. PICK i \in 1 .. b : v[i] = g
    BY <1>3, <1>7 DEF In
  <2>2. a + i \in 1 .. a + b /\ t[a + i] = g
    BY <1>4, <2>1
  <2>3. QED
    BY <1>4, <2>2 DEF In
<1>8. QED
  BY <1>1, <1>5, <1>6, <1>7

LEMMA ConcatUnique ==
    ASSUME NEW S, NEW u \in Seq(S), NEW v \in Seq(S), Unique(u), Unique(v),
           \A g : ~(In(g, u) /\ In(g, v))
    PROVE  Unique(u \o v)
<1>1. PICK t : t = u \o v
  OBVIOUS
<1>2. t \in Seq(S) /\ Joined(u, v, t)
  BY <1>1, ConcatIs
<1>3. PICK a \in Nat, b \in Nat : a = Len(u) /\ b = Len(v) /\ DOMAIN u = 1 .. a /\ DOMAIN v = 1 .. b
  OBVIOUS
<1>4. /\ DOMAIN t = 1 .. a + b
      /\ \A k \in 1 .. a : t[k] = u[k]
      /\ \A k \in 1 .. b : t[a + k] = v[k]
  BY <1>2, <1>3 DEF Joined
<1>5. ASSUME NEW i \in 1 .. a + b
      PROVE  (i \in 1 .. a /\ t[i] = u[i]) \/ (i - a \in 1 .. b /\ t[i] = v[i - a])
  <2>1. CASE i <= a
    BY <1>4, <2>1
  <2>2. CASE i > a
    <3>1. i - a \in 1 .. b /\ a + (i - a) = i
      BY <2>2
    <3>2. QED
      BY <1>4, <3>1
  <2>3. QED
    BY <2>1, <2>2
<1>6. \A x \in 1 .. a, y \in 1 .. b : u[x] # v[y]
  BY <1>3 DEF In
<1>7. ASSUME NEW i \in 1 .. a + b, NEW j \in 1 .. a + b, t[i] = t[j] PROVE i = j
  <2>1. CASE i \in 1 .. a /\ j \in 1 .. a
    <3>1. u[i] = u[j] /\ i \in DOMAIN u /\ j \in DOMAIN u
      BY <1>3, <1>4, <1>7, <2>1
    <3>2. QED
      BY <3>1 DEF Unique
  <2>2. CASE i - a \in 1 .. b /\ j - a \in 1 .. b /\ t[i] = v[i - a] /\ t[j] = v[j - a]
    <3>1. i - a = j - a
      BY <1>3, <1>7, <2>2 DEF Unique
    <3>2. QED
      BY <3>1
  <2>3. QED
    BY <1>5, <1>6, <1>7, <2>1, <2>2
<1>8. QED
  BY <1>1, <1>4, <1>7 DEF Unique

\* The inputs of a compaction of level l: src of that level and over of the next.  The
\* other files of the next level lie on one side of them all.
Sides(ls, d, l, src, over, lo, hi) ==
    /\ \A i \in DOMAIN src : lo <= MinKey(d[src[i]]) /\ MaxKey(d[src[i]]) <= hi
    /\ \A g : In(g, ls[l + 1]) /\ ~In(g, over) =>
         \/ MaxKey(d[g]) < lo /\ \A h : In(h, over) => Precedes(d[g], d[h])
         \/ MinKey(d[g]) > hi /\ \A h : In(h, over) => Precedes(d[h], d[g])

Inputs(ls, d, l, src, over) ==
    /\ src \in Seq(File) /\ over \in Seq(File)
    /\ l = 0 => src = ls[0]
    /\ l # 0 => Len(src) = 1
    /\ \A g : In(g, src) => In(g, ls[l])
    /\ \A g : In(g, over) => In(g, ls[l + 1])
    /\ Unique(src) /\ Unique(over)
    /\ \E lo, hi \in Nat : Sides(ls, d, l, src, over, lo, hi)

LEMMA BoundsIs ==
    ASSUME NEW src \in Seq(File), Len(src) >= 1, NEW d, NEW lo, NEW hi,
           lo = CHOOSE k \in {MinKey(d[src[i]]) : i \in DOMAIN src} :
                   \A i \in DOMAIN src : k <= MinKey(d[src[i]]),
           hi = CHOOSE k \in {MaxKey(d[src[i]]) : i \in DOMAIN src} :
                   \A i \in DOMAIN src : k >= MaxKey(d[src[i]])
    PROVE  /\ lo \in Nat /\ hi \in Nat
           /\ \A i \in DOMAIN src : lo <= MinKey(d[src[i]]) /\ MaxKey(d[src[i]]) <= hi
<1> DEFINE los == {MinKey(d[src[i]]) : i \in DOMAIN src}
           his == {MaxKey(d[src[i]]) : i \in DOMAIN src}
<1>0. 1 \in DOMAIN src
  OBVIOUS
<1>1. \A i \in DOMAIN src : MinKey(d[src[i]]) \in Nat /\ MaxKey(d[src[i]]) \in Nat
  BY MinKeyIs, MaxKeyIs
<1>2. \A i \in DOMAIN src : MinKey(d[src[i]]) \in los /\ MaxKey(d[src[i]]) \in his
  OBVIOUS
<1>3. \A k \in los : \E i \in DOMAIN src : k = MinKey(d[src[i]])
  OBVIOUS
<1>4. \A k \in his : \E i \in DOMAIN src : k = MaxKey(d[src[i]])
  OBVIOUS
<1>5. lo = CHOOSE k \in los : \A i \in DOMAIN src : k <= MinKey(d[src[i]])
  OBVIOUS
<1>6. hi = CHOOSE k \in his : \A i \in DOMAIN src : k >= MaxKey(d[src[i]])
  OBVIOUS
<1> HIDE DEF los, his
<1>7. los \in SUBSET Nat /\ his \in SUBSET Nat /\ los # {} /\ his # {}
  BY <1>0, <1>1, <1>2, <1>3, <1>4
<1>8. PICK a \in los : \A k \in los : a <= k
  BY <1>7, LeastNat
<1>9. lo \in los /\ \A i \in DOMAIN src : lo <= MinKey(d[src[i]])
  <2>1. \A i \in DOMAIN src : a <= MinKey(d[src[i]])
    BY <1>2, <1>8
  <2>2. QED
    BY <1>5, <1>8, <2>1, Zenon
<1>10. PICK b \in Nat : \A k \in his : k <= b
  <2>1. PICK b \in Nat : \A k \in Key : k <= b
    BY KeyIs
  <2>2. ASSUME NEW c PROVE MaxKey(c) <= b
    <3>1. CASE Keys(c) = {}
      BY <3>1, MaxKeyIs
    <3>2. CASE Keys(c) # {}
      BY <2>1, <3>2, MaxKeyIs, KeysIn
    <3>3. QED
      BY <3>1, <3>2
  <2>3. QED
    BY <1>4, <2>2
<1>11. PICK e \in his : \A k \in his : k <= e
  BY <1>7, <1>10, GreatestNat
<1>12. hi \in his /\ \A i \in DOMAIN src : hi >= MaxKey(d[src[i]])
  <2>1. \A i \in DOMAIN src : e >= MaxKey(d[src[i]])
    BY <1>1, <1>2, <1>7, <1>11
  <2>2. QED
    BY <1>6, <1>11, <2>1, Zenon
<1>13. lo \in Nat /\ hi \in Nat
  BY <1>7, <1>9, <1>12
<1>14. QED
  BY <1>1, <1>9, <1>12, <1>13

\* o is what s has behind its first from elements and up to the one at to.
SlicedOf(s, from, to, o) ==
    /\ o \in Seq(File)
    /\ \A i \in from + 1 .. to : In(s[i], o)
    /\ \A g : In(g, o) => \E i \in from + 1 .. to : s[i] = g
    /\ Unique(s) => Unique(o)

LEMMA SliceIs ==
    ASSUME NEW s \in Seq(File), NEW from \in 0 .. Len(s), NEW to \in from .. Len(s)
    PROVE  SlicedOf(s, from, to, SubSeq(s, from + 1, to))
<1>o. PICK o : o = SubSeq(s, from + 1, to)
  OBVIOUS
<1>0. PICK n \in Nat : n = Len(s) /\ DOMAIN s = 1 .. n
  OBVIOUS
<1>1. from + 1 \in Nat /\ to \in Nat /\ 1 <= from + 1 /\ from + 1 <= to + 1 /\ to <= Len(s)
      /\ from \in Nat /\ from <= to
  BY <1>0
<1>2. /\ o \in Seq(File) /\ Len(o) = to - (from + 1) + 1
      /\ \A i \in 1 .. Len(o) : o[i] = s[from + 1 + i - 1]
  BY <1>o, <1>1, SubSeqIs
<1>3. /\ DOMAIN o = 1 .. to - from
      /\ \A i \in 1 .. to - from : o[i] = s[from + i] /\ from + i \in from + 1 .. to
  <2>1. to - (from + 1) + 1 = to - from /\ \A i \in 1 .. to - from :
           from + 1 + i - 1 = from + i /\ from + i \in from + 1 .. to
    BY <1>1
  <2>2. Len(o) = to - from
    BY <1>2, <2>1
  <2>3. QED
    BY <1>2, <2>1, <2>2
<1>4. ASSUME NEW i \in from + 1 .. to PROVE In(s[i], o)
  <2>1. i - from \in 1 .. to - from /\ from + (i - from) = i
    BY <1>1
  <2>2. o[i - from] = s[i]
    BY <1>3, <2>1
  <2>3. QED
    BY <1>3, <2>1, <2>2 DEF In
<1>5. ASSUME NEW g, In(g, o) PROVE \E i \in from + 1 .. to : s[i] = g
  BY <1>3, <1>5 DEF In
<1>6. ASSUME Unique(s) PROVE Unique(o)
  <2> SUFFICES ASSUME NEW i \in 1 .. to - from, NEW j \in 1 .. to - from, o[i] = o[j] PROVE i = j
    BY <1>3 DEF Unique
  <2>1. s[from + i] = s[from + j] /\ from + i \in DOMAIN s /\ from + j \in DOMAIN s
    BY <1>0, <1>1, <1>3
  <2>2. from + i = from + j
    BY <1>6, <2>1 DEF Unique
  <2>3. QED
    BY <1>1, <2>2
<1>7. SlicedOf(s, from, to, o)
  BY <1>2, <1>4, <1>5, <1>6 DEF SlicedOf
<1>8. QED
  BY <1>o, <1>7

LEMMA InputsIs ==
    ASSUME NEW ls, NEW d, NEW nn, Stack(ls, d, nn), NEW l \in Level, l + 1 \in Level,
           Len(ls[l]) >= 1, NEW src, src = IF l = 0 THEN ls[0] ELSE << ls[l][1] >>,
           NEW lo, NEW hi,
           lo = CHOOSE k \in {MinKey(d[src[i]]) : i \in DOMAIN src} :
                   \A i \in DOMAIN src : k <= MinKey(d[src[i]]),
           hi = CHOOSE k \in {MaxKey(d[src[i]]) : i \in DOMAIN src} :
                   \A i \in DOMAIN src : k >= MaxKey(d[src[i]]),
           NEW over, over = OverlapIn(ls[l + 1], d, lo, hi)
    PROVE  Inputs(ls, d, l, src, over)
<1>0. ls[l] \in Seq(File) /\ ls[l + 1] \in Seq(File) /\ Unique(ls[l]) /\ Unique(ls[l + 1])
  BY DEF Stack, Unique
<1>1. l + 1 # 0
  BY LevelIs, SMTT(30)
<1>2. SortedIn(ls[l + 1], d)
  BY <1>1 DEF Stack
<1>3. /\ src \in Seq(File) /\ Len(src) >= 1 /\ Unique(src)
      /\ l = 0 => src = ls[0]
      /\ l # 0 => Len(src) = 1
      /\ \A g : In(g, src) => In(g, ls[l])
  <2>1. CASE l = 0
    BY <1>0, <2>1
  <2>2. CASE l # 0
    <3>1. 1 \in DOMAIN ls[l] /\ ls[l][1] \in File
      BY <1>0
    <3>2. PICK f : f = ls[l][1]
      OBVIOUS
    <3>3. src = <<f>> /\ f \in File
      BY <2>2, <3>1, <3>2
    <3>4. src \in Seq(File) /\ Len(src) = 1 /\ DOMAIN src = {1} /\ src[1] = f
      BY <3>3, SMTT(30)
    <3>5. Unique(src)
      BY <3>4 DEF Unique
    <3>6. \A g : In(g, src) => In(g, ls[l])
      BY <3>1, <3>2, <3>4 DEF In
    <3>7. QED
      BY <2>2, <3>4, <3>5, <3>6
  <2>3. QED
    BY <2>1, <2>2
<1>4. /\ lo \in Nat /\ hi \in Nat
      /\ \A i \in DOMAIN src : lo <= MinKey(d[src[i]]) /\ MaxKey(d[src[i]]) <= hi
  BY <1>3, BoundsIs
<1>5. PICK s : s = ls[l + 1]
  OBVIOUS
<1>6. s \in Seq(File) /\ SortedIn(s, d) /\ Unique(s)
  BY <1>0, <1>2, <1>5
<1>7. PICK from \in 0 .. Len(s) : \E to \in from .. Len(s) :
         /\ OverlapIn(s, d, lo, hi) = SubSeq(s, from + 1, to)
         /\ \A i \in 1 .. from : MaxKey(d[s[i]]) < lo
         /\ \A i \in to + 1 .. Len(s) : MinKey(d[s[i]]) > hi
  BY <1>4, <1>6, OverlapIs
<1>8. PICK to \in from .. Len(s) :
         /\ OverlapIn(s, d, lo, hi) = SubSeq(s, from + 1, to)
         /\ \A i \in 1 .. from : MaxKey(d[s[i]]) < lo
         /\ \A i \in to + 1 .. Len(s) : MinKey(d[s[i]]) > hi
  BY <1>7
<1>9. over = SubSeq(s, from + 1, to)
  BY <1>5, <1>8
<1>10. /\ over \in Seq(File) /\ Unique(over)
       /\ \A i \in from + 1 .. to : In(s[i], over)
       /\ \A g : In(g, over) => \E i \in from + 1 .. to : s[i] = g
  <2>1. SlicedOf(s, from, to, over)
    BY <1>6, <1>9, SliceIs
  <2>2. QED
    BY <1>6, <2>1 DEF SlicedOf
<1>11. PICK n \in Nat : n = Len(s) /\ DOMAIN s = 1 .. n
  BY <1>6
<1>12. \A g : In(g, over) => In(g, s)
  <2>1. \A i \in from + 1 .. to : i \in DOMAIN s
    BY <1>11
  <2>2. QED
    BY <1>10, <2>1 DEF In
<1>13. ASSUME NEW g, In(g, s), ~In(g, over)
       PROVE  \/ MaxKey(d[g]) < lo /\ \A h : In(h, over) => Precedes(d[g], d[h])
              \/ MinKey(d[g]) > hi /\ \A h : In(h, over) => Precedes(d[h], d[g])
  <2>1. PICK i \in 1 .. n : s[i] = g
    BY <1>11, <1>13 DEF In
  <2>2. ~(i \in from + 1 .. to)
    BY <1>10, <1>13, <2>1
  <2>3. CASE i <= from
    <3>1. i \in 1 .. from
      BY <2>1, <2>3
    <3>2. ASSUME NEW h, In(h, over) PROVE Precedes(d[g], d[h])
      <4>1. PICK j \in from + 1 .. to : s[j] = h
        BY <1>10, <3>2
      <4>2. i \in DOMAIN s /\ j \in DOMAIN s /\ i < j
        BY <1>11, <3>1
      <4>3. QED
        BY <1>6, <2>1, <4>1, <4>2 DEF SortedIn
    <3>3. QED
      BY <1>8, <2>1, <3>1, <3>2
  <2>4. CASE i > to
    <3>1. i \in to + 1 .. Len(s)
      BY <1>11, <2>4
    <3>2. ASSUME NEW h, In(h, over) PROVE Precedes(d[h], d[g])
      <4>1. PICK j \in from + 1 .. to : s[j] = h
        BY <1>10, <3>2
      <4>2. i \in DOMAIN s /\ j \in DOMAIN s /\ j < i
        BY <1>11, <2>4
      <4>3. QED
        BY <1>6, <2>1, <4>1, <4>2 DEF SortedIn
    <3>3. QED
      BY <1>8, <2>1, <3>1, <3>2
  <2>5. from \in 0 .. n /\ to \in from .. n
    BY <1>11
  <2>6. i <= from \/ i > to
    BY <2>2, <2>5
  <2>7. QED
    BY <2>3, <2>4, <2>6
<1>14. Sides(ls, d, l, src, over, lo, hi)
  BY <1>4, <1>5, <1>13 DEF Sides
<1>15. QED
  BY <1>3, <1>4, <1>5, <1>10, <1>12, <1>14 DEF Inputs

\* A file of the next level that is no input does not meet the output, ...
LEMMA OutputBeside ==
    ASSUME NEW ls, NEW d, NEW l, NEW src, NEW over, Inputs(ls, d, l, src, over), NEW c,
           \A k \in Keys(c) : \E h : (In(h, src) \/ In(h, over)) /\ k \in Keys(d[h]),
           NEW g, In(g, ls[l + 1]), ~In(g, over)
    PROVE  Precedes(d[g], c) \/ Precedes(c, d[g])
<1>0. PICK lo \in Nat, hi \in Nat : Sides(ls, d, l, src, over, lo, hi)
  BY DEF Inputs
<1>1. /\ MinKey(c) \in Nat /\ MaxKey(c) \in Nat /\ MinKey(d[g]) \in Nat /\ MaxKey(d[g]) \in Nat
      /\ MinKey(d[g]) <= MaxKey(d[g])
  BY MinKeyIs, MaxKeyIs, MinMax
<1>2. CASE Keys(c) = {}
  <2>1. MaxKey(c) = 0
    BY <1>2, MaxKeyIs
  <2>2. CASE Keys(d[g]) = {}
    BY <1>2, <2>2 DEF Precedes
  <2>3. CASE Keys(d[g]) # {}
    <3>1. MinKey(d[g]) > 0
      BY <2>3, MinKeyIs
    <3>2. QED
      BY <2>1, <3>1 DEF Precedes
  <2>4. QED
    BY <2>2, <2>3
<1>3. CASE Keys(c) # {}
  <2>0. MinKey(c) \in Keys(c) /\ MaxKey(c) \in Keys(c)
    BY <1>3, MinKeyIs, MaxKeyIs
  <2>1. CASE MaxKey(d[g]) < lo /\ \A h : In(h, over) => Precedes(d[g], d[h])
    <3>1. ASSUME NEW k \in Keys(c) PROVE MaxKey(d[g]) < k
      <4>0. k \in Nat
        BY KeysIn
      <4>1. PICK h : (In(h, src) \/ In(h, over)) /\ k \in Keys(d[h])
        BY <3>1
      <4>2. MinKey(d[h]) <= k /\ MinKey(d[h]) \in Nat /\ Keys(d[h]) # {}
        BY <4>1, MinKeyIs
      <4>3. CASE In(h, src)
        <5>1. lo <= MinKey(d[h])
          BY <1>0, <4>3 DEF Sides, In
        <5>2. QED
          BY <1>1, <2>1, <4>0, <4>2, <5>1
      <4>4. CASE In(h, over)
        <5>1. MaxKey(d[g]) < MinKey(d[h])
          BY <2>1, <4>2, <4>4, PrecedesKeys
        <5>2. QED
          BY <1>1, <4>0, <4>2, <5>1
      <4>5. QED
        BY <4>1, <4>3, <4>4
    <3>2. QED
      BY <2>0, <3>1 DEF Precedes
  <2>2. CASE MinKey(d[g]) > hi /\ \A h : In(h, over) => Precedes(d[h], d[g])
    <3>0. Keys(d[g]) # {}
      <4>1. MinKey(d[g]) # 0
        BY <1>1, <2>2
      <4>2. QED
        BY <4>1, MinKeyIs
    <3>1. ASSUME NEW k \in Keys(c) PROVE k < MinKey(d[g])
      <4>0. k \in Nat
        BY KeysIn
      <4>1. PICK h : (In(h, src) \/ In(h, over)) /\ k \in Keys(d[h])
        BY <3>1
      <4>2. k <= MaxKey(d[h]) /\ MaxKey(d[h]) \in Nat
        BY <4>1, MaxKeyIs
      <4>3. CASE In(h, src)
        <5>1. MaxKey(d[h]) <= hi
          BY <1>0, <4>3 DEF Sides, In
        <5>2. QED
          BY <1>1, <2>2, <4>0, <4>2, <5>1
      <4>4. CASE In(h, over)
        <5>1. MaxKey(d[h]) < MinKey(d[g])
          BY <2>2, <3>0, <4>4, PrecedesKeys
        <5>2. QED
          BY <1>1, <4>0, <4>2, <5>1
      <4>5. QED
        BY <4>1, <4>3, <4>4
    <3>2. QED
      BY <2>0, <3>1 DEF Precedes
  <2>3. QED
    BY <1>0, <2>1, <2>2 DEF Sides
<1>4. QED
  BY <1>2, <1>3

\* ... nor any of the inputs from the level above.
LEMMA SourceBeside ==
    ASSUME NEW ls, NEW d, NEW l, NEW src, NEW over, Inputs(ls, d, l, src, over),
           NEW g, In(g, ls[l + 1]), ~In(g, over), NEW h, In(h, src), NEW k \in Key,
           d[h][k] # Absent
    PROVE  d[g][k] = Absent
<1>0. PICK lo \in Nat, hi \in Nat : Sides(ls, d, l, src, over, lo, hi)
  BY DEF Inputs
<1>1. k \in Keys(d[h]) /\ k \in Nat
  BY KeyIs DEF Keys
<1>2. /\ lo <= MinKey(d[h]) /\ MaxKey(d[h]) <= hi
      /\ MinKey(d[h]) <= k /\ k <= MaxKey(d[h]) /\ MinKey(d[h]) \in Nat /\ MaxKey(d[h]) \in Nat
  BY <1>0, <1>1, MinKeyIs, MaxKeyIs DEF Sides, In
<1>3. SUFFICES ASSUME d[g][k] # Absent PROVE FALSE
  OBVIOUS
<1>4. k \in Keys(d[g])
  BY <1>3 DEF Keys
<1>5. /\ MinKey(d[g]) <= k /\ k <= MaxKey(d[g]) /\ MinKey(d[g]) \in Nat /\ MaxKey(d[g]) \in Nat
  BY <1>4, MinKeyIs, MaxKeyIs
<1>6. MaxKey(d[g]) < lo \/ MinKey(d[g]) > hi
  BY <1>0 DEF Sides
<1>7. QED
  BY <1>1, <1>2, <1>5, <1>6

-----------------------------------------------------------------------------
(* A compaction under way. *)

\* The files of a list that are not to be removed.
Rest(s, old) == {g \in File : In(g, s) /\ ~In(g, old)}

\* x is what the files G say of k, at most one of which has it.
SoleOf(G, d, k, x) ==
    /\ \A g \in G : d[g][k] # Absent => x = d[g][k]
    /\ (\A g \in G : d[g][k] = Absent) => x = Absent

Begins(s, o) == Len(s) <= Len(o) /\ \A i \in DOMAIN s : o[i] = s[i]

\* The output is file nn and goes to level t; the inputs still listed are old, all of
\* L0 among them when t is 1, and the output meets no other file of level t.
JobOK(ls, d, nn, t, old) ==
    /\ t \in 1 .. MaxLevels - 1
    /\ old \in Seq(File) /\ Unique(old)
    /\ \A i \in DOMAIN old : In(old[i], ls[t - 1]) \/ In(old[i], ls[t])
    /\ t = 1 => Begins(ls[0], old)
    /\ nn \in File /\ d[nn] \in Content
    /\ \A g : In(g, ls[t]) /\ ~In(g, old) => Precedes(d[g], d[nn]) \/ Precedes(d[nn], d[g])

\* What storage_get will say once the inputs are gone and the output is in its place is
\* what it said before, of every key that is not exposed.
JobReads(ls, d, nn, t, old, exposed, reads, mm) ==
    \A k \in Key \ exposed : \E w, y :
        /\ w \in [Level -> Entry] /\ Leads(w, y) /\ reads[k] = Answer(mm[k], y)
        /\ \A m \in Level \ {t - 1, t} : FoundIs(ls, d, m, k, w[m])
        /\ SoleOf(Rest(ls[t - 1], old), d, k, w[t - 1])
        /\ SoleOf(Rest(ls[t], old) \cup {nn}, d, k, w[t])

\* What the levels say of a key before and after a compaction of level l whose newest
\* entry for it is x: it moves down, or it was below already.
Moved(v, w, l, x) ==
    /\ v \in [Level -> Entry] /\ w \in [Level -> Entry]
    /\ \A m \in Level \ {l, l + 1} : w[m] = v[m]
    /\ w[l + 1] = Kept(x, l + 1 = MaxLevels - 1)
    /\ \/ v[l] = x /\ x # Absent /\ w[l] = Absent /\ v[l + 1] = Absent
       \/ v[l] = w[l] /\ v[l + 1] = x

LEMMA LeadsShift ==
    ASSUME NEW l \in Level, l + 1 \in Level,
           NEW v, NEW w, NEW x, NEW z, Moved(v, w, l, x), Leads(v, z)
    PROVE  \E y : Leads(w, y) /\ \A a : Answer(a, y) = Answer(a, z)
<1>0. Level = 0 .. MaxLevels - 1 /\ MaxLevels \in Nat
  BY LevelIs DEF Level
<1>m. /\ v \in [Level -> Entry] /\ w \in [Level -> Entry]
      /\ \A m \in Level \ {l, l + 1} : w[m] = v[m]
      /\ w[l + 1] = Kept(x, l + 1 = MaxLevels - 1)
  BY DEF Moved
<1>1. \A a : Answer(a, Tomb) = Answer(a, Absent)
  BY EntryIs DEF Answer
<1>2. CASE v[l] = x /\ x # Absent /\ w[l] = Absent /\ v[l + 1] = Absent
  <2>1. PICK m \in Level : v[m] = z /\ z # Absent /\ \A j \in Level : j < m => v[j] = Absent
    BY <1>2 DEF Leads
  <2>2. m <= l
    BY <1>0, <1>2, <2>1
  <2>3. \A j \in Level : j < l => w[j] = v[j]
    BY <1>0, <1>m
  <2>4. CASE m < l
    <3>1. Leads(w, z)
      BY <1>0, <2>1, <2>3, <2>4 DEF Leads
    <3>2. QED
      BY <3>1
  <2>5. CASE m = l
    <3>1. z = x /\ \A j \in Level : j < l + 1 => w[j] = Absent
      BY <1>0, <1>2, <2>1, <2>3, <2>5
    <3>2. CASE w[l + 1] = x
      <4>1. Leads(w, z)
        BY <1>2, <3>1, <3>2 DEF Leads
      <4>2. QED
        BY <4>1
    <3>3. CASE w[l + 1] # x
      <4>1. x = Tomb /\ l + 1 = MaxLevels - 1 /\ w[l + 1] = Absent
        BY <1>m, <3>3 DEF Kept
      <4>2. \A j \in Level : w[j] = Absent
        BY <1>0, <3>1, <4>1
      <4>3. Leads(w, Absent)
        BY <4>2 DEF Leads
      <4>4. QED
        BY <1>1, <3>1, <4>1, <4>3
    <3>4. QED
      BY <3>2, <3>3
  <2>6. QED
    BY <1>0, <2>1, <2>2, <2>4, <2>5
<1>3. CASE v[l] = w[l] /\ v[l + 1] = x
  <2>1. CASE w[l + 1] = x
    <3>1. \A m \in Level : w[m] = v[m]
      BY <1>m, <1>3, <2>1
    <3>2. Leads(w, z)
      BY <3>1 DEF Leads
    <3>3. QED
      BY <3>2
  <2>2. CASE w[l + 1] # x
    <3>1. x = Tomb /\ l + 1 = MaxLevels - 1 /\ w[l + 1] = Absent
      BY <1>m, <2>2 DEF Kept
    <3>2. PICK m \in Level : v[m] = z /\ z # Absent /\ \A j \in Level : j < m => v[j] = Absent
      BY <1>3, <3>1, EntryIs DEF Leads
    <3>3. \A j \in Level : j < l + 1 => w[j] = v[j]
      BY <1>0, <1>m, <1>3
    <3>4. CASE m < l + 1
      <4>1. Leads(w, z)
        BY <1>0, <3>2, <3>3, <3>4 DEF Leads
      <4>2. QED
        BY <4>1
    <3>5. CASE m = l + 1
      <4>1. z = Tomb
        BY <1>3, <3>1, <3>2, <3>5
      <4>2. \A j \in Level : w[j] = Absent
        BY <1>0, <3>1, <3>2, <3>3, <3>5
      <4>3. Leads(w, Absent)
        BY <4>2 DEF Leads
      <4>4. QED
        BY <1>1, <4>1, <4>3
    <3>6. QED
      BY <1>0, <3>1, <3>2, <3>4, <3>5
  <2>3. QED
    BY <2>1, <2>2
<1>4. QED
  BY <1>2, <1>3 DEF Moved

\* The disk e is d with the merge of src and over in file nn; k is not in both.
Output(d, e, nn, l, src, over, old, k) ==
    /\ old = src \o over
    /\ \A g : g # nn => e[g] = d[g]
    /\ e[nn][k] = Kept(NewestIn(old, d, k), l + 1 = MaxLevels - 1)
    /\ \A g, h : ~(In(g, src) /\ In(h, over) /\ d[g][k] # Absent /\ d[h][k] # Absent)

\* The reads that the compaction of src and over will leave.
LEMMA ShiftReads ==
    ASSUME NEW ls, NEW d, NEW nn \in File, Stack(ls, d, nn), NEW l \in Level, l + 1 \in Level,
           NEW src, NEW over, Inputs(ls, d, l, src, over),
           NEW k \in Key, NEW e, NEW old, Output(d, e, nn, l, src, over, old, k)
    PROVE  \E w, y :
              /\ w \in [Level -> Entry] /\ Leads(w, y)
              /\ \A a : Answer(a, LevelRead(ls, d, k)) = Answer(a, y)
              /\ \A m \in Level \ {l, l + 1} : FoundIs(ls, e, m, k, w[m])
              /\ SoleOf(Rest(ls[l], old), e, k, w[l])
              /\ SoleOf(Rest(ls[l + 1], old) \cup {nn}, e, k, w[l + 1])
<1>0. /\ nn \in Nat /\ l # l + 1 /\ l + 1 # 0
  BY FileIs, LevelIs
<1>a. /\ old = src \o over
      /\ \A g : g # nn => e[g] = d[g]
      /\ e[nn][k] = Kept(NewestIn(old, d, k), l + 1 = MaxLevels - 1)
      /\ \A g, h : ~(In(g, src) /\ In(h, over) /\ d[g][k] # Absent /\ d[h][k] # Absent)
  BY DEF Output
<1>1. PICK v \in [Level -> Entry] : /\ \A m \in Level : FoundIs(ls, d, m, k, v[m])
                                    /\ Leads(v, LevelRead(ls, d, k))
  BY ReadIs
<1>2. /\ src \in Seq(File) /\ over \in Seq(File)
      /\ l = 0 => src = ls[0]
      /\ l # 0 => Len(src) = 1
      /\ \A g : In(g, src) => In(g, ls[l])
      /\ \A g : In(g, over) => In(g, ls[l + 1])
  BY DEF Inputs
<1>3. /\ old \in Seq(File)
      /\ \A g : In(g, old) <=> In(g, src) \/ In(g, over)
  BY <1>a, <1>2, ConcatIs, ConcatIn
<1>4. \A m \in Level : \A g : In(g, ls[m]) => g \in File /\ g # nn /\ d[g] \in Content /\ e[g] = d[g]
  <2> TAKE m \in Level
  <2> TAKE g
  <2> HAVE In(g, ls[m])
  <2>1. g # nn
    BY <1>0, FreeNotListed
  <2>2. PICK i \in DOMAIN ls[m] : ls[m][i] = g
    BY DEF In
  <2>3. g \in File /\ d[g] \in Content
    BY <2>2 DEF Stack, WholeIn
  <2>4. QED
    BY <1>a, <2>1, <2>3
<1>5. \A g : ~(In(g, ls[l]) /\ In(g, ls[l + 1]))
  BY <1>0 DEF Stack, In
<1>6. WholeIn(old, d)
  <2> SUFFICES ASSUME NEW i \in DOMAIN old PROVE d[old[i]] \in Content
    BY DEF WholeIn
  <2>1. In(old[i], old)
    BY DEF In
  <2>2. QED
    BY <1>2, <1>3, <1>4, <2>1
<1>7. PICK x : x = NewestIn(old, d, k)
  OBVIOUS
<1>8. x \in Entry /\ LastWith(old, d, k, x)
  BY <1>3, <1>6, <1>7, NewestInIs
<1>9. PICK z : z = Kept(x, l + 1 = MaxLevels - 1)
  OBVIOUS
<1>10. z \in Entry /\ e[nn][k] = z
  BY <1>a, <1>7, <1>8, <1>9, EntryIs DEF Kept
<1>11. \A m \in Level \ {l, l + 1} : FoundIs(ls, e, m, k, v[m])
  <2> TAKE m \in Level \ {l, l + 1}
  <2>1. \A i \in DOMAIN ls[m] : e[ls[m][i]] = d[ls[m][i]]
    BY <1>4 DEF In
  <2>2. FoundIs(ls, d, m, k, v[m]) /\ m \in Level /\ ls[m] = ls[m]
    BY <1>1
  <2>3. CASE m = 0
    BY <2>1, <2>2, <2>3 DEF FoundIs, LastWith
  <2>4. CASE m # 0
    BY <2>1, <2>2, <2>4 DEF FoundIs, Sole
  <2>5. QED
    BY <2>3, <2>4
<1>12. /\ \A g \in Rest(ls[l], old) : In(g, ls[l]) /\ ~In(g, src) /\ e[g] = d[g]
       /\ \A g \in Rest(ls[l + 1], old) : In(g, ls[l + 1]) /\ ~In(g, over) /\ e[g] = d[g]
       /\ \A g : In(g, ls[l]) /\ ~In(g, src) => g \in Rest(ls[l], old)
       /\ \A g : In(g, ls[l + 1]) /\ ~In(g, over) => g \in Rest(ls[l + 1], old)
  BY <1>2, <1>3, <1>4, <1>5 DEF Rest
<1>13. \A g : In(g, ls[l + 1]) => (d[g][k] # Absent => v[l + 1] = d[g][k])
  BY <1>0, <1>1 DEF FoundIs, Sole, In
<1>14. (\A g : In(g, ls[l + 1]) => d[g][k] = Absent) => v[l + 1] = Absent
  BY <1>0, <1>1 DEF FoundIs, Sole, In
<1>15. ls[l] \in Seq(File) /\ ls[l + 1] \in Seq(File) /\ SortedIn(ls[l + 1], d)
       /\ (l # 0 => SortedIn(ls[l], d))
  BY <1>0 DEF Stack
<1>16. \A g, h : In(g, ls[l + 1]) /\ In(h, ls[l + 1]) /\ d[g][k] # Absent /\ d[h][k] # Absent => g = h
  BY <1>15, SortedApart DEF In
<1>17. l # 0 => \A g, h : In(g, ls[l]) /\ In(h, ls[l]) /\ d[g][k] # Absent /\ d[h][k] # Absent => g = h
  BY <1>15, SortedApart DEF In
<1>18. x = Absent \/ \E g : In(g, old) /\ d[g][k] = x /\ x # Absent
  BY <1>8 DEF LastWith, In
<1>19. (\E g : In(g, old) /\ d[g][k] # Absent) => x # Absent
  BY <1>8 DEF LastWith, In
<1>20. CASE \E g : In(g, src) /\ d[g][k] # Absent
  <2>1. PICK f : In(f, src) /\ d[f][k] # Absent
    BY <1>20
  <2>2. \A h : In(h, over) => d[h][k] = Absent
    BY <1>a, <2>1
  <2>3. x # Absent /\ \E g : In(g, src) /\ d[g][k] = x
    BY <1>3, <1>18, <1>19, <2>1, <2>2
  <2>4. v[l] = x
    <3>1. CASE l = 0
      <4>1. LastWith(src, d, k, v[l])
        BY <1>1, <1>2, <3>1 DEF FoundIs
      <4>2. LastWith(src, d, k, x)
        <5>1. PICK i \in DOMAIN old : /\ d[old[i]][k] = x /\ x # Absent
                                      /\ \A j \in DOMAIN old : j > i => d[old[j]][k] = Absent
          BY <1>8, <2>3 DEF LastWith
        <5>2. Joined(src, over, old)
          BY <1>a, <1>2, ConcatIs
        <5>3. PICK a \in Nat, b \in Nat : /\ a = Len(src) /\ b = Len(over)
                                          /\ DOMAIN src = 1 .. a /\ DOMAIN over = 1 .. b
          BY <1>2
        <5>4. /\ DOMAIN old = 1 .. a + b
              /\ \A j \in 1 .. a : old[j] = src[j]
              /\ \A j \in 1 .. b : old[a + j] = over[j]
          BY <1>3, <5>2, <5>3 DEF Joined
        <5>5. i \in 1 .. a
          <6>1. ASSUME i > a PROVE FALSE
            <7>1. i - a \in 1 .. b /\ a + (i - a) = i
              BY <5>4, <6>1
            <7>2. old[i] = over[i - a]
              BY <5>4, <7>1
            <7>3. In(old[i], over)
              BY <5>3, <7>1, <7>2 DEF In
            <7>4. QED
              BY <2>2, <5>1, <7>3
          <6>2. QED
            BY <5>4, <6>1
        <5>6. \A j \in 1 .. a : j > i => d[src[j]][k] = Absent
          <6>1. \A j \in 1 .. a : j \in 1 .. a + b
            OBVIOUS
          <6>2. QED
            BY <5>1, <5>4, <6>1
        <5>7. d[src[i]][k] = x
          BY <5>1, <5>4, <5>5
        <5>8. QED
          BY <5>1, <5>3, <5>5, <5>6, <5>7 DEF LastWith
      <4>3. QED
        BY <1>2, <4>1, <4>2, LastWithUnique
    <3>2. CASE l # 0
      <4>1. PICK g : In(g, src) /\ d[g][k] = x
        BY <2>3
      <4>2. Sole(ls[l], d, k, v[l])
        BY <1>1, <3>2 DEF FoundIs
      <4>3. \A h : In(h, ls[l]) => (d[h][k] # Absent => v[l] = d[h][k])
        BY <4>2 DEF Sole, In
      <4>4. In(g, ls[l]) /\ d[g][k] # Absent
        BY <1>2, <2>3, <4>1
      <4>5. QED
        BY <4>1, <4>3, <4>4
    <3>3. QED
      BY <3>1, <3>2
  <2>5. \A g \in Rest(ls[l], old) : e[g][k] = Absent
    <3>1. CASE l = 0
      BY <1>2, <1>12, <3>1
    <3>2. CASE l # 0
      BY <1>2, <1>12, <1>17, <2>1, <3>2
    <3>3. QED
      BY <3>1, <3>2
  <2>6. \A g \in Rest(ls[l + 1], old) : d[g][k] = Absent /\ e[g][k] = Absent
    BY <1>12, <2>1, SourceBeside
  <2>7. v[l + 1] = Absent
    BY <1>12, <1>14, <2>2, <2>6
  <2>8. PICK w : w = [m \in Level |-> IF m = l THEN Absent ELSE IF m = l + 1 THEN z ELSE v[m]]
    OBVIOUS
  <2>9. /\ w \in [Level -> Entry] /\ w[l] = Absent /\ w[l + 1] = z
        /\ \A m \in Level \ {l, l + 1} : w[m] = v[m]
    BY <1>0, <1>10, <2>8, EntryIs
  <2>10. PICK y : Leads(w, y) /\ \A a : Answer(a, y) = Answer(a, LevelRead(ls, d, k))
    <3>1. \/ v[l] = x /\ x # Absent /\ w[l] = Absent /\ v[l + 1] = Absent
          \/ v[l] = w[l] /\ v[l + 1] = x
      BY <2>3, <2>4, <2>7, <2>9
    <3>2. w[l + 1] = Kept(x, l + 1 = MaxLevels - 1)
      BY <1>9, <2>9
    <3>3. Moved(v, w, l, x)
      BY <2>9, <3>1, <3>2 DEF Moved
    <3>4. QED
      BY <1>1, <3>3, LeadsShift
  <2>11. SoleOf(Rest(ls[l], old), e, k, w[l])
    BY <2>5, <2>9 DEF SoleOf
  <2>12. SoleOf(Rest(ls[l + 1], old) \cup {nn}, e, k, w[l + 1])
    BY <1>10, <2>6, <2>9 DEF SoleOf
  <2>13. \A m \in Level \ {l, l + 1} : FoundIs(ls, e, m, k, w[m])
    BY <1>11, <2>9
  <2>14. QED
    BY <2>9, <2>10, <2>11, <2>12, <2>13
<1>21. ASSUME \A g : In(g, src) => d[g][k] = Absent
       PROVE  SoleOf(Rest(ls[l], old), e, k, v[l])
  <2>1. CASE l = 0
    <3>1. \A i \in DOMAIN ls[0] : d[ls[0][i]][k] = Absent
      BY <1>2, <1>21, <2>1 DEF In
    <3>2. v[l] = Absent
      <4>1. LastWith(ls[0], d, k, v[l])
        BY <1>1, <2>1 DEF FoundIs
      <4>2. QED
        BY <3>1, <4>1 DEF LastWith
    <3>3. Rest(ls[l], old) = {}
      BY <1>2, <1>12, <2>1
    <3>4. QED
      BY <3>2, <3>3 DEF SoleOf
  <2>2. CASE l # 0
    <3>1. Sole(ls[l], d, k, v[l])
      BY <1>1, <2>2 DEF FoundIs
    <3>2. \A g : In(g, ls[l]) => (d[g][k] # Absent => v[l] = d[g][k])
      BY <3>1 DEF Sole, In
    <3>3. (\A g : In(g, ls[l]) => d[g][k] = Absent) => v[l] = Absent
      BY <3>1 DEF Sole, In
    <3>4. \A g \in Rest(ls[l], old) : e[g][k] # Absent => v[l] = e[g][k]
      BY <1>12, <3>2
    <3>5. ASSUME \A g \in Rest(ls[l], old) : e[g][k] = Absent
          PROVE  v[l] = Absent
      <4>1. ASSUME NEW g, In(g, ls[l]) PROVE d[g][k] = Absent
        <5>1. CASE In(g, src)
          BY <1>21, <5>1
        <5>2. CASE ~In(g, src)
          BY <1>12, <3>5, <4>1, <5>2
        <5>3. QED
          BY <5>1, <5>2
      <4>2. QED
        BY <3>3, <4>1
    <3>6. QED
      BY <3>4, <3>5 DEF SoleOf
  <2>3. QED
    BY <2>1, <2>2
<1>22. CASE /\ \A g : In(g, src) => d[g][k] = Absent
            /\ \E g : In(g, over) /\ d[g][k] # Absent
  <2>1. PICK f : In(f, over) /\ d[f][k] # Absent
    BY <1>22
  <2>2. x # Absent /\ \E g : In(g, over) /\ d[g][k] = x
    BY <1>3, <1>18, <1>19, <1>22, <2>1
  <2>3. v[l + 1] = x
    BY <1>2, <1>13, <2>2
  <2>4. \A g \in Rest(ls[l + 1], old) : e[g][k] = Absent
    BY <1>2, <1>12, <1>16, <2>1
  <2>5. PICK w : w = [m \in Level |-> IF m = l + 1 THEN z ELSE v[m]]
    OBVIOUS
  <2>6. /\ w \in [Level -> Entry] /\ w[l] = v[l] /\ w[l + 1] = z
        /\ \A m \in Level \ {l, l + 1} : w[m] = v[m]
    BY <1>0, <1>10, <2>5
  <2>7. PICK y : Leads(w, y) /\ \A a : Answer(a, y) = Answer(a, LevelRead(ls, d, k))
    <3>1. \/ v[l] = x /\ x # Absent /\ w[l] = Absent /\ v[l + 1] = Absent
          \/ v[l] = w[l] /\ v[l + 1] = x
      BY <2>3, <2>6
    <3>2. w[l + 1] = Kept(x, l + 1 = MaxLevels - 1)
      BY <1>9, <2>6
    <3>3. Moved(v, w, l, x)
      BY <2>6, <3>1, <3>2 DEF Moved
    <3>4. QED
      BY <1>1, <3>3, LeadsShift
  <2>8. SoleOf(Rest(ls[l], old), e, k, w[l])
    BY <1>21, <1>22, <2>6
  <2>9. SoleOf(Rest(ls[l + 1], old) \cup {nn}, e, k, w[l + 1])
    BY <1>10, <2>4, <2>6 DEF SoleOf
  <2>10. \A m \in Level \ {l, l + 1} : FoundIs(ls, e, m, k, w[m])
    BY <1>11, <2>6
  <2>11. QED
    BY <2>6, <2>7, <2>8, <2>9, <2>10
<1>23. CASE /\ \A g : In(g, src) => d[g][k] = Absent
            /\ \A g : In(g, over) => d[g][k] = Absent
  <2>1. x = Absent
    BY <1>3, <1>18, <1>23
  <2>2. e[nn][k] = Absent
    BY <1>9, <1>10, <2>1 DEF Kept
  <2>3. SoleOf(Rest(ls[l], old), e, k, v[l])
    BY <1>21, <1>23
  <2>4. SoleOf(Rest(ls[l + 1], old) \cup {nn}, e, k, v[l + 1])
    BY <1>12, <1>13, <1>14, <1>23, <2>2 DEF SoleOf
  <2>5. QED
    BY <1>1, <1>11, <2>3, <2>4
<1>24. QED
  BY <1>20, <1>22, <1>23

\* What compact_level has chosen and written.
LEMMA CompactIs ==
    ASSUME NEW l \in Level, l + 1 \in Level, Len(levels[l]) >= 1,
           Stack(levels, disk, next_num), NEW missed, CompactLevel(l, missed)
    PROVE  \E src, over :
             /\ Inputs(levels, disk, l, src, over)
             /\ next_num \in File
             /\ disk' = [disk EXCEPT ![next_num] = Merged(src \o over, missed, l + 1 = MaxLevels - 1)]
             /\ job' = [target |-> l + 1, old |-> src \o over,
                        exposed |-> (KeysOf(src) \cap KeysOf(over))
                                   \cup KeysMissed(src \o over, missed),
                        reads |-> [k \in Key |-> StorageGet(k)]]
             /\ pc' = "merged"
             /\ UNCHANGED <<up, mem, wal, synced, manifest, levels, next_num, last>>
<1>1. PICK src : src = IF l = 0 THEN levels[0] ELSE << levels[l][1] >>
  OBVIOUS
<1>2. PICK lo : lo = CHOOSE k \in {MinKey(disk[src[i]]) : i \in DOMAIN src} :
                        \A i \in DOMAIN src : k <= MinKey(disk[src[i]])
  OBVIOUS
<1>3. PICK hi : hi = CHOOSE k \in {MaxKey(disk[src[i]]) : i \in DOMAIN src} :
                        \A i \in DOMAIN src : k >= MaxKey(disk[src[i]])
  OBVIOUS
<1>4. PICK over : over = OverlapIn(levels[l + 1], disk, lo, hi)
  OBVIOUS
<1>5. Inputs(levels, disk, l, src, over)
  BY <1>1, <1>2, <1>3, <1>4, InputsIs
<1>6. over = Overlapping(l + 1, lo, hi)
  BY <1>4 DEF Overlapping, OverlapIn, At
<1>7. /\ next_num \in File
      /\ disk' = [disk EXCEPT ![next_num] = Merged(src \o over, missed, l + 1 = MaxLevels - 1)]
      /\ job' = [target |-> l + 1, old |-> src \o over,
                 exposed |-> (KeysOf(src) \cap KeysOf(over))
                                   \cup KeysMissed(src \o over, missed),
                 reads |-> [k \in Key |-> StorageGet(k)]]
      /\ pc' = "merged"
      /\ UNCHANGED <<up, mem, wal, synced, manifest, levels, next_num, last>>
  BY <1>1, <1>2, <1>3, <1>6, Zenon DEF CompactLevel
<1>8. QED
  BY <1>5, <1>7

\* The inputs hold no file twice; the output has no other keys than they have, and meets
\* no other file of its level.
LEMMA CompactStarts ==
    ASSUME NEW l \in Level, l + 1 \in Level, Len(levels[l]) >= 1,
           Stack(levels, disk, next_num), disk \in Disks, mem \in Content,
           NEW missed, CompactLevel(l, missed)
    PROVE  /\ disk' \in Disks /\ Stack(levels, disk', next_num)
           /\ JobOK(levels, disk', next_num, job'.target, job'.old)
           /\ JobReads(levels, disk', next_num, job'.target, job'.old, job'.exposed, job'.reads, mem)
           /\ pc' = "merged"
           /\ UNCHANGED <<up, mem, wal, synced, manifest, levels, next_num, last>>
<1>1. PICK src, over :
             /\ Inputs(levels, disk, l, src, over)
             /\ next_num \in File
             /\ disk' = [disk EXCEPT ![next_num] = Merged(src \o over, missed, l + 1 = MaxLevels - 1)]
             /\ job' = [target |-> l + 1, old |-> src \o over,
                        exposed |-> (KeysOf(src) \cap KeysOf(over))
                                   \cup KeysMissed(src \o over, missed),
                        reads |-> [k \in Key |-> StorageGet(k)]]
             /\ pc' = "merged"
             /\ UNCHANGED <<up, mem, wal, synced, manifest, levels, next_num, last>>
  BY CompactIs
<1>2. PICK nn, d, e, ls : nn = next_num /\ d = disk /\ e = disk' /\ ls = levels
  OBVIOUS
<1>3. PICK bottom \in BOOLEAN : bottom = (l + 1 = MaxLevels - 1)
  OBVIOUS
<1>4. PICK old : old = src \o over
  OBVIOUS
<1>5. PICK c : c = Merged(old, missed, bottom)
  OBVIOUS
<1>6. /\ Stack(ls, d, nn) /\ nn \in File /\ d \in Disks /\ Inputs(ls, d, l, src, over)
      /\ e = [d EXCEPT ![nn] = c]
  BY <1>1, <1>2, <1>3, <1>4, <1>5
<1>7. /\ src \in Seq(File) /\ over \in Seq(File) /\ Unique(src) /\ Unique(over)
      /\ l = 0 => src = ls[0]
      /\ \A g : In(g, src) => In(g, ls[l])
      /\ \A g : In(g, over) => In(g, ls[l + 1])
  BY <1>6 DEF Inputs
<1>8. /\ l # l + 1 /\ nn \in Nat /\ l + 1 - 1 = l /\ l + 1 \in 1 .. MaxLevels - 1 /\ l + 1 # 0
  BY <1>6, FileIs, LevelIs DEF Level
<1>9. \A g : ~(In(g, src) /\ In(g, over))
  <2>1. \A g : ~(In(g, ls[l]) /\ In(g, ls[l + 1]))
    BY <1>6, <1>8 DEF Stack, In
  <2>2. QED
    BY <1>7, <2>1
<1>10. /\ old \in Seq(File) /\ Unique(old) /\ Joined(src, over, old)
       /\ \A g : In(g, old) <=> In(g, src) \/ In(g, over)
  BY <1>4, <1>7, <1>9, ConcatIs, ConcatIn, ConcatUnique
<1>11. \A m \in Level : \A g : In(g, ls[m]) => d[g] \in Content /\ g # nn /\ g \in File
  <2> TAKE m \in Level
  <2> TAKE g
  <2> HAVE In(g, ls[m])
  <2>1. PICK i \in DOMAIN ls[m] : ls[m][i] = g
    BY DEF In
  <2>2. d[g] \in Content /\ g \in File
    BY <1>6, <2>1 DEF Stack, WholeIn
  <2>3. ~In(nn, ls[m])
    BY <1>6, <1>8, FreeNotListed
  <2>4. QED
    BY <2>2, <2>3
<1>12. WholeIn(old, disk)
  <2> SUFFICES ASSUME NEW i \in DOMAIN old PROVE d[old[i]] \in Content
    BY <1>2 DEF WholeIn
  <2>1. In(old[i], old)
    BY DEF In
  <2>2. QED
    BY <1>7, <1>10, <1>11, <2>1
<1>13. /\ c \in Content
       /\ \A k \in Key : c[k] # Absent => \E i \in DOMAIN old : disk[old[i]][k] # Absent
       /\ \A k \in Key \ KeysMissed(old, missed) :
             c[k] = Kept(NewestIn(old, disk, k), bottom)
  BY <1>5, <1>10, <1>12, MergedIs
<1>14. /\ e \in Disks /\ e[nn] = c /\ \A g : g # nn => e[g] = d[g]
  <2>1. e \in Disks
    BY <1>6, <1>13 DEF Disks
  <2>2. e[nn] = c
    BY <1>6 DEF Disks
  <2>3. ASSUME NEW g, g # nn PROVE e[g] = d[g]
    <3>1. CASE g \in File
      BY <1>6, <2>3, <3>1 DEF Disks
    <3>2. CASE g \notin File
      BY <1>6, <2>3, <3>2 DEF Disks
    <3>3. QED
      BY <3>1, <3>2
  <2>4. QED
    BY <2>1, <2>2, <2>3
<1>15. Stack(ls, e, nn)
  <2>1. \A m \in Level : \A i \in DOMAIN ls[m] : e[ls[m][i]] = d[ls[m][i]]
    BY <1>11, <1>14 DEF In
  <2>2. Stack(ls, d, nn) /\ nn \in Nat /\ nn <= nn
    BY <1>6, <1>8
  <2>3. QED
    BY <2>1, <2>2, StackKept
<1>16. \A k \in Keys(c) : \E h : (In(h, src) \/ In(h, over)) /\ k \in Keys(d[h])
  <2> TAKE k \in Keys(c)
  <2>1. k \in Key /\ c[k] # Absent
    BY DEF Keys
  <2>2. PICK i \in DOMAIN old : d[old[i]][k] # Absent
    BY <1>2, <1>13, <2>1
  <2>3. In(old[i], old) /\ k \in Keys(d[old[i]])
    BY <2>1, <2>2 DEF In, Keys
  <2>4. QED
    BY <1>10, <2>3
<1>s. PICK t : t = l + 1
  OBVIOUS
<1>t. t = l + 1 /\ t - 1 = l
  BY <1>s, LevelIs
<1>17. JobOK(ls, e, nn, t, old)
  <2>1. \A i \in DOMAIN old : In(old[i], ls[l]) \/ In(old[i], ls[l + 1])
    <3> TAKE i \in DOMAIN old
    <3>1. In(old[i], old)
      BY DEF In
    <3>2. QED
      BY <1>7, <1>10, <3>1
  <2>2. l = 0 => Begins(ls[0], old)
    BY <1>7, <1>10 DEF Begins, Joined
  <2>3. ASSUME NEW g, In(g, ls[l + 1]), ~In(g, old)
        PROVE  Precedes(e[g], e[nn]) \/ Precedes(e[nn], e[g])
    <3>1. e[g] = d[g] /\ e[nn] = c
      BY <1>11, <1>14, <2>3
    <3>2. ~In(g, over)
      BY <1>10, <2>3
    <3>3. Precedes(d[g], c) \/ Precedes(c, d[g])
      BY <1>6, <1>16, <2>3, <3>2, OutputBeside
    <3>4. QED
      BY <3>1, <3>3
  <2>4. t = 1 => Begins(ls[0], old)
    BY <1>t, <2>2, LevelIs
  <2>5. e[nn] \in Content /\ t \in 1 .. MaxLevels - 1
    BY <1>t, <1>8, <1>13, <1>14
  <2>6. \A i \in DOMAIN old : In(old[i], ls[t - 1]) \/ In(old[i], ls[t])
    BY <1>t, <2>1
  <2>7. \A g : In(g, ls[t]) /\ ~In(g, old) => Precedes(e[g], e[nn]) \/ Precedes(e[nn], e[g])
    BY <1>t, <2>3
  <2>8. QED
    BY <1>6, <1>10, <2>4, <2>5, <2>6, <2>7, Zenon DEF JobOK
<1>18. /\ job'.target = t /\ job'.old = old
       /\ job'.exposed = (KeysOf(src) \cap KeysOf(over)) \cup KeysMissed(old, missed)
       /\ job'.reads = [k \in Key |-> StorageGet(k)]
  BY <1>1, <1>4, <1>t
<1>19. JobReads(ls, e, nn, t, old, job'.exposed, job'.reads, mem)
  <2> SUFFICES ASSUME NEW k \in Key, k \notin job'.exposed
               PROVE  \E w, y :
                         /\ w \in [Level -> Entry] /\ Leads(w, y) /\ job'.reads[k] = Answer(mem[k], y)
                         /\ \A m \in Level \ {t - 1, t} : FoundIs(ls, e, m, k, w[m])
                         /\ SoleOf(Rest(ls[t - 1], old), e, k, w[t - 1])
                         /\ SoleOf(Rest(ls[t], old) \cup {nn}, e, k, w[t])
    BY Zenon DEF JobReads
  <2>1. \A g, h : ~(In(g, src) /\ In(h, over) /\ d[g][k] # Absent /\ d[h][k] # Absent)
    <3> SUFFICES ASSUME NEW g, NEW h, In(g, src), In(h, over), d[g][k] # Absent, d[h][k] # Absent
                 PROVE  FALSE
      OBVIOUS
    <3>1. k \in KeysOf(src)
      BY <1>2 DEF KeysOf, Keys, In
    <3>2. k \in KeysOf(over)
      BY <1>2 DEF KeysOf, Keys, In
    <3>3. QED
      BY <1>18, <3>1, <3>2
  <2>2. e[nn][k] = Kept(NewestIn(old, d, k), l + 1 = MaxLevels - 1)
    <3>1. k \notin KeysMissed(old, missed)
      BY <1>18
    <3>2. QED
      BY <1>2, <1>3, <1>13, <1>14, <3>1
  <2>3. PICK w, y :
              /\ w \in [Level -> Entry] /\ Leads(w, y)
              /\ \A a : Answer(a, LevelRead(ls, d, k)) = Answer(a, y)
              /\ \A m \in Level \ {l, l + 1} : FoundIs(ls, e, m, k, w[m])
              /\ SoleOf(Rest(ls[l], old), e, k, w[l])
              /\ SoleOf(Rest(ls[l + 1], old) \cup {nn}, e, k, w[l + 1])
    <3>1. Stack(ls, d, nn) /\ nn \in File /\ Inputs(ls, d, l, src, over)
      BY <1>6
    <3>2. \A g : g # nn => e[g] = d[g]
      BY <1>14
    <3>3. Output(d, e, nn, l, src, over, old, k)
      BY <1>4, <2>1, <2>2, <3>2 DEF Output
    <3>4. QED
      BY <3>1, <3>3, ShiftReads
  <2>4. job'.reads[k] = Answer(mem[k], LevelRead(ls, d, k))
    BY <1>2, <1>18, StorageGetIs
  <2>5. job'.reads[k] = Answer(mem[k], y)
    BY <2>3, <2>4
  <2>6. w[t - 1] = w[l] /\ w[t] = w[l + 1] /\ ls[t - 1] = ls[l] /\ ls[t] = ls[l + 1]
        /\ {t - 1, t} = {l, l + 1}
    BY <1>t
  <2>7. /\ \A m \in Level \ {t - 1, t} : FoundIs(ls, e, m, k, w[m])
        /\ SoleOf(Rest(ls[t - 1], old), e, k, w[t - 1])
        /\ SoleOf(Rest(ls[t], old) \cup {nn}, e, k, w[t])
    BY <2>3, <2>6
  <2>8. QED
    BY <2>3, <2>5, <2>7
<1>20. QED
  BY <1>1, <1>2, <1>14, <1>15, <1>17, <1>18, <1>19

\* level_remove_sstable of the first file of a list.
LEMMA DroppedHead ==
    ASSUME NEW S, NEW s \in Seq(S), Len(s) >= 1
    PROVE  /\ Dropped(s, s[1]) \in Seq(S) /\ Len(Dropped(s, s[1])) = Len(s) - 1
           /\ \A i \in 1 .. Len(s) - 1 : Dropped(s, s[1])[i] = s[i + 1]
<1>0. PICK n \in Nat : n = Len(s) /\ DOMAIN s = 1 .. n /\ n >= 1
  OBVIOUS
<1> DEFINE at == {i \in DOMAIN s : s[i] = s[1]}
           p  == CHOOSE i \in at : \A j \in at : i <= j
<1>1. 1 \in at /\ \A j \in at : 1 <= j /\ j \in Nat
  BY <1>0
<1>2. at # {} /\ Dropped(s, s[1]) = SubSeq(s, 1, p - 1) \o SubSeq(s, p + 1, Len(s))
  BY <1>1, Zenon DEF Dropped
<1>3. p \in at /\ \A j \in at : p <= j
  <2> HIDE DEF at
  <2>1. \E i \in at : \A j \in at : i <= j
    BY <1>1
  <2>2. QED
    BY <2>1, Zenon
<1> HIDE DEF at, p
<1>4. p = 1
  BY <1>1, <1>3
<1>5. PICK u : u = SubSeq(s, 1, 0)
  OBVIOUS
<1>6. PICK v : v = SubSeq(s, 2, Len(s))
  OBVIOUS
<1>7. Dropped(s, s[1]) = u \o v
  <2>1. p - 1 = 0 /\ p + 1 = 2
    BY <1>4
  <2>2. QED
    BY <1>2, <1>4, <1>5, <1>6, <2>1
<1>8. u \in Seq(S) /\ Len(u) = 0
  <2>1. u \in Seq(S) /\ Len(u) = 0 - 1 + 1
    BY <1>5, SubSeqIs
  <2>2. QED
    BY <2>1
<1>9. v \in Seq(S) /\ Len(v) = n - 1 /\ \A i \in 1 .. n - 1 : v[i] = s[i + 1]
  <2>1. v \in Seq(S) /\ Len(v) = Len(s) - 2 + 1 /\ \A i \in 1 .. Len(v) : v[i] = s[2 + i - 1]
    BY <1>0, <1>6, SubSeqIs
  <2>2. Len(v) = n - 1 /\ \A i \in 1 .. n - 1 : 2 + i - 1 = i + 1
    BY <1>0, <2>1
  <2>3. QED
    BY <2>1, <2>2
<1>10. PICK t : t = u \o v
  OBVIOUS
<1>11. /\ t \in Seq(S) /\ Len(t) = Len(u) + Len(v)
       /\ \A k \in 1 .. Len(v) : t[Len(u) + k] = v[k]
  BY <1>8, <1>9, <1>10, ConcatIs DEF Joined
<1>12. Len(t) = n - 1 /\ \A k \in 1 .. n - 1 : t[k] = v[k]
  <2>1. \A k \in 1 .. n - 1 : 0 + k = k
    BY <1>0
  <2>2. QED
    BY <1>0, <1>8, <1>9, <1>11, <2>1
<1>13. QED
  BY <1>0, <1>7, <1>9, <1>10, <1>11, <1>12

LEMMA TailIs ==
    ASSUME NEW S, NEW s \in Seq(S), s # << >>, Unique(s)
    PROVE  /\ Head(s) = s[1] /\ In(Head(s), s)
           /\ Tail(s) \in Seq(S) /\ Unique(Tail(s)) /\ Len(Tail(s)) = Len(s) - 1
           /\ \A i \in 1 .. Len(s) - 1 : Tail(s)[i] = s[i + 1]
           /\ \A g : In(g, Tail(s)) <=> In(g, s) /\ g # Head(s)
<1>0. PICK n \in Nat : n = Len(s) /\ DOMAIN s = 1 .. n /\ n >= 1
  OBVIOUS
<1>1. PICK t : t = Tail(s)
  OBVIOUS
<1>2. Head(s) = s[1] /\ In(Head(s), s)
  BY <1>0 DEF In
<1>3. t \in Seq(S) /\ Len(t) = n - 1 /\ DOMAIN t = 1 .. n - 1
  BY <1>0, <1>1
<1>4. \A i \in 1 .. n - 1 : t[i] = s[i + 1]
  BY <1>0, <1>1
<1>5. Unique(t)
  <2> SUFFICES ASSUME NEW i \in 1 .. n - 1, NEW j \in 1 .. n - 1, t[i] = t[j] PROVE i = j
    BY <1>3 DEF Unique
  <2>1. i + 1 \in DOMAIN s /\ j + 1 \in DOMAIN s /\ s[i + 1] = s[j + 1]
    BY <1>0, <1>4
  <2>2. i + 1 = j + 1
    BY <2>1 DEF Unique
  <2>3. QED
    BY <2>2
<1>6. ASSUME NEW g, In(g, t) PROVE In(g, s) /\ g # s[1]
  <2>1. PICK i \in 1 .. n - 1 : t[i] = g
    BY <1>3, <1>6 DEF In
  <2>2. i + 1 \in DOMAIN s /\ 1 \in DOMAIN s /\ i + 1 # 1 /\ s[i + 1] = g
    BY <1>0, <1>4, <2>1
  <2>3. QED
    BY <2>2 DEF In, Unique
<1>7. ASSUME NEW g, In(g, s), g # s[1] PROVE In(g, t)
  <2>1. PICK i \in 1 .. n : s[i] = g
    BY <1>0, <1>7 DEF In
  <2>2. i # 1
    BY <1>7, <2>1
  <2>3. i - 1 \in 1 .. n - 1 /\ i - 1 + 1 = i
    BY <1>0, <2>2
  <2>4. t[i - 1] = g
    BY <1>4, <2>1, <2>3
  <2>5. QED
    BY <1>3, <2>3, <2>4 DEF In
<1>8. QED
  BY <1>0, <1>1, <1>2, <1>3, <1>4, <1>5, <1>6, <1>7

\* The levels L are ls without file f, which only the levels t - 1 and t may list.
Unlisted(ls, t, f, L) ==
    /\ DOMAIN L = Level /\ L = [l \in Level |-> L[l]]
    /\ \A l \in Level : L[l] = IF l \in {t - 1, t} THEN Dropped(ls[l], f) ELSE ls[l]

\* One input leaves the levels and the disk.
LEMMA UnlinkKeeps ==
    ASSUME NEW ls, NEW d, NEW nn \in File, Stack(ls, d, nn), NEW t, NEW old,
           JobOK(ls, d, nn, t, old), old # << >>, NEW e, Elsewhere(d, e, Head(old)),
           NEW L, Unlisted(ls, t, Head(old), L),
           NEW exposed, NEW reads, NEW mm, JobReads(ls, d, nn, t, old, exposed, reads, mm)
    PROVE  /\ Stack(L, e, nn) /\ JobOK(L, e, nn, t, Tail(old))
           /\ JobReads(L, e, nn, t, Tail(old), exposed, reads, mm)
<1>0. /\ nn \in Nat
      /\ t \in 1 .. MaxLevels - 1 /\ t \in Level /\ t - 1 \in Level /\ t \in Nat /\ t - 1 # t
      /\ old \in Seq(File) /\ Unique(old)
      /\ \A i \in DOMAIN old : In(old[i], ls[t - 1]) \/ In(old[i], ls[t])
      /\ t = 1 => Begins(ls[0], old)
      /\ d[nn] \in Content
      /\ \A g : In(g, ls[t]) /\ ~In(g, old) => Precedes(d[g], d[nn]) \/ Precedes(d[nn], d[g])
  <2>1. t \in 1 .. MaxLevels - 1
    BY DEF JobOK
  <2>2. t \in Level /\ t - 1 \in Level /\ t \in Nat /\ t - 1 # t /\ nn \in Nat
    BY <2>1, LevelIs, FileIs DEF Level
  <2>3. QED
    BY <2>1, <2>2 DEF JobOK
<1>1. PICK f, o : f = Head(old) /\ o = Tail(old)
  OBVIOUS
<1>2. /\ f = old[1] /\ In(f, old)
      /\ o \in Seq(File) /\ Unique(o) /\ Len(o) = Len(old) - 1
      /\ \A i \in 1 .. Len(old) - 1 : o[i] = old[i + 1]
      /\ \A g : In(g, o) <=> In(g, old) /\ g # f
  BY <1>0, <1>1, TailIs
<1>3. \A g : In(g, old) => In(g, ls[t - 1]) \/ In(g, ls[t])
  BY <1>0 DEF In
<1>e. Elsewhere(d, e, f)
  BY <1>1
<1>4. \A g : g # f => e[g] = d[g]
  BY <1>e DEF Elsewhere
<1>5. /\ \A l \in Level : l \in {t - 1, t} => L[l] = Dropped(ls[l], f)
      /\ \A l \in Level : l \notin {t - 1, t} => L[l] = ls[l]
  BY <1>1, Zenon DEF Unlisted
<1>6. \A l \in Level \ {t - 1, t} : ~In(f, ls[l])
  <2> SUFFICES ASSUME NEW l \in Level, l # t - 1, l # t, In(f, ls[l]) PROVE FALSE
    OBVIOUS
  <2>1. In(f, ls[t - 1]) \/ In(f, ls[t])
    BY <1>2, <1>3
  <2>2. \A m \in Level : In(f, ls[m]) => m = l
    BY DEF Stack, In
  <2>3. QED
    BY <1>0, <2>1, <2>2
<1>7. Without(ls, f, L)
  <2>1. \A l \in Level : L[l] = Dropped(ls[l], f) \/ (L[l] = ls[l] /\ ~In(f, ls[l]))
    <3> TAKE l \in Level
    <3>1. CASE l \in {t - 1, t}
      BY <1>5, <3>1, Zenon
    <3>2. CASE l \notin {t - 1, t}
      <4>1. L[l] = ls[l] /\ ~In(f, ls[l])
        BY <1>5, <1>6, <3>2, Zenon
      <4>2. QED
        BY <4>1
    <3>3. QED
      BY <3>1, <3>2
  <2>2. QED
    BY <2>1, Zenon DEF Unlisted, Without
<1>8. /\ Stack(L, e, nn)
      /\ \A l \in Level : \A g : In(g, L[l]) <=> In(g, ls[l]) /\ g # f
  <2>1. nn \in Nat
    BY <1>0
  <2>2. QED
    BY <1>e, <1>7, <2>1, StackDrop
<1>9. \A l \in Level : ~In(nn, ls[l])
  BY <1>0, FreeNotListed
<1>10. nn # f /\ e[nn] = d[nn]
  BY <1>0, <1>2, <1>3, <1>4, <1>9
<1>11. JobOK(L, e, nn, t, o)
  <2>1. \A i \in DOMAIN o : In(o[i], L[t - 1]) \/ In(o[i], L[t])
    <3> TAKE i \in DOMAIN o
    <3>1. In(o[i], o)
      BY DEF In
    <3>2. In(o[i], old) /\ o[i] # f
      BY <1>2, <3>1
    <3>3. QED
      BY <1>0, <1>3, <1>8, <3>2
  <2>2. ASSUME t = 1 PROVE Begins(L[0], o)
    <3>1. Begins(ls[0], old) /\ L[0] = Dropped(ls[0], f) /\ ls[0] \in Seq(File)
      <4>1. 0 \in {t - 1, t} /\ 0 \in Level
        BY <2>2, LevelIs
      <4>2. QED
        BY <1>0, <1>5, <2>2, <4>1 DEF Stack
    <3>2. CASE Len(ls[0]) = 0
      <4>1. \A g : ~In(g, ls[0])
        BY <3>1, <3>2 DEF In
      <4>2. L[0] = ls[0]
        BY <3>1, <4>1 DEF Dropped, In
      <4>3. DOMAIN L[0] = {} /\ Len(L[0]) = 0 /\ Len(o) >= 0
        BY <1>2, <3>1, <3>2, <4>2
      <4>4. QED
        BY <4>3 DEF Begins
    <3>3. CASE Len(ls[0]) # 0
      <4>1. PICK a \in Nat, b \in Nat : /\ a = Len(ls[0]) /\ b = Len(old) /\ a >= 1 /\ a <= b
                                        /\ DOMAIN ls[0] = 1 .. a
        BY <1>0, <3>1, <3>3 DEF Begins
      <4>2. \A i \in 1 .. a : old[i] = ls[0][i]
        BY <3>1, <4>1 DEF Begins
      <4>3. f = ls[0][1]
        BY <1>2, <4>1, <4>2
      <4>4. PICK u : u = L[0]
        OBVIOUS
      <4>5. /\ u \in Seq(File) /\ Len(u) = a - 1
            /\ \A i \in 1 .. a - 1 : u[i] = ls[0][i + 1]
        BY <3>1, <4>1, <4>3, <4>4, DroppedHead
      <4>6. \A i \in 1 .. a - 1 : o[i] = u[i]
        <5> TAKE i \in 1 .. a - 1
        <5>1. i + 1 \in 1 .. a /\ i \in 1 .. b - 1
          BY <4>1
        <5>2. QED
          BY <1>2, <4>1, <4>2, <4>5, <5>1
      <4>7. Len(u) <= Len(o) /\ DOMAIN u = 1 .. a - 1
        BY <1>2, <4>1, <4>5
      <4>8. QED
        BY <4>4, <4>6, <4>7 DEF Begins
    <3>4. QED
      BY <3>2, <3>3
  <2>3. \A g : In(g, L[t]) /\ ~In(g, o) => Precedes(e[g], e[nn]) \/ Precedes(e[nn], e[g])
    BY <1>0, <1>2, <1>4, <1>8, <1>10
  <2>4. QED
    BY <1>0, <1>2, <1>10, <2>1, <2>2, <2>3 DEF JobOK
<1>12. /\ Rest(L[t - 1], o) = Rest(ls[t - 1], old) /\ f \notin Rest(ls[t - 1], old)
       /\ Rest(L[t], o) = Rest(ls[t], old) /\ f \notin Rest(ls[t], old)
  BY <1>0, <1>2, <1>8 DEF Rest
<1>13. JobReads(L, e, nn, t, o, exposed, reads, mm)
  <2> SUFFICES ASSUME NEW k \in Key \ exposed
               PROVE  \E w, y :
                         /\ w \in [Level -> Entry] /\ Leads(w, y) /\ reads[k] = Answer(mm[k], y)
                         /\ \A m \in Level \ {t - 1, t} : FoundIs(L, e, m, k, w[m])
                         /\ SoleOf(Rest(L[t - 1], o), e, k, w[t - 1])
                         /\ SoleOf(Rest(L[t], o) \cup {nn}, e, k, w[t])
    BY Zenon DEF JobReads
  <2>1. PICK w, y :
                         /\ w \in [Level -> Entry] /\ Leads(w, y) /\ reads[k] = Answer(mm[k], y)
                         /\ \A m \in Level \ {t - 1, t} : FoundIs(ls, d, m, k, w[m])
                         /\ SoleOf(Rest(ls[t - 1], old), d, k, w[t - 1])
                         /\ SoleOf(Rest(ls[t], old) \cup {nn}, d, k, w[t])
    BY Zenon DEF JobReads
  <2>2. ASSUME NEW m \in Level \ {t - 1, t} PROVE FoundIs(L, e, m, k, w[m])
    <3>1. FoundIs(ls, d, m, k, w[m]) /\ L[m] = ls[m]
      BY <1>5, <2>1
    <3>2. \A i \in DOMAIN ls[m] : e[ls[m][i]] = d[ls[m][i]]
      BY <1>4, <1>6 DEF In
    <3>3. CASE m = 0
      BY <3>1, <3>2, <3>3 DEF FoundIs, LastWith
    <3>4. CASE m # 0
      BY <3>1, <3>2, <3>4 DEF FoundIs, Sole
    <3>5. QED
      BY <3>3, <3>4
  <2>3. SoleOf(Rest(L[t - 1], o), e, k, w[t - 1])
    <3>1. \A g \in Rest(ls[t - 1], old) : e[g] = d[g]
      BY <1>4, <1>12
    <3>2. SoleOf(Rest(ls[t - 1], old), e, k, w[t - 1])
      BY <2>1, <3>1 DEF SoleOf
    <3>3. QED
      BY <1>12, <3>2
  <2>4. SoleOf(Rest(L[t], o) \cup {nn}, e, k, w[t])
    <3>1. \A g \in Rest(ls[t], old) \cup {nn} : e[g] = d[g]
      BY <1>4, <1>10, <1>12
    <3>2. SoleOf(Rest(ls[t], old) \cup {nn}, e, k, w[t])
      BY <2>1, <3>1 DEF SoleOf
    <3>3. QED
      BY <1>12, <3>2
  <2>5. QED
    BY <2>1, <2>2, <2>3, <2>4
<1>14. QED
  BY <1>1, <1>8, <1>11, <1>13

\* The levels L are ls with s at t.
Replaced(ls, t, s, L) == L[t] = s /\ \A m \in Level : m # t => L[m] = ls[m]

\* The output is in its place: every key reads as the compaction promised.
LEMMA AddReads ==
    ASSUME NEW ls, NEW d, NEW nn, NEW t, JobOK(ls, d, nn, t, << >>), NEW exposed, NEW reads, NEW mm,
           JobReads(ls, d, nn, t, << >>, exposed, reads, mm), ls \in [Level -> Seq(File)],
           NEW pos \in 0 .. Len(ls[t]), NEW s \in Seq(File), Inserted(ls[t], pos, nn, s),
           NEW L, Replaced(ls, t, s, L), NEW nm, Stack(L, d, nm), NEW k \in Key \ exposed
    PROVE  reads[k] = Answer(mm[k], LevelRead(L, d, k))
<1>0. /\ t \in Level /\ t - 1 \in Level /\ t # t - 1 /\ t # 0 /\ (t - 1 = 0 => Begins(ls[0], << >>))
  <2>1. t \in 1 .. MaxLevels - 1 /\ (t = 1 => Begins(ls[0], << >>))
    BY DEF JobOK
  <2>2. QED
    BY <2>1, LevelIs DEF Level
<1>1. PICK w, y :
                         /\ w \in [Level -> Entry] /\ Leads(w, y) /\ reads[k] = Answer(mm[k], y)
                         /\ \A m \in Level \ {t - 1, t} : FoundIs(ls, d, m, k, w[m])
                         /\ SoleOf(Rest(ls[t - 1], << >>), d, k, w[t - 1])
                         /\ SoleOf(Rest(ls[t], << >>) \cup {nn}, d, k, w[t])
  BY Zenon DEF JobReads
<1>2. L[t] = s /\ \A m \in Level : m # t => L[m] = ls[m]
  BY DEF Replaced
<1>3. \A g : ~In(g, << >>)
  BY DEF In
<1>4. \A m \in Level : \A g : In(g, ls[m]) <=> g \in Rest(ls[m], << >>)
  <2> TAKE m \in Level
  <2> TAKE g
  <2>1. ls[m] \in Seq(File)
    OBVIOUS
  <2>2. In(g, ls[m]) => g \in File
    BY <2>1, ElementIn DEF In
  <2>3. QED
    BY <1>3, <2>2 DEF Rest
<1>5. \A g : In(g, s) <=> In(g, ls[t]) \/ g = nn
  <2>1. PICK n \in Nat : n = Len(ls[t]) /\ DOMAIN ls[t] = 1 .. n
    BY <1>0, DomainIs
  <2>2. /\ pos \in 0 .. n /\ DOMAIN s = 1 .. n + 1 /\ s[pos + 1] = nn
        /\ \A i \in 1 .. pos : s[i] = ls[t][i]
        /\ \A i \in pos + 1 .. n : s[i + 1] = ls[t][i]
    BY <2>1, DomainIs DEF Inserted
  <2>3. ASSUME NEW i \in 1 .. n PROVE In(ls[t][i], s)
    <3>1. CASE i <= pos
      <4>1. i \in 1 .. pos /\ i \in 1 .. n + 1
        BY <2>2, <3>1
      <4>2. QED
        BY <2>2, <4>1 DEF In
    <3>2. CASE i > pos
      <4>1. i \in pos + 1 .. n /\ i + 1 \in 1 .. n + 1
        BY <2>2, <3>2
      <4>2. QED
        BY <2>2, <4>1 DEF In
    <3>3. QED
      BY <2>2, <3>1, <3>2
  <2>4. In(nn, s)
    <3>1. pos + 1 \in 1 .. n + 1
      BY <2>2
    <3>2. QED
      BY <2>2, <3>1 DEF In
  <2>5. ASSUME NEW i \in 1 .. n + 1, i # pos + 1 PROVE In(s[i], ls[t])
    <3>1. PICK j \in DOMAIN ls[t] : s[i] = ls[t][j]
      <4>1. i \in DOMAIN s /\ ls[t] \in Seq(File)
        BY <1>0, <2>2
      <4>2. QED
        BY <2>5, <4>1, InsertedFrom
    <3>2. QED
      BY <3>1 DEF In
  <2>6. QED
    <3>1. ASSUME NEW g, In(g, s) PROVE In(g, ls[t]) \/ g = nn
      <4>1. PICK i \in 1 .. n + 1 : g = s[i]
        BY <2>2, <3>1 DEF In
      <4>2. QED
        BY <2>2, <2>5, <4>1
    <3>2. ASSUME NEW g, In(g, ls[t]) PROVE In(g, s)
      BY <2>1, <2>3, <3>2 DEF In
    <3>3. QED
      BY <2>4, <3>1, <3>2
<1>6. ASSUME NEW m \in Level PROVE FoundIs(L, d, m, k, w[m])
  <2>1. CASE m \notin {t - 1, t}
    <3>1. FoundIs(ls, d, m, k, w[m]) /\ L[m] = ls[m]
      BY <1>1, <1>2, <2>1
    <3>2. CASE m = 0
      BY <3>1, <3>2 DEF FoundIs
    <3>3. CASE m # 0
      BY <3>1, <3>3 DEF FoundIs
    <3>4. QED
      BY <3>2, <3>3
  <2>2. CASE m = t - 1
    <3>1. /\ \A g : In(g, ls[m]) => (d[g][k] # Absent => w[m] = d[g][k])
          /\ (\A g : In(g, ls[m]) => d[g][k] = Absent) => w[m] = Absent
      BY <1>1, <1>4, <2>2 DEF SoleOf
    <3>2. L[m] = ls[m]
      BY <1>0, <1>2, <2>2
    <3>3. CASE m = 0
      <4>1. Begins(ls[0], << >>) /\ ls[0] \in Seq(File)
        BY <1>0, <2>2, <3>3
      <4>2. DOMAIN ls[0] = {}
        BY <4>1 DEF Begins
      <4>3. w[m] = Absent
        BY <3>1, <3>3, <4>2 DEF In
      <4>4. QED
        BY <3>2, <3>3, <4>2, <4>3 DEF FoundIs, LastWith
    <3>4. CASE m # 0
      <4>1. Sole(ls[m], d, k, w[m])
        BY <3>1 DEF Sole, In
      <4>2. QED
        BY <3>2, <3>4, <4>1 DEF FoundIs
    <3>5. QED
      BY <3>3, <3>4
  <2>3. CASE m = t
    <3>1. /\ \A g : In(g, s) => (d[g][k] # Absent => w[t] = d[g][k])
          /\ (\A g : In(g, s) => d[g][k] = Absent) => w[t] = Absent
      BY <1>0, <1>1, <1>4, <1>5 DEF SoleOf
    <3>2. Sole(s, d, k, w[t])
      BY <3>1 DEF Sole, In
    <3>3. QED
      BY <1>0, <1>2, <2>3, <3>2 DEF FoundIs
  <2>4. QED
    BY <2>1, <2>2, <2>3
<1>7. LevelRead(L, d, k) = y
  BY <1>1, <1>6, ReadUnique
<1>8. QED
  BY <1>1, <1>7

\* compact_level ends.
LEMMA CompactEnds ==
    ASSUME Stack(levels, disk, next_num), pc = "merged",
           JobOK(levels, disk, next_num, job.target, job.old),
           JobReads(levels, disk, next_num, job.target, job.old, job.exposed, job.reads, mem),
           CompactAdd
    PROVE  /\ Stack(levels', disk', next_num') /\ disk' = disk /\ mem' = mem
           /\ next_num' = next_num + 1 /\ next_num \in File /\ levels'[0] = levels[0]
           /\ \A k \in Key \ job.exposed : StorageGet(k)' = job.reads[k]
<1>1. PICK t : t = job.target
  OBVIOUS
<1>2. /\ AddToLevel(t, next_num, disk[next_num])
      /\ job.old = << >> /\ next_num' = next_num + 1 /\ disk' = disk /\ mem' = mem
  BY <1>1 DEF CompactAdd
<1>3. /\ JobOK(levels, disk, next_num, t, << >>)
      /\ JobReads(levels, disk, next_num, t, << >>, job.exposed, job.reads, mem)
  BY <1>1, <1>2
<1>4. /\ t \in Level /\ t # 0 /\ next_num \in File /\ disk[next_num] \in Content
      /\ \A g : In(g, levels[t]) =>
            Precedes(disk[g], disk[next_num]) \/ Precedes(disk[next_num], disk[g])
  <2>1. t \in 1 .. MaxLevels - 1
    BY <1>3 DEF JobOK
  <2>2. t \in Level /\ t # 0
    BY <2>1, LevelIs DEF Level
  <2>3. \A g : ~In(g, << >>)
    BY DEF In
  <2>4. QED
    BY <1>3, <2>2, <2>3 DEF JobOK
<1>5. \A i \in DOMAIN levels[t] : \/ Precedes(disk[levels[t][i]], disk[next_num])
                                  \/ Precedes(disk[next_num], disk[levels[t][i]])
  BY <1>4 DEF In
<1>6. PICK c : c = disk[next_num]
  OBVIOUS
<1>7. /\ Stack(levels', disk, next_num + 1)
      /\ \E pos \in 0 .. Len(levels[t]), s \in Seq(File) :
                 /\ Inserted(levels[t], pos, next_num, s)
                 /\ t = 0 => pos = Len(levels[t])
                 /\ levels' = [levels EXCEPT ![t] = s]
  BY <1>2, <1>4, <1>5, <1>6, AddIs
<1>8. PICK pos \in 0 .. Len(levels[t]), s \in Seq(File) :
                 /\ Inserted(levels[t], pos, next_num, s)
                 /\ levels' = [levels EXCEPT ![t] = s]
  BY <1>7
<1>9. levels \in [Level -> Seq(File)]
  BY DEF Stack
<1>10. levels'[0] = levels[0]
  BY <1>4, <1>8, <1>9, LevelIs
<1>11. ASSUME NEW k \in Key \ job.exposed PROVE StorageGet(k)' = job.reads[k]
  <2>1. PICK L : L = levels'
    OBVIOUS
  <2>2. Stack(L, disk, next_num + 1) /\ Replaced(levels, t, s, L)
    BY <1>4, <1>7, <1>8, <1>9, <2>1 DEF Replaced
  <2>3. job.reads[k] = Answer(mem[k], LevelRead(L, disk, k))
    <3>1. Inserted(levels[t], pos, next_num, s)
      BY <1>8
    <3>2. QED
      BY <1>3, <1>9, <2>2, <3>1, AddReads
  <2>4. StorageGet(k)' = Answer(mem'[k], LevelRead(levels', disk', k))
    BY StorageGetIs
  <2>5. QED
    BY <1>2, <2>1, <2>3, <2>4
<1>12. QED
  BY <1>2, <1>4, <1>7, <1>10, <1>11

-----------------------------------------------------------------------------
(* The inductive invariant. *)

\* The engine is opened again at most once in a behaviour.
OpenedAgainOnce == \A s \in MayFail : s["restart"] + s["power"] <= 1

\* It was not opened again so far.
Fresh(f) == f["restart"] = 0 /\ f["power"] = 0

\* What is known of the step that storage_flush or compact_level is at.
Midway ==
    /\ pc = "written" => next_num \in File /\ disk[next_num] = mem
    /\ pc \in {"added", "logged"} =>
         Len(levels[0]) >= 1 /\ disk[levels[0][Len(levels[0])]] = mem
    /\ pc = "merged" =>
         /\ DOMAIN job = {"target", "old", "exposed", "reads"}
         /\ JobOK(levels, disk, next_num, job.target, job.old)
         /\ JobReads(levels, disk, next_num, job.target, job.old, job.exposed, job.reads, mem)

\* The manifest adds files in the order of their numbers, all of them used.
Book(m, nn) == Ordered(m) /\ \A i \in DOMAIN m : m[i].type = "ADD" => m[i].num < nn

Books ==
    Fresh(failures) => manifest = NoFile \/ Book(manifest, next_num)

\* What the memtable has of k is x; when it has nothing, the newest file of L0 with the
\* key says x.
Agrees(a, s, d, k, x) ==
    /\ a # Absent => a = x
    /\ a = Absent => \A y : LastWith(s, d, k, y) /\ y # Absent => y = x

Settled ==
    TornLast(wal) => \A k \in Key : last[k] # Absent => Agrees(mem[k], levels[0], disk, k, last[k])

FilesInv ==
    /\ disk \in Disks
    /\ next_num \in 1 .. MaxFile + 1
    /\ Stack(levels, disk, next_num)
    /\ pc \in {"idle", "written", "added", "logged", "compact", "merged"}

LsmInv == WalInv /\ FilesInv /\ Midway /\ Books /\ Settled

LEMMA LsmInit == Init => LsmInv
<1> SUFFICES ASSUME Init PROVE LsmInv
  OBVIOUS
<1>1. WalInv
  BY WalInit
<1>2. /\ disk = [f \in File |-> NoFile] /\ manifest = NoFile
      /\ levels = [l \in Level |-> << >>] /\ next_num = 1 /\ pc = "idle" /\ last = NoEntries
  BY DEF Init
<1>3. disk \in Disks
  BY <1>2 DEF Disks
<1>4. /\ levels \in [Level -> Seq(File)] /\ \A l \in Level : DOMAIN levels[l] = {}
  BY <1>2
<1>5. Stack(levels, disk, next_num)
  BY <1>4 DEF Stack, WholeIn, SortedIn
<1>6. FilesInv
  BY <1>2, <1>3, <1>5, FileIs DEF FilesInv
<1>7. Midway /\ Books
  BY <1>2 DEF Midway, Books
<1>8. Settled
  BY <1>2, NoEntriesTyped DEF Settled
<1>9. QED
  BY <1>1, <1>6, <1>7, <1>8 DEF LsmInv

\* A step that writes at most the free file.
LEMMA FreeWritten ==
    ASSUME FilesInv, Settled, levels' = levels, next_num' = next_num, next_num \in File, mem' = mem,
           wal' = wal, last' = last, pc' \in {"idle", "written", "added", "logged", "compact", "merged"},
           NEW c \in Content \cup {Garbage, NoFile}, disk' = [disk EXCEPT ![next_num] = c]
    PROVE  FilesInv' /\ Settled' /\ disk'[next_num] = c
<1>0. PICK nn, d, e, ls : nn = next_num /\ d = disk /\ e = disk' /\ ls = levels
  OBVIOUS
<1>1. /\ d \in Disks /\ nn \in 1 .. MaxFile + 1 /\ Stack(ls, d, nn) /\ nn \in File
      /\ e = [d EXCEPT ![nn] = c] /\ nn \in Nat /\ nn <= nn
  BY <1>0, FileIs DEF FilesInv
<1>2. e \in Disks /\ e[nn] = c
  BY <1>1 DEF Disks
<1>3. \A l \in Level : \A i \in DOMAIN ls[l] : e[ls[l][i]] = d[ls[l][i]]
  <2> TAKE l \in Level
  <2> TAKE i \in DOMAIN ls[l]
  <2>1. ~In(nn, ls[l])
    BY <1>1, FreeNotListed
  <2>2. ls[l][i] # nn
    BY <2>1 DEF In
  <2>3. ls[l] \in Seq(File)
    BY <1>1 DEF Stack
  <2>4. ls[l][i] \in File
    BY <2>3, ElementIn
  <2>5. QED
    BY <1>1, <2>2, <2>4 DEF Disks
<1>4. Stack(ls, e, nn)
  <2>1. Stack(ls, d, nn) /\ nn \in Nat /\ nn <= nn
    BY <1>1
  <2>2. QED
    BY <1>3, <2>1, StackKept
<1>5. FilesInv'
  BY <1>0, <1>1, <1>2, <1>4 DEF FilesInv
<1>6. \A i \in DOMAIN ls[0] : e[ls[0][i]] = d[ls[0][i]]
  BY <1>3, LevelIs
<1>7. ASSUME NEW k, NEW y, LastWith(ls[0], e, k, y) PROVE LastWith(ls[0], d, k, y)
  BY <1>6, <1>7 DEF LastWith
<1>8. Settled'
  <2> SUFFICES ASSUME TornLast(wal), NEW k \in Key, last[k] # Absent
               PROVE  Agrees(mem[k], ls[0], e, k, last[k])
    BY <1>0 DEF Settled
  <2>1. Agrees(mem[k], ls[0], d, k, last[k])
    BY <1>0 DEF Settled
  <2>2. QED
    BY <1>7, <2>1 DEF Agrees
<1>9. QED
  BY <1>0, <1>2, <1>5, <1>8

LEMMA LsmWrite ==
    ASSUME LsmInv, NEW k \in Key, NEW x \in Value \cup {Tomb}, Write(k, x)
    PROVE  LsmInv'
<1>1. /\ pc = "idle" /\ wal' = Append(wal, [key |-> k, val |-> x])
      /\ mem' = [mem EXCEPT ![k] = x] /\ last' = [last EXCEPT ![k] = x]
      /\ UNCHANGED <<disk, manifest, levels, next_num, pc, job, failures>>
  BY DEF Write, Idle
<1>2. WalInv'
  BY WalWrite DEF LsmInv
<1>3. FilesInv' /\ Midway' /\ Books'
  BY <1>1 DEF LsmInv, FilesInv, Midway, Books
<1>4. Settled'
  <2> SUFFICES ASSUME TornLast(wal'), NEW j \in Key, last'[j] # Absent
               PROVE  Agrees(mem'[j], levels[0], disk, j, last'[j])
    BY <1>1 DEF Settled
  <2>0. mem \in Content /\ last \in Content /\ LogOK(wal)
    BY DEF LsmInv, WalInv
  <2>1. [key |-> k, val |-> x] \in Record \cup {Torn}
    <3>1. x \in Entry \ {Absent}
      BY EntryIs, LsmAssumption
    <3>2. QED
      BY <3>1 DEF Record
  <2>2. TornLast(wal)
    <3>1. wal' = Append(wal, [key |-> k, val |-> x])
      BY <1>1
    <3>2. QED
      BY <2>0, <2>1, <3>1, AppendTornLast, Zenon
  <2>3. CASE j = k
    <3>1. mem'[j] = x /\ last'[j] = x
      BY <1>1, <2>0, <2>3 DEF Content
    <3>2. QED
      BY <3>1 DEF Agrees
  <2>4. CASE j # k
    <3>1. mem'[j] = mem[j] /\ last'[j] = last[j]
      BY <1>1, <2>0, <2>4 DEF Content
    <3>2. Agrees(mem[j], levels[0], disk, j, last[j])
      BY <2>2, <3>1 DEF LsmInv, Settled
    <3>3. QED
      BY <3>1, <3>2
  <2>5. QED
    BY <2>3, <2>4
<1>5. QED
  BY <1>2, <1>3, <1>4 DEF LsmInv

\* A failure leaves the files as they were before, or the engine was opened again.
LEMMA FreshBefore ==
    ASSUME WalInv, NEW f \in Kind, Fail(f), Fresh(failures')
    PROVE  Fresh(failures)
<1>1. \A g \in Kind : failures[g] \in Nat /\ (failures'[g] = failures[g]
                                              \/ failures'[g] = failures[g] + 1)
  BY FailIs DEF WalInv
<1>2. "restart" \in Kind /\ "power" \in Kind
  BY DEF Kind
<1>3. QED
  BY <1>1, <1>2 DEF Fresh

LEMMA LsmWriteFails ==
    ASSUME LsmInv, NEW k \in Key, NEW x \in Value \cup {Tomb}, WriteFails(k, x)
    PROVE  LsmInv'
<1>1. /\ pc = "idle" /\ UNCHANGED <<mem, disk, manifest, levels, next_num, pc, job>>
      /\ Fail("write") /\ (TearsLog \/ LogsUnacked(k, x))
  BY WriteFailsIs DEF WriteFails, Idle
<1>2. WalInv' /\ WalInv
  BY WalWriteFails DEF LsmInv
<1>3. FilesInv' /\ Midway'
  BY <1>1 DEF LsmInv, FilesInv, Midway
<1>4. Books'
  <2>1. Fresh(failures') => Fresh(failures)
    BY <1>1, <1>2, FreshBefore DEF Kind
  <2>2. QED
    BY <1>1, <2>1 DEF LsmInv, Books
<1>5. Settled'
  <2> SUFFICES ASSUME TornLast(wal'), NEW j \in Key, last'[j] # Absent
               PROVE  Agrees(mem[j], levels[0], disk, j, last'[j])
    BY <1>1 DEF Settled
  <2>0. LogOK(wal) /\ last \in Content
    BY DEF LsmInv, WalInv
  <2>1. PICK e \in Record \cup {Torn} : wal' = Append(wal, e)
    <3>1. x \in Entry \ {Absent}
      BY EntryIs, LsmAssumption
    <3>2. [key |-> k, val |-> x] \in Record
      BY <3>1 DEF Record
    <3>3. QED
      BY <1>1, <3>2 DEF TearsLog, LogsUnacked
  <2>2. TornLast(wal)
    BY <2>0, <2>1, AppendTornLast
  <2>3. last'[j] = last[j]
    BY <1>1, <2>0 DEF TearsLog, LogsUnacked, Content
  <2>4. QED
    BY <2>2, <2>3 DEF LsmInv, Settled
<1>6. QED
  BY <1>2, <1>3, <1>4, <1>5 DEF LsmInv

LEMMA LsmFlushWrite ==
    ASSUME LsmInv, FlushWrite
    PROVE  LsmInv'
<1>1. /\ next_num \in File /\ disk' = [disk EXCEPT ![next_num] = mem] /\ pc' = "written"
      /\ UNCHANGED <<up, mem, wal, synced, manifest, levels, next_num, job, last, failures>>
  BY DEF FlushWrite
<1>2. WalInv' /\ mem \in Content
  BY <1>1 DEF LsmInv, WalInv
<1>3. FilesInv' /\ Settled' /\ disk'[next_num] = mem
  BY <1>1, <1>2, FreeWritten DEF LsmInv
<1>4. Midway' /\ Books'
  BY <1>1, <1>3 DEF LsmInv, Midway, Books
<1>5. QED
  BY <1>2, <1>3, <1>4 DEF LsmInv

\* storage_flush or compact_level when the writer fails.
LEMMA LsmWriterFails ==
    ASSUME LsmInv, WriterFails, pc' = "idle",
           UNCHANGED <<up, mem, wal, synced, manifest, levels, next_num, job, last>>
    PROVE  LsmInv'
<1>1. PICK left \in {NoFile, Garbage} : disk' = [disk EXCEPT ![next_num] = left]
  BY DEF WriterFails
<1>2. next_num \in File /\ Fail("table") /\ WalInv /\ "table" \in Kind
  BY DEF WriterFails, LsmInv, Kind
<1>3. WalInv'
  BY <1>2, WalNotLogged DEF NotLogged
<1>4. FilesInv' /\ Settled'
  <2>1. left \in Content \cup {Garbage, NoFile}
    OBVIOUS
  <2>2. QED
    BY <1>1, <1>2, <2>1, FreeWritten DEF LsmInv
<1>5. Fresh(failures') => Fresh(failures)
  BY <1>2, FreshBefore
<1>6. Midway' /\ Books'
  BY <1>5 DEF LsmInv, Midway, Books
<1>7. QED
  BY <1>3, <1>4, <1>6 DEF LsmInv

\* storage_flush or compact_level when the new table cannot be opened.
LEMMA LsmOpenFails ==
    ASSUME LsmInv, Fail("open"), pc' = "idle",
           UNCHANGED <<up, mem, wal, synced, disk, manifest, levels, next_num, last>>
    PROVE  LsmInv'
<1>1. WalInv /\ "open" \in Kind
  BY DEF LsmInv, Kind
<1>2. WalInv'
  BY <1>1, WalNotLogged DEF NotLogged
<1>3. Fresh(failures') => Fresh(failures)
  BY <1>1, FreshBefore
<1>4. FilesInv' /\ Midway'
  BY DEF LsmInv, FilesInv, Midway
<1>5. Books' /\ Settled'
  BY <1>3 DEF LsmInv, Books, Settled
<1>6. QED
  BY <1>2, <1>4, <1>5 DEF LsmInv

\* manifest_append keeps the manifest in order.
LEMMA LoggedIs ==
    ASSUME NEW nn \in Nat, manifest = NoFile \/ Book(manifest, nn),
           NEW r \in Note, r.num >= nn
    PROVE  Ordered(Logged(r)) /\ \A nm \in Nat : (nn <= nm /\ (r.type = "ADD" => r.num < nm)) => Book(Logged(r), nm)
<1>1. PICK m : m = IF manifest = NoFile THEN << >> ELSE manifest
  OBVIOUS
<1>2. Book(m, nn)
  <2>1. CASE manifest = NoFile
    <3>1. m \in Seq(Note) /\ DOMAIN m = {}
      BY <1>1, <2>1
    <3>2. QED
      BY <3>1 DEF Book, Ordered
  <2>2. CASE manifest # NoFile
    BY <1>1, <2>2
  <2>3. QED
    BY <2>1, <2>2
<1>3. PICK t : t = Append(m, r)
  OBVIOUS
<1>4. t = Logged(r)
  BY <1>1, <1>3 DEF Logged
<1>5. m \in Seq(Note) /\ \A i, j \in DOMAIN m : i < j /\ m[i].type = "ADD" => m[i].num < m[j].num
  BY <1>2 DEF Book, Ordered
<1>6. PICK n \in Nat : n = Len(m) /\ DOMAIN m = 1 .. n
  BY <1>5
<1>7. /\ t \in Seq(Note) /\ DOMAIN t = 1 .. n + 1 /\ t[n + 1] = r
      /\ \A i \in 1 .. n : t[i] = m[i] /\ t[i] \in Note
  <2>1. t \in Seq(Note) /\ Len(t) = n + 1 /\ t[n + 1] = r /\ \A i \in 1 .. n : t[i] = m[i]
    BY <1>3, <1>5, <1>6, AppendIs
  <2>2. QED
    BY <1>5, <1>6, <2>1
<1>8. \A i \in 1 .. n : t[i].type = "ADD" => t[i].num < nn
  BY <1>2, <1>6, <1>7 DEF Book
<1>9. \A i \in 1 .. n : t[i].num \in Nat
  BY <1>7, FileIs DEF Note
<1>10. r.num \in Nat
  BY FileIs DEF Note
<1>11. ASSUME NEW i \in 1 .. n + 1, NEW j \in 1 .. n + 1, i < j, t[i].type = "ADD"
       PROVE  t[i].num < t[j].num
  <2>1. i \in 1 .. n
    BY <1>6, <1>11
  <2>2. CASE j \in 1 .. n
    BY <1>5, <1>6, <1>7, <1>11, <2>1, <2>2
  <2>3. CASE j = n + 1
    <3>1. t[i].num < nn /\ t[j].num = r.num
      BY <1>7, <1>8, <1>11, <2>1, <2>3
    <3>2. QED
      BY <1>9, <1>10, <2>1, <3>1
  <2>4. QED
    BY <1>6, <2>2, <2>3
<1>12. Ordered(t)
  BY <1>7, <1>11 DEF Ordered
<1>13. ASSUME NEW nm \in Nat, nn <= nm, r.type = "ADD" => r.num < nm PROVE Book(t, nm)
  <2>1. ASSUME NEW i \in 1 .. n + 1, t[i].type = "ADD" PROVE t[i].num < nm
    <3>1. CASE i \in 1 .. n
      <4>1. t[i].num < nn /\ t[i].num \in Nat
        BY <1>8, <1>9, <2>1, <3>1
      <4>2. QED
        BY <1>13, <4>1
    <3>2. CASE i = n + 1
      BY <1>7, <1>13, <2>1, <3>2
    <3>3. QED
      BY <1>6, <3>1, <3>2
  <2>2. QED
    BY <1>7, <1>12, <2>1 DEF Book
<1>14. QED
  BY <1>4, <1>12, <1>13

LEMMA LsmFlushAdd ==
    ASSUME LsmInv, FlushAdd
    PROVE  LsmInv'
<1>1. /\ pc = "written" /\ AddToLevel(0, next_num, mem) /\ next_num' = next_num + 1
      /\ manifest' = Logged([type |-> "ADD", num |-> next_num]) /\ pc' = "added"
      /\ UNCHANGED <<up, mem, wal, synced, disk, job, last, failures>>
  BY DEF FlushAdd
<1>2. WalInv' /\ mem \in Content
  BY <1>1 DEF LsmInv, WalInv
<1>3. /\ next_num \in File /\ disk[next_num] = mem /\ disk \in Disks
      /\ Stack(levels, disk, next_num) /\ levels \in [Level -> Seq(File)]
  BY <1>1 DEF LsmInv, Midway, FilesInv, Stack
<1>4. 0 \in Level /\ levels[0] \in Seq(File)
  BY <1>3, LevelIs
<1>5. /\ Stack(levels', disk, next_num + 1)
      /\ \E pos \in 0 .. Len(levels[0]), t \in Seq(File) :
                 /\ Inserted(levels[0], pos, next_num, t)
                 /\ 0 = 0 => pos = Len(levels[0])
                 /\ levels' = [levels EXCEPT ![0] = t]
  BY <1>1, <1>2, <1>3, <1>4, AddIs
<1>6. PICK s \in Seq(File) : /\ Inserted(levels[0], Len(levels[0]), next_num, s)
                             /\ levels' = [levels EXCEPT ![0] = s]
  BY <1>5
<1>7. levels'[0] = s
  BY <1>3, <1>4, <1>6
<1>8. PICK n \in Nat : n = Len(levels[0]) /\ DOMAIN levels[0] = 1 .. n
  BY <1>4
<1>9. /\ Len(s) = n + 1 /\ DOMAIN s = 1 .. n + 1 /\ s[n + 1] = next_num
      /\ \A i \in 1 .. n : s[i] = levels[0][i]
  BY <1>6, <1>8 DEF Inserted
<1>10. FilesInv'
  <2>1. next_num' \in 1 .. MaxFile + 1
    BY <1>1, <1>3, FileIs
  <2>2. QED
    BY <1>1, <1>3, <1>5, <2>1 DEF FilesInv
<1>11. Midway'
  <2>1. Len(s) >= 1 /\ disk[s[Len(s)]] = mem
    BY <1>3, <1>8, <1>9
  <2>2. QED
    BY <1>1, <1>7, <2>1 DEF Midway
<1>12. Books'
  <2> SUFFICES ASSUME Fresh(failures)
               PROVE  Book(manifest', next_num')
    BY <1>1 DEF Books
  <2>1. manifest = NoFile \/ Book(manifest, next_num)
    BY DEF LsmInv, Books
  <2>2. PICK r : r = [type |-> "ADD", num |-> next_num]
    OBVIOUS
  <2>3. r \in Note /\ r.num = next_num /\ next_num \in Nat /\ r.num >= next_num
    BY <1>3, <2>2, FileIs DEF Note
  <2>4. next_num + 1 \in Nat /\ next_num <= next_num + 1 /\ (r.type = "ADD" => r.num < next_num + 1)
    BY <2>3
  <2>5. Book(Logged(r), next_num + 1)
    BY <2>1, <2>3, <2>4, LoggedIs
  <2>6. QED
    BY <1>1, <2>2, <2>5
<1>13. Settled'
  <2> SUFFICES ASSUME TornLast(wal), NEW k \in Key, last[k] # Absent
               PROVE  Agrees(mem[k], s, disk, k, last[k])
    BY <1>1, <1>7 DEF Settled
  <2>1. Agrees(mem[k], levels[0], disk, k, last[k])
    BY DEF LsmInv, Settled
  <2>2. ASSUME mem[k] = Absent, NEW y, y # Absent, LastWith(s, disk, k, y)
        PROVE  LastWith(levels[0], disk, k, y)
    <3>1. PICK i \in 1 .. n + 1 : /\ disk[s[i]][k] = y
                                  /\ \A j \in 1 .. n + 1 : j > i => disk[s[j]][k] = Absent
      BY <1>9, <2>2 DEF LastWith
    <3>2. i # n + 1
      BY <1>3, <1>9, <2>2, <3>1
    <3>3. i \in 1 .. n /\ \A j \in 1 .. n : j \in 1 .. n + 1
      BY <1>8, <3>2
    <3>4. disk[levels[0][i]][k] = y /\ \A j \in 1 .. n : j > i => disk[levels[0][j]][k] = Absent
      BY <1>9, <3>1, <3>3
    <3>5. QED
      BY <1>8, <2>2, <3>3, <3>4 DEF LastWith
  <2>3. QED
    BY <2>1, <2>2 DEF Agrees
<1>14. QED
  BY <1>2, <1>10, <1>11, <1>12, <1>13 DEF LsmInv

LEMMA LsmFlushNext ==
    ASSUME LsmInv, FlushNext
    PROVE  LsmInv'
<1>1. /\ pc = "added" /\ pc' = "logged"
      /\ manifest' = Logged([type |-> "NEXT", num |-> next_num])
      /\ UNCHANGED <<up, mem, wal, synced, disk, levels, next_num, job, last, failures>>
  BY DEF FlushNext
<1>2. WalInv'
  BY <1>1 DEF LsmInv, WalInv
<1>3. FilesInv'
  BY <1>1 DEF LsmInv, FilesInv
<1>4. Midway'
  BY <1>1 DEF LsmInv, Midway
<1>5. Books'
  <2> SUFFICES ASSUME Fresh(failures)
               PROVE  Book(manifest', next_num)
    BY <1>1 DEF Books
  <2>1. manifest = NoFile \/ Book(manifest, next_num)
    BY DEF LsmInv, Books
  <2>2. PICK r : r = [type |-> "NEXT", num |-> next_num]
    OBVIOUS
  <2>3. next_num \in 1 .. MaxFile + 1
    BY DEF LsmInv, FilesInv
  <2>4. r \in Note /\ r.num = next_num /\ next_num \in Nat /\ r.num >= next_num /\ r.type # "ADD"
        /\ next_num <= next_num
    BY <2>2, <2>3, FileIs DEF Note
  <2>5. Book(Logged(r), next_num)
    BY <2>1, <2>4, LoggedIs
  <2>6. QED
    BY <1>1, <2>2, <2>5
<1>6. Settled'
  BY <1>1 DEF LsmInv, Settled
<1>7. QED
  BY <1>2, <1>3, <1>4, <1>5, <1>6 DEF LsmInv

LEMMA LsmFlushDone ==
    ASSUME LsmInv, FlushDone
    PROVE  LsmInv'
<1>1. /\ pc = "logged" /\ mem' = NoEntries /\ pc' \in {"compact", "idle"}
      /\ UNCHANGED <<wal, disk, manifest, levels, next_num, job, last, failures>>
  BY DEF FlushDone
<1>2. WalInv'
  BY WalFlushDone DEF LsmInv
<1>3. FilesInv'
  BY <1>1 DEF LsmInv, FilesInv
<1>4. Midway'
  BY <1>1 DEF Midway
<1>5. Books'
  BY <1>1 DEF LsmInv, Books
<1>6. Settled'
  <2> SUFFICES ASSUME TornLast(wal), NEW k \in Key, last[k] # Absent
               PROVE  Agrees(mem'[k], levels[0], disk, k, last[k])
    BY <1>1 DEF Settled
  <2>0. mem'[k] = Absent
    BY <1>1, NoEntriesTyped
  <2>1. Agrees(mem[k], levels[0], disk, k, last[k])
    BY DEF LsmInv, Settled
  <2>2. CASE mem[k] = Absent
    BY <2>0, <2>1, <2>2
  <2>3. CASE mem[k] # Absent
    <3>1. PICK s : s = levels[0]
      OBVIOUS
    <3>2. s \in Seq(File) /\ Len(s) >= 1 /\ disk[s[Len(s)]] = mem
      BY <1>1, <3>1, LevelIs DEF LsmInv, Midway, FilesInv, Stack
    <3>3. PICK n \in Nat : n = Len(s) /\ DOMAIN s = 1 .. n /\ n >= 1
      BY <3>2
    <3>4. disk[s[n]][k] = mem[k] /\ \A j \in DOMAIN s : ~(j > n)
      BY <3>2, <3>3
    <3>5. LastWith(s, disk, k, mem[k])
      BY <2>3, <3>3, <3>4 DEF LastWith
    <3>6. \A y : LastWith(s, disk, k, y) => y = mem[k]
      BY <3>2, <3>5, LastWithUnique
    <3>7. mem[k] = last[k]
      BY <2>1, <2>3 DEF Agrees
    <3>8. QED
      BY <2>0, <3>1, <3>6, <3>7 DEF Agrees
  <2>4. QED
    BY <2>2, <2>3
<1>7. QED
  BY <1>2, <1>3, <1>4, <1>5, <1>6 DEF LsmInv

LEMMA LsmCompact ==
    ASSUME LsmInv, NEW missed, PickLevel >= 0, CompactLevel(PickLevel, missed),
           UNCHANGED failures \/ Fail("read")
    PROVE  LsmInv'
<1>1. PICK l : l = PickLevel
  OBVIOUS
<1>2. l >= 0 /\ CompactLevel(l, missed)
  BY <1>1
<1>3. /\ disk \in Disks /\ next_num \in 1 .. MaxFile + 1 /\ Stack(levels, disk, next_num)
      /\ mem \in Content /\ levels \in [Level -> Seq(File)]
  BY DEF LsmInv, FilesInv, WalInv, Stack
<1>4. l \in Level /\ l + 1 \in Level /\ Len(levels[l]) >= 1
  BY <1>1, <1>2, <1>3, PickedIs
<1>5. /\ disk' \in Disks /\ Stack(levels, disk', next_num)
      /\ JobOK(levels, disk', next_num, job'.target, job'.old)
      /\ JobReads(levels, disk', next_num, job'.target, job'.old, job'.exposed, job'.reads, mem)
      /\ pc' = "merged"
      /\ UNCHANGED <<up, mem, wal, synced, manifest, levels, next_num, last>>
  BY <1>2, <1>3, <1>4, CompactStarts
<1>6. next_num \in File /\ \E c : disk' = [disk EXCEPT ![next_num] = c]
  BY <1>2, Zenon DEF CompactLevel
<1>7. PICK c : disk' = [disk EXCEPT ![next_num] = c]
  BY <1>6
<1>8. c \in Content
  <2>1. disk'[next_num] = c
    BY <1>3, <1>6, <1>7 DEF Disks
  <2>2. disk'[next_num] \in Content
    BY <1>5 DEF JobOK
  <2>3. QED
    BY <2>1, <2>2
<1>9. FilesInv' /\ Settled'
  <2>1. /\ levels' = levels /\ next_num' = next_num /\ mem' = mem /\ wal' = wal /\ last' = last
        /\ pc' \in {"idle", "written", "added", "logged", "compact", "merged"}
    BY <1>5
  <2>2. c \in Content \cup {Garbage, NoFile}
    BY <1>8
  <2>3. QED
    BY <1>6, <1>7, <2>1, <2>2, FreeWritten DEF LsmInv
<1>10. WalInv /\ WalInv' /\ "read" \in Kind
  BY <1>5, WalNotLogged DEF LsmInv, NotLogged, Kind
<1>11. Midway'
  <2>1. \E a, o, b, r : job' = [target |-> a, old |-> o, exposed |-> b, reads |-> r]
    BY <1>2, Zenon DEF CompactLevel
  <2>2. DOMAIN job' = {"target", "old", "exposed", "reads"}
    BY <2>1
  <2>3. QED
    BY <1>5, <2>2 DEF Midway
<1>12. Fresh(failures') => Fresh(failures)
  BY <1>10, FreshBefore
<1>13. Books'
  BY <1>5, <1>12 DEF LsmInv, Books
<1>14. QED
  BY <1>9, <1>10, <1>11, <1>13 DEF LsmInv

\* unlink takes from L0 its oldest file: the newest file with a key stays the newest, as
\* long as one is left.
LEMMA UnlinkTop ==
    ASSUME NEW ls, NEW d, NEW nn, Stack(ls, d, nn), NEW t, NEW old, JobOK(ls, d, nn, t, old),
           old # << >>, NEW e, Elsewhere(d, e, Head(old)), NEW L, Unlisted(ls, t, Head(old), L),
           NEW k, NEW y, y # Absent, LastWith(L[0], e, k, y), ~In(Head(old), L[0])
    PROVE  LastWith(ls[0], d, k, y)
<1>0. /\ ls[0] \in Seq(File) /\ t \in 1 .. MaxLevels - 1 /\ 0 \in Level
      /\ old \in Seq(File) /\ Unique(old) /\ (t = 1 => Begins(ls[0], old))
  BY LevelIs DEF Stack, JobOK
<1>1. L[0] = IF 0 \in {t - 1, t} THEN Dropped(ls[0], Head(old)) ELSE ls[0]
  BY <1>0, Zenon DEF Unlisted
<1>2. \A i \in DOMAIN L[0] : e[L[0][i]] = d[L[0][i]]
  BY DEF Elsewhere, In
<1>3. LastWith(L[0], d, k, y)
  BY <1>2 DEF LastWith
<1>4. CASE L[0] = ls[0]
  BY <1>3, <1>4
<1>5. CASE L[0] # ls[0]
  <2>1. t = 1 /\ L[0] = Dropped(ls[0], Head(old))
    BY <1>0, <1>1, <1>5, LevelIs
  <2>2. PICK n \in Nat : n = Len(ls[0]) /\ DOMAIN ls[0] = 1 .. n
    BY <1>0
  <2>3. n # 0
    <3>1. SUFFICES ASSUME n = 0 PROVE FALSE
      OBVIOUS
    <3>2. {i \in DOMAIN ls[0] : ls[0][i] = Head(old)} = {}
      BY <2>2, <3>1
    <3>3. Dropped(ls[0], Head(old)) = ls[0]
      BY <3>2 DEF Dropped
    <3>4. QED
      BY <1>5, <2>1, <3>3
  <2>4. Head(old) = ls[0][1]
    <3>1. 1 \in DOMAIN ls[0] /\ old[1] = ls[0][1]
      BY <1>0, <2>1, <2>2, <2>3 DEF Begins
    <3>2. Head(old) = old[1]
      BY <1>0, TailIs
    <3>3. QED
      BY <3>1, <3>2
  <2>5. PICK s : s = L[0]
    OBVIOUS
  <2>6. /\ s \in Seq(File) /\ Len(s) = n - 1
        /\ \A i \in 1 .. n - 1 : s[i] = ls[0][i + 1]
    <3>1. Len(ls[0]) >= 1
      BY <2>2, <2>3
    <3>2. s = Dropped(ls[0], ls[0][1])
      BY <2>1, <2>4, <2>5
    <3>3. QED
      BY <1>0, <2>2, <3>1, <3>2, DroppedHead
  <2>7. DOMAIN s = 1 .. n - 1
    BY <2>6
  <2>8. PICK i \in 1 .. n - 1 : /\ d[s[i]][k] = y
                                /\ \A j \in 1 .. n - 1 : j > i => d[s[j]][k] = Absent
    BY <1>3, <2>5, <2>7 DEF LastWith
  <2>9. i + 1 \in 1 .. n /\ d[ls[0][i + 1]][k] = y
    BY <2>2, <2>6, <2>8
  <2>10. ASSUME NEW j \in 1 .. n, j > i + 1 PROVE d[ls[0][j]][k] = Absent
    <3>1. j - 1 \in 1 .. n - 1 /\ j - 1 > i /\ j - 1 + 1 = j
      BY <2>2, <2>8, <2>10
    <3>2. d[s[j - 1]][k] = Absent /\ s[j - 1] = ls[0][j]
      BY <2>6, <2>8, <3>1
    <3>3. QED
      BY <3>2
  <2>11. QED
    BY <2>2, <2>9, <2>10 DEF LastWith
<1>6. QED
  BY <1>4, <1>5

LEMMA LsmUnlink ==
    ASSUME LsmInv, CompactUnlink
    PROVE  LsmInv'
<1>1. PICK f : f = Head(job.old)
  OBVIOUS
<1>2. /\ pc = "merged" /\ job.old # << >>
      /\ levels' = [l \in Level |-> IF l \in {job.target - 1, job.target}
                                      THEN Dropped(levels[l], f) ELSE levels[l]]
      /\ disk' = [disk EXCEPT ![f] = NoFile]
      /\ job' = [job EXCEPT !.old = Tail(@)]
      /\ UNCHANGED <<up, mem, wal, synced, manifest, next_num, pc, last, failures>>
  BY <1>1 DEF CompactUnlink
<1>3. PICK ls, d, e, L, nn, t, old :
        /\ ls = levels /\ d = disk /\ e = disk' /\ L = levels' /\ nn = next_num
        /\ t = job.target /\ old = job.old
  OBVIOUS
<1>4. /\ d \in Disks /\ nn \in 1 .. MaxFile + 1 /\ Stack(ls, d, nn)
      /\ JobOK(ls, d, nn, t, old) /\ JobReads(ls, d, nn, t, old, job.exposed, job.reads, mem)
      /\ old # << >> /\ f = Head(old)
  BY <1>1, <1>2, <1>3 DEF LsmInv, FilesInv, Midway
<1>5. nn \in File /\ old \in Seq(File)
  BY <1>4 DEF JobOK
<1>6. e = [d EXCEPT ![f] = NoFile]
  BY <1>2, <1>3
<1>7. Elsewhere(d, e, f) /\ e \in Disks
  <2>1. f \in File
    BY <1>4, <1>5
  <2>2. e \in Disks
    BY <1>4, <1>6, <2>1 DEF Disks
  <2>3. ASSUME NEW g, g # f PROVE e[g] = d[g]
    <3>1. CASE g \in File
      BY <1>4, <1>6, <2>3, <3>1 DEF Disks
    <3>2. CASE g \notin File
      BY <1>4, <1>6, <2>3, <3>2 DEF Disks
    <3>3. QED
      BY <3>1, <3>2
  <2>4. QED
    BY <2>2, <2>3 DEF Elsewhere
<1>8. Unlisted(ls, t, f, L)
  <2>1. L = [l \in Level |-> IF l \in {t - 1, t} THEN Dropped(ls[l], f) ELSE ls[l]]
    BY <1>2, <1>3
  <2>2. DOMAIN L = Level /\ \A l \in Level : L[l] = IF l \in {t - 1, t} THEN Dropped(ls[l], f) ELSE ls[l]
    BY <2>1
  <2>3. L = [l \in Level |-> L[l]]
    BY <2>1
  <2>4. QED
    BY <2>2, <2>3, Zenon DEF Unlisted
<1>9. /\ Stack(L, e, nn) /\ JobOK(L, e, nn, t, Tail(old))
      /\ JobReads(L, e, nn, t, Tail(old), job.exposed, job.reads, mem)
  BY <1>4, <1>5, <1>7, <1>8, UnlinkKeeps
<1>10. WalInv' /\ Books'
  BY <1>2 DEF LsmInv, WalInv, Books
<1>11. FilesInv'
  BY <1>2, <1>3, <1>4, <1>7, <1>9 DEF FilesInv
<1>12. Midway'
  <2>1. job'.target = t /\ job'.old = Tail(old) /\ job'.exposed = job.exposed /\ job'.reads = job.reads
        /\ DOMAIN job' = {"target", "old", "exposed", "reads"}
    <3>1. DOMAIN job = {"target", "old", "exposed", "reads"}
      BY <1>2 DEF LsmInv, Midway
    <3>2. QED
      BY <1>2, <1>3, <3>1
  <2>2. QED
    BY <1>2, <1>3, <1>9, <2>1 DEF Midway
<1>13. \A i \in DOMAIN L[0] : L[0][i] # f
  <2>1. e[f] = NoFile
    BY <1>4, <1>5, <1>6 DEF Disks
  <2>2. NoFile \notin Content
    BY LsmAssumption DEF Content, Entry
  <2>3. WholeIn(L[0], e)
    BY <1>9, LevelIs DEF Stack
  <2>4. QED
    BY <2>1, <2>2, <2>3 DEF WholeIn
<1>14. Settled'
  <2> SUFFICES ASSUME TornLast(wal), NEW k \in Key, last[k] # Absent
               PROVE  Agrees(mem[k], L[0], e, k, last[k])
    BY <1>2, <1>3 DEF Settled
  <2>1. Agrees(mem[k], ls[0], d, k, last[k])
    BY <1>3 DEF LsmInv, Settled
  <2>2. ASSUME NEW y, y # Absent, LastWith(L[0], e, k, y) PROVE LastWith(ls[0], d, k, y)
    <3>1. Elsewhere(d, e, Head(old)) /\ Unlisted(ls, t, Head(old), L) /\ ~In(Head(old), L[0])
      BY <1>4, <1>7, <1>8, <1>13 DEF In
    <3>2. Stack(ls, d, nn) /\ JobOK(ls, d, nn, t, old) /\ old # << >>
      BY <1>4
    <3>3. QED
      BY <2>2, <3>1, <3>2, UnlinkTop
  <2>3. QED
    BY <2>1, <2>2 DEF Agrees
<1>15. QED
  BY <1>10, <1>11, <1>12, <1>14 DEF LsmInv

LEMMA LsmCompactAdd ==
    ASSUME LsmInv, CompactAdd
    PROVE  LsmInv' /\ \A k \in Key \ job.exposed : StorageGet(k)' = job.reads[k]
<1>1. /\ pc = "merged" /\ pc' = "idle" /\ UNCHANGED <<up, wal, synced, manifest, last, failures>>
  BY DEF CompactAdd
<1>2. /\ disk \in Disks /\ Stack(levels, disk, next_num)
      /\ JobOK(levels, disk, next_num, job.target, job.old)
      /\ JobReads(levels, disk, next_num, job.target, job.old, job.exposed, job.reads, mem)
  BY <1>1 DEF LsmInv, FilesInv, Midway
<1>3. /\ Stack(levels', disk', next_num') /\ disk' = disk /\ mem' = mem
      /\ next_num' = next_num + 1 /\ next_num \in File /\ levels'[0] = levels[0]
      /\ \A k \in Key \ job.exposed : StorageGet(k)' = job.reads[k]
  BY <1>1, <1>2, CompactEnds
<1>4. WalInv'
  BY <1>1, <1>3 DEF LsmInv, WalInv
<1>5. FilesInv' /\ Midway'
  <2>1. next_num' \in 1 .. MaxFile + 1
    BY <1>3, FileIs
  <2>2. QED
    BY <1>1, <1>2, <1>3, <2>1 DEF FilesInv, Midway
<1>6. Books'
  <2> SUFFICES ASSUME Fresh(failures), manifest # NoFile
               PROVE  Book(manifest, next_num + 1)
    BY <1>1, <1>3 DEF Books
  <2>1. Book(manifest, next_num)
    BY DEF LsmInv, Books
  <2>2. \A i \in DOMAIN manifest : manifest[i].num \in Nat
    <3>1. manifest \in Seq(Note)
      BY <2>1 DEF Book, Ordered
    <3>2. \A i \in DOMAIN manifest : manifest[i] \in Note
      BY <3>1
    <3>3. QED
      BY <3>2, FileIs DEF Note
  <2>3. next_num \in Nat
    BY <1>3, FileIs
  <2>4. QED
    BY <2>1, <2>2, <2>3 DEF Book
<1>7. Settled'
  BY <1>1, <1>3 DEF LsmInv, Settled
<1>8. QED
  BY <1>3, <1>4, <1>5, <1>6, <1>7 DEF LsmInv

\* What storage_open puts into the memtable is the last write of every key it knows.
LEMMA OpenSettled ==
    ASSUME WalInv', NEW w, LogOK(w), NEW d, NEW m, StorageOpen(w, d, m)
    PROVE  Settled'
<1> SUFFICES ASSUME TornLast(wal'), NEW k \in Key, last'[k] # Absent
             PROVE  Agrees(mem'[k], levels'[0], disk', k, last'[k])
  BY DEF Settled
<1>1. wal' = w /\ up' \in BOOLEAN /\ (up' => mem' = Replay(Intact(w)))
  BY OpenTyped
<1>2. CASE up'
  <2>1. Newest(wal', k, last'[k])
    BY DEF WalInv, LogKeeps
  <2>2. mem'[k] = last'[k]
    BY <1>1, <1>2, <2>1, ReplayNewest
  <2>3. QED
    BY <2>2 DEF Agrees
<1>3. CASE ~up'
  <2>1. mem' = NoEntries /\ levels' = [l \in Level |-> << >>]
    BY <1>3 DEF StorageOpen
  <2>2. mem'[k] = Absent /\ levels'[0] = << >>
    BY <2>1, NoEntriesTyped, LevelIs
  <2>3. \A y : LastWith(levels'[0], disk', k, y) => y = Absent
    BY <2>2 DEF LastWith
  <2>4. QED
    BY <2>2, <2>3 DEF Agrees
<1>4. QED
  BY <1>1, <1>2, <1>3

\* storage_open on the files of an engine that was not opened again before.
LEMMA LsmOpen ==
    ASSUME WalInv', NEW w, LogOK(w), NEW d \in Disks, NEW m, m = NoFile \/ Ordered(m),
           StorageOpen(w, d, m), ~Fresh(failures')
    PROVE  LsmInv'
<1>1. disk' = d /\ pc' = "idle"
  BY OpenTyped
<1>2. Stack(levels', disk', next_num') /\ next_num' \in 1 .. MaxFile + 1
  BY OpenStack
<1>3. FilesInv' /\ Midway'
  BY <1>1, <1>2 DEF FilesInv, Midway
<1>4. Books'
  BY DEF Books
<1>5. Settled'
  BY OpenSettled
<1>6. QED
  BY <1>3, <1>4, <1>5 DEF LsmInv

LEMMA FirstOpening ==
    ASSUME OpenedAgainOnce, WalInv, NEW f \in {"restart", "power"}, Fail(f)
    PROVE  Fresh(failures) /\ ~Fresh(failures')
<1>1. "restart" \in Kind /\ "power" \in Kind /\ f \in Kind
  BY DEF Kind
<1>2. failures \in [Kind -> Nat]
  BY DEF WalInv
<1>3. PICK s \in MayFail : failures[f] < s[f] /\ \A g \in Kind : failures[g] <= s[g]
  BY <1>1, <1>2, FailIs
<1>4. s \in [Kind -> Nat] /\ s["restart"] + s["power"] <= 1
  BY LsmAssumption DEF OpenedAgainOnce
<1>5. PICK r, p, a, b \in Nat :
        /\ r = s["restart"] /\ p = s["power"]
        /\ a = failures["restart"] /\ b = failures["power"]
  BY <1>1, <1>2, <1>4
<1>6. r + p <= 1 /\ a <= r /\ b <= p /\ (a < r \/ b < p)
  BY <1>1, <1>3, <1>4, <1>5
<1>7. Fresh(failures)
  BY <1>5, <1>6 DEF Fresh
<1>8. failures'[f] = failures[f] + 1 /\ failures[f] \in Nat
  BY <1>1, <1>2, FailIs
<1>9. failures'[f] # 0
  BY <1>8
<1>10. QED
  BY <1>7, <1>9 DEF Fresh

\* A manifest that lost its end is still in order.
LEMMA PrefixOrdered ==
    ASSUME NEW m, Ordered(m), NEW i \in 0 .. Len(m), NEW t, t = SubSeq(m, 1, i)
    PROVE  Ordered(t)
<1>0. m \in Seq(Note) /\ \A a, b \in DOMAIN m : a < b /\ m[a].type = "ADD" => m[a].num < m[b].num
  BY DEF Ordered
<1>1. PICK n \in Nat : n = Len(m) /\ DOMAIN m = 1 .. n
  BY <1>0
<1>2. 1 \in Nat /\ i \in Nat /\ 1 <= 1 /\ 1 <= i + 1 /\ i <= Len(m)
  BY <1>1
<1>3. t \in Seq(Note) /\ Len(t) = i - 1 + 1 /\ \A a \in 1 .. Len(t) : t[a] = m[1 + a - 1]
  BY <1>0, <1>2, SubSeqIs
<1>4. /\ DOMAIN t = 1 .. i /\ \A a \in 1 .. i : t[a] = m[a] /\ a \in DOMAIN m
  <2>1. Len(t) = i /\ \A a \in 1 .. i : 1 + a - 1 = a /\ a \in DOMAIN m
    BY <1>1, <1>2, <1>3
  <2>2. QED
    BY <1>3, <2>1
<1>5. QED
  BY <1>0, <1>3, <1>4 DEF Ordered

LEMMA LsmRestart ==
    ASSUME OpenedAgainOnce, LsmInv, Restart
    PROVE  LsmInv'
<1>1. Fail("restart") /\ StorageOpen(wal, disk, manifest)
  BY DEF Restart
<1>2. Fresh(failures) /\ ~Fresh(failures')
  BY <1>1, FirstOpening DEF LsmInv
<1>3. manifest = NoFile \/ Ordered(manifest)
  BY <1>2 DEF LsmInv, Books, Book
<1>4. WalInv' /\ LogOK(wal) /\ disk \in Disks
  BY WalRestart DEF LsmInv, WalInv, FilesInv
<1>5. QED
  BY <1>1, <1>2, <1>3, <1>4, LsmOpen

LEMMA LsmPowerLoss ==
    ASSUME OpenedAgainOnce, LsmInv, PowerLoss
    PROVE  LsmInv'
<1>1. PICK n \in synced .. Len(wal), tear \in BOOLEAN,
           lost \in SUBSET {f \in File : Readable(disk, f)} :
         \E m \in {NoFile} \cup
                  IF manifest = NoFile THEN {}
                  ELSE {SubSeq(manifest, 1, i) : i \in 0 .. Len(manifest)} :
           StorageOpen(Cut(wal, n, tear),
                       [f \in File |-> IF f \in lost THEN Garbage ELSE disk[f]], m)
  BY PowerIs, Zenon
<1>2. PICK m : /\ m = NoFile \/ (manifest # NoFile
                                 /\ \E i \in 0 .. Len(manifest) : m = SubSeq(manifest, 1, i))
               /\ StorageOpen(Cut(wal, n, tear),
                       [f \in File |-> IF f \in lost THEN Garbage ELSE disk[f]], m)
  BY <1>1
<1>3. PICK w, d : w = Cut(wal, n, tear) /\ d = [f \in File |-> IF f \in lost THEN Garbage ELSE disk[f]]
  OBVIOUS
<1>4. Fail("power")
  BY DEF PowerLoss
<1>5. Fresh(failures) /\ ~Fresh(failures')
  BY <1>4, FirstOpening DEF LsmInv
<1>6. m = NoFile \/ Ordered(m)
  <2>1. CASE m = NoFile
    BY <2>1
  <2>2. CASE m # NoFile
    <3>1. PICK i \in 0 .. Len(manifest) : m = SubSeq(manifest, 1, i)
      BY <1>2, <2>2
    <3>2. Ordered(manifest)
      BY <1>2, <1>5, <2>2 DEF LsmInv, Books, Book
    <3>3. QED
      BY <3>1, <3>2, PrefixOrdered
  <2>3. QED
    BY <2>1, <2>2
<1>7. d \in Disks
  BY <1>3 DEF LsmInv, FilesInv, Disks
<1>8. LogOK(w)
  <2>1. n \in 0 .. Len(wal) /\ LogOK(wal)
    BY DEF LogOK, LsmInv, WalInv
  <2>2. QED
    BY <1>3, <2>1, CutIs
<1>9. WalInv'
  BY WalPowerLoss DEF LsmInv
<1>10. StorageOpen(w, d, m)
  BY <1>2, <1>3
<1>11. QED
  BY <1>5, <1>6, <1>7, <1>8, <1>9, <1>10, LsmOpen

LEMMA LsmTableStep ==
    ASSUME LsmInv, TableStep
    PROVE  LsmInv'
<1>1. CASE FlushWrite
  BY <1>1, LsmFlushWrite
<1>2. CASE FlushFails
  BY <1>2, LsmWriterFails DEF FlushFails, Idle
<1>3. CASE FlushOpenFails
  BY <1>3, LsmOpenFails DEF FlushOpenFails
<1>4. CASE FlushAdd
  BY <1>4, LsmFlushAdd
<1>5. CASE FlushNext
  BY <1>5, LsmFlushNext
<1>6. CASE Compact
  BY <1>6, LsmCompact DEF Compact
<1>7. CASE CompactMisses
  <2>1. PickLevel >= 0 /\ Fail("read") /\ \E missed : CompactLevel(PickLevel, missed)
    BY <1>7, Zenon DEF CompactMisses
  <2>2. QED
    BY <2>1, LsmCompact
<1>8. CASE CompactFails
  BY <1>8, LsmWriterFails DEF CompactFails
<1>9. CASE CompactUnlink
  BY <1>9, LsmUnlink
<1>10. CASE CompactAdd
  BY <1>10, LsmCompactAdd
<1>11. CASE CompactOpenFails
  BY <1>11, LsmOpenFails DEF CompactOpenFails
<1>12. QED
  BY <1>1, <1>2, <1>3, <1>4, <1>5, <1>6, <1>7, <1>8, <1>9, <1>10, <1>11 DEF TableStep

LEMMA LsmNext ==
    ASSUME OpenedAgainOnce, LsmInv, [Next]_vars
    PROVE  LsmInv'
<1>1. CASE \E k \in Key, x \in Value \cup {Tomb} : Write(k, x)
  BY <1>1, LsmWrite
<1>2. CASE \E k \in Key, x \in Value \cup {Tomb} : WriteFails(k, x)
  BY <1>2, LsmWriteFails
<1>3. CASE TableStep
  BY <1>3, LsmTableStep
<1>4. CASE FlushDone
  BY <1>4, LsmFlushDone
<1>5. CASE Restart
  BY <1>5, LsmRestart
<1>6. CASE PowerLoss
  BY <1>6, LsmPowerLoss
<1>7. CASE UNCHANGED vars
  <2>1. WalInv'
    BY <1>7 DEF vars, LsmInv, WalInv
  <2>2. FilesInv' /\ Midway'
    BY <1>7 DEF vars, LsmInv, FilesInv, Midway
  <2>3. Books' /\ Settled'
    BY <1>7 DEF vars, LsmInv, Books, Settled
  <2>4. QED
    BY <2>1, <2>2, <2>3 DEF LsmInv
<1>8. QED
  BY <1>1, <1>2, <1>3, <1>4, <1>5, <1>6, <1>7, NextIs

LEMMA LsmInvariant == ASSUME OpenedAgainOnce PROVE Spec => []LsmInv
BY LsmInit, LsmNext, PTL DEF Spec

-----------------------------------------------------------------------------
(* The theorems. *)

LEMMA InvTyped == LsmInv => TypeOK
<1> SUFFICES ASSUME LsmInv PROVE TypeOK
  OBVIOUS
<1>1. WalInv /\ FilesInv
  BY DEF LsmInv
<1>2. \A i \in DOMAIN wal : wal[i] = Torn \/ wal[i] \in [key : Key, val : Entry \ {Absent}]
  <2>1. wal \in Seq(Record \cup {Torn})
    BY <1>1 DEF WalInv, LogOK
  <2>2. \A i \in DOMAIN wal : wal[i] \in Record \cup {Torn}
    BY <2>1
  <2>3. QED
    BY <2>2 DEF Record
<1>3. /\ \A l \in Level : \A i \in DOMAIN levels[l] : levels[l][i] \in 1 .. next_num - 1
      /\ \A l, m \in Level : \A i \in DOMAIN levels[l], j \in DOMAIN levels[m] :
            levels[l][i] = levels[m][j] => l = m /\ i = j
  <2>1. Stack(levels, disk, next_num) /\ next_num \in Nat
    BY <1>1, FileIs DEF FilesInv
  <2>2. ASSUME NEW l \in Level, NEW i \in DOMAIN levels[l]
        PROVE  levels[l][i] \in 1 .. next_num - 1
    <3>1. levels[l] \in Seq(File) /\ levels[l][i] < next_num
      BY <2>1 DEF Stack
    <3>2. levels[l][i] \in File
      BY <3>1, ElementIn
    <3>3. QED
      BY <2>1, <3>1, <3>2, FileIs
  <2>3. QED
    BY <2>1, <2>2 DEF Stack
<1>4. disk \in [File -> [Key -> Entry] \cup {Garbage, NoFile}]
  BY <1>1 DEF FilesInv, Disks, Content
<1>5. QED
  BY <1>1, <1>2, <1>3, <1>4 DEF TypeOK, WalInv, FilesInv, Content

\* Every variable of the engine keeps its type and no file number is listed twice or
\* before next_file_number has passed it, for every number of keys, files, levels, writes
\* and failures, across one restart or power loss.
THEOREM TypeCorrect == ASSUME OpenedAgainOnce PROVE Spec => []TypeOK
BY LsmInvariant, InvTyped, PTL

LEMMA InvDisjoint == LsmInv => LevelsDisjoint
BY DEF LsmInv, FilesInv, Stack, SortedIn, LevelsDisjoint

\* However many files a level holds, level_add_sstable and compact_level keep every level
\* below L0 sorted and its files apart: what the binary searches of level_get and
\* level_find_overlapping take for granted.
THEOREM LevelsAreDisjoint == ASSUME OpenedAgainOnce PROVE Spec => []LevelsDisjoint
BY LsmInvariant, InvDisjoint, PTL

LEMMA InvSound == LsmInv => FilesSound
<1> SUFFICES ASSUME LsmInv, NEW l \in Level, NEW i \in DOMAIN levels[l]
             PROVE  Readable(disk, levels[l][i]) /\ levels[l][i] # next_num
  BY DEF FilesSound
<1>1. /\ disk \in Disks /\ levels[l] \in Seq(File) /\ disk[levels[l][i]] \in Content
      /\ levels[l][i] < next_num /\ next_num \in Nat
  BY FileIs DEF LsmInv, FilesInv, Stack, WholeIn
<1>2. levels[l][i] \in File /\ levels[l][i] \in Nat
  BY <1>1, ElementIn, FileIs
<1>3. QED
  BY <1>1, <1>2, ReadableIs

\* Between calls every file that a level lists is on disk and whole and has another number
\* than the next table, wherever in storage_flush or compact_level the process died.
THEOREM FilesAreSound == ASSUME OpenedAgainOnce PROVE Spec => []FilesSound
BY LsmInvariant, InvSound, PTL

LEMMA InvRecent == LsmInv => RecentReads
<1> SUFFICES ASSUME LsmInv, WholeLog, NEW k \in Key, last[k] # Absent, mem[k] = Absent,
                    NewestWith(k) # Absent
             PROVE  StorageGet(k) = Expected(k)
  BY DEF RecentReads
<1>1. TornLast(wal)
  BY WholeIs DEF LsmInv, WalInv, WholeLog
<1>2. PICK x : x = NewestWith(k)
  OBVIOUS
<1>3. Stack(levels, disk, next_num) /\ levels[0] \in Seq(File) /\ WholeIn(levels[0], disk) /\ 0 \in Level
  BY LevelIs DEF LsmInv, FilesInv, Stack
<1>4. x = NewestIn(levels[0], disk, k)
  BY <1>2, NewestWithIs
<1>5. LastWith(levels[0], disk, k, x)
  BY <1>3, <1>4, NewestInIs
<1>6. x = last[k]
  <2>1. Agrees(mem[k], levels[0], disk, k, last[k])
    BY <1>1 DEF LsmInv, Settled
  <2>2. QED
    BY <1>2, <1>5, <2>1 DEF Agrees
<1>7. LevelRead(levels, disk, k) = x
  <2>1. PICK w \in [Level -> Entry] : /\ \A m \in Level : FoundIs(levels, disk, m, k, w[m])
                                      /\ Leads(w, LevelRead(levels, disk, k))
    BY <1>3, ReadIs
  <2>2. LastWith(levels[0], disk, k, w[0])
    BY <1>3, <2>1 DEF FoundIs
  <2>3. w[0] = x
    BY <1>3, <1>5, <2>2, LastWithUnique
  <2>4. \A j \in Level : ~(j < 0)
    BY LevelIs
  <2>5. Leads(w, x)
    BY <1>2, <1>3, <2>3, <2>4 DEF Leads
  <2>6. QED
    BY <2>1, <2>5, LeadsUnique
<1>8. StorageGet(k) = Answer(mem[k], LevelRead(levels, disk, k))
  BY StorageGetIs
<1>9. mem[k] \notin Value
  BY LsmAssumption
<1>10. QED
  BY <1>6, <1>7, <1>8, <1>9 DEF Answer, Expected

\* A key that is in L0 and not in the memtable reads as it was last written: flushes,
\* compactions, restarts and power losses keep L0 in the order of age.
THEOREM ReadsAreRecent == ASSUME OpenedAgainOnce PROVE Spec => []RecentReads
BY LsmInvariant, InvRecent, PTL

\* Only the last step of compact_level ends a compaction with STATUS_OK.
LEMMA EndsByAdd ==
    ASSUME WalInv, [Next]_vars, CompactOK
    PROVE  CompactAdd
<1>1. pc = "merged" /\ pc' = "idle" /\ failures' = failures
  BY DEF CompactOK
<1>2. ASSUME NEW f \in Kind, Fail(f) PROVE FALSE
  BY <1>1, <1>2, FailIs DEF WalInv
<1>3. ~Fail("restart") /\ ~Fail("power") /\ ~Fail("open")
  BY <1>2 DEF Kind
<1>4. ~Restart /\ ~PowerLoss /\ ~CompactOpenFails
  BY <1>3 DEF Restart, PowerLoss, CompactOpenFails
<1>5. ~FlushDone /\ ~(UNCHANGED vars)
  BY <1>1 DEF FlushDone, vars
<1>6. ~ \E k \in Key, x \in Value \cup {Tomb} : Write(k, x)
  BY <1>1 DEF Write, Idle
<1>7. ~ \E k \in Key, x \in Value \cup {Tomb} : WriteFails(k, x)
  BY <1>1 DEF WriteFails, Idle
<1>8. TableStep
  BY <1>4, <1>5, <1>6, <1>7, NextIs
<1>9. ~FlushWrite /\ ~FlushFails /\ ~FlushOpenFails /\ ~FlushAdd /\ ~FlushNext
  BY <1>1 DEF FlushWrite, FlushFails, FlushOpenFails, FlushAdd, FlushNext, Idle
<1>10. ~Compact /\ ~CompactMisses /\ ~CompactFails /\ ~CompactUnlink
  BY <1>1 DEF Compact, CompactMisses, CompactFails, CompactUnlink
<1>11. QED
  BY <1>4, <1>8, <1>9, <1>10 DEF TableStep

\* Of a compaction that returns STATUS_OK the merge, the removal of the inputs one by one
\* and the output's place in its level change no read, except of a key that is in both
\* levels or of which a read error hid an entry; for every shape of the levels, every
\* number of inputs and every failure before.  One whose output cannot be opened returns
\* an error, and nothing is said of it.
THEOREM CompactionsKeep == ASSUME OpenedAgainOnce PROVE Spec => CompactionKeeps
<1>1. Spec => []LsmInv
  BY LsmInvariant
<1>2. LsmInv /\ [Next]_vars =>
        [CompactOK => \A k \in Key \ job.exposed : StorageGet(k)' = job.reads[k]]_vars
  BY EndsByAdd, LsmCompactAdd DEF LsmInv
<1>3. QED
  BY <1>1, <1>2, PTL DEF Spec, CompactionKeeps
=============================================================================
