------------------------------ MODULE TxProofs ------------------------------
(***************************************************************************)
(* Proofs about TxManager, for any number of clients, keys, values,        *)
(* timestamps and failures.                                                *)
(***************************************************************************)
EXTENDS TxManager, FiniteSetTheorems, FunctionTheorems, WellFoundedInduction, SequenceTheorems, TLAPS

-----------------------------------------------------------------------------
(* The inductive invariant. *)

Version == [key : Key, ts : 1 .. MaxTs, val : Value \cup {Empty}]
WriteEntry == [key : Key, val : Value \cup {Empty}]
TxRecord == [state : {"NONE", "ACTIVE", "COMMITTING"}, start_ts : Nat, commit_ts : Nat,
             writes : Seq(WriteEntry), stored : Nat]
AttemptRec == [ts : Nat, kept : BOOLEAN, vers : SUBSET Version]
FailRec == [count : 0 .. MaxFailures, harm : BOOLEAN, power : BOOLEAN]
Logs == {"tx.wal", "wal.log"}
Iterator == [entry : Version \cup {None, End}, from : Nat, seen : SUBSET Key]

Committing(c) == tx[c].state = "COMMITTING"

\* A write set has one entry for a key.
Distinct(ws) == \A i, j \in DOMAIN ws : ws[i].key = ws[j].key => i = j

TxOK(c) ==
    /\ tx[c].start_ts < next_ts /\ tx[c].commit_ts < next_ts
    /\ Committing(c) => tx[c].commit_ts \in 1 .. MaxTs
    /\ Distinct(tx[c].writes)
    /\ tx[c].stored <= Len(tx[c].writes)

TypeInv ==
    /\ next_ts \in Nat \ {0}
    /\ tx \in [Client -> TxRecord] /\ \A c \in Client : TxOK(c)
    /\ store \subseteq Version /\ lost \subseteq Version /\ torn \subseteq Logs
    /\ max_ts \in 0 .. next_ts - 1 /\ synced_ts \in 0 .. max_ts
    /\ iter \in [Client -> Iterator]
    /\ attempts \subseteq AttemptRec
    /\ failures \in FailRec

\* A client outside a transaction has nothing left of one; one commit runs at a
\* time, at a timestamp above every snapshot and above the log; a version is
\* stored once; and an iterator is on a key from where it started.
TxInv ==
    /\ \A c \in Client : tx[c].state = "NONE" => tx[c] = NoTx /\ iter[c] = NoIter
    /\ \A c, d \in Client : Committing(c) /\ Committing(d) => c = d
    /\ \A c, d \in Client : Committing(d) => tx[c].start_ts < tx[d].commit_ts
    /\ \A d \in Client : Committing(d) => max_ts < tx[d].commit_ts
    /\ \A v, w \in store : v.key = w.key /\ v.ts = w.ts => v = w
    /\ \A c \in Client : iter[c].entry \notin {None, End} => iter[c].from <= iter[c].entry.key

\* The version that entry i of c's write set becomes.
VersionOf(c, i) ==
    [key |-> tx[c].writes[i].key, ts |-> tx[c].commit_ts, val |-> tx[c].writes[i].val]

\* Versions are behind a torn record only when there is one, and the commit under way
\* has stored the entries it has passed.
LogInv ==
    /\ "wal.log" \notin torn => lost = {}
    /\ \A c \in Client : Committing(c) => \A i \in 1 .. tx[c].stored : VersionOf(c, i) \in store

\* A reported commit whose records are whole is in the log and in the store, and in
\* what both give back, until the machine loses power; with sync_on_commit its
\* timestamp is in the part of tx.wal that survives even that.
KeptOK(a) ==
    a.kept => /\ ~failures.power => a.ts <= max_ts /\ a.vers \subseteq store \ lost
              /\ SyncOnCommit => a.ts <= synced_ts

KeptInv == \A a \in attempts : KeptOK(a) /\ \A v \in a.vers : v.ts = a.ts

\* As long as no commit was cut short and no record torn: what is stored is in the log
\* or belongs to the commit under way, which has stored only entries it has passed,
\* and whose keys nobody has committed since its snapshot.
QuietInv ==
    ~failures.harm =>
        /\ torn = {} /\ lost = {}
        /\ \A v \in store : \/ v.ts <= max_ts
                            \/ \E c \in Client : Committing(c) /\ v.ts = tx[c].commit_ts
        /\ \A c \in Client : Committing(c) =>
              /\ \A v \in store : v.ts = tx[c].commit_ts =>
                    \E i \in 1 .. tx[c].stored : v = VersionOf(c, i)
              /\ \A v \in store : v.key \in Written(tx[c].writes) =>
                    v.ts = tx[c].commit_ts \/ v.ts <= tx[c].start_ts

IInv == TypeInv /\ TxInv /\ LogInv /\ KeptInv /\ QuietInv /\ ScanIsSnapshot

-----------------------------------------------------------------------------
(* Extrema, lookups and write sets. *)

LEMMA LeastNat ==
    ASSUME NEW T \in SUBSET Nat, T # {}
    PROVE  \E m \in T : \A y \in T : m <= y
<1> DEFINE R == {ss \in Nat \X Nat : ss[1] < ss[2]}
<1>1. IsWellFoundedOn(R, Nat)
  BY NatLessThanWellFounded, Zenon DEF OpToRel
<1>2. \A a, b \in Nat : a < b => <<a, b>> \in R
  OBVIOUS
<1> HIDE DEF R
<1>3. PICK m \in T : \A y \in T : ~(<<y, m>> \in R)
  BY <1>1, WFMin
<1>4. \A y \in T : m <= y
  <2> TAKE y \in T
  <2>1. m \in Nat /\ y \in Nat
    OBVIOUS
  <2>2. ~(y < m)
    BY <1>2, <1>3, <2>1, Zenon
  <2>3. QED
    BY <2>1, <2>2
<1>5. QED
  BY <1>4

LEMMA GreatestNat ==
    ASSUME NEW T \in SUBSET Nat, T # {}, NEW b \in Nat, \A x \in T : x <= b
    PROVE  \E m \in T : \A y \in T : y <= m
<1> DEFINE D == {b - x : x \in T}
<1>1. D \in SUBSET Nat
  <2>1. \A x \in T : b - x \in Nat
    OBVIOUS
  <2>2. QED
    BY <2>1, Zenon
<1>2. D # {}
  BY Zenon
<1> HIDE DEF D
<1>3. PICK d \in D : \A y \in D : d <= y
  BY <1>1, <1>2, LeastNat
<1>4. PICK m \in T : d = b - m
  BY <1>3 DEF D
<1>5. \A y \in T : y <= m
  <2> TAKE y \in T
  <2>1. b - y \in D
    BY DEF D
  <2>2. b - m <= b - y
    BY <1>3, <1>4, <2>1
  <2>3. QED
    BY <2>2
<1>6. QED
  BY <1>5

\* The seek of the storage engine's iterator depends on the visible versions only.
LEMMA LookupSame ==
    ASSUME NEW s, NEW r, NEW k, NEW t, NEW u,
           \A v : v \in s /\ v.key = k /\ v.ts <= t <=> v \in r /\ v.key = k /\ v.ts <= u
    PROVE  Lookup(s, k, t) = Lookup(r, k, u)
<1>1. {v \in s : v.key = k /\ v.ts <= t} = {v \in r : v.key = k /\ v.ts <= u}
  OBVIOUS
<1> DEFINE Val(vs) == IF vs = {} THEN Empty
                      ELSE (CHOOSE v \in vs : \A w \in vs : w.ts <= v.ts).val
<1>2. /\ Lookup(s, k, t) = Val({v \in s : v.key = k /\ v.ts <= t})
      /\ Lookup(r, k, u) = Val({v \in r : v.key = k /\ v.ts <= u})
  BY Zenon DEF Lookup
<1> HIDE DEF Val
<1>3. QED
  BY <1>1, <1>2, Zenon

\* It finds the newest of them.
LEMMA LookupNewest ==
    ASSUME NEW s, NEW k, NEW t, NEW m \in s, m.key = k, m.ts <= t,
           \A w \in s : w.key = k /\ w.ts <= t => w.ts <= m.ts,
           m.ts <= m.ts,
           \A w \in s : w.key = k /\ w.ts <= t /\ m.ts <= w.ts => w = m
    PROVE  Lookup(s, k, t) = m.val
<1> DEFINE vs == {v \in s : v.key = k /\ v.ts <= t}
           pick == CHOOSE v \in vs : \A w \in vs : w.ts <= v.ts
<1>1. m \in vs /\ \A w \in vs : w.ts <= m.ts
  OBVIOUS
<1>2. pick \in vs /\ \A w \in vs : w.ts <= pick.ts
  BY <1>1, Zenon
<1>3. pick = m
  BY <1>1, <1>2
<1>4. Lookup(s, k, t) = pick.val
  BY <1>1, Zenon DEF Lookup
<1>5. QED
  BY <1>3, <1>4

LEMMA LookupNone ==
    ASSUME NEW s, NEW k, NEW t, \A w \in s : ~(w.key = k /\ w.ts <= t)
    PROVE  Lookup(s, k, t) = Empty
BY DEF Lookup

\* A set of versions with a visible one of the key has a newest.
LEMMA NewestVersion ==
    ASSUME NEW s \in SUBSET Version, NEW k, NEW t \in Nat,
           \E v \in s : v.key = k /\ v.ts <= t
    PROVE  \E m \in s : /\ m.key = k /\ m.ts <= t
                        /\ \A w \in s : w.key = k /\ w.ts <= t => w.ts <= m.ts
<1> DEFINE vs == {v \in s : v.key = k /\ v.ts <= t}
           T == {v.ts : v \in vs}
<1>1. \A v \in s : v.ts \in Nat
  BY TxAssumption DEF Version
<1>2. T \in SUBSET Nat /\ \A x \in T : x <= t
  BY <1>1
<1>3. T # {}
  OBVIOUS
<1>4. PICK n \in T : \A y \in T : y <= n
  <2> HIDE DEF T
  <2>1. QED
    BY <1>2, <1>3, GreatestNat
<1>5. PICK m \in vs : m.ts = n
  BY <1>4
<1>6. \A w \in vs : w.ts <= m.ts
  BY <1>4, <1>5
<1>7. QED
  BY <1>5, <1>6

\* A write set has as many entries as keys.
LEMMA WrittenCount ==
    ASSUME NEW ws \in Seq(WriteEntry), Distinct(ws)
    PROVE  /\ Cardinality(Written(ws)) = Len(ws)
           /\ Written(ws) \subseteq Key
<1> DEFINE n == Len(ws)
           f == [i \in 1 .. n |-> ws[i].key]
<1>1. n \in Nat /\ DOMAIN ws = 1 .. n
  OBVIOUS
<1>2. Written(ws) = {ws[i].key : i \in 1 .. n}
  BY <1>1 DEF Written
<1>3. f \in [1 .. n -> Written(ws)]
  BY <1>2
<1>4. \A a, b \in 1 .. n : f[a] = f[b] => a = b
  BY <1>1 DEF Distinct
<1>5. \A t \in Written(ws) : \E i \in 1 .. n : f[i] = t
  BY <1>2
<1> HIDE DEF f
<1>6. f \in Bijection(1 .. n, Written(ws))
  BY <1>3, <1>4, <1>5, Fun_IsBij
<1>7. ExistsBijection(1 .. n, Written(ws))
  BY <1>6 DEF ExistsBijection
<1>8. IsFiniteSet(1 .. n) /\ Cardinality(1 .. n) = n
  BY <1>1, FS_Interval
<1>9. Cardinality(Written(ws)) = n
  BY <1>7, <1>8, FS_Bijection
<1>10. \A i \in 1 .. n : ws[i].key \in Key
  <2> TAKE i \in 1 .. n
  <2>1. ws[i] \in WriteEntry
    OBVIOUS
  <2>2. QED
    BY <2>1 DEF WriteEntry
<1>11. QED
  BY <1>2, <1>9, <1>10

\* The type invariant of the model.
LEMMA TypeInvOK == TypeInv => TypeOK
<1> SUFFICES ASSUME TypeInv PROVE TypeOK
  OBVIOUS
<1>1. ASSUME NEW c \in Client
      PROVE  /\ tx[c].state \in {"NONE", "ACTIVE", "COMMITTING"}
             /\ tx[c].start_ts \in 0 .. next_ts - 1
             /\ tx[c].commit_ts \in 0 .. next_ts - 1
             /\ Written(tx[c].writes) \subseteq Key
             /\ Cardinality(Written(tx[c].writes)) = Len(tx[c].writes)
             /\ tx[c].stored \in 0 .. Len(tx[c].writes)
  <2>1. TxOK(c) /\ tx[c] \in TxRecord
    BY DEF TypeInv
  <2>2. /\ tx[c].writes \in Seq(WriteEntry) /\ Distinct(tx[c].writes)
        /\ tx[c].state \in {"NONE", "ACTIVE", "COMMITTING"}
        /\ tx[c].start_ts \in 0 .. next_ts - 1 /\ tx[c].commit_ts \in 0 .. next_ts - 1
        /\ tx[c].stored \in 0 .. Len(tx[c].writes)
    BY <2>1 DEF TypeInv, TxOK, TxRecord
  <2>3. QED
    BY <2>2, WrittenCount
<1>2. QED
  BY <1>1 DEF TypeInv, TypeOK, Version, Logs, FailRec

-----------------------------------------------------------------------------
(* Scans. *)

LEMMA VersionParts ==
    \A v \in Version : v.key \in Key /\ v.key \in Nat /\ v.ts \in Nat
<1>1. Key \subseteq Nat
  BY TxAssumption
<1>2. ASSUME NEW v \in Version PROVE v.key \in Key /\ v.ts \in Nat
  BY DEF Version
<1>3. QED
  BY <1>1, <1>2

\* Where advance_to_visible stops: on the first key from k0 on that the snapshot
\* holds, or at the end when it holds none.
LEMMA AdvanceLands ==
    ASSUME TypeInv, TxInv, NEW c \in Client, NEW k0 \in Nat,
           NEW e, e = AdvanceToVisible({v \in store : v.key >= k0}, c)
    PROVE  \/ /\ e = End
              /\ \A k \in Key : k >= k0 => Lookup(store, k, tx[c].start_ts) = Empty
           \/ /\ e \in store /\ e \in Version /\ e.key \in Key /\ e.key >= k0 /\ e # End /\ e # None
              /\ Lookup(store, e.key, tx[c].start_ts) # Empty
              /\ \A k \in Key : k >= k0 /\ Lookup(store, k, tx[c].start_ts) # Empty => e.key <= k
<1> DEFINE t == tx[c].start_ts
           ahead == {v \in store : v.key >= k0}
           hits == {x \in ahead :
                      /\ IsVersionVisible(x.ts, c)
                      /\ x.val # Empty
                      /\ ~\E d \in ahead : /\ d.key = x.key /\ d.ts > x.ts
                                           /\ d.val = Empty
                                           /\ IsVersionVisible(d.ts, c)}
           First(x) == \A f \in hits : x.key < f.key \/ (x.key = f.key /\ x.ts >= f.ts)
<1>1. t \in Nat /\ store \in SUBSET Version
  BY DEF TypeInv, TxRecord
<1>2. \A v \in store : v \in Version /\ v.key \in Key /\ v.key \in Nat /\ v.ts \in Nat
  BY <1>1, VersionParts
<1>3. \A v, w \in store : v.key = w.key /\ v.ts = w.ts => v = w
  BY DEF TxInv
<1>4. ASSUME NEW k \in Key, k >= k0, Lookup(store, k, t) # Empty
      PROVE  \E x \in hits : x.key = k
  <2>1. \E v \in store : v.key = k /\ v.ts <= t
    BY <1>4, LookupNone
  <2>2. PICK m \in store : /\ m.key = k /\ m.ts <= t
                           /\ \A w \in store : w.key = k /\ w.ts <= t => w.ts <= m.ts
    BY <1>1, <2>1, NewestVersion, SMTT(30)
  <2>3. Lookup(store, k, t) = m.val
    <3>1. \A w \in store : w.key = k /\ w.ts <= t /\ m.ts <= w.ts => w = m
      BY <1>2, <1>3, <2>2
    <3>2. m.ts <= m.ts
      BY <1>2
    <3>3. QED
      BY <2>2, <3>1, <3>2, LookupNewest
  <2>4. m \in ahead /\ m.val # Empty
    BY <1>4, <2>2, <2>3
  <2>5. ~\E d \in ahead : d.key = m.key /\ d.ts > m.ts /\ d.val = Empty /\ IsVersionVisible(d.ts, c)
    BY <1>2, <2>2 DEF IsVersionVisible
  <2>6. m \in hits
    BY <2>2, <2>4, <2>5 DEF IsVersionVisible
  <2>7. QED
    BY <2>2, <2>6
<1>5. ASSUME NEW x \in hits PROVE Lookup(store, x.key, t) # Empty
  <2>1. x \in store /\ x.ts <= t /\ x.val # Empty /\ x.key >= k0
    BY DEF IsVersionVisible
  <2>a. \E v \in store : v.key = x.key /\ v.ts <= t
    BY <2>1
  <2>2. PICK m \in store : /\ m.key = x.key /\ m.ts <= t
                           /\ \A w \in store : w.key = x.key /\ w.ts <= t => w.ts <= m.ts
    <3> HIDE DEF hits, t
    <3>1. QED
      BY <1>1, <2>a, NewestVersion
  <2>3. Lookup(store, x.key, t) = m.val
    <3>1. \A w \in store : w.key = x.key /\ w.ts <= t /\ m.ts <= w.ts => w = m
      BY <1>2, <1>3, <2>2
    <3>2. m.ts <= m.ts
      BY <1>2
    <3>3. QED
      BY <2>2, <3>1, <3>2, LookupNewest
  <2>4. CASE m = x
    BY <2>1, <2>3, <2>4
  <2>5. CASE m # x
    <3>1. m.ts > x.ts /\ m \in ahead
      BY <1>2, <1>3, <2>1, <2>2, <2>5
    <3>2. m.val # Empty
      BY <2>2, <3>1 DEF IsVersionVisible
    <3>3. QED
      BY <2>3, <3>2
  <2>6. QED
    BY <2>4, <2>5
<1>6. \A x \in hits : x \in store /\ x.key >= k0 /\ x.ts <= t
  BY DEF IsVersionVisible
<1>7. e = IF hits = {} THEN End ELSE CHOOSE x \in hits : First(x)
  BY Zenon DEF AdvanceToVisible
<1> HIDE DEF hits
<1>8. CASE hits = {}
  BY <1>4, <1>7, <1>8
<1>9. CASE hits # {}
  <2> DEFINE keys == {x.key : x \in hits}
  <2>1. keys \in SUBSET Nat /\ keys # {}
    BY <1>2, <1>6, <1>9
  <2>2. PICK k \in keys : \A y \in keys : k <= y
    <3> HIDE DEF keys
    <3>1. QED
      BY <2>1, LeastNat
  <2> DEFINE same == {x \in hits : x.key = k}
             stamps == {x.ts : x \in same}
  <2>3. same # {}
    BY <2>2
  <2>4. stamps \in SUBSET Nat /\ stamps # {} /\ \A y \in stamps : y <= t
    BY <1>2, <1>6, <2>3
  <2>5. PICK n \in stamps : \A y \in stamps : y <= n
    <3> HIDE DEF stamps
    <3>1. QED
      BY <1>1, <2>4, GreatestNat
  <2>6. PICK x \in same : x.ts = n
    BY <2>5
  <2>7. First(x)
    <3> SUFFICES ASSUME NEW f \in hits PROVE x.key < f.key \/ (x.key = f.key /\ x.ts >= f.ts)
      OBVIOUS
    <3>1. x \in hits /\ x.key = k /\ x \in store /\ f \in store
      BY <1>6, <2>6
    <3>2. x.key <= f.key /\ x.key \in Nat /\ f.key \in Nat
      BY <1>2, <2>2, <3>1
    <3>3. CASE f.key = k
      <4>1. f.ts <= n /\ f.ts \in Nat /\ x.ts \in Nat
        BY <1>2, <2>5, <3>1, <3>3
      <4>2. QED
        BY <2>6, <3>1, <3>3, <4>1
    <3>4. CASE f.key # k
      BY <3>1, <3>2, <3>4
    <3>5. QED
      BY <3>3, <3>4
  <2>8. x \in hits
    BY <2>6
  <2> HIDE DEF First, same, stamps, keys
  <2>9. e \in hits /\ First(e)
    BY <1>7, <1>9, <2>7, <2>8, Zenon
  <2>10. \A f \in hits : e.key <= f.key
    BY <1>2, <1>6, <2>9 DEF First
  <2>11. e \in store /\ e.key >= k0 /\ Lookup(store, e.key, t) # Empty
    BY <1>5, <1>6, <2>9
  <2>12. e \in Version /\ e.key \in Key
    BY <1>2, <2>11
  <2>13. e # End /\ e # None
    <3>1. e \in [key : Key, ts : Nat, val : Value \cup {Empty}]
      BY <2>12, TxAssumption DEF Version
    <3>2. QED
      BY <3>1, TxAssumption, Zenon
  <2>14. \A j \in Key : j >= k0 /\ Lookup(store, j, t) # Empty => e.key <= j
    BY <1>4, <2>10
  <2>15. QED
    BY <2>11, <2>12, <2>13, <2>14
<1>10. QED
  BY <1>8, <1>9

\* A scan stays a scan of the snapshot while the versions it may see stay.
LEMMA ScanFrame ==
    ASSUME ScanIsSnapshot,
           \A c \in Client :
              \/ iter'[c].entry = None
              \/ /\ iter'[c] = iter[c] /\ tx'[c].start_ts = tx[c].start_ts
                 /\ \A k \in Key : Lookup(store', k, tx[c].start_ts) = Lookup(store, k, tx[c].start_ts)
    PROVE  ScanIsSnapshot'
BY DEF ScanIsSnapshot

\* An iterator lands on the next key of the snapshot: tx_iter_seek and tx_iter_next.
LEMMA LandStep ==
    ASSUME IInv, NEW c \in Client, NEW k \in Nat, NEW from \in Nat, NEW seen \in SUBSET Key,
           Active(c), Land(c, k, from, seen),
           UNCHANGED <<next_ts, tx, store, lost, torn, max_ts, synced_ts, attempts, failures>>,
           \A j \in Key : j \in seen <=> /\ j >= from /\ j < k
                                         /\ Lookup(store, j, tx[c].start_ts) # Empty,
           from <= k
    PROVE  IInv'
<1> DEFINE Found(j) == Lookup(store, j, tx[c].start_ts) # Empty
<1>1. PICK e : e = AdvanceToVisible({v \in store : v.key >= k}, c)
  OBVIOUS
<1>2. PICK it : it = [entry |-> e, from |-> from,
                      seen |-> IF e = End THEN seen ELSE seen \cup {e.key}]
  OBVIOUS
<1>3. iter' = [iter EXCEPT ![c] = it]
  BY <1>1, <1>2, Zenon DEF Land
<1>4. \/ e = End /\ \A j \in Key : j >= k => ~Found(j)
      \/ /\ e \in Version /\ e.key \in Key /\ e.key >= k /\ e # End /\ e # None
         /\ Found(e.key) /\ \A j \in Key : j >= k /\ Found(j) => e.key <= j
  BY <1>1, AdvanceLands DEF IInv
<1>5. Key \subseteq Nat /\ None # End
  BY TxAssumption
<1> HIDE DEF Found
<1>6. \A j \in Key : j \in seen <=> j >= from /\ j < k /\ Found(j)
  BY DEF Found
<1>7. it \in Iterator /\ it.entry = e /\ it.entry # None /\ it.from = from
  BY <1>2, <1>4, <1>5 DEF Iterator
<1>8. ASSUME NEW j \in Key
      PROVE  j \in it.seen <=> j >= from /\ Found(j) /\ (e # End => j <= e.key)
  <2>0. j \in Nat
    BY <1>5
  <2>1. CASE e = End
    <3>1. it.seen = seen
      BY <1>2, <2>1
    <3>2. Found(j) => j < k
      BY <1>4, <2>0, <2>1
    <3>3. QED
      BY <1>6, <2>1, <3>1, <3>2
  <2>2. CASE e # End
    <3>1. it.seen = seen \cup {e.key}
      BY <1>2, <2>2
    <3>2. e.key \in Key /\ e.key \in Nat /\ e.key >= k /\ Found(e.key)
          /\ (j >= k /\ Found(j) => e.key <= j)
      BY <1>4, <1>5, <2>2
    <3>3. CASE j = e.key
      BY <2>0, <2>2, <3>1, <3>2, <3>3
    <3>4. CASE j # e.key
      <4>1. j \in it.seen <=> j >= from /\ j < k /\ Found(j)
        BY <1>6, <3>1, <3>4
      <4>2. Found(j) => (j < k <=> j <= e.key)
        BY <2>0, <3>2, <3>4
      <4>3. QED
        BY <2>2, <4>1, <4>2
    <3>5. QED
      BY <3>3, <3>4
  <2>3. QED
    BY <2>1, <2>2
<1>9. TypeInv'
  BY <1>3, <1>7 DEF IInv, TypeInv, TxOK, Committing
<1>10. iter'[c] = it /\ \A d \in Client : d # c => iter'[d] = iter[d]
  BY <1>3 DEF IInv, TypeInv
<1>11. ScanIsSnapshot'
  <2>1. \A d \in Client : d # c => iter'[d] = iter[d]
    BY <1>10
  <2>2. it.seen = {j \in Key : /\ j >= it.from /\ Lookup(store, j, tx[c].start_ts) # Empty
                               /\ it.entry # End => j <= it.entry.key}
    <3>1. it.seen \subseteq Key
      BY <1>7 DEF Iterator
    <3>2. QED
      BY <1>7, <1>8, <3>1 DEF Found
  <2>3. QED
    BY <1>10, <2>2 DEF IInv, ScanIsSnapshot
<1>12. TxInv'
  <2>1. it.entry \notin {None, End} => it.from <= it.entry.key
    <3>1. CASE e # End
      <4>1. e.key \in Nat /\ e.key >= k
        BY <1>4, <1>5, <3>1
      <4>2. QED
        BY <1>7, <4>1
    <3>2. QED
      BY <1>7, <3>1
  <2>2. QED
    BY <1>10, <2>1 DEF IInv, TxInv, Committing, Active
<1>13. LogInv' /\ KeptInv' /\ QuietInv'
  BY DEF IInv, LogInv, KeptInv, KeptOK, QuietInv, Committing, VersionOf
<1>14. QED
  BY <1>9, <1>11, <1>12, <1>13 DEF IInv

LEMMA IterStep ==
    ASSUME IInv, NEW c \in Client,
           SeekToFirst(c) \/ IterNext(c) \/ \E k \in Key : Seek(c, k)
    PROVE  IInv'
<1>0. Key \subseteq Nat
  BY TxAssumption
<1>1. CASE SeekToFirst(c)
  <2>1. \A j \in Key : ~(j < 0)
    BY <1>0
  <2>2. QED
    BY <1>1, <2>1, LandStep DEF SeekToFirst, Active
<1>2. ASSUME NEW k \in Key, Seek(c, k) PROVE IInv'
  <2>1. \A j \in Key : ~(j >= k /\ j < k)
    BY <1>0
  <2>2. k \in Nat /\ k <= k
    BY <1>0
  <2>3. /\ Land(c, k, k, {}) /\ Active(c)
        /\ UNCHANGED <<next_ts, tx, store, lost, torn, max_ts, synced_ts, attempts, failures>>
    BY <1>2 DEF Seek, Active
  <2>4. QED
    BY <2>1, <2>2, <2>3, LandStep
<1>3. CASE IterNext(c)
  <2>1. PICK it : it = iter[c]
    OBVIOUS
  <2>2. it \in Iterator /\ it.entry \notin {None, End}
    BY <1>3, <2>1 DEF IInv, TypeInv, IterNext
  <2>3. it.entry \in Version /\ it.entry.key \in Nat /\ it.from \in Nat /\ it.seen \in SUBSET Key
    BY <1>0, <2>2 DEF Iterator, Version
  <2>4. it.seen = {j \in Key : /\ j >= it.from
                               /\ Lookup(store, j, tx[c].start_ts) # Empty
                               /\ it.entry # End => j <= it.entry.key}
    BY <2>1, <2>2 DEF IInv, ScanIsSnapshot
  <2>5. \A j \in Key : j <= it.entry.key <=> j < it.entry.key + 1
    BY <1>0, <2>3
  <2>6. \A j \in Key : j \in it.seen <=> /\ j >= it.from /\ j < it.entry.key + 1
                                         /\ Lookup(store, j, tx[c].start_ts) # Empty
    BY <2>2, <2>4, <2>5
  <2>7. it.from <= it.entry.key + 1 /\ it.entry.key + 1 \in Nat
    BY <2>1, <2>2, <2>3 DEF IInv, TxInv
  <2>8. /\ Land(c, it.entry.key + 1, it.from, it.seen) /\ Active(c)
        /\ UNCHANGED <<next_ts, tx, store, lost, torn, max_ts, synced_ts, attempts, failures>>
    BY <1>3, <2>1 DEF IterNext, Active
  <2>9. QED
    BY <2>3, <2>6, <2>7, <2>8, LandStep
<1>4. QED
  BY <1>1, <1>2, <1>3

-----------------------------------------------------------------------------
(* Transactions. *)

LEMMA OneTx ==
    ASSUME tx \in [Client -> TxRecord], NEW c \in Client, NEW r, tx' = [tx EXCEPT ![c] = r]
    PROVE  /\ tx'[c] = r /\ \A d \in Client : d # c => tx'[d] = tx[d]
           /\ r \in TxRecord => tx' \in [Client -> TxRecord]
OBVIOUS

LEMMA NoTxType ==
    /\ NoTx \in TxRecord /\ NoTx.state = "NONE" /\ NoTx.start_ts = 0 /\ NoTx.commit_ts = 0
    /\ NoTx.writes = << >> /\ NoTx.stored = 0 /\ Distinct(NoTx.writes)
BY DEF NoTx, TxRecord, Distinct

LEMMA NoIterType == NoIter \in Iterator /\ NoIter.entry = None
BY DEF NoIter, Iterator

LEMMA FailType ==
    ASSUME TypeInv, NEW f, Fail(f)
    PROVE  /\ failures' \in FailRec
           /\ failures'.harm <=> failures.harm \/ f # "close"
           /\ failures'.power <=> failures.power \/ f = "power"
<1>1. PICK n : n = failures.count
  OBVIOUS
<1>2. PICK h : h = (failures.harm \/ f # "close")
  OBVIOUS
<1>3. PICK w : w = (failures.power \/ f = "power")
  OBVIOUS
<1>4. failures' = [count |-> n + 1, harm |-> h, power |-> w] /\ n < MaxFailures
  BY <1>1, <1>2, <1>3 DEF Fail
<1>5. n \in Nat
  BY <1>1 DEF TypeInv, FailRec
<1>6. n + 1 \in 0 .. MaxFailures
  BY <1>4, <1>5, TxAssumption
<1>7. h \in BOOLEAN /\ w \in BOOLEAN
  BY <1>2, <1>3, Zenon
<1>8. failures' \in FailRec /\ failures'.harm = h /\ failures'.power = w
  BY <1>4, <1>6, <1>7 DEF FailRec
<1>9. QED
  BY <1>2, <1>3, <1>8, Zenon

\* What a record of tx.wal, written or not, does to the log.
Onward ==
    /\ max_ts' \in Nat /\ max_ts <= max_ts'
    /\ torn \subseteq torn' /\ torn' \subseteq Logs
    /\ failures' \in FailRec /\ (failures'.power <=> failures.power)
    /\ ~failures'.harm => ~failures.harm /\ torn' = torn

LEMMA LogStep ==
    ASSUME IInv, NEW ts \in Nat, LogRecord(ts) \/ LogFails
    PROVE  /\ Onward /\ (max_ts' <= max_ts \/ max_ts' <= ts)
           /\ ~failures'.harm => max_ts' = Max2(max_ts, ts)
<1>0. /\ max_ts \in Nat /\ torn \subseteq Logs /\ failures \in FailRec
      /\ ~failures.harm => torn = {}
  BY DEF IInv, TypeInv, QuietInv
<1>1. CASE LogRecord(ts)
  <2>1. max_ts' = Logged(ts) /\ UNCHANGED <<torn, failures>>
    BY <1>1 DEF LogRecord
  <2>2. /\ Logged(ts) \in Nat /\ max_ts <= Logged(ts)
        /\ Logged(ts) <= max_ts \/ Logged(ts) <= ts
    BY <1>0 DEF Logged, Max2
  <2>3. ~failures.harm => Logged(ts) = Max2(max_ts, ts)
    BY <1>0 DEF Logged
  <2>4. QED
    BY <1>0, <2>1, <2>2, <2>3 DEF Onward
<1>2. CASE LogFails
  <2>1. Fail("log") /\ torn' \in {torn, torn \cup {"tx.wal"}} /\ max_ts' = max_ts
    BY <1>2 DEF LogFails, Tears
  <2>2. failures' \in FailRec /\ failures'.harm /\ (failures'.power <=> failures.power)
    BY <2>1, FailType DEF IInv
  <2>3. torn \subseteq torn' /\ torn' \subseteq Logs
    BY <1>0, <2>1 DEF Logs
  <2>4. QED
    BY <1>0, <2>1, <2>2, <2>3 DEF Onward
<1>3. QED
  BY <1>1, <1>2

\* A reported commit is kept while the logs grow and its versions stay.
LEMMA KeptStays ==
    ASSUME NEW a \in AttemptRec, KeptOK(a), max_ts \in Nat, max_ts' \in Nat, synced_ts \in Nat,
           synced_ts' \in Nat, max_ts <= max_ts', synced_ts <= synced_ts',
           failures.power => failures'.power,
           a.vers \cap (store \ lost) \subseteq store' \ lost'
    PROVE  KeptOK(a)'
<1>1. a.ts \in Nat
  BY DEF AttemptRec
<1>2. QED
  BY <1>1 DEF KeptOK

LEMMA KeptFrame ==
    ASSUME IInv, max_ts' \in Nat, synced_ts' \in Nat, max_ts <= max_ts', synced_ts <= synced_ts',
           failures.power => failures'.power, store \ lost \subseteq store' \ lost',
           attempts' = attempts
    PROVE  KeptInv'
<1>1. max_ts \in Nat /\ synced_ts \in Nat
  BY DEF IInv, TypeInv
<1>2. ASSUME NEW a \in attempts PROVE KeptOK(a)'
  BY <1>1, <1>2, KeptStays DEF IInv, KeptInv, TypeInv
<1>3. QED
  BY <1>2 DEF IInv, KeptInv

LEMMA BeginStep ==
    ASSUME IInv, NEW c \in Client, Begin(c)
    PROVE  IInv'
<1>1. PICK r : r = [NoTx EXCEPT !.state = "ACTIVE", !.start_ts = next_ts]
  OBVIOUS
<1>2. tx' = [tx EXCEPT ![c] = r] /\ next_ts' = next_ts + 1
      /\ UNCHANGED <<store, lost, synced_ts, iter, attempts>>
      /\ (LogRecord(next_ts) \/ LogFails)
      /\ \A d \in Client : ~Committing(d)
      /\ tx[c].state = "NONE"
  BY <1>1 DEF Begin, MutexFree, Committing
<1>3. next_ts \in Nat /\ max_ts \in Nat /\ max_ts < next_ts /\ synced_ts \in Nat /\ synced_ts <= max_ts
  BY DEF IInv, TypeInv
<1>4. /\ r.state = "ACTIVE" /\ r.start_ts = next_ts /\ r.commit_ts = 0 /\ r.writes = << >>
      /\ r.stored = 0 /\ r \in TxRecord
  BY <1>1, <1>3, NoTxType DEF NoTx, TxRecord
<1>5. tx'[c] = r /\ (\A d \in Client : d # c => tx'[d] = tx[d]) /\ tx' \in [Client -> TxRecord]
  BY <1>2, <1>4, OneTx DEF IInv, TypeInv
<1>6. \A d \in Client : tx'[d].state # "COMMITTING"
  BY <1>2, <1>4, <1>5 DEF Committing
<1>7. Onward /\ max_ts' <= next_ts
  <2>1. Onward /\ (max_ts' <= max_ts \/ max_ts' <= next_ts)
    BY <1>2, <1>3, LogStep
  <2>2. QED
    BY <1>3, <2>1 DEF Onward
<1>8. TypeInv'
  <2>1. ASSUME NEW d \in Client PROVE TxOK(d)'
    <3>1. CASE d = c
      BY <1>2, <1>3, <1>4, <1>5, <1>6, <3>1 DEF TxOK, Distinct, Committing
    <3>2. CASE d # c
      <4>1. tx[d] \in TxRecord /\ TxOK(d)
        BY DEF IInv, TypeInv
      <4>2. QED
        BY <1>2, <1>3, <1>5, <1>6, <3>2, <4>1 DEF TxOK, Committing, TxRecord
    <3>3. QED
      BY <3>1, <3>2
  <2>2. QED
    BY <1>2, <1>3, <1>5, <1>7, <2>1 DEF IInv, TypeInv, Onward
<1>9. TxInv'
  BY <1>2, <1>4, <1>5, <1>6 DEF IInv, TxInv, Committing
<1>10. LogInv' /\ KeptInv'
  <2>1. LogInv'
    BY <1>2, <1>6, <1>7 DEF IInv, LogInv, Onward, Committing
  <2>2. KeptInv'
    BY <1>2, <1>3, <1>7, KeptFrame DEF Onward
  <2>3. QED
    BY <2>1, <2>2
<1>11. QuietInv'
  <2>1. ~failures.harm => torn = {} /\ lost = {} /\ \A v \in store : v.ts <= max_ts'
    <3>1. \A v \in store : v.ts \in Nat
      BY TxAssumption DEF IInv, TypeInv, Version
    <3>2. QED
      BY <1>2, <1>3, <1>7, <3>1 DEF IInv, QuietInv, Onward
  <2>2. QED
    BY <1>2, <1>6, <1>7, <2>1 DEF QuietInv, Committing, Onward
<1>12. ScanIsSnapshot'
  <2>1. iter[c] = NoIter
    BY <1>2 DEF IInv, TxInv
  <2>2. QED
    BY <1>2, <1>5, <2>1, NoIterType, ScanFrame DEF IInv
<1>13. QED
  BY <1>8, <1>9, <1>10, <1>11, <1>12 DEF IInv

\* A transaction ends: tx_abort, a conflict, and the rest of tx_commit.
LEMMA EndStep ==
    ASSUME IInv, NEW c \in Client,
           tx' = [tx EXCEPT ![c] = NoTx], iter' = [iter EXCEPT ![c] = NoIter],
           UNCHANGED <<next_ts, store, lost>>, attempts' \subseteq AttemptRec,
           Onward, max_ts' < next_ts, synced_ts' \in Nat, synced_ts' <= max_ts',
           \A d \in Client : Committing(d) => d = c,
           ~failures'.harm /\ Committing(c) => tx[c].commit_ts <= max_ts',
           KeptInv'
    PROVE  IInv'
<1>1. /\ tx'[c] = NoTx /\ (\A d \in Client : d # c => tx'[d] = tx[d])
      /\ tx' \in [Client -> TxRecord]
  BY OneTx, NoTxType DEF IInv, TypeInv
<1>2. /\ iter'[c] = NoIter /\ (\A d \in Client : d # c => iter'[d] = iter[d])
      /\ iter' \in [Client -> Iterator]
  BY NoIterType DEF IInv, TypeInv
<1>3. \A d \in Client : tx'[d].state # "COMMITTING"
  BY <1>1, NoTxType DEF Committing
<1>4. TypeInv'
  <2>1. ASSUME NEW d \in Client PROVE TxOK(d)'
    <3>1. CASE d = c
      BY <1>1, <1>3, <3>1, NoTxType DEF TxOK, Committing, IInv, TypeInv
    <3>2. CASE d # c
      <4>1. TxOK(d)
        BY DEF IInv, TypeInv
      <4>2. QED
        BY <1>1, <1>3, <3>2, <4>1 DEF TxOK, Committing
    <3>3. QED
      BY <3>1, <3>2
  <2>2. QED
    BY <1>1, <1>2, <2>1 DEF IInv, TypeInv, Onward
<1>5. TxInv' /\ LogInv'
  BY <1>1, <1>2, <1>3, NoIterType DEF IInv, TxInv, LogInv, Onward, Committing
<1>6. QuietInv'
  <2>1. ASSUME ~failures'.harm, NEW v \in store PROVE v.ts <= max_ts'
    <3>1. v.ts \in Nat /\ max_ts \in Nat
      BY TxAssumption DEF IInv, TypeInv, Version
    <3>2. v.ts <= max_ts \/ v.ts <= max_ts'
      BY <2>1 DEF IInv, QuietInv, Onward
    <3>3. QED
      BY <3>1, <3>2 DEF Onward
  <2>2. ~failures'.harm => torn' = {} /\ lost' = {}
    BY DEF IInv, QuietInv, Onward
  <2>3. QED
    BY <1>3, <2>1, <2>2 DEF QuietInv, Committing
<1>7. ScanIsSnapshot'
  BY <1>1, <1>2, NoIterType, ScanFrame DEF IInv
<1>8. QED
  BY <1>4, <1>5, <1>6, <1>7 DEF IInv

LEMMA AbortStep ==
    ASSUME IInv, NEW c \in Client, Abort(c)
    PROVE  IInv'
<1>1. /\ tx' = [tx EXCEPT ![c] = NoTx] /\ iter' = [iter EXCEPT ![c] = NoIter]
      /\ UNCHANGED <<next_ts, store, lost, synced_ts, attempts>>
      /\ LogRecord(0) \/ LogFails
      /\ \A d \in Client : ~Committing(d)
  BY DEF Abort, MutexFree, Committing
<1>2. /\ max_ts \in Nat /\ synced_ts \in Nat /\ max_ts < next_ts /\ synced_ts <= max_ts
      /\ attempts \subseteq AttemptRec /\ next_ts \in Nat
  BY DEF IInv, TypeInv
<1>3. Onward /\ (max_ts' <= max_ts \/ max_ts' <= 0)
  BY <1>1, LogStep
<1>4. max_ts' < next_ts /\ synced_ts' <= max_ts' /\ synced_ts' \in Nat
  BY <1>1, <1>2, <1>3 DEF Onward
<1>5. KeptInv'
  BY <1>1, <1>2, <1>3, KeptFrame DEF Onward
<1>6. QED
  BY <1>1, <1>2, <1>3, <1>4, <1>5, EndStep

LEMMA AddWriteType ==
    ASSUME NEW ws \in Seq(WriteEntry), Distinct(ws), NEW k \in Key, NEW v \in Value \cup {Empty}
    PROVE  /\ AddWrite(ws, k, v) \in Seq(WriteEntry) /\ Distinct(AddWrite(ws, k, v))
           /\ Len(ws) <= Len(AddWrite(ws, k, v))
           /\ \E i \in DOMAIN AddWrite(ws, k, v) : AddWrite(ws, k, v)[i] = [key |-> k, val |-> v]
           /\ \A i \in DOMAIN ws : /\ i \in DOMAIN AddWrite(ws, k, v)
                                    /\ ws[i].key # k => AddWrite(ws, k, v)[i] = ws[i]
           /\ \A i \in DOMAIN AddWrite(ws, k, v) :
                 AddWrite(ws, k, v)[i] # [key |-> k, val |-> v] => i \in DOMAIN ws /\ ws[i].key # k
<1>1. PICK w : w = [key |-> k, val |-> v]
  OBVIOUS
<1>2. w \in WriteEntry /\ w.key = k
  BY <1>1 DEF WriteEntry
<1>3. \A i \in DOMAIN ws : ws[i] \in WriteEntry
  OBVIOUS
<1>4. CASE k \in Written(ws)
  <2>1. PICK i0 \in DOMAIN ws : ws[i0].key = k
    BY <1>4 DEF Written
  <2>2. PICK r : r = [i \in DOMAIN ws |-> IF ws[i].key = k THEN w ELSE ws[i]]
    OBVIOUS
  <2>3. AddWrite(ws, k, v) = r
    BY <1>1, <1>4, <2>2 DEF AddWrite
  <2>4. /\ r \in Seq(WriteEntry) /\ DOMAIN r = DOMAIN ws /\ Len(r) = Len(ws)
        /\ \A i \in DOMAIN ws : r[i] = IF ws[i].key = k THEN w ELSE ws[i]
    <3>1. DOMAIN ws = 1 .. Len(ws) /\ Len(ws) \in Nat
      OBVIOUS
    <3>2. \A i \in 1 .. Len(ws) : r[i] \in WriteEntry
      BY <1>2, <1>3, <2>2, <3>1
    <3>3. r \in [1 .. Len(ws) -> WriteEntry]
      BY <2>2, <3>1, <3>2
    <3>4. r \in Seq(WriteEntry) /\ Len(r) = Len(ws) /\ DOMAIN r = 1 .. Len(ws)
      BY <3>1, <3>3
    <3>5. QED
      BY <2>2, <3>1, <3>4
  <2>5. \A i \in DOMAIN ws : r[i].key = ws[i].key
    BY <1>2, <2>4
  <2>6. Distinct(r)
    BY <2>4, <2>5 DEF Distinct
  <2>7. r[i0] = w
    BY <2>1, <2>4
  <2>8. QED
    BY <1>1, <2>1, <2>3, <2>4, <2>6, <2>7
<1>5. CASE k \notin Written(ws)
  <2>1. PICK r : r = Append(ws, w)
    OBVIOUS
  <2>2. AddWrite(ws, k, v) = r
    BY <1>1, <1>5, <2>1 DEF AddWrite
  <2>3. \A i \in DOMAIN ws : ws[i].key # k
    BY <1>5 DEF Written
  <2>4. /\ r \in Seq(WriteEntry) /\ Len(r) = Len(ws) + 1 /\ Len(ws) \in Nat
        /\ \A i \in 1 .. Len(ws) : r[i] = ws[i]
        /\ r[Len(ws) + 1] = w
    BY <1>2, <2>1, AppendProperties
  <2>5. DOMAIN ws = 1 .. Len(ws) /\ DOMAIN r = 1 .. Len(ws) + 1
    BY <2>4
  <2>6. Distinct(r)
    <3> SUFFICES ASSUME NEW i \in DOMAIN r, NEW j \in DOMAIN r, r[i].key = r[j].key
                 PROVE  i = j
      BY DEF Distinct
    <3>1. CASE i \in DOMAIN ws /\ j \in DOMAIN ws
      BY <2>4, <2>5, <3>1 DEF Distinct
    <3>2. CASE i \notin DOMAIN ws \/ j \notin DOMAIN ws
      BY <1>2, <2>3, <2>4, <2>5, <3>2
    <3>3. QED
      BY <3>1, <3>2
  <2>7. QED
    BY <1>1, <2>2, <2>3, <2>4, <2>5, <2>6
<1>6. QED
  BY <1>4, <1>5

\* A step of c that leaves the store, the log and the iterators alone.
LEMMA RecordStep ==
    ASSUME IInv, NEW c \in Client, NEW r \in TxRecord, tx' = [tx EXCEPT ![c] = r],
           UNCHANGED <<store, lost, max_ts, synced_ts, iter>>,
           torn \subseteq torn', torn' \subseteq Logs,
           next_ts' \in Nat, next_ts <= next_ts',
           attempts' \subseteq AttemptRec,
           failures' \in FailRec,
           tx[c].state # "NONE", r.state # "NONE", r.start_ts = tx[c].start_ts,
           r.commit_ts < next_ts', Distinct(r.writes), r.stored <= Len(r.writes),
           r.state = "COMMITTING" =>
              /\ r.commit_ts \in 1 .. MaxTs /\ max_ts < r.commit_ts /\ r.stored = 0
              /\ \A d \in Client : ~Committing(d)
              /\ \A d \in Client : tx[d].start_ts < r.commit_ts,
           KeptInv', QuietInv'
    PROVE  IInv'
<1>1. /\ tx'[c] = r /\ (\A d \in Client : d # c => tx'[d] = tx[d])
      /\ tx' \in [Client -> TxRecord]
  BY OneTx DEF IInv, TypeInv
<1>2. \A d \in Client : tx'[d].start_ts = tx[d].start_ts
  BY <1>1
<1>3. \A d \in Client : tx[d].start_ts \in Nat /\ tx[d].commit_ts \in Nat
  BY DEF IInv, TypeInv, TxRecord
<1>4. TypeInv'
  <2>0. next_ts \in Nat \ {0} /\ next_ts' \in Nat \ {0}
    BY DEF IInv, TypeInv
  <2>1. ASSUME NEW d \in Client PROVE TxOK(d)'
    <3>0. TxOK(d)
      BY DEF IInv, TypeInv
    <3>1. CASE d = c
      <4>1. r.start_ts < next_ts'
        BY <1>3, <2>0, <3>0, <3>1 DEF TxOK
      <4>2. QED
        BY <1>1, <3>1, <4>1 DEF TxOK, Committing
    <3>2. CASE d # c
      <4>1. tx[d].start_ts < next_ts' /\ tx[d].commit_ts < next_ts'
        BY <1>3, <2>0, <3>0 DEF TxOK
      <4>2. QED
        BY <1>1, <3>0, <3>2, <4>1 DEF TxOK, Committing
    <3>3. QED
      BY <3>1, <3>2
  <2>2. max_ts \in 0 .. next_ts' - 1
    <3>1. max_ts \in Nat /\ max_ts < next_ts
      BY DEF IInv, TypeInv
    <3>2. \A m, a, b \in Nat : m < a /\ a <= b => m \in 0 .. b - 1
      OBVIOUS
    <3>3. QED
      BY <2>0, <3>1, <3>2, Zenon
  <2>3. QED
    BY <1>1, <2>0, <2>1, <2>2 DEF IInv, TypeInv
<1>5. TxInv'
  <2>1. \A d \in Client : tx'[d].state = "COMMITTING" =>
           \/ d = c /\ r.state = "COMMITTING"
           \/ d # c /\ Committing(d) /\ r.state # "COMMITTING" /\ tx'[d] = tx[d]
    BY <1>1 DEF Committing
  <2>2. \A d, e \in Client : tx'[d].state = "COMMITTING" /\ tx'[e].state = "COMMITTING" => d = e
    BY <2>1 DEF IInv, TxInv
  <2>3. \A d, e \in Client : tx'[e].state = "COMMITTING" => tx'[d].start_ts < tx'[e].commit_ts
    BY <1>1, <1>2, <2>1 DEF IInv, TxInv
  <2>4. \A d \in Client : tx'[d].state = "COMMITTING" => max_ts' < tx'[d].commit_ts
    BY <1>1, <2>1 DEF IInv, TxInv
  <2>5. \A d \in Client : tx'[d].state = "NONE" => tx'[d] = NoTx /\ iter'[d] = NoIter
    BY <1>1 DEF IInv, TxInv
  <2>6. QED
    BY <2>2, <2>3, <2>4, <2>5 DEF IInv, TxInv, Committing
<1>6. LogInv'
  <2>1. ASSUME NEW d \in Client, tx'[d].state = "COMMITTING", NEW i \in 1 .. tx'[d].stored
        PROVE  VersionOf(d, i)' \in store
    <3>1. CASE d = c
      <4>1. i \in 1 .. 0
        BY <1>1, <2>1, <3>1
      <4>2. QED
        BY <4>1
    <3>2. CASE d # c
      BY <1>1, <2>1, <3>2 DEF IInv, LogInv, VersionOf, Committing
    <3>3. QED
      BY <3>1, <3>2
  <2>2. QED
    BY <2>1 DEF IInv, LogInv, Committing
<1>7. ScanIsSnapshot'
  BY <1>2, ScanFrame DEF IInv
<1>8. QED
  BY <1>4, <1>5, <1>6, <1>7 DEF IInv

\* The commit under way is untouched by what another client's transaction does.
LEMMA QuietFrame ==
    ASSUME QuietInv, UNCHANGED <<store, lost, torn, max_ts, failures>>, NEW c \in Client, ~Committing(c),
           tx'[c].state # "COMMITTING", \A d \in Client : d # c => tx'[d] = tx[d]
    PROVE  QuietInv'
<1>1. \A d \in Client : \/ tx'[d] = tx[d]
                        \/ tx[d].state # "COMMITTING" /\ tx'[d].state # "COMMITTING"
  BY DEF Committing
<1>2. QED
  BY <1>1 DEF QuietInv, Committing, VersionOf

LEMMA PutStep ==
    ASSUME IInv, NEW c \in Client, NEW k \in Key, NEW v \in Value \cup {Empty}, Put(c, k, v)
    PROVE  IInv'
<1>1. PICK ws : ws = AddWrite(tx[c].writes, k, v)
  OBVIOUS
<1>2. PICK r : r = [tx[c] EXCEPT !.writes = ws]
  OBVIOUS
<1>3. /\ tx' = [tx EXCEPT ![c] = r] /\ tx[c].state = "ACTIVE"
      /\ UNCHANGED <<next_ts, store, lost, torn, max_ts, synced_ts, iter, attempts, failures>>
  BY <1>1, <1>2 DEF Put
<1>4. tx[c] \in TxRecord /\ TxOK(c) /\ next_ts \in Nat /\ next_ts <= next_ts
  BY DEF IInv, TypeInv
<1>5. /\ tx[c].writes \in Seq(WriteEntry) /\ Distinct(tx[c].writes) /\ tx[c].stored \in Nat
      /\ tx[c].stored <= Len(tx[c].writes) /\ tx[c].commit_ts < next_ts
  BY <1>4 DEF TxOK, TxRecord
<1>6. ws \in Seq(WriteEntry) /\ Distinct(ws) /\ Len(tx[c].writes) <= Len(ws)
  BY <1>1, <1>5, AddWriteType
<1>7. /\ r \in TxRecord /\ r.state = "ACTIVE" /\ r.start_ts = tx[c].start_ts
      /\ r.commit_ts = tx[c].commit_ts /\ r.writes = ws /\ r.stored = tx[c].stored
  BY <1>2, <1>3, <1>4, <1>6 DEF TxRecord
<1>8. r.stored <= Len(ws)
  BY <1>5, <1>6, <1>7
<1>9. KeptInv'
  BY <1>3 DEF IInv, KeptInv, KeptOK
<1>10. QuietInv'
  <2>1. tx'[c] = r /\ \A d \in Client : d # c => tx'[d] = tx[d]
    BY <1>3, OneTx DEF IInv, TypeInv
  <2>2. ~Committing(c) /\ tx'[c].state # "COMMITTING"
    BY <1>3, <1>7, <2>1 DEF Committing
  <2>3. QED
    BY <1>3, <2>1, <2>2, QuietFrame DEF IInv
<1>11. attempts' \subseteq AttemptRec /\ failures' \in FailRec /\ torn' \subseteq Logs
  BY <1>3 DEF IInv, TypeInv
<1>12. QED
  BY <1>3, <1>4, <1>5, <1>6, <1>7, <1>8, <1>9, <1>10, <1>11, RecordStep

\* check_write_conflicts passes: the snapshot holds every version of the keys
\* written.
LEMMA NoConflict ==
    ASSUME TypeInv, NEW c \in Client, ~Conflict(c), NEW v \in store,
           v.key \in Written(tx[c].writes)
    PROVE  v.ts <= tx[c].start_ts
<1> DEFINE T == {u.ts : u \in {w \in store : w.key = v.key}}
           last == CHOOSE t \in T : \A u \in T : u <= t
<1>1. \A w \in store : w.ts \in Nat /\ w.ts <= MaxTs
  BY TxAssumption DEF TypeInv, Version
<1>2. T \in SUBSET Nat /\ \A x \in T : x <= MaxTs
  BY <1>1
<1>3. v.ts \in T
  OBVIOUS
<1>4. LatestCommitTs(v.key) = last
  BY <1>3, Zenon DEF LatestCommitTs
<1>5. \E t \in T : \A u \in T : u <= t
  <2> HIDE DEF T
  <2>1. QED
    BY <1>2, <1>3, TxAssumption, GreatestNat
<1> HIDE DEF T
<1>6. last \in T /\ v.ts <= last
  BY <1>3, <1>5
<1>7. ~(last > tx[c].start_ts)
  BY <1>4 DEF Conflict
<1>8. tx[c].start_ts \in Nat /\ v.ts \in Nat /\ last \in Nat
  BY <1>2, <1>3, <1>6 DEF TypeInv, TxRecord
<1> HIDE DEF last
<1>9. QED
  BY <1>6, <1>7, <1>8

LEMMA AttemptType ==
    ASSUME TypeInv, NEW c \in Client, NEW ts \in 1 .. MaxTs
    PROVE  /\ Attempt(c, ts) \in AttemptRec
           /\ Attempt(c, ts).ts = ts /\ ~Attempt(c, ts).kept
           /\ Attempt(c, ts).vers = {[key |-> tx[c].writes[i].key, ts |-> ts,
                                      val |-> tx[c].writes[i].val] : i \in DOMAIN tx[c].writes}
           /\ \A v \in Attempt(c, ts).vers : v.ts = ts
<1>1. tx[c].writes \in Seq(WriteEntry)
  BY DEF TypeInv, TxRecord
<1>2. ASSUME NEW i \in DOMAIN tx[c].writes
      PROVE  [key |-> tx[c].writes[i].key, ts |-> ts, val |-> tx[c].writes[i].val] \in Version
  <2>1. tx[c].writes[i] \in WriteEntry
    BY <1>1
  <2>2. QED
    BY <2>1 DEF WriteEntry, Version
<1>3. {[key |-> tx[c].writes[i].key, ts |-> ts, val |-> tx[c].writes[i].val] :
           i \in DOMAIN tx[c].writes} \in SUBSET Version
  BY <1>2
<1>4. QED
  BY <1>3, TxAssumption DEF Attempt, AttemptRec

LEMMA CommitStep ==
    ASSUME IInv, NEW c \in Client, Commit(c)
    PROVE  IInv'
<1>0. /\ tx[c].state = "ACTIVE" /\ \A d \in Client : ~Committing(d)
      /\ UNCHANGED <<store, lost, torn, max_ts, synced_ts, failures>>
  BY DEF Commit, MutexFree, Committing
<1>a. /\ max_ts \in Nat /\ synced_ts \in Nat /\ max_ts < next_ts /\ synced_ts <= max_ts
      /\ attempts \subseteq AttemptRec /\ max_ts <= max_ts
      /\ next_ts \in Nat \ {0} /\ torn \subseteq Logs /\ failures \in FailRec
  BY DEF IInv, TypeInv
<1>1. CASE Conflict(c)
  <2>1. /\ tx' = [tx EXCEPT ![c] = NoTx] /\ iter' = [iter EXCEPT ![c] = NoIter]
        /\ UNCHANGED <<next_ts, attempts>>
    BY <1>1 DEF Commit
  <2>2. KeptInv'
    BY <1>0, <2>1 DEF IInv, KeptInv, KeptOK
  <2>3. Onward
    BY <1>0, <1>a DEF Onward
  <2>4. QED
    BY <1>0, <1>a, <2>1, <2>2, <2>3, EndStep
<1>2. CASE ~Conflict(c)
  <2>1. PICK r : r = [tx[c] EXCEPT !.state = "COMMITTING", !.commit_ts = next_ts, !.stored = 0]
    OBVIOUS
  <2>2. /\ WithinTs /\ tx' = [tx EXCEPT ![c] = r] /\ next_ts' = next_ts + 1 /\ iter' = iter
        /\ attempts' = attempts \cup {Attempt(c, next_ts)}
    BY <1>2, <2>1 DEF Commit
  <2>3. next_ts \in 1 .. MaxTs
    <3>1. next_ts < MaxTs \/ next_ts < MaxTsAfter
      BY <2>2 DEF WithinTs
    <3>2. MaxTs \in Nat /\ MaxTsAfter \in Nat /\ MaxTsAfter <= MaxTs
      BY TxAssumption
    <3>3. QED
      BY <1>a, <3>1, <3>2
  <2>4. tx[c] \in TxRecord /\ TxOK(c)
    BY DEF IInv, TypeInv
  <2>5. /\ r \in TxRecord /\ r.state = "COMMITTING" /\ r.start_ts = tx[c].start_ts
        /\ r.commit_ts = next_ts /\ r.writes = tx[c].writes /\ r.stored = 0
    BY <1>a, <2>1, <2>4 DEF TxRecord
  <2>6. Distinct(r.writes) /\ r.stored <= Len(r.writes) /\ r.commit_ts < next_ts'
    <3>1. r.writes \in Seq(WriteEntry) /\ Distinct(r.writes)
      BY <2>4, <2>5 DEF TxRecord, TxOK
    <3>2. Len(r.writes) \in Nat
      BY <3>1
    <3>3. QED
      BY <1>a, <2>2, <2>5, <3>1, <3>2
  <2>7. PICK a : a = Attempt(c, next_ts)
    OBVIOUS
  <2>8. attempts' \subseteq AttemptRec /\ KeptInv'
    <3>1. a \in AttemptRec /\ ~a.kept /\ \A v \in a.vers : v.ts = a.ts
      BY <2>3, <2>7, AttemptType DEF IInv
    <3>2. attempts' = attempts \cup {a}
      BY <2>2, <2>7
    <3>3. QED
      BY <1>0, <1>a, <3>1, <3>2 DEF IInv, KeptInv, KeptOK
  <2>9. tx'[c] = r /\ \A d \in Client : d # c => tx'[d] = tx[d]
    BY <2>2, OneTx DEF IInv, TypeInv
  <2>10. QuietInv'
    <3> SUFFICES ASSUME ~failures.harm PROVE QuietInv'
      BY <1>0 DEF QuietInv
    <3>1. \A v \in store : v.ts \in Nat /\ v.ts <= max_ts
      BY <1>0, TxAssumption DEF IInv, QuietInv, TypeInv, Version
    <3>a. torn = {} /\ lost = {}
      BY DEF IInv, QuietInv
    <3>2. \A v \in store : v.ts # next_ts
      BY <1>a, <3>1
    <3>3. \A v \in store : v.key \in Written(tx[c].writes) => v.ts <= tx[c].start_ts
      BY <1>2, NoConflict DEF IInv
    <3>4. \A d \in Client : tx'[d].state = "COMMITTING" => d = c
      BY <1>0, <2>9 DEF Committing
    <3>5. \A i \in 1 .. 0 : FALSE
      OBVIOUS
    <3>6. QED
      BY <1>0, <2>5, <2>9, <3>a, <3>1, <3>2, <3>3, <3>4, <3>5 DEF QuietInv, Committing
  <2>11. \A d \in Client : tx[d].start_ts < next_ts
    BY DEF IInv, TypeInv, TxOK
  <2>12. failures' \in FailRec
    BY <1>0 DEF IInv, TypeInv
  <2>13. next_ts' \in Nat /\ next_ts <= next_ts'
    BY <1>a, <2>2
  <2>14. /\ tx[c].state # "NONE" /\ r.state # "NONE"
         /\ r.commit_ts \in 1 .. MaxTs /\ max_ts < r.commit_ts
         /\ \A d \in Client : tx[d].start_ts < r.commit_ts
    BY <1>0, <1>a, <2>3, <2>5, <2>11
  <2>15. QED
    BY <1>0, <1>a, <2>2, <2>5, <2>6, <2>8, <2>10, <2>12, <2>13, <2>14, RecordStep
<1>3. QED
  BY <1>1, <1>2

LEMMA CommitFailStep ==
    ASSUME IInv, NEW c \in Client, CommitFail(c)
    PROVE  IInv'
<1>1. PICK r : r = [tx[c] EXCEPT !.state = "ACTIVE"]
  OBVIOUS
<1>2. /\ tx' = [tx EXCEPT ![c] = r] /\ tx[c].state = "COMMITTING" /\ Fail("ioerror")
      /\ UNCHANGED <<next_ts, store, lost, max_ts, synced_ts, iter, attempts>>
      /\ torn' \in {torn, torn \cup {"wal.log"}}
  BY <1>1 DEF CommitFail, Tears
<1>3. tx[c] \in TxRecord /\ TxOK(c) /\ next_ts \in Nat /\ next_ts <= next_ts
  BY DEF IInv, TypeInv
<1>4. /\ r \in TxRecord /\ r.state = "ACTIVE" /\ r.start_ts = tx[c].start_ts
      /\ r.commit_ts = tx[c].commit_ts /\ r.writes = tx[c].writes /\ r.stored = tx[c].stored
  BY <1>1, <1>3 DEF TxRecord
<1>5. r.commit_ts < next_ts' /\ Distinct(r.writes) /\ r.stored <= Len(r.writes)
  BY <1>2, <1>3, <1>4 DEF TxOK
<1>6. failures' \in FailRec /\ failures'.harm /\ (failures'.power <=> failures.power)
  BY <1>2, FailType DEF IInv
<1>7. KeptInv' /\ QuietInv'
  BY <1>2, <1>6 DEF IInv, KeptInv, KeptOK, QuietInv
<1>8. attempts' \subseteq AttemptRec /\ torn \subseteq torn' /\ torn' \subseteq Logs
  BY <1>2 DEF IInv, TypeInv, Logs
<1>9. QED
  BY <1>2, <1>3, <1>4, <1>5, <1>6, <1>7, <1>8, RecordStep

\* The records of a commit, written or not.
LEMMA CommitLogged ==
    ASSUME IInv, NEW ct \in Nat, max_ts < ct, LogCommit(ct) \/ LogCommitFails(ct)
    PROVE  /\ Onward /\ max_ts' <= ct /\ synced_ts' \in Nat
           /\ synced_ts <= synced_ts' /\ synced_ts' <= max_ts'
           /\ ~failures'.harm => LogCommit(ct) /\ max_ts' = ct
           /\ LogCommit(ct) /\ torn = {} => max_ts' = ct /\ (SyncOnCommit => synced_ts' = ct)
<1>0. max_ts \in Nat /\ synced_ts \in Nat /\ synced_ts <= max_ts /\ torn \subseteq Logs
  BY DEF IInv, TypeInv
<1>1. Max2(max_ts, ct) = ct /\ max_ts <= ct
  BY <1>0 DEF Max2
<1>2. Logged(ct) \in {max_ts, ct} /\ (torn = {} => Logged(ct) = ct)
  BY <1>1 DEF Logged
<1>3. CASE LogCommit(ct)
  <2>1. LogRecord(ct) /\ synced_ts' = IF SyncOnCommit THEN max_ts' ELSE synced_ts
    BY <1>3 DEF LogCommit
  <2>2. Onward /\ (~failures'.harm => max_ts' = ct)
    BY <1>1, <2>1, LogStep
  <2>3. max_ts' = Logged(ct)
    BY <2>1 DEF LogRecord
  <2>4. QED
    BY <1>0, <1>1, <1>2, <1>3, <2>1, <2>2, <2>3 DEF Onward
<1>4. ASSUME LogCommitFails(ct)
      PROVE  /\ Onward /\ max_ts' <= ct /\ synced_ts' \in Nat /\ failures'.harm
             /\ synced_ts <= synced_ts' /\ synced_ts' <= max_ts'
  <2>1. CASE LogFails /\ synced_ts' \in {synced_ts, max_ts}
    <3>1. Fail("log") /\ max_ts' = max_ts
      BY <2>1 DEF LogFails
    <3>2. Onward /\ failures'.harm
      BY <2>1, <3>1, LogStep, FailType DEF IInv
    <3>3. QED
      BY <1>0, <1>1, <2>1, <3>1, <3>2
  <2>2. CASE Fail("log") /\ max_ts' = Logged(ct) /\ UNCHANGED <<torn, synced_ts>>
    <3>1. failures' \in FailRec /\ failures'.harm /\ (failures'.power <=> failures.power)
      BY <2>2, FailType DEF IInv
    <3>2. QED
      BY <1>0, <1>1, <1>2, <2>2, <3>1 DEF Onward
  <2>3. QED
    BY <1>4, <2>1, <2>2 DEF LogCommitFails
<1>5. CASE LogCommitFails(ct) /\ ~LogCommit(ct)
  BY <1>4, <1>5
<1>6. QED
  BY <1>3, <1>5

LEMMA CommitDoneStep ==
    ASSUME IInv, NEW c \in Client, CommitDone(c)
    PROVE  IInv'
<1>1. PICK ct : ct = tx[c].commit_ts
  OBVIOUS
<1>2. PICK a : a = Attempt(c, ct)
  OBVIOUS
<1>3. /\ Committing(c) /\ tx[c].stored = Len(tx[c].writes)
      /\ tx' = [tx EXCEPT ![c] = NoTx] /\ iter' = [iter EXCEPT ![c] = NoIter]
      /\ UNCHANGED <<next_ts, store, lost>>
  BY DEF CommitDone, Committing
<1>4. PICK b : /\ b = [a EXCEPT !.kept = b.kept]
               /\ attempts' = (attempts \ {a}) \cup {b}
               /\ \/ LogCommit(ct) /\ b.kept = (torn = {})
                  \/ LogCommitFails(ct) /\ b.kept = FALSE
  <2>1. a \in AttemptRec
    BY <1>1, <1>2, <1>3, AttemptType DEF IInv, TypeInv, TxOK
  <2>2. \A x : [a EXCEPT !.kept = x].kept = x
    BY <2>1 DEF AttemptRec
  <2>3. PICK x : /\ attempts' = (attempts \ {a}) \cup {[a EXCEPT !.kept = x]}
                 /\ \/ LogCommit(ct) /\ x = (torn = {})
                    \/ LogCommitFails(ct) /\ x = FALSE
    BY <1>1, <1>2 DEF CommitDone
  <2>4. QED
    BY <2>2, <2>3
<1>5. ct \in 1 .. MaxTs /\ ct \in Nat /\ ct < next_ts /\ max_ts < ct
  BY <1>1, <1>3, TxAssumption DEF IInv, TypeInv, TxOK, TxInv
<1>6. /\ max_ts \in Nat /\ synced_ts \in Nat /\ synced_ts <= max_ts /\ next_ts \in Nat
      /\ attempts \subseteq AttemptRec
  BY DEF IInv, TypeInv
<1>7. /\ Onward /\ max_ts' <= ct /\ synced_ts' \in Nat
      /\ synced_ts <= synced_ts' /\ synced_ts' <= max_ts'
      /\ ~failures'.harm => LogCommit(ct) /\ max_ts' = ct
      /\ LogCommit(ct) /\ torn = {} => max_ts' = ct /\ (SyncOnCommit => synced_ts' = ct)
  BY <1>4, <1>5, CommitLogged
<1>8. a \in AttemptRec /\ a.ts = ct /\ \A v \in a.vers : v.ts = ct
  BY <1>2, <1>5, AttemptType DEF IInv
<1>9. b \in AttemptRec /\ b.ts = ct /\ b.vers = a.vers
  <2>1. b.kept \in BOOLEAN
    BY <1>4
  <2>2. QED
    BY <1>4, <1>8, <2>1 DEF AttemptRec
<1>10. attempts' \subseteq AttemptRec
  BY <1>4, <1>6, <1>9
<1>11. KeptOK(b)'
  <2> SUFFICES ASSUME b.kept PROVE KeptOK(b)'
    BY DEF KeptOK
  <2>1. LogCommit(ct) /\ torn = {}
    BY <1>4
  <2>2. lost' = {} /\ store' = store
    BY <1>3, <2>1 DEF IInv, LogInv
  <2>3. a.vers \subseteq store
    <3>1. \A i \in 1 .. tx[c].stored : VersionOf(c, i) \in store
      BY <1>3 DEF IInv, LogInv
    <3>2. tx[c].writes \in Seq(WriteEntry)
      BY DEF IInv, TypeInv, TxRecord
    <3>3. DOMAIN tx[c].writes = 1 .. tx[c].stored
      BY <1>3, <3>2
    <3>4. a.vers = {VersionOf(c, i) : i \in DOMAIN tx[c].writes}
      BY <1>1, <1>2, <1>5, AttemptType DEF IInv, VersionOf
    <3>5. QED
      BY <3>1, <3>3, <3>4
  <2>4. max_ts' = ct /\ (SyncOnCommit => synced_ts' = ct)
    BY <1>7, <2>1
  <2>5. b.ts <= max_ts' /\ (SyncOnCommit => b.ts <= synced_ts')
    BY <1>5, <1>9, <2>4
  <2>6. b.vers \subseteq store' \ lost'
    BY <1>9, <2>2, <2>3
  <2>7. QED
    BY <2>5, <2>6 DEF KeptOK
<1>12. KeptInv'
  <2>1. ASSUME NEW x \in attempts PROVE KeptOK(x)' /\ \A v \in x.vers : v.ts = x.ts
    BY <1>3, <1>6, <1>7, <2>1, KeptStays DEF IInv, KeptInv, Onward
  <2>2. \A v \in b.vers : v.ts = b.ts
    BY <1>8, <1>9
  <2>3. QED
    BY <1>4, <1>11, <2>1, <2>2 DEF KeptInv
<1>13. \A d \in Client : Committing(d) => d = c
  BY <1>3 DEF IInv, TxInv
<1>14. max_ts' < next_ts /\ (~failures'.harm => tx[c].commit_ts <= max_ts')
  BY <1>1, <1>5, <1>6, <1>7 DEF Onward
<1>15. QED
  BY <1>3, <1>7, <1>10, <1>12, <1>13, <1>14, EndStep

\* One iteration of tx_commit's loop, in terms of the version it stores.
LEMMA PutOne ==
    ASSUME IInv, NEW c \in Client, CommitPut(c)
    PROVE  \E n \in Version :
             /\ tx[c].stored + 1 \in DOMAIN tx[c].writes
             /\ n = VersionOf(c, tx[c].stored + 1) /\ n.ts = tx[c].commit_ts
             /\ n.key = tx[c].writes[tx[c].stored + 1].key
             /\ \A v : v \in store' <=> \/ v \in store /\ (v.key # n.key \/ v.ts # n.ts)
                                        \/ v = n
             /\ lost' \in {lost, lost \cup {n}} /\ ("wal.log" \notin torn => lost' = lost)
<1>1. PICK ws : ws = tx[c].writes
  OBVIOUS
<1>2. PICK p : p = tx[c].stored + 1
  OBVIOUS
<1>3. /\ ws \in Seq(WriteEntry) /\ tx[c].stored \in Nat /\ tx[c].stored < Len(ws)
      /\ tx[c].commit_ts \in 1 .. MaxTs
  BY <1>1 DEF IInv, TypeInv, TxRecord, TxOK, Committing, CommitPut
<1>4. p \in DOMAIN ws /\ DOMAIN ws = 1 .. Len(ws)
  BY <1>2, <1>3
<1>5. ws[p] \in WriteEntry
  BY <1>3, <1>4
<1>6. PICK n : n = [key |-> ws[p].key, ts |-> tx[c].commit_ts, val |-> ws[p].val]
  OBVIOUS
<1>7. n \in Version /\ n.key = ws[p].key /\ n.ts = tx[c].commit_ts
  BY <1>3, <1>5, <1>6 DEF WriteEntry, Version
<1>8. n = VersionOf(c, p)
  BY <1>1, <1>6 DEF VersionOf
<1>9. store' = {v \in store : v.key # ws[p].key \/ v.ts # tx[c].commit_ts} \cup {n}
  BY <1>1, <1>2, <1>6 DEF CommitPut
<1>10. \A v : v \in store' <=> (v \in store /\ (v.key # n.key \/ v.ts # n.ts)) \/ v = n
  BY <1>7, <1>9
<1>11. lost' = IF "wal.log" \in torn THEN lost \cup {n} ELSE lost
  BY <1>1, <1>2, <1>6 DEF CommitPut
<1>12. QED
  BY <1>1, <1>2, <1>4, <1>7, <1>8, <1>10, <1>11

LEMMA CommitPutStep ==
    ASSUME IInv, NEW c \in Client, CommitPut(c)
    PROVE  IInv'
<1>1. PICK n \in Version :
             /\ tx[c].stored + 1 \in DOMAIN tx[c].writes
             /\ n = VersionOf(c, tx[c].stored + 1) /\ n.ts = tx[c].commit_ts
             /\ n.key = tx[c].writes[tx[c].stored + 1].key
             /\ \A v : v \in store' <=> \/ v \in store /\ (v.key # n.key \/ v.ts # n.ts)
                                        \/ v = n
             /\ lost' \in {lost, lost \cup {n}} /\ ("wal.log" \notin torn => lost' = lost)
  BY PutOne
<1>2. PICK r : r = [tx[c] EXCEPT !.stored = @ + 1]
  OBVIOUS
<1>3. /\ tx' = [tx EXCEPT ![c] = r] /\ Committing(c) /\ tx[c].stored < Len(tx[c].writes)
      /\ UNCHANGED <<next_ts, torn, max_ts, synced_ts, iter, attempts, failures>>
  BY <1>2 DEF CommitPut, Committing
<1>4. tx[c] \in TxRecord /\ TxOK(c)
  BY DEF IInv, TypeInv
<1>5. /\ r \in TxRecord /\ r.state = tx[c].state /\ r.start_ts = tx[c].start_ts
      /\ r.commit_ts = tx[c].commit_ts /\ r.writes = tx[c].writes
      /\ r.stored = tx[c].stored + 1 /\ tx[c].stored \in Nat /\ tx[c].writes \in Seq(WriteEntry)
  BY <1>2, <1>4, SMTT(30) DEF TxRecord
<1>6. tx'[c] = r /\ (\A d \in Client : d # c => tx'[d] = tx[d]) /\ tx' \in [Client -> TxRecord]
  BY <1>3, <1>5, OneTx DEF IInv, TypeInv
<1>7. \A d \in Client : /\ tx'[d].state = tx[d].state /\ tx'[d].start_ts = tx[d].start_ts
                        /\ tx'[d].commit_ts = tx[d].commit_ts /\ tx'[d].writes = tx[d].writes
  BY <1>5, <1>6
<1>8. TypeInv'
  <2>1. ASSUME NEW d \in Client PROVE TxOK(d)'
    <3>1. TxOK(d)
      BY DEF IInv, TypeInv
    <3>2. tx'[d].stored <= Len(tx'[d].writes)
      <4>1. CASE d = c
        BY <1>3, <1>5, <1>6, <4>1
      <4>2. CASE d # c
        BY <1>6, <3>1, <4>2 DEF TxOK
      <4>3. QED
        BY <4>1, <4>2
    <3>3. QED
      BY <1>3, <1>7, <3>1, <3>2 DEF TxOK, Committing
  <2>2. store' \subseteq Version /\ lost' \subseteq Version
    BY <1>1 DEF IInv, TypeInv
  <2>3. QED
    BY <1>3, <1>6, <2>1, <2>2 DEF IInv, TypeInv
<1>9. TxInv'
  <2>1. \A v, w \in store' : v.key = w.key /\ v.ts = w.ts => v = w
    BY <1>1 DEF IInv, TxInv
  <2>2. \A d \in Client : tx'[d].state = "NONE" => tx'[d] = NoTx /\ iter'[d] = NoIter
    BY <1>3, <1>6, <1>7 DEF IInv, TxInv, Committing
  <2>3. QED
    BY <1>3, <1>7, <2>1, <2>2 DEF IInv, TxInv, Committing
<1>10. \A i : VersionOf(c, i)' = VersionOf(c, i)
  BY <1>5, <1>6 DEF VersionOf
<1>a. \A d \in Client : tx'[d].state = "COMMITTING" => d = c
  BY <1>3, <1>7 DEF IInv, TxInv, Committing
<1>b. LogInv'
  <2>4. \A i \in 1 .. tx[c].stored : VersionOf(c, i) \in store
    BY <1>3 DEF IInv, LogInv
  <2>5. \A i \in 1 .. tx'[c].stored : i \in 1 .. tx[c].stored \/ i = tx[c].stored + 1
    BY <1>5, <1>6
  <2>6. ASSUME NEW i \in 1 .. tx'[c].stored PROVE VersionOf(c, i) \in store'
    <3>1. CASE i \in 1 .. tx[c].stored
      <4>1. VersionOf(c, i) \in store
        BY <2>4, <3>1
      <4>2. i \in DOMAIN tx[c].writes /\ i # tx[c].stored + 1
        BY <1>3, <1>5, <3>1
      <4>3. VersionOf(c, i).key = tx[c].writes[i].key
        BY DEF VersionOf
      <4>4. VersionOf(c, i).key # n.key
        BY <1>1, <1>4, <4>2, <4>3 DEF TxOK, Distinct
      <4>5. QED
        BY <1>1, <4>1, <4>4
    <3>2. QED
      BY <1>1, <2>5, <3>1
  <2>9. "wal.log" \notin torn' => lost' = {}
    BY <1>1, <1>3 DEF IInv, LogInv
  <2>10. QED
    BY <1>10, <1>a, <2>6, <2>9 DEF LogInv, Committing
<1>c. KeptInv'
  <2>1. ASSUME NEW a \in attempts PROVE KeptOK(a)'
    <3>0. max_ts \in Nat /\ synced_ts \in Nat /\ a \in AttemptRec /\ n.ts \in Nat
      BY <1>1 DEF IInv, TypeInv, Version
    <3>1. KeptOK(a) /\ (\A v \in a.vers : v.ts = a.ts) /\ max_ts < n.ts /\ a.ts \in Nat
      BY <1>1, <1>3, <2>1, <3>0 DEF IInv, KeptInv, TxInv, AttemptRec
    <3>2. a.ts # n.ts => a.vers \cap (store \ lost) \subseteq store' \ lost'
      BY <1>1, <3>1
    <3>3. max_ts' = max_ts /\ synced_ts' = synced_ts /\ failures' = failures
      BY <1>3
    <3>4. CASE a.ts = n.ts
      <4>1. ~(a.ts <= max_ts)
        BY <3>0, <3>1, <3>4
      <4>2. QED
        BY <3>1, <3>3, <4>1 DEF KeptOK
    <3>5. CASE a.ts # n.ts
      BY <3>0, <3>1, <3>2, <3>3, <3>5, KeptStays
    <3>6. QED
      BY <3>4, <3>5
  <2>2. QED
    BY <1>3, <2>1 DEF IInv, KeptInv
<1>11. QuietInv'
  <2> SUFFICES ASSUME ~failures.harm PROVE QuietInv'
    BY <1>3 DEF QuietInv
  <2>1. \A v \in store' : \/ v.ts <= max_ts'
                          \/ \E d \in Client : tx'[d].state = "COMMITTING" /\ v.ts = tx'[d].commit_ts
    BY <1>1, <1>3, <1>7 DEF IInv, QuietInv, Committing
  <2>4. /\ torn = {} /\ lost = {}
        /\ \A v \in store : v.ts = tx[c].commit_ts =>
              \E i \in 1 .. tx[c].stored : v = VersionOf(c, i)
        /\ \A v \in store : v.key \in Written(tx[c].writes) =>
              v.ts = tx[c].commit_ts \/ v.ts <= tx[c].start_ts
    BY <1>3 DEF IInv, QuietInv
  <2>7. ASSUME NEW v \in store', v.ts = tx[c].commit_ts
        PROVE  \E i \in 1 .. tx'[c].stored : v = VersionOf(c, i)
    <3>0. 1 .. tx[c].stored \subseteq 1 .. tx'[c].stored /\ tx[c].stored + 1 \in 1 .. tx'[c].stored
      BY <1>5, <1>6
    <3>1. CASE v = n
      BY <1>1, <3>0, <3>1
    <3>2. CASE v \in store
      BY <2>4, <2>7, <3>0, <3>2
    <3>3. QED
      BY <1>1, <3>1, <3>2
  <2>8. \A v \in store' : v.key \in Written(tx[c].writes) =>
              v.ts = tx[c].commit_ts \/ v.ts <= tx[c].start_ts
    BY <1>1, <2>4
  <2>9. QED
    BY <1>1, <1>3, <1>5, <1>6, <1>10, <1>a, <2>1, <2>4, <2>7, <2>8 DEF QuietInv, Committing
<1>12. ScanIsSnapshot'
  <2>1. ASSUME NEW d \in Client, NEW k \in Key
        PROVE  Lookup(store', k, tx[d].start_ts) = Lookup(store, k, tx[d].start_ts)
    <3>1. tx[d].start_ts < n.ts
      BY <1>1, <1>3 DEF IInv, TxInv
    <3>2. tx[d].start_ts \in Nat /\ n.ts \in Nat
      BY <1>1, <1>4 DEF IInv, TypeInv, TxRecord
    <3>3. ~(n.ts <= tx[d].start_ts)
      BY <3>1, <3>2
    <3>4. \A v : v \in store' /\ v.key = k /\ v.ts <= tx[d].start_ts
                   <=> v \in store /\ v.key = k /\ v.ts <= tx[d].start_ts
      BY <1>1, <3>3
    <3>5. QED
      BY <3>4, LookupSame
  <2>2. QED
    BY <1>3, <1>7, <2>1, ScanFrame DEF IInv
<1>13. QED
  BY <1>8, <1>9, <1>b, <1>c, <1>11, <1>12 DEF IInv

-----------------------------------------------------------------------------
(* Restarts. *)

\* tx_manager_open and tx_recover on a part of the store and a log that keeps the
\* commits that were reported.
LEMMA ReopenStep ==
    ASSUME IInv, NEW files \in SUBSET store, NEW w \in Nat, Reopen(files, w),
           synced_ts' \in Nat, synced_ts' <= w, torn' \subseteq Logs, failures' \in FailRec,
           ~failures'.harm => torn' = {} /\ \A v \in files : v.ts <= w,
           KeptInv'
    PROVE  IInv'
<1>1. /\ tx' = [c \in Client |-> NoTx] /\ iter' = [c \in Client |-> NoIter] /\ store' = files
      /\ next_ts' = w + 1 /\ max_ts' = w /\ attempts' = attempts /\ lost' = {}
  BY DEF Reopen
<1>2. \A c \in Client : tx'[c] = NoTx /\ iter'[c] = NoIter
  BY <1>1
<1>3. \A c \in Client : tx'[c].state # "COMMITTING"
  BY <1>2, NoTxType
<1>4. TypeInv'
  <2>1. tx' \in [Client -> TxRecord] /\ iter' \in [Client -> Iterator]
    BY <1>1, NoTxType, NoIterType
  <2>2. ASSUME NEW c \in Client PROVE TxOK(c)'
    BY <1>1, <1>2, <1>3, NoTxType DEF TxOK, Committing
  <2>3. QED
    BY <1>1, <2>1, <2>2 DEF IInv, TypeInv
<1>5. TxInv'
  BY <1>1, <1>2, <1>3, NoIterType DEF IInv, TxInv, Committing
<1>6. LogInv'
  BY <1>1, <1>3 DEF LogInv, Committing
<1>7. QuietInv'
  BY <1>1, <1>3 DEF QuietInv, Committing
<1>8. ScanIsSnapshot'
  BY <1>2, NoIterType DEF ScanIsSnapshot
<1>9. QED
  BY <1>4, <1>5, <1>6, <1>7, <1>8 DEF IInv

LEMMA RestartStep ==
    ASSUME IInv, Close \/ Crash \/ PowerLoss
    PROVE  IInv'
<1>0. /\ max_ts \in Nat /\ synced_ts \in Nat /\ synced_ts <= max_ts /\ torn \subseteq Logs
      /\ attempts \subseteq AttemptRec
  BY DEF IInv, TypeInv
<1>1. CASE Close \/ Crash
  <2>0. Crash => failures'.harm
    BY FailType DEF Crash, IInv
  <2>1. /\ Fail("close") \/ Fail("crash")
        /\ Reopen(store \ lost, max_ts) /\ UNCHANGED <<torn, synced_ts>>
        /\ ~failures'.harm => MutexFree
    BY <1>1, <2>0 DEF Close, Crash
  <2>2. failures' \in FailRec /\ (failures.power => failures'.power)
        /\ (~failures'.harm => ~failures.harm)
    BY <2>1, FailType DEF IInv
  <2>3. ~failures'.harm => torn' = {} /\ \A v \in store \ lost : v.ts <= max_ts
    BY <2>1, <2>2 DEF IInv, QuietInv, MutexFree, Committing
  <2>4. KeptInv'
    <3>1. max_ts' = max_ts /\ store' = store \ lost /\ lost' = {} /\ attempts' = attempts
      BY <2>1 DEF Reopen
    <3>2. QED
      BY <1>0, <2>1, <2>2, <3>1, KeptFrame
  <2>5. store \ lost \in SUBSET store
    OBVIOUS
  <2>6. QED
    BY <1>0, <2>1, <2>2, <2>3, <2>4, <2>5, ReopenStep
<1>2. CASE PowerLoss
  <2>1. Fail("power") /\ torn' \subseteq Logs
    BY <1>2 DEF PowerLoss, Logs
  <2>2. PICK files \in SUBSET (store \ lost), w \in synced_ts .. max_ts :
             Reopen(files, w) /\ synced_ts' = w
    BY <1>2 DEF PowerLoss
  <2>3. failures' \in FailRec /\ failures'.harm /\ failures'.power
    BY <2>1, FailType DEF IInv
  <2>4. files \in SUBSET store /\ w \in Nat /\ synced_ts <= w /\ synced_ts' <= w
    BY <1>0, <2>2
  <2>5. KeptInv'
    <3>1. attempts' = attempts
      BY <2>2 DEF Reopen
    <3>2. ASSUME NEW a \in attempts, a.kept, SyncOnCommit PROVE a.ts <= synced_ts'
      <4>1. a.ts \in Nat /\ a.ts <= synced_ts
        BY <1>0, <3>2 DEF IInv, KeptInv, KeptOK, AttemptRec
      <4>2. QED
        BY <1>0, <2>2, <2>4, <4>1
    <3>3. QED
      BY <2>3, <3>1, <3>2 DEF IInv, KeptInv, KeptOK
  <2>6. QED
    BY <2>1, <2>2, <2>3, <2>4, <2>5, ReopenStep
<1>3. QED
  BY <1>1, <1>2

-----------------------------------------------------------------------------
(* The theorems. *)

LEMMA InitInv == Init => IInv
<1> SUFFICES ASSUME Init PROVE IInv
  OBVIOUS
<1>1. \A c \in Client : tx[c] = NoTx /\ iter[c] = NoIter
  BY DEF Init
<1>2. TypeInv
  <2>1. tx \in [Client -> TxRecord] /\ iter \in [Client -> Iterator]
    BY NoTxType, NoIterType DEF Init
  <2>2. ASSUME NEW c \in Client PROVE TxOK(c)
    BY <1>1, NoTxType DEF TxOK, Committing, Init
  <2>3. failures \in FailRec
    BY TxAssumption DEF Init, FailRec
  <2>4. QED
    BY <2>1, <2>2, <2>3 DEF TypeInv, Init
<1>3. TxInv
  BY <1>1, NoTxType, NoIterType DEF TxInv, Committing, Init
<1>4. LogInv /\ KeptInv /\ QuietInv
  BY <1>1, NoTxType DEF LogInv, KeptInv, QuietInv, Committing, Init
<1>5. ScanIsSnapshot
  BY <1>1, NoIterType DEF ScanIsSnapshot
<1>6. QED
  BY <1>2, <1>3, <1>4, <1>5 DEF IInv

LEMMA NextInv == IInv /\ [Next]_vars => IInv'
<1> SUFFICES ASSUME IInv, [Next]_vars PROVE IInv'
  OBVIOUS
<1>1. ASSUME NEW c \in Client,
             \/ Begin(c) \/ Abort(c)
             \/ Commit(c) \/ CommitPut(c) \/ CommitFail(c) \/ CommitDone(c)
             \/ SeekToFirst(c) \/ IterNext(c)
             \/ \E k \in Key : Seek(c, k)
      PROVE  IInv'
  BY <1>1, BeginStep, AbortStep, CommitStep, CommitPutStep, CommitFailStep, CommitDoneStep, IterStep
<1>2. ASSUME NEW c \in Client, NEW k \in Key, NEW v \in Value \cup {Empty}, Put(c, k, v)
      PROVE  IInv'
  BY <1>2, PutStep
<1>3. CASE Close \/ Crash \/ PowerLoss
  BY <1>3, RestartStep
<1>4. CASE UNCHANGED vars
  BY <1>4 DEF vars, IInv, TypeInv, TxOK, TxInv, LogInv, KeptInv, KeptOK, QuietInv,
              VersionOf, Committing, ScanIsSnapshot
<1>5. QED
  BY <1>1, <1>2, <1>3, <1>4 DEF Next

LEMMA Invariant == Spec => []IInv
BY InitInv, NextInv, PTL DEF Spec

\* Type correctness: timestamps below the clock, one entry for a key in every
\* write set, versions of real keys, the synced log never ahead of the log.
THEOREM TypeCorrect == Spec => []TypeOK
<1>1. IInv => TypeOK
  BY TypeInvOK DEF IInv
<1>2. QED
  BY <1>1, Invariant, PTL

\* tx_iter_seek and tx_iter_next deliver exactly the keys of the snapshot, however
\* the puts of other commits, failed ones included, fall between their steps.
THEOREM ScansAreSnapshots == Spec => []ScanIsSnapshot
<1>1. IInv => ScanIsSnapshot
  BY DEF IInv
<1>2. QED
  BY <1>1, Invariant, PTL

LEMMA BeginAfterKept ==
    ASSUME IInv, [Next]_vars, NEW c \in Client, tx[c].state = "NONE", tx'[c].state = "ACTIVE",
           NEW a \in attempts, a.kept
    PROVE  /\ SyncOnCommit \/ ~failures.power => a.ts < tx'[c].start_ts
           /\ ~failures.power => a.vers \subseteq store'
<1>1. CASE Begin(c)
  <2>1. tx'[c].start_ts = next_ts
    BY <1>1 DEF Begin, IInv, TypeInv, NoTx
  <2>2. /\ a.ts \in Nat /\ synced_ts \in Nat /\ max_ts \in Nat /\ next_ts \in Nat
        /\ synced_ts <= max_ts /\ max_ts < next_ts
    BY DEF IInv, TypeInv, AttemptRec
  <2>3. KeptOK(a) /\ store' = store
    BY <1>1 DEF IInv, KeptInv, Begin
  <2>4. QED
    BY <2>1, <2>2, <2>3 DEF KeptOK
<1>2. tx \in [Client -> TxRecord] /\ tx # tx'
  BY DEF IInv, TypeInv
<1>3. ASSUME NEW d \in Client, d # c,
             \/ Begin(d) \/ Abort(d) \/ Commit(d) \/ CommitPut(d) \/ CommitFail(d) \/ CommitDone(d)
             \/ \E k \in Key, v \in Value \cup {Empty} : Put(d, k, v)
      PROVE  FALSE
  <2>1. tx'[c] = tx[c]
    BY <1>2, <1>3 DEF Begin, Abort, Commit, CommitPut, CommitFail, CommitDone, Put
  <2>2. QED
    BY <2>1
<1>4. ~(Abort(c) \/ Commit(c) \/ CommitPut(c) \/ CommitFail(c) \/ CommitDone(c)
        \/ \E k \in Key, v \in Value \cup {Empty} : Put(c, k, v))
  BY DEF Abort, Commit, CommitPut, CommitFail, CommitDone, Put
<1>5. ~(\E d \in Client : SeekToFirst(d) \/ IterNext(d) \/ \E k \in Key : Seek(d, k))
  BY <1>2 DEF SeekToFirst, IterNext, Seek
<1>6. ~(Close \/ Crash \/ PowerLoss)
  <2>1. ~(\E f, w : Reopen(f, w))
    BY NoTxType DEF Reopen
  <2>2. QED
    BY <2>1 DEF Close, Crash, PowerLoss
<1>7. Begin(c)
  BY <1>2, <1>3, <1>4, <1>5, <1>6 DEF Next, vars
<1>8. QED
  BY <1>1, <1>7

\* A transaction that begins after a commit whose records tx_commit wrote finds all its
\* versions and has a later timestamp, whatever failed or crashed in between; with
\* sync_on_commit the timestamp is later even after a power loss.
THEOREM SnapshotsFollowCommits == Spec => SnapshotAfterCommit
<1>1. IInv /\ [Next]_vars =>
        [\A c \in Client :
           tx[c].state = "NONE" /\ tx'[c].state = "ACTIVE" =>
               \A a \in attempts : a.kept =>
                   /\ SyncOnCommit \/ ~failures.power => a.ts < tx'[c].start_ts
                   /\ ~failures.power => a.vers \subseteq store']_vars
  BY BeginAfterKept
<1>2. QED
  BY <1>1, Invariant, PTL DEF Spec, SnapshotAfterCommit

-----------------------------------------------------------------------------
(* TxManager implements SnapshotDB: every step of the multi-version store, until a   *)
(* commit is cut short or the machine loses power, is a step of snapshot isolation   *)
(* or changes nothing there.                                                         *)

(* The refinement mapping, by name. *)

Db == [k \in Key |-> Lookup(Settled, k, next_ts)]
ActiveSet == {c \in Client : Active(c)}
Snap == [c \in Client |-> [k \in Key |->
            IF Active(c) THEN Lookup(store, k, tx[c].start_ts) ELSE Empty]]
Writes == [c \in Client |-> [k \in Written(tx[c].writes) |-> TxGet(c, k)]]
Changed == [c \in Client |-> {k \in Key :
            Active(c) /\ \E v \in Settled : v.key = k /\ v.ts > tx[c].start_ts}]

Mapped == <<Db, ActiveSet, Snap, Writes, Changed>>

LEMMA MappedVars == Promise!vars = Mapped /\ (Promise!vars)' = Mapped'
BY DEF Promise!vars, Mapped, Db, ActiveSet, Snap, Writes, Changed

\* What a transaction has written, of its write set alone.
WritesOf(ws) ==
    [k \in Written(ws) |-> (CHOOSE w \in {ws[i] : i \in DOMAIN ws} : w.key = k).val]

\* The committed database is what a snapshot at the end of the log would read.
LEMMA SettledLogged ==
    IInv /\ ~failures.harm => \A v : v \in Settled <=> v \in store /\ v.ts <= max_ts
<1> SUFFICES ASSUME IInv, ~failures.harm, NEW v PROVE v \in Settled <=> v \in store /\ v.ts <= max_ts
  OBVIOUS
<1>1. CASE v \in store
  <2>1. v.ts \in Nat /\ max_ts \in Nat
    BY <1>1, TxAssumption DEF IInv, TypeInv, Version
  <2>2. v.ts <= max_ts \/ \E c \in Client : Committing(c) /\ v.ts = tx[c].commit_ts
    BY <1>1 DEF IInv, QuietInv
  <2>3. \A c \in Client : Committing(c) => max_ts < tx[c].commit_ts
    BY DEF IInv, TxInv
  <2>4. v \in Settled <=> ~\E c \in Client : Committing(c) /\ v.ts = tx[c].commit_ts
    BY <1>1 DEF Settled, Committing
  <2>5. QED
    BY <1>1, <2>1, <2>2, <2>3, <2>4
<1>2. CASE v \notin store
  BY <1>2 DEF Settled
<1>3. QED
  BY <1>1, <1>2

LEMMA DbLogged ==
    IInv /\ ~failures.harm => Db = [k \in Key |-> Lookup(store, k, max_ts)]
<1> SUFFICES ASSUME IInv, ~failures.harm, NEW k \in Key
             PROVE  Lookup(Settled, k, next_ts) = Lookup(store, k, max_ts)
  BY DEF Db
<1>1. \A v : v \in Settled <=> v \in store /\ v.ts <= max_ts
  BY SettledLogged
<1>2. \A v \in store : v.ts \in Nat
  BY TxAssumption DEF IInv, TypeInv, Version
<1>3. max_ts \in Nat /\ next_ts \in Nat /\ max_ts < next_ts
  BY DEF IInv, TypeInv
<1>4. \A v : v \in Settled /\ v.key = k /\ v.ts <= next_ts
               <=> v \in store /\ v.key = k /\ v.ts <= max_ts
  BY <1>1, <1>2, <1>3
<1>5. QED
  BY <1>4, LookupSame

LEMMA ChangedLogged ==
    IInv /\ ~failures.harm =>
        Changed = [c \in Client |-> {k \in Key :
                      Active(c) /\ \E v \in store : v.ts <= max_ts /\ v.key = k /\ v.ts > tx[c].start_ts}]
BY SettledLogged DEF Changed

LEMMA WritesAlone == Writes = [c \in Client |-> WritesOf(tx[c].writes)]
BY DEF Writes, WritesOf, TxGet

\* The same of the state after a step.
LEMMA NextLogged ==
    /\ IInv' /\ ~failures'.harm =>
          /\ Db' = [k \in Key |-> Lookup(store', k, max_ts')]
          /\ Changed' = [c \in Client |-> {k \in Key :
                tx'[c].state # "NONE" /\ \E v \in store' :
                    v.ts <= max_ts' /\ v.key = k /\ v.ts > tx'[c].start_ts}]
    /\ ActiveSet' = {c \in Client : tx'[c].state # "NONE"}
    /\ Snap' = [c \in Client |-> [k \in Key |->
                  IF tx'[c].state # "NONE" THEN Lookup(store', k, tx'[c].start_ts) ELSE Empty]]
    /\ Writes' = [c \in Client |-> WritesOf(tx'[c].writes)]
<1>1. (IInv /\ ~failures.harm)' => (Db = [k \in Key |-> Lookup(store, k, max_ts)])'
  BY DbLogged, PTL
<1>2. (IInv /\ ~failures.harm)' =>
        (Changed = [c \in Client |-> {k \in Key :
                      Active(c) /\ \E v \in store : v.ts <= max_ts /\ v.key = k /\ v.ts > tx[c].start_ts}])'
  BY ChangedLogged, PTL
<1>3. (Writes = [c \in Client |-> WritesOf(tx[c].writes)])'
  BY WritesAlone, PTL
<1>4. QED
  BY <1>1, <1>2, <1>3 DEF Active, ActiveSet, Snap, Lookup, WritesOf, Written

LEMMA NowLogged ==
    ASSUME IInv, ~failures.harm
    PROVE  /\ Db = [k \in Key |-> Lookup(store, k, max_ts)]
           /\ Changed = [c \in Client |-> {k \in Key :
                tx[c].state # "NONE" /\ \E v \in store :
                    v.ts <= max_ts /\ v.key = k /\ v.ts > tx[c].start_ts}]
           /\ ActiveSet = {c \in Client : tx[c].state # "NONE"}
           /\ Snap = [c \in Client |-> [k \in Key |->
                  IF tx[c].state # "NONE" THEN Lookup(store, k, tx[c].start_ts) ELSE Empty]]
           /\ Writes = [c \in Client |-> WritesOf(tx[c].writes)]
BY DbLogged, ChangedLogged, WritesAlone DEF Active, ActiveSet, Snap

\* Key by key, before and after a step.
LEMMA ChangedKeys ==
    ASSUME NEW c \in Client
    PROVE  /\ IInv /\ ~failures.harm =>
                \A k : k \in Changed[c] <=>
                   /\ k \in Key /\ tx[c].state # "NONE"
                   /\ \E v \in store : v.ts <= max_ts /\ v.key = k /\ v.ts > tx[c].start_ts
           /\ IInv' /\ ~failures'.harm =>
                \A k : k \in Changed'[c] <=>
                   /\ k \in Key /\ tx'[c].state # "NONE"
                   /\ \E v \in store' : v.ts <= max_ts' /\ v.key = k /\ v.ts > tx'[c].start_ts
<1>1. ASSUME IInv, ~failures.harm
      PROVE  Changed[c] = {k \in Key :
                tx[c].state # "NONE" /\ \E v \in store :
                    v.ts <= max_ts /\ v.key = k /\ v.ts > tx[c].start_ts}
  BY <1>1, NowLogged
<1>2. ASSUME IInv', ~failures'.harm
      PROVE  Changed'[c] = {k \in Key :
                tx'[c].state # "NONE" /\ \E v \in store' :
                    v.ts <= max_ts' /\ v.key = k /\ v.ts > tx'[c].start_ts}
  BY <1>2, NextLogged
<1>3. QED
  BY <1>1, <1>2

LEMMA ChangedFun ==
    Changed = [d \in Client |-> Changed[d]] /\ Changed' = [d \in Client |-> Changed'[d]]
BY DEF Changed

-----------------------------------------------------------------------------
(* The operations of SnapshotDB under the mapping. *)

LEMMA PromiseBegin ==
    ASSUME NEW c \in Client, c \notin ActiveSet, ActiveSet' = ActiveSet \cup {c},
           Snap' = [Snap EXCEPT ![c] = Db], Db' = Db, Writes' = Writes, Changed' = Changed
    PROVE  Promise!Next
<1>1. Promise!Begin(c)
  BY Zenon DEF Promise!Begin, Db, ActiveSet, Snap, Writes, Changed
<1>2. QED
  BY <1>1, Zenon DEF Promise!Next

LEMMA PromiseWrite ==
    ASSUME NEW c \in Client, NEW k \in Key, NEW v \in Value \cup {Empty}, c \in ActiveSet,
           Writes' = [Writes EXCEPT ![c] = [x \in DOMAIN @ \cup {k} |-> IF x = k THEN v ELSE @[x]]],
           Db' = Db, ActiveSet' = ActiveSet, Snap' = Snap, Changed' = Changed
    PROVE  Promise!Next
<1>1. Promise!Write(c, k, v)
  BY Zenon DEF Promise!Write, Db, ActiveSet, Snap, Writes, Changed
<1>2. QED
  BY <1>1, Zenon DEF Promise!Next

LEMMA PromiseLeave ==
    ASSUME NEW c \in Client, c \in ActiveSet, ActiveSet' = ActiveSet \ {c},
           Snap' = [Snap EXCEPT ![c] = [k \in Key |-> Empty]],
           Writes' = [Writes EXCEPT ![c] = [k \in {} |-> Empty]]
    PROVE  Promise!Leave(c)
BY Zenon DEF Promise!Leave, Promise!Nothing, Promise!NoWrites, ActiveSet, Snap, Writes

LEMMA PromiseAbort ==
    ASSUME NEW c \in Client, Promise!Leave(c), Changed' = [Changed EXCEPT ![c] = {}], Db' = Db
    PROVE  Promise!Next
<1>1. Promise!Abort(c)
  BY Zenon DEF Promise!Abort, Db, Changed
<1>2. QED
  BY <1>1, Zenon DEF Promise!Next

LEMMA PromiseCommit ==
    ASSUME NEW c \in Client, NEW keys, keys = DOMAIN Writes[c], keys \cap Changed[c] = {},
           Db' = [k \in Key |-> IF k \in keys THEN Writes[c][k] ELSE Db[k]],
           Promise!Leave(c),
           Changed' = [a \in Client |-> IF a \in ActiveSet' THEN Changed[a] \cup keys ELSE {}]
    PROVE  Promise!Next
<1>1. Promise!Commit(c)
  BY Zenon DEF Promise!Commit, Db, ActiveSet, Writes, Changed
<1>2. QED
  BY <1>1, Zenon DEF Promise!Next

LEMMA PromiseRestart ==
    ASSUME ActiveSet' = {}, Snap' = [c \in Client |-> [k \in Key |-> Empty]],
           Writes' = [c \in Client |-> [k \in {} |-> Empty]], Changed' = [c \in Client |-> {}],
           Db' = Db
    PROVE  Promise!Next
<1>1. Promise!Restart
  BY Zenon DEF Promise!Restart, Promise!Nothing, Promise!NoWrites, Db, ActiveSet, Snap, Writes, Changed
<1>2. QED
  BY <1>1, Zenon DEF Promise!Next

-----------------------------------------------------------------------------
(* Write sets. *)

LEMMA WritesOfEmpty == WritesOf(<< >>) = [k \in {} |-> Empty]
<1>1. Written(<< >>) = {}
  BY DEF Written
<1>2. QED
  BY <1>1 DEF WritesOf

LEMMA WritesOfEntry ==
    ASSUME NEW ws, Distinct(ws), NEW i \in DOMAIN ws
    PROVE  ws[i].key \in Written(ws) /\ WritesOf(ws)[ws[i].key] = ws[i].val
<1> DEFINE entries == {ws[j] : j \in DOMAIN ws}
           pick == CHOOSE w \in entries : w.key = ws[i].key
<1>1. ws[i].key \in Written(ws)
  BY DEF Written
<1>2. pick \in entries /\ pick.key = ws[i].key
  BY Zenon
<1>3. pick = ws[i]
  BY <1>2 DEF Distinct
<1>4. WritesOf(ws)[ws[i].key] = pick.val
  BY <1>1, Zenon DEF WritesOf
<1>5. QED
  BY <1>1, <1>3, <1>4

LEMMA WritesOfAdd ==
    ASSUME NEW ws \in Seq(WriteEntry), Distinct(ws), NEW k \in Key, NEW v \in Value \cup {Empty}
    PROVE  WritesOf(AddWrite(ws, k, v)) =
              [x \in DOMAIN WritesOf(ws) \cup {k} |-> IF x = k THEN v ELSE WritesOf(ws)[x]]
<1>1. PICK us : us = AddWrite(ws, k, v)
  OBVIOUS
<1>2. PICK e : e = [key |-> k, val |-> v]
  OBVIOUS
<1>3. e.key = k /\ e.val = v
  BY <1>2
<1>4. /\ Distinct(us) /\ \E i \in DOMAIN us : us[i] = e
      /\ \A i \in DOMAIN ws : i \in DOMAIN us /\ (ws[i].key # k => us[i] = ws[i])
      /\ \A i \in DOMAIN us : us[i] # e => i \in DOMAIN ws /\ ws[i].key # k
  BY <1>1, <1>2, AddWriteType
<1>5. \A s : DOMAIN WritesOf(s) = Written(s)
  BY DEF WritesOf
<1>6. Written(us) = Written(ws) \cup {k}
  <2>1. ASSUME NEW x \in Written(us) PROVE x \in Written(ws) \cup {k}
    <3>1. PICK i \in DOMAIN us : us[i].key = x
      BY DEF Written
    <3>2. QED
      BY <1>3, <1>4, <3>1 DEF Written
  <2>2. ASSUME NEW x \in Written(ws) \cup {k} PROVE x \in Written(us)
    <3>1. CASE x = k
      BY <1>3, <1>4, <3>1 DEF Written
    <3>2. CASE x # k
      <4>1. PICK i \in DOMAIN ws : ws[i].key = x
        BY <3>2 DEF Written
      <4>2. i \in DOMAIN us /\ us[i].key = x
        BY <1>4, <3>2, <4>1
      <4>3. QED
        BY <4>2 DEF Written
    <3>3. QED
      BY <3>1, <3>2
  <2>3. QED
    BY <2>1, <2>2
<1>7. ASSUME NEW x \in Written(us)
      PROVE  WritesOf(us)[x] = IF x = k THEN v ELSE WritesOf(ws)[x]
  <2>1. CASE x = k
    <3>1. PICK i \in DOMAIN us : us[i] = e
      BY <1>4
    <3>2. WritesOf(us)[us[i].key] = us[i].val
      BY <1>4, WritesOfEntry
    <3>3. QED
      BY <1>3, <2>1, <3>1, <3>2
  <2>2. CASE x # k
    <3>1. PICK i \in DOMAIN ws : ws[i].key = x
      BY <1>6, <2>2 DEF Written
    <3>2. i \in DOMAIN us /\ us[i] = ws[i]
      BY <1>4, <2>2, <3>1
    <3>3. WritesOf(us)[us[i].key] = us[i].val
      BY <1>4, <3>2, WritesOfEntry
    <3>4. WritesOf(ws)[ws[i].key] = ws[i].val
      BY WritesOfEntry
    <3>5. QED
      BY <2>2, <3>1, <3>2, <3>3, <3>4
  <2>3. QED
    BY <2>1, <2>2
<1>8. WritesOf(us) = [x \in Written(us) |-> WritesOf(us)[x]]
  BY DEF WritesOf
<1>9. QED
  BY <1>1, <1>5, <1>6, <1>7, <1>8

-----------------------------------------------------------------------------
(* Every step. *)

\* Versions a step adds or drops beyond the log and every snapshot are not seen.
LEMMA SameStep ==
    ASSUME IInv, ~failures.harm, IInv', ~failures'.harm, max_ts' = max_ts,
           \A d \in Client : /\ tx'[d].state # "NONE" <=> tx[d].state # "NONE"
                             /\ tx'[d].start_ts = tx[d].start_ts /\ tx'[d].writes = tx[d].writes
                             /\ \A v : v \in store' /\ v.ts <= tx[d].start_ts
                                         <=> v \in store /\ v.ts <= tx[d].start_ts,
           \A v : v \in store' /\ v.ts <= max_ts <=> v \in store /\ v.ts <= max_ts
    PROVE  Mapped' = Mapped
<1>1. Db' = Db
  <2>1. ASSUME NEW k \in Key PROVE Lookup(store', k, max_ts') = Lookup(store, k, max_ts)
    <3>1. \A v : v \in store' /\ v.key = k /\ v.ts <= max_ts'
                   <=> v \in store /\ v.key = k /\ v.ts <= max_ts
      OBVIOUS
    <3>2. QED
      BY <3>1, LookupSame
  <2>2. QED
    BY <2>1, NowLogged, NextLogged
<1>2. Snap' = Snap
  <2>1. ASSUME NEW d \in Client, NEW k \in Key
        PROVE  Lookup(store', k, tx'[d].start_ts) = Lookup(store, k, tx[d].start_ts)
    <3>1. \A v : v \in store' /\ v.key = k /\ v.ts <= tx'[d].start_ts
                   <=> v \in store /\ v.key = k /\ v.ts <= tx[d].start_ts
      OBVIOUS
    <3>2. QED
      BY <3>1, LookupSame
  <2>2. QED
    BY <2>1, NowLogged, NextLogged
<1>3. ActiveSet' = ActiveSet /\ Writes' = Writes
  BY NowLogged, NextLogged
<1>4. Changed' = Changed
  <2>1. ASSUME NEW d \in Client, NEW k \in Key
        PROVE  (\E v \in store' : v.ts <= max_ts' /\ v.key = k /\ v.ts > tx'[d].start_ts)
                 <=> (\E v \in store : v.ts <= max_ts /\ v.key = k /\ v.ts > tx[d].start_ts)
    OBVIOUS
  <2>2. ASSUME NEW d \in Client, NEW k PROVE k \in Changed'[d] <=> k \in Changed[d]
    BY <2>1, ChangedKeys
  <2>3. ASSUME NEW d \in Client PROVE Changed'[d] = Changed[d]
    <3>1. Changed[d] \subseteq Key /\ Changed'[d] \subseteq Key
      BY ChangedKeys
    <3>2. QED
      BY <2>2, <3>1
  <2>4. QED
    BY <2>3, ChangedFun
<1>5. QED
  BY <1>1, <1>2, <1>3, <1>4 DEF Mapped

LEMMA LogFacts ==
    ASSUME IInv
    PROVE  /\ max_ts \in Nat /\ next_ts \in Nat /\ max_ts < next_ts
           /\ \A v \in store : v.ts \in Nat
           /\ \A d \in Client : tx[d] \in TxRecord /\ tx[d].start_ts \in Nat /\ tx[d].commit_ts \in Nat
           /\ \A d \in Client : tx[d].writes \in Seq(WriteEntry) /\ Distinct(tx[d].writes)
<1>1. \A d \in Client : tx[d] \in TxRecord /\ TxOK(d)
  BY DEF IInv, TypeInv
<1>2. \A v \in store : v.ts \in Nat
  BY TxAssumption DEF IInv, TypeInv, Version
<1>3. QED
  BY <1>1, <1>2 DEF IInv, TypeInv, TxOK, TxRecord

LEMMA BeginRefines ==
    ASSUME IInv, ~failures.harm, IInv', ~failures'.harm, NEW c \in Client, Begin(c)
    PROVE  Promise!Next
<1>1. PICK r : r = [NoTx EXCEPT !.state = "ACTIVE", !.start_ts = next_ts]
  OBVIOUS
<1>2. /\ tx[c].state = "NONE" /\ tx[c] = NoTx /\ store' = store
      /\ tx' = [tx EXCEPT ![c] = r] /\ (LogRecord(next_ts) \/ LogFails)
      /\ \A d \in Client : ~Committing(d)
  BY <1>1 DEF Begin, MutexFree, Committing, IInv, TxInv
<1>3. r.state = "ACTIVE" /\ r.start_ts = next_ts /\ r.writes = << >>
  BY <1>1 DEF NoTx
<1>4. tx'[c] = r /\ \A d \in Client : d # c => tx'[d] = tx[d]
  BY <1>2, OneTx DEF IInv, TypeInv
<1>5. max_ts' = next_ts
  BY <1>2, LogFacts, LogStep DEF Max2
<1>6. \A v \in store : v.ts <= max_ts /\ v.ts <= next_ts /\ ~(v.ts > next_ts)
  <2>1. \A v \in store : v.ts <= max_ts
    BY <1>2 DEF IInv, QuietInv
  <2>2. QED
    BY <2>1, LogFacts
<1>7. ASSUME NEW k \in Key PROVE Lookup(store, k, next_ts) = Lookup(store, k, max_ts)
  <2>1. \A v : v \in store /\ v.key = k /\ v.ts <= next_ts
                 <=> v \in store /\ v.key = k /\ v.ts <= max_ts
    BY <1>6
  <2>2. QED
    BY <2>1, LookupSame
<1>8. Db' = Db
  BY <1>2, <1>5, <1>7, NowLogged, NextLogged
<1>9. ActiveSet' = ActiveSet \cup {c} /\ c \notin ActiveSet
  BY <1>2, <1>3, <1>4, NowLogged, NextLogged
<1>10. Snap' = [Snap EXCEPT ![c] = Db]
  <2>1. Snap'[c] = Db
    BY <1>2, <1>3, <1>4, <1>7, NowLogged, NextLogged
  <2>2. \A d \in Client : d # c => Snap'[d] = Snap[d]
    BY <1>2, <1>4, NowLogged, NextLogged
  <2>3. Snap = [d \in Client |-> Snap[d]] /\ Snap' = [d \in Client |-> Snap'[d]]
    BY DEF Snap
  <2> HIDE DEF Snap, Db
  <2>4. QED
    BY <2>1, <2>2, <2>3
<1>11. Writes' = Writes
  BY <1>2, <1>3, <1>4, NowLogged, NextLogged, NoTxType
<1>12. Changed' = Changed
  <2>1. Changed'[c] = {} /\ Changed[c] = {}
    BY <1>2, <1>3, <1>4, <1>6, ChangedKeys
  <2>2. ASSUME NEW d \in Client, d # c PROVE Changed'[d] = Changed[d]
    <3>1. \A k : k \in Changed'[d] <=> k \in Changed[d]
      BY <1>2, <1>4, <1>5, <1>6, <2>2, ChangedKeys
    <3>2. QED
      BY <3>1
  <2>3. QED
    BY <2>1, <2>2, ChangedFun
<1>13. QED
  BY <1>8, <1>9, <1>10, <1>11, <1>12, PromiseBegin

LEMMA PutRefines ==
    ASSUME IInv, ~failures.harm, IInv', ~failures'.harm, NEW c \in Client, NEW k \in Key,
           NEW v \in Value \cup {Empty}, Put(c, k, v)
    PROVE  Promise!Next
<1>1. PICK ws : ws = AddWrite(tx[c].writes, k, v)
  OBVIOUS
<1>2. PICK r : r = [tx[c] EXCEPT !.writes = ws]
  OBVIOUS
<1>3. /\ tx' = [tx EXCEPT ![c] = r] /\ tx[c].state = "ACTIVE" /\ UNCHANGED <<store, max_ts>>
  BY <1>1, <1>2 DEF Put
<1>4. r.state = "ACTIVE" /\ r.start_ts = tx[c].start_ts /\ r.writes = ws
  BY <1>2, <1>3, LogFacts DEF TxRecord
<1>5. tx'[c] = r /\ \A d \in Client : d # c => tx'[d] = tx[d]
  BY <1>3, OneTx DEF IInv, TypeInv
<1>6. \A d \in Client : tx'[d].state = tx[d].state /\ tx'[d].start_ts = tx[d].start_ts
  BY <1>3, <1>4, <1>5
<1>7. Db' = Db /\ ActiveSet' = ActiveSet /\ Snap' = Snap /\ Changed' = Changed
  <2>1. Db' = Db
    BY <1>3, NowLogged, NextLogged
  <2>2. ActiveSet' = ActiveSet
    BY <1>6, NowLogged, NextLogged
  <2>3. Snap' = Snap
    BY <1>3, <1>6, NowLogged, NextLogged
  <2>4. ASSUME NEW d \in Client PROVE Changed'[d] = Changed[d]
    <3>1. \A x : x \in Changed'[d] <=> x \in Changed[d]
      BY <1>3, <1>6, ChangedKeys
    <3>2. QED
      BY <3>1
  <2>5. QED
    BY <2>1, <2>2, <2>3, <2>4, ChangedFun
<1>8. Writes' = [Writes EXCEPT ![c] = [x \in DOMAIN @ \cup {k} |-> IF x = k THEN v ELSE @[x]]]
  <2>1. Writes'[c] = [x \in DOMAIN Writes[c] \cup {k} |-> IF x = k THEN v ELSE Writes[c][x]]
    <3>1. Writes'[c] = WritesOf(ws) /\ Writes[c] = WritesOf(tx[c].writes)
      BY <1>4, <1>5, NowLogged, NextLogged
    <3>2. tx[c].writes \in Seq(WriteEntry) /\ Distinct(tx[c].writes)
      BY LogFacts
    <3>3. WritesOf(ws) = [x \in DOMAIN WritesOf(tx[c].writes) \cup {k} |->
                             IF x = k THEN v ELSE WritesOf(tx[c].writes)[x]]
      BY <1>1, <3>2, WritesOfAdd, Zenon
    <3>4. QED
      BY <3>1, <3>3
  <2>2. \A d \in Client : d # c => Writes'[d] = Writes[d]
    BY <1>5, NowLogged, NextLogged
  <2>3. Writes = [d \in Client |-> Writes[d]] /\ Writes' = [d \in Client |-> Writes'[d]]
    BY DEF Writes
  <2>4. QED
    BY <2>1, <2>2, <2>3
<1>9. c \in ActiveSet
  BY <1>3, NowLogged
<1>10. QED
  BY <1>7, <1>8, <1>9, PromiseWrite

LEMMA LeaveRefines ==
    ASSUME IInv, ~failures.harm, IInv', NEW c \in Client, tx[c].state # "NONE",
           tx' = [tx EXCEPT ![c] = NoTx], store' = store
    PROVE  Promise!Leave(c)
<1>1. tx'[c] = NoTx /\ \A d \in Client : d # c => tx'[d] = tx[d]
  BY OneTx DEF IInv, TypeInv
<1>2. c \in ActiveSet /\ ActiveSet' = ActiveSet \ {c}
  BY <1>1, NowLogged, NextLogged, NoTxType
<1>3. Snap' = [Snap EXCEPT ![c] = [k \in Key |-> Empty]]
  <2>1. Snap'[c] = [k \in Key |-> Empty] /\ \A d \in Client : d # c => Snap'[d] = Snap[d]
    BY <1>1, NowLogged, NextLogged, NoTxType
  <2>2. Snap = [d \in Client |-> Snap[d]] /\ Snap' = [d \in Client |-> Snap'[d]]
    BY DEF Snap
  <2>3. QED
    BY <2>1, <2>2
<1>4. Writes' = [Writes EXCEPT ![c] = [k \in {} |-> Empty]]
  <2>1. Writes'[c] = [k \in {} |-> Empty] /\ \A d \in Client : d # c => Writes'[d] = Writes[d]
    BY <1>1, NowLogged, NextLogged, NoTxType, WritesOfEmpty
  <2>2. Writes = [d \in Client |-> Writes[d]] /\ Writes' = [d \in Client |-> Writes'[d]]
    BY DEF Writes
  <2>3. QED
    BY <2>1, <2>2
<1>5. QED
  BY <1>2, <1>3, <1>4, PromiseLeave

\* tx_abort, and a commit that meets a conflict.
LEMMA AbortRefines ==
    ASSUME IInv, ~failures.harm, IInv', ~failures'.harm, NEW c \in Client, tx[c].state # "NONE",
           tx' = [tx EXCEPT ![c] = NoTx], store' = store, max_ts' = max_ts
    PROVE  Promise!Next
<1>1. tx'[c] = NoTx /\ \A d \in Client : d # c => tx'[d] = tx[d]
  BY OneTx DEF IInv, TypeInv
<1>2. Db' = Db
  BY NowLogged, NextLogged
<1>3. Changed' = [Changed EXCEPT ![c] = {}]
  <2>1. Changed'[c] = {} /\ \A d \in Client : d # c => Changed'[d] = Changed[d]
    <3>1. Changed'[c] = {}
      BY <1>1, ChangedKeys, NoTxType
    <3>2. ASSUME NEW d \in Client, d # c PROVE Changed'[d] = Changed[d]
      <4>1. \A k : k \in Changed'[d] <=> k \in Changed[d]
        BY <1>1, <3>2, ChangedKeys
      <4>2. QED
        BY <4>1
    <3>3. QED
      BY <3>1, <3>2
  <2>2. QED
    BY <2>1, ChangedFun
<1>4. QED
  BY <1>2, <1>3, LeaveRefines, PromiseAbort

\* The end of tx_commit is where the whole write set appears in the database.
LEMMA CommitRefines ==
    ASSUME IInv, ~failures.harm, IInv', ~failures'.harm, NEW c \in Client, CommitDone(c)
    PROVE  Promise!Next
<1>1. PICK ws : ws = tx[c].writes
  OBVIOUS
<1>2. PICK ct : ct = tx[c].commit_ts
  OBVIOUS
<1>3. /\ Committing(c) /\ tx[c].stored = Len(ws) /\ (LogCommit(ct) \/ LogCommitFails(ct))
      /\ tx' = [tx EXCEPT ![c] = NoTx] /\ store' = store
  BY <1>1, <1>2 DEF CommitDone, Committing
<1>4. ws \in Seq(WriteEntry) /\ Distinct(ws) /\ DOMAIN ws = 1 .. Len(ws) /\ Written(ws) \subseteq Key
  BY <1>1, LogFacts, WrittenCount
<1>5. max_ts < ct /\ (\A d \in Client : tx[d].start_ts < ct) /\ ct \in Nat /\ max_ts \in Nat
  BY <1>2, <1>3, LogFacts DEF IInv, TxInv
<1>6. max_ts' = ct
  BY <1>3, <1>5, CommitLogged
<1>7. tx'[c] = NoTx /\ \A d \in Client : d # c => tx'[d] = tx[d]
  BY <1>3, OneTx DEF IInv, TypeInv
<1>8. /\ \A v \in store : v.ts <= max_ts \/ v.ts = ct
      /\ \A i \in DOMAIN ws : VersionOf(c, i) \in store
      /\ \A v \in store : v.ts = ct => \E i \in DOMAIN ws : v = VersionOf(c, i)
      /\ \A v \in store : v.key \in Written(ws) => v.ts = ct \/ v.ts <= tx[c].start_ts
  <2>1. \A d \in Client : Committing(d) => d = c
    BY <1>3 DEF IInv, TxInv
  <2>2. QED
    BY <1>1, <1>2, <1>3, <1>4, <2>1 DEF IInv, LogInv, QuietInv
<1>9. \A i \in DOMAIN ws : /\ VersionOf(c, i).key = ws[i].key /\ VersionOf(c, i).ts = ct
                           /\ VersionOf(c, i).val = ws[i].val
  BY <1>1, <1>2 DEF VersionOf
<1>10. DOMAIN Writes[c] = Written(ws) /\ \A i \in DOMAIN ws : Writes[c][ws[i].key] = ws[i].val
  <2>1. Writes[c] = WritesOf(ws)
    BY <1>1, WritesAlone
  <2>2. DOMAIN WritesOf(ws) = Written(ws)
    BY DEF WritesOf
  <2>3. QED
    BY <1>4, <2>1, <2>2, WritesOfEntry
<1>11. Written(ws) \cap Changed[c] = {}
  <2> SUFFICES ASSUME NEW k \in Written(ws), k \in Changed[c] PROVE FALSE
    OBVIOUS
  <2>1. PICK v \in store : v.ts <= max_ts /\ v.key = k /\ v.ts > tx[c].start_ts
    BY ChangedKeys
  <2>2. v.ts \in Nat /\ tx[c].start_ts \in Nat
    BY LogFacts
  <2>3. v.ts = ct \/ v.ts <= tx[c].start_ts
    BY <1>8, <2>1
  <2>4. QED
    BY <1>5, <2>1, <2>2, <2>3
<1>12. Db' = [k \in Key |-> IF k \in Written(ws) THEN Writes[c][k] ELSE Db[k]]
  <2>1. ASSUME NEW k \in Key, k \in Written(ws) PROVE Lookup(store, k, ct) = Writes[c][k]
    <3>1. PICK i \in DOMAIN ws : ws[i].key = k
      BY <2>1 DEF Written
    <3>2. PICK m \in store : m = VersionOf(c, i)
      BY <1>8
    <3>3. m.key = k /\ m.ts = ct /\ m.val = Writes[c][k]
      BY <1>9, <1>10, <3>1, <3>2
    <3>4. \A w \in store : w.key = k /\ w.ts <= ct => w.ts <= m.ts
      BY <3>3
    <3>5. \A w \in store : w.key = k /\ w.ts <= ct /\ m.ts <= w.ts => w = m
      <4>1. \A w \in store : w.ts \in Nat
        BY LogFacts
      <4>2. QED
        BY <1>5, <3>3, <4>1 DEF IInv, TxInv
    <3>6. m.ts <= ct /\ m.ts <= m.ts
      BY <1>5, <3>3
    <3>7. Lookup(store, k, ct) = m.val
      BY <3>3, <3>4, <3>5, <3>6, LookupNewest
    <3>8. QED
      BY <3>3, <3>7
  <2>2. ASSUME NEW k \in Key, k \notin Written(ws)
        PROVE  Lookup(store, k, ct) = Lookup(store, k, max_ts)
    <3>1. \A v \in store : v.key = k => v.ts <= max_ts
      BY <1>8, <1>9, <2>2 DEF Written
    <3>2. \A v \in store : v.ts \in Nat
      BY LogFacts
    <3>3. \A v : v \in store /\ v.key = k /\ v.ts <= ct
                   <=> v \in store /\ v.key = k /\ v.ts <= max_ts
      BY <1>5, <3>1, <3>2
    <3>4. QED
      BY <3>3, LookupSame
  <2>3. /\ Db' = [k \in Key |-> Lookup(store, k, ct)]
        /\ Db = [k \in Key |-> Lookup(store, k, max_ts)]
    BY <1>3, <1>6, NowLogged, NextLogged
  <2>4. QED
    BY <2>1, <2>2, <2>3
<1>13. Changed' = [a \in Client |-> IF a \in ActiveSet' THEN Changed[a] \cup Written(ws) ELSE {}]
  <2>1. ASSUME NEW a \in Client
        PROVE  Changed'[a] = IF a \in ActiveSet' THEN Changed[a] \cup Written(ws) ELSE {}
    <3>0. a \in ActiveSet' <=> tx'[a].state # "NONE"
      BY NextLogged
    <3>1. CASE a = c
      BY <1>7, <3>0, <3>1, ChangedKeys, NoTxType
    <3>2. CASE a # c /\ tx[a].state = "NONE"
      BY <1>7, <3>0, <3>2, ChangedKeys
    <3>3. CASE a # c /\ tx[a].state # "NONE"
      <4>1. ASSUME NEW k, k \in Changed'[a] PROVE k \in Changed[a] \cup Written(ws)
        <5>1. PICK v \in store : v.ts <= ct /\ v.key = k /\ v.ts > tx[a].start_ts
          BY <1>3, <1>6, <1>7, <3>3, <4>1, ChangedKeys
        <5>2. k \in Key
          BY <4>1, ChangedKeys
        <5>3. CASE v.ts = ct
          BY <1>8, <1>9, <5>1, <5>3 DEF Written
        <5>4. CASE v.ts <= max_ts
          BY <3>3, <5>1, <5>2, <5>4, ChangedKeys
        <5>5. QED
          BY <1>8, <5>3, <5>4
      <4>2. ASSUME NEW k, k \in Changed[a] PROVE k \in Changed'[a]
        <5>1. PICK v \in store : v.ts <= max_ts /\ v.key = k /\ v.ts > tx[a].start_ts
          BY <4>2, ChangedKeys
        <5>2. v.ts <= ct
          BY <1>5, <5>1, LogFacts
        <5>3. k \in Key
          BY <4>2, ChangedKeys
        <5>4. QED
          BY <1>3, <1>6, <1>7, <3>3, <5>1, <5>2, <5>3, ChangedKeys
      <4>3. ASSUME NEW k \in Written(ws) PROVE k \in Changed'[a]
        <5>1. PICK i \in DOMAIN ws : ws[i].key = k
          BY DEF Written
        <5>2. PICK v \in store : v.key = k /\ v.ts = ct
          BY <1>8, <1>9, <5>1
        <5>3. v.ts <= ct /\ v.ts > tx[a].start_ts
          BY <1>5, <5>2, LogFacts
        <5>4. k \in Key
          BY <1>4
        <5>5. QED
          BY <1>3, <1>6, <1>7, <3>3, <5>2, <5>3, <5>4, ChangedKeys
      <4>4. a \in ActiveSet'
        BY <1>7, <3>0, <3>3
      <4>5. QED
        BY <4>1, <4>2, <4>3, <4>4
    <3>4. QED
      BY <3>1, <3>2, <3>3
  <2>2. QED
    BY <2>1, ChangedFun
<1>14. tx[c].state # "NONE"
  BY <1>3 DEF Committing
<1>15. Promise!Leave(c)
  BY <1>3, <1>14, LeaveRefines
<1>16. QED
  BY <1>10, <1>11, <1>12, <1>13, <1>15, PromiseCommit

LEMMA CloseRefines ==
    ASSUME IInv, ~failures.harm, IInv', ~failures'.harm, Close
    PROVE  Promise!Next
<1>1. store' = store /\ max_ts' = max_ts /\ \A c \in Client : tx'[c] = NoTx
  BY DEF Close, Reopen, IInv, QuietInv
<1>2. Db' = Db
  BY <1>1, NowLogged, NextLogged
<1>3. ActiveSet' = {} /\ Snap' = [c \in Client |-> [k \in Key |-> Empty]]
  BY <1>1, NextLogged, NoTxType
<1>4. Writes' = [c \in Client |-> [k \in {} |-> Empty]]
  BY <1>1, NextLogged, NoTxType, WritesOfEmpty
<1>5. Changed' = [c \in Client |-> {}]
  <2>1. \A c \in Client : Changed'[c] = {}
    BY <1>1, ChangedKeys, NoTxType
  <2>2. QED
    BY <2>1, ChangedFun
<1>6. QED
  BY <1>2, <1>3, <1>4, <1>5, PromiseRestart

\* Taking a commit timestamp, storing a version and moving an iterator change
\* nothing anybody may see.
LEMMA StutterRefines ==
    ASSUME IInv, ~failures.harm, IInv', ~failures'.harm, NEW c \in Client,
           \/ (Commit(c) /\ ~Conflict(c)) \/ CommitPut(c) \/ SeekToFirst(c) \/ IterNext(c)
           \/ \E k \in Key : Seek(c, k)
    PROVE  Mapped' = Mapped
<1>1. CASE SeekToFirst(c) \/ IterNext(c) \/ \E k \in Key : Seek(c, k)
  <2>1. UNCHANGED <<tx, store, max_ts>>
    BY <1>1 DEF SeekToFirst, IterNext, Seek
  <2>2. QED
    BY <2>1, SameStep
<1>2. CASE Commit(c) /\ ~Conflict(c)
  <2>1. PICK r : r = [tx[c] EXCEPT !.state = "COMMITTING", !.commit_ts = next_ts, !.stored = 0]
    OBVIOUS
  <2>2. /\ UNCHANGED <<store, max_ts>> /\ tx[c].state = "ACTIVE" /\ tx' = [tx EXCEPT ![c] = r]
    BY <1>2, <2>1 DEF Commit
  <2>3. r.state = "COMMITTING" /\ r.start_ts = tx[c].start_ts /\ r.writes = tx[c].writes
    BY <2>1, LogFacts DEF TxRecord
  <2>4. tx'[c] = r /\ \A d \in Client : d # c => tx'[d] = tx[d]
    BY <2>2, OneTx DEF IInv, TypeInv
  <2>5. \A d \in Client : /\ tx'[d].state # "NONE" <=> tx[d].state # "NONE"
                          /\ tx'[d].start_ts = tx[d].start_ts /\ tx'[d].writes = tx[d].writes
    BY <2>2, <2>3, <2>4
  <2>6. QED
    BY <2>2, <2>5, SameStep
<1>3. CASE CommitPut(c)
  <2>1. PICK n \in Version :
             /\ tx[c].stored + 1 \in DOMAIN tx[c].writes
             /\ n = VersionOf(c, tx[c].stored + 1) /\ n.ts = tx[c].commit_ts
             /\ n.key = tx[c].writes[tx[c].stored + 1].key
             /\ \A v : v \in store' <=> \/ v \in store /\ (v.key # n.key \/ v.ts # n.ts)
                                        \/ v = n
    BY <1>3, PutOne
  <2>2. PICK r : r = [tx[c] EXCEPT !.stored = @ + 1]
    OBVIOUS
  <2>3. tx' = [tx EXCEPT ![c] = r] /\ Committing(c) /\ max_ts' = max_ts
    BY <1>3, <2>2 DEF CommitPut, Committing
  <2>4. r.state = tx[c].state /\ r.start_ts = tx[c].start_ts /\ r.writes = tx[c].writes
    BY <2>2, LogFacts DEF TxRecord
  <2>5. tx'[c] = r /\ \A d \in Client : d # c => tx'[d] = tx[d]
    BY <2>3, OneTx DEF IInv, TypeInv
  <2>6. \A d \in Client : /\ tx'[d].state # "NONE" <=> tx[d].state # "NONE"
                          /\ tx'[d].start_ts = tx[d].start_ts /\ tx'[d].writes = tx[d].writes
    BY <2>4, <2>5
  <2>7. ~(n.ts <= max_ts) /\ \A d \in Client : ~(n.ts <= tx[d].start_ts)
    <3>1. max_ts < n.ts /\ \A d \in Client : tx[d].start_ts < n.ts
      BY <2>1, <2>3 DEF IInv, TxInv
    <3>2. n.ts \in Nat
      BY <2>1, LogFacts
    <3>3. QED
      BY <3>1, <3>2, LogFacts
  <2>8. \A v : v \in store' /\ v.ts <= max_ts <=> v \in store /\ v.ts <= max_ts
    BY <2>1, <2>7
  <2>9. \A d \in Client : \A v : v \in store' /\ v.ts <= tx[d].start_ts
                                   <=> v \in store /\ v.ts <= tx[d].start_ts
    BY <2>1, <2>7
  <2>10. QED
    BY <2>3, <2>6, <2>8, <2>9, SameStep
<1>4. QED
  BY <1>1, <1>2, <1>3

LEMMA HarmStays ==
    ASSUME IInv, [Next]_vars, failures.harm
    PROVE  failures'.harm
<1>1. \A f : Fail(f) => failures'.harm
  BY FailType DEF IInv
<1>2. QED
  BY <1>1 DEF Next, vars, Begin, Abort, Commit, CommitPut, CommitFail, CommitDone, SeekToFirst,
              IterNext, Seek, Put, Close, Crash, PowerLoss, LogRecord, LogFails, LogCommit,
              LogCommitFails

\* Every step implements a step of snapshot isolation.
LEMMA StepRefines ==
    ASSUME IInv, IInv', Next, ~failures'.harm
    PROVE  Promise!Next \/ Mapped' = Mapped
<1>1. ~failures.harm
  BY HarmStays
<1>2. ASSUME NEW c \in Client, Begin(c) PROVE Promise!Next
  BY <1>1, <1>2, BeginRefines
<1>3. ASSUME NEW c \in Client, Abort(c) \/ (Commit(c) /\ Conflict(c)) PROVE Promise!Next
  <2>1. CASE Abort(c)
    <3>1. LogRecord(0) \/ LogFails
      BY <2>1 DEF Abort
    <3>2. max_ts' = max_ts
      BY <3>1, LogStep, LogFacts DEF Max2
    <3>3. QED
      BY <1>1, <2>1, <3>2, AbortRefines DEF Abort
  <2>2. QED
    BY <1>1, <1>3, <2>1, AbortRefines DEF Commit
<1>4. ASSUME NEW c \in Client, CommitDone(c) PROVE Promise!Next
  BY <1>1, <1>4, CommitRefines
<1>5. ASSUME NEW c \in Client, CommitFail(c) PROVE FALSE
  BY <1>5, FailType DEF CommitFail, IInv
<1>6. ASSUME NEW c \in Client, NEW k \in Key, NEW v \in Value \cup {Empty}, Put(c, k, v)
      PROVE  Promise!Next
  BY <1>1, <1>6, PutRefines
<1>7. CASE Close
  BY <1>1, <1>7, CloseRefines
<1>8. CASE Crash \/ PowerLoss
  BY <1>8, FailType DEF Crash, PowerLoss, IInv
<1>9. ASSUME NEW c \in Client,
             \/ (Commit(c) /\ ~Conflict(c)) \/ CommitPut(c) \/ SeekToFirst(c) \/ IterNext(c)
             \/ \E k \in Key : Seek(c, k)
      PROVE  Mapped' = Mapped
  BY <1>1, <1>9, StutterRefines
<1>10. QED
  BY <1>2, <1>3, <1>4, <1>5, <1>6, <1>7, <1>8, <1>9 DEF Next

LEMMA InitRefines == Init => Promise!Init
<1> SUFFICES ASSUME Init PROVE Promise!Init
  OBVIOUS
<1>1. \A c \in Client : tx[c] = NoTx
  BY DEF Init
<1>2. Settled = {}
  BY DEF Init, Settled
<1>3. Db = [k \in Key |-> Empty]
  <2>1. \A k \in Key : Lookup(Settled, k, next_ts) = Empty
    BY <1>2, LookupNone
  <2>2. QED
    BY <2>1 DEF Db
<1>4. ActiveSet = {}
  BY <1>1, NoTxType DEF ActiveSet, Active
<1>5. Snap = [c \in Client |-> [k \in Key |-> Empty]]
  BY <1>1, NoTxType DEF Snap, Active
<1>6. Writes = [c \in Client |-> [k \in {} |-> Empty]]
  BY <1>1, WritesAlone, WritesOfEmpty, NoTxType
<1>7. Changed = [c \in Client |-> {}]
  BY <1>1, NoTxType DEF Changed, Active
<1>8. QED
  BY <1>3, <1>4, <1>5, <1>6, <1>7, Zenon
     DEF Promise!Init, Promise!Nothing, Promise!NoWrites, Db, ActiveSet, Snap, Writes, Changed

\* tx-manager implements snapshot isolation: what a transaction reads is the
\* database as it was at tx_begin, a write set appears at once, the first
\* committer of a key wins and a clean restart loses nothing, until a put of a
\* commit fails, the process dies inside tx_commit or the machine loses power.
THEOREM ImplementsSnapshotIsolation == Spec => SnapshotIsolation
<1>1. Init => Promise!Init
  BY InitRefines
<1>2. IInv /\ IInv' /\ [Next]_vars => [failures'.harm \/ Promise!Next]_(Promise!vars)
  <2> SUFFICES ASSUME IInv, IInv', [Next]_vars, ~failures'.harm
               PROVE  Promise!Next \/ (Promise!vars)' = Promise!vars
    OBVIOUS
  <2>1. CASE Next
    BY <2>1, MappedVars, StepRefines
  <2>2. CASE UNCHANGED vars
    BY <2>2 DEF vars, Promise!vars, Settled, Lookup, Active, Written, TxGet
  <2>3. QED
    BY <2>1, <2>2
<1>3. QED
  BY <1>1, <1>2, Invariant, PTL DEF Spec, SnapshotIsolation
=============================================================================
