--------------------------- MODULE FsCrashProofs ---------------------------
(***************************************************************************)
(* The journal of simple-fs implements the atomic disk, through crashes    *)
(* and recoveries, for any number of threads, blocks and buffers.          *)
(***************************************************************************)
EXTENDS FsLogProofs

-----------------------------------------------------------------------------
(* The hypotheses. *)

\* The cache has a buffer for every block: it never recycles one.
Roomy == IsFiniteSet(Addr) /\ Cardinality(Addr) <= NBuf

\* No recovery has left a block one reference short, and the cache has at
\* least as many buffers as the log has blocks (NBUF and LOGSIZE are both 30).
Steady == ~MayCrash /\ NLog <= NBuf

Ample == Disciplined /\ (Roomy \/ Steady)

-----------------------------------------------------------------------------
(* The inductive invariant. *)

Phase(p) == \E t \in Thread : pc[t] = p

\* What bread of block x finds.
Seen(x) == Content(cache, x, disk[x])

\* A logged block whose contents are only in the cache, or there and in the log.
Dirty(x) == boot = "up" /\ Pending(x)

\* What the header on the disk and the one in memory name, in each phase.
HeadInv ==
    /\ boot = "up" /\ ~Phase("install") /\ ~Phase("clear_head") => disk[LogStart] = << >>
    /\ Installing => disk[LogStart] = lh
    /\ boot \in {"read_head", "clear_head"} \/ Phase("clear_head") \/ Phase("release") => lh = << >>
    /\ boot = "up" /\ Ops = {} /\ ~committing => lh = << >>
    /\ committing => \E t \in Thread : Committer(t)

\* Only a dirty block differs from the disk, and it stays in the cache.
CleanInv ==
    /\ \A x \in Block \cup Slot : ~Dirty(x) => Seen(x) = disk[x]
    /\ \A x \in Block : Dirty(x) => Cached(cache, x)

\* The log blocks that write_log has written, and the home blocks that
\* install_trans has.
SlotInv ==
    /\ Phase("write_log") => \A j \in DOMAIN lh : j < tail => disk[j] = Seen(lh[j])
    /\ Phase("write_head") => \A j \in DOMAIN lh : disk[j] = Seen(lh[j])
    /\ Phase("install") => \A j \in DOMAIN lh : tail <= j => disk[j] = Seen(lh[j])
    /\ Installing => \A j \in DOMAIN lh : j < tail => disk[lh[j]] = disk[j]
    /\ boot = "clear_head" \/ Phase("clear_head") =>
         \A j \in DOMAIN disk[LogStart] : disk[disk[LogStart][j]] = disk[j]

\* A block has the reference of its pin and no other.
Exact == \A a \in Addr : OldRef(cache, a) <= IF Pending(a) THEN 1 ELSE 0

CInv == HeadInv /\ CleanInv /\ SlotInv /\ (Steady => Exact)

-----------------------------------------------------------------------------
(* There is always a buffer. *)

LEMMA FullHoldsAll ==
    ASSUME Roomy, NEW c, CacheOK(c), Full(c), NEW x \in Addr
    PROVE  Cached(c, x)
<1> SUFFICES ASSUME ~Cached(c, x) PROVE FALSE
  OBVIOUS
<1>1. c \in Seq(Buffer) /\ Len(c) = NBuf /\ NBuf \in Nat
  BY NumFacts DEF CacheOK
<1>2. PICK f : f = [i \in 1 .. NBuf |-> c[i].blockno]
  OBVIOUS
<1>3. \A i \in 1 .. NBuf : c[i] \in Buffer
  BY <1>1
<1>4. \A i \in 1 .. NBuf : c[i].blockno \in Addr \cup {Block0} /\ c[i].blockno # Block0 /\ c[i].blockno # x
  BY <1>1, <1>3, FindSpec DEF Buffer, Full
<1>5. f \in [1 .. NBuf -> Addr \ {x}]
  BY <1>2, <1>4
<1>6. IsFiniteSet(1 .. NBuf) /\ Cardinality(1 .. NBuf) = NBuf
  BY <1>1, FS_Interval
<1>7. IsFiniteSet(Addr \ {x}) /\ Cardinality(Addr \ {x}) = Cardinality(Addr) - 1 /\ Cardinality(Addr) \in Nat
  BY FS_RemoveElement, FS_CardinalityType DEF Roomy
<1>8. Cardinality(Addr \ {x}) < Cardinality(1 .. NBuf)
  BY <1>1, <1>6, <1>7 DEF Roomy
<1>9. PICK i \in 1 .. NBuf, j \in 1 .. NBuf : i # j /\ f[i] = f[j]
  BY <1>5, <1>6, <1>7, <1>8, FS_PigeonHole
<1>10. c[i].blockno = c[j].blockno /\ c[i].blockno # Block0
  BY <1>2, <1>4, <1>9
<1>11. QED
  BY <1>9, <1>10 DEF CacheOK

LEMMA RoomyAvailable ==
    ASSUME Roomy, NEW c, CacheOK(c), NEW a \in Addr
    PROVE  Available(c, a)
<1>1. CASE Full(c)
  BY <1>1, FullHoldsAll DEF Available
<1>2. CASE ~Full(c)
  <2>1. PICK i \in 1 .. NBuf : c[i].blockno = Block0
    BY <1>2 DEF Full
  <2>2. c[i].refcnt = 0 /\ DOMAIN c = 1 .. NBuf
    BY <2>1, NumFacts DEF CacheOK
  <2>3. QED
    BY <2>1, <2>2 DEF Available
<1>3. QED
  BY <1>1, <1>2

\* When only logged blocks are referenced, a larger cache has a buffer to recycle.
LEMMA PinsLeaveRoom ==
    ASSUME TypeInv, NLog <= NBuf, NEW c, CacheOK(c), NEW a,
           \A x \in Addr : Cached(c, x) /\ Ref(c, x) # 0 => Pending(x)
    PROVE  Available(c, a)
<1> SUFFICES ASSUME ~Available(c, a) PROVE FALSE
  OBVIOUS
<1>1. c \in Seq(Buffer) /\ Len(c) = NBuf /\ NBuf \in Nat /\ DOMAIN c = 1 .. NBuf
  BY NumFacts DEF CacheOK
<1>2. \A i \in 1 .. NBuf : c[i].refcnt # 0
  BY <1>1 DEF Available
<1>3. \A i \in 1 .. NBuf : c[i] \in Buffer
  BY <1>1
<1>4. \A i \in 1 .. NBuf : c[i].blockno \in Addr /\ c[i].blockno # Block0
  BY <1>2, <1>3 DEF Buffer, CacheOK
<1>5. \A i \in 1 .. NBuf : Cached(c, c[i].blockno) /\ Ref(c, c[i].blockno) # 0
  BY <1>2, <1>4, FindUnique DEF Ref
<1>6. \A i \in 1 .. NBuf : \E j \in DOMAIN lh : lh[j] = c[i].blockno
  BY <1>4, <1>5 DEF Pending
<1>7. PICK f : f = [i \in 1 .. NBuf |-> CHOOSE j \in DOMAIN lh : lh[j] = c[i].blockno]
  OBVIOUS
<1>8. \A i \in 1 .. NBuf : f[i] \in DOMAIN lh /\ lh[f[i]] = c[i].blockno
  BY <1>6, <1>7
<1>9. f \in [1 .. NBuf -> DOMAIN lh]
  BY <1>7, <1>8
<1>10. Len(lh) \in Nat /\ Len(lh) < NLog /\ DOMAIN lh = 1 .. Len(lh)
  BY DEF TypeInv
<1>11. /\ IsFiniteSet(1 .. NBuf) /\ Cardinality(1 .. NBuf) = NBuf
       /\ IsFiniteSet(1 .. Len(lh)) /\ Cardinality(1 .. Len(lh)) = Len(lh)
  <2>1. \A n \in Nat : IsFiniteSet(1 .. n) /\ Cardinality(1 .. n) = n
    BY FS_Interval
  <2>2. QED
    BY <1>1, <1>10, <2>1
<1>12. Cardinality(DOMAIN lh) < Cardinality(1 .. NBuf) /\ IsFiniteSet(DOMAIN lh)
  BY <1>1, <1>10, <1>11, NumFacts
<1>13. PICK i \in 1 .. NBuf, j \in 1 .. NBuf : i # j /\ f[i] = f[j]
  BY <1>9, <1>11, <1>12, FS_PigeonHole
<1>14. c[i].blockno = c[j].blockno /\ c[i].blockno # Block0
  BY <1>4, <1>8, <1>13
<1>15. QED
  BY <1>13, <1>14 DEF CacheOK

LEMMA SteadyRefs ==
    ASSUME IInv, Exact, Steady, NEW x \in Addr
    PROVE  /\ OldRef(cache, x) \in Int
           /\ Pending(x) => OldRef(cache, x) = 1 /\ Cached(cache, x)
           /\ ~Pending(x) => OldRef(cache, x) = 0
<1>1. TypeInv /\ Refs /\ Pins /\ ~MayCrash
  BY IInvParts DEF Steady
<1>2. /\ OldRef(cache, x) \in Int /\ OldRef(cache, x) >= 0
      /\ Pending(x) => OldRef(cache, x) >= 1
  BY <1>1, FloorFacts, LowFacts
<1>3. OldRef(cache, x) <= IF Pending(x) THEN 1 ELSE 0
  BY DEF Exact
<1>4. QED
  BY <1>1, <1>2, <1>3 DEF Pins

LEMMA Always ==
    ASSUME IInv, CInv, Ample, NEW a \in Addr
    PROVE  Available(cache, a)
<1>1. TypeInv /\ CacheOK(cache)
  BY DEF IInv, TypeInv
<1>2. CASE Roomy
  BY <1>1, <1>2, RoomyAvailable
<1>3. CASE Steady
  <2>1. Exact /\ NLog <= NBuf
    BY <1>3 DEF CInv, Steady
  <2>2. \A x \in Addr : Cached(cache, x) /\ Ref(cache, x) # 0 => Pending(x)
    BY <1>3, <2>1, SteadyRefs DEF OldRef
  <2>3. QED
    BY <1>1, <2>1, <2>2, PinsLeaveRoom
<1>4. QED
  BY <1>2, <1>3 DEF Ample

\* The second bread of a loop finds a buffer too.
LEMMA SecondBread ==
    ASSUME IInv, CInv, Ample, NEW src \in Addr, NEW dst \in Addr, NEW d, NEW c1,
           Loaded(cache, src, 1, d, c1), Pending(src) \/ Pending(dst)
    PROVE  Available(c1, dst)
<1>1. TypeInv /\ CacheOK(c1) /\ Others(cache, c1, src) /\ Cached(c1, src)
  BY DEF IInv, Loaded
<1>2. CASE Roomy
  BY <1>1, <1>2, RoomyAvailable
<1>3. CASE Steady
  <2>1. Exact /\ NLog <= NBuf
    BY <1>3 DEF CInv, Steady
  <2>2. CASE src = dst
    BY <1>1, <2>2 DEF Available
  <2>3. CASE Pending(dst) /\ src # dst
    <3>1. Cached(cache, dst) /\ Ref(cache, dst) # 0
      BY <1>3, <2>1, <2>3, SteadyRefs DEF OldRef
    <3>2. Cached(c1, dst)
      BY <1>1, <2>3, <3>1 DEF Others, Same, Evicted
    <3>3. QED
      BY <3>2 DEF Available
  <2>4. CASE Pending(src)
    <3>1. ASSUME NEW x \in Addr, Cached(c1, x), Ref(c1, x) # 0, x # src PROVE Pending(x)
      <4>1. Same(cache, c1, x)
        BY <1>1, <3>1 DEF Others, Evicted
      <4>2. Cached(cache, x) /\ Ref(cache, x) # 0
        BY <3>1, <4>1 DEF Same
      <4>3. QED
        BY <1>3, <2>1, <4>2, SteadyRefs DEF OldRef
    <3>2. \A x \in Addr : Cached(c1, x) /\ Ref(c1, x) # 0 => Pending(x)
      BY <2>4, <3>1
    <3>3. QED
      BY <1>1, <2>1, <3>2, PinsLeaveRoom
  <2>5. QED
    BY <2>2, <2>3, <2>4
<1>4. QED
  BY <1>2, <1>3 DEF Ample

\* A dirty block is not recycled.
LEMMA DirtyStays ==
    ASSUME IInv, CInv, Ample, NEW x \in Addr, NEW r, CacheOK(r), Evicted(cache, r, x)
    PROVE  ~Pending(x)
<1>1. CASE Roomy
  BY <1>1, FullHoldsAll DEF Evicted
<1>2. CASE Steady
  <2>1. Exact
    BY <1>2 DEF CInv
  <2>2. QED
    BY <1>2, <2>1, SteadyRefs DEF Evicted, OldRef
<1>3. QED
  BY <1>1, <1>2 DEF Ample

-----------------------------------------------------------------------------
(* What a step does to the contents bread finds. *)

LEMMA HomeFacts == \A x \in Block \cup Slot : x \in Addr /\ x # LogStart
  BY AddrFacts

\* A block the step leaves alone or recycles.
LEMMA SeenOther ==
    ASSUME IInv, CInv, Ample, CacheOK(cache'), NEW x \in Block \cup Slot, disk'[x] = disk[x],
           Same(cache, cache', x) \/ Evicted(cache, cache', x)
    PROVE  Seen(x)' = Seen(x) /\ (Dirty(x) => Cached(cache', x))
<1>1. x \in Addr
  BY HomeFacts
<1>2. /\ ~Dirty(x) => Seen(x) = disk[x]
      /\ x \in Block => (Dirty(x) => Cached(cache, x))
  BY DEF CInv, CleanInv
<1>3. Dirty(x) => x \in Block
  BY PendingBlock DEF Dirty, IInv
<1>4. CASE Same(cache, cache', x)
  BY <1>2, <1>3, <1>4 DEF Same, Seen, Content
<1>5. CASE Evicted(cache, cache', x)
  <2>1. ~Dirty(x)
    BY <1>1, <1>5, DirtyStays DEF Dirty
  <2>2. QED
    BY <1>2, <1>5, <2>1 DEF Evicted, Seen, Content
<1>6. QED
  BY <1>4, <1>5

LEMMA SeenLoaded ==
    ASSUME IInv, CInv, Ample, NEW a \in Addr, NEW n, NEW e, Loaded(cache, a, n, e, cache'),
           \A x \in Block \cup Slot : x # a => disk'[x] = disk[x]
    PROVE  /\ \A x \in Block \cup Slot : x # a => Seen(x)' = Seen(x)
           /\ \A x \in Block \cup Slot : x = a => Seen(x)' = e
           /\ \A x \in Block : Dirty(x) \/ x = a => Cached(cache', x)
<1>1. CacheOK(cache') /\ Cached(cache', a) /\ Data(cache', a) = e /\ Others(cache, cache', a)
  BY DEF Loaded
<1>2. ASSUME NEW x \in Block \cup Slot, x # a PROVE Seen(x)' = Seen(x) /\ (Dirty(x) => Cached(cache', x))
  BY <1>1, <1>2, HomeFacts, SeenOther DEF Others
<1>3. \A x \in Block \cup Slot : x = a => Seen(x)' = e
  BY <1>1 DEF Seen, Content
<1>4. QED
  BY <1>1, <1>2, <1>3

LEMMA SeenCopied ==
    ASSUME IInv, CInv, Ample, NEW src \in Block \cup Slot, NEW dst \in Block \cup Slot, src # dst, NEW n,
           Copied(cache, src, dst, n, Seen(src), cache'), disk' = [disk EXCEPT ![dst] = Seen(src)]
    PROVE  /\ \A x \in Block \cup Slot : x # dst => Seen(x)' = Seen(x) /\ disk'[x] = disk[x]
           /\ \A x \in Block \cup Slot : x = dst => Seen(x)' = Seen(src) /\ disk'[x] = Seen(src)
           /\ \A x \in Block : Dirty(x) => Cached(cache', x)
           /\ disk'[LogStart] = disk[LogStart]
<1>1. /\ CacheOK(cache') /\ Cached(cache', src) /\ Data(cache', src) = Seen(src)
      /\ Cached(cache', dst) /\ Data(cache', dst) = Seen(src)
      /\ \A x \in Addr : x # src /\ x # dst => Same(cache, cache', x) \/ Evicted(cache, cache', x)
  BY DEF Copied
<1>2. disk \in [Addr -> Val \cup Seq(Block)] /\ dst \in Addr /\ LogStart \in Addr /\ dst # LogStart
  BY HomeFacts, AddrFacts DEF IInv, TypeInv
<1>3. (\A x \in Addr : x # dst => disk'[x] = disk[x]) /\ disk'[dst] = Seen(src)
  BY <1>2
<1>4. ASSUME NEW x \in Block \cup Slot, x # dst, x # src
      PROVE  Seen(x)' = Seen(x) /\ (Dirty(x) => Cached(cache', x))
  BY <1>1, <1>3, <1>4, HomeFacts, SeenOther
<1>5. \A x \in Block \cup Slot : x = src => Seen(x)' = Seen(src)
  BY <1>1 DEF Seen, Content
<1>6. \A x \in Block \cup Slot : x = dst => Seen(x)' = Seen(src)
  BY <1>1 DEF Seen, Content
<1>7. ASSUME NEW x \in Block \cup Slot, x # dst PROVE Seen(x)' = Seen(x) /\ disk'[x] = disk[x]
  <2>1. disk'[x] = disk[x]
    BY <1>3, <1>7, HomeFacts
  <2>2. CASE x = src
    BY <1>5, <2>1, <2>2
  <2>3. CASE x # src
    BY <1>4, <1>7, <2>1, <2>3
  <2>4. QED
    BY <2>2, <2>3
<1>8. \A x \in Block : Dirty(x) => Cached(cache', x)
  BY <1>1, <1>4
<1>9. QED
  BY <1>2, <1>3, <1>6, <1>7, <1>8

\* References that a step does not change.
LEMMA OldRefOther ==
    ASSUME NEW x, Same(cache, cache', x) \/ Evicted(cache, cache', x)
    PROVE  OldRef(cache', x) = OldRef(cache, x)
  BY DEF Same, Evicted, OldRef

LEMMA ExactStep ==
    ASSUME TypeInv, Exact,
           \A x \in Addr : \/ OldRef(cache', x) = OldRef(cache, x) /\ (Pending(x) => Pending(x)')
                           \/ OldRef(cache', x) <= IF Pending(x)' THEN 1 ELSE 0
    PROVE  Exact'
<1>1. ASSUME NEW x \in Addr, OldRef(cache', x) = OldRef(cache, x), Pending(x) => Pending(x)'
      PROVE  OldRef(cache', x) <= IF Pending(x)' THEN 1 ELSE 0
  <2>1. OldRef(cache, x) <= IF Pending(x) THEN 1 ELSE 0
    BY DEF Exact
  <2>2. OldRef(cache, x) \in Int
    BY RefType DEF TypeInv
  <2>3. QED
    BY <1>1, <2>1, <2>2
<1>2. QED
  BY <1>1 DEF Exact

LEMMA UntouchedExact ==
    ASSUME TypeInv, Exact, cache' = cache, \A x \in Addr : Pending(x) => Pending(x)'
    PROVE  Exact'
  BY ExactStep

LEMMA LoadedExact ==
    ASSUME TypeInv, Exact, NEW a \in Addr, NEW e, Loaded(cache, a, 0, e, cache'),
           \A x \in Addr : Pending(x) => Pending(x)'
    PROVE  Exact'
<1>1. Cached(cache', a) /\ Ref(cache', a) = OldRef(cache, a) + 0 /\ Others(cache, cache', a)
  BY DEF Loaded
<1>2. OldRef(cache, a) \in Int
  BY RefType DEF TypeInv
<1>3. OldRef(cache', a) = OldRef(cache, a)
  BY <1>1, <1>2 DEF OldRef
<1>4. \A x \in Addr : OldRef(cache', x) = OldRef(cache, x)
  BY <1>1, <1>3, OldRefOther DEF Others
<1>5. QED
  BY <1>4, ExactStep

LEMMA PinnedExact ==
    ASSUME TypeInv, Exact, NEW b \in Addr, NEW e, Loaded(cache, b, 1, e, cache'), ~Pending(b), Pending(b)',
           \A x \in Addr : Pending(x) => Pending(x)'
    PROVE  Exact'
<1>1. Cached(cache', b) /\ Ref(cache', b) = OldRef(cache, b) + 1 /\ Others(cache, cache', b)
  BY DEF Loaded
<1>2. OldRef(cache, b) \in Int /\ OldRef(cache, b) <= 0
  BY RefType DEF TypeInv, Exact
<1>3. OldRef(cache', b) <= 1
  BY <1>1, <1>2 DEF OldRef
<1>4. \A x \in Addr : x # b => OldRef(cache', x) = OldRef(cache, x)
  BY <1>1, OldRefOther DEF Others
<1>5. \A x \in Addr : \/ OldRef(cache', x) = OldRef(cache, x) /\ (Pending(x) => Pending(x)')
                      \/ OldRef(cache', x) <= IF Pending(x)' THEN 1 ELSE 0
  <2> TAKE x \in Addr
  <2>1. CASE x = b
    BY <1>3, <2>1
  <2>2. CASE x # b
    BY <1>4, <2>2
  <2>3. QED
    BY <2>1, <2>2
<1>6. QED
  BY <1>5, ExactStep

LEMMA CopiedExact ==
    ASSUME TypeInv, Exact, NEW src \in Addr, NEW dst \in Addr, NEW n, NEW d,
           Copied(cache, src, dst, n, d, cache'),
           \A x \in Addr : x # dst => (Pending(x) => Pending(x)'),
           \/ n = 0 /\ (Pending(dst) => Pending(dst)')
           \/ n = -1 /\ Pending(dst)
    PROVE  Exact'
<1>1. /\ Cached(cache', src) /\ Ref(cache', src) = OldRef(cache, src)
      /\ Cached(cache', dst) /\ Ref(cache', dst) = OldRef(cache, dst) + n
      /\ \A x \in Addr : x # src /\ x # dst => Same(cache, cache', x) \/ Evicted(cache, cache', x)
  BY DEF Copied
<1>2. OldRef(cache, dst) \in Int /\ (OldRef(cache, dst) <= IF Pending(dst) THEN 1 ELSE 0)
  BY RefType DEF TypeInv, Exact
<1>3. OldRef(cache', dst) = OldRef(cache, dst) + n /\ OldRef(cache', src) = OldRef(cache, src)
  BY <1>1 DEF OldRef
<1>4. \A x \in Addr : x # dst => OldRef(cache', x) = OldRef(cache, x)
  BY <1>1, <1>3, OldRefOther
<1>5. OldRef(cache', dst) <= IF Pending(dst)' THEN 1 ELSE 0
  <2>1. CASE n = 0 /\ (Pending(dst) => Pending(dst)')
    BY <1>2, <1>3, <2>1
  <2>2. CASE n = -1 /\ Pending(dst)
    BY <1>2, <1>3, <2>2
  <2>3. QED
    BY <2>1, <2>2
<1>6. \A x \in Addr : \/ OldRef(cache', x) = OldRef(cache, x) /\ (Pending(x) => Pending(x)')
                      \/ OldRef(cache', x) <= IF Pending(x)' THEN 1 ELSE 0
  <2> TAKE x \in Addr
  <2>1. CASE x = dst
    BY <1>5, <2>1
  <2>2. CASE x # dst
    BY <1>4, <2>2
  <2>3. QED
    BY <2>1, <2>2
<1>7. QED
  BY <1>6, ExactStep

-----------------------------------------------------------------------------
(* The phases of commit. *)

Phases == {"write_log", "write_head", "install", "clear_head", "release"}

LEMMA PhaseAt ==
    ASSUME IInv, NEW t \in Thread, pc[t] \in Phases
    PROVE  /\ \A p \in Phases : Phase(p) <=> pc[t] = p
           /\ boot = "up" /\ committing /\ Ops = {} /\ (Installing <=> pc[t] = "install")
<1>1. TypeInv /\ CommitInv /\ Committer(t)
  BY DEF IInv, Committer, Phases
<1>2. /\ boot = "up" /\ committing /\ Ops = {}
      /\ \A u \in Thread : u # t => ~Committer(u)
      /\ Installing <=> pc[t] = "install"
  BY <1>1, Alone
<1>3. \A p \in Phases : Phase(p) <=> pc[t] = p
  BY <1>2 DEF Phase, Phases, Committer
<1>4. QED
  BY <1>2, <1>3

LEMMA NoPhase ==
    ASSUME IInv, ~committing \/ boot # "up"
    PROVE  /\ \A p \in Phases : ~Phase(p)
           /\ Installing <=> boot = "install"
<1>1. \A t \in Thread : ~Committer(t)
  BY DEF IInv, CommitInv
<1>2. QED
  BY <1>1 DEF Phase, Phases, Committer, Installing

\* With no thread committing the header on the disk is empty.
LEMMA QuietHead ==
    ASSUME IInv, CInv, boot = "up", ~committing
    PROVE  disk[LogStart] = << >> /\ (Ops = {} => lh = << >>) /\ ~Installing
<1>1. (\A p \in Phases : ~Phase(p)) /\ ~Installing
  BY NoPhase
<1>2. QED
  BY <1>1 DEF CInv, HeadInv, Phases

\* The same invariant, phase by phase.
InQuiet == boot = "up" /\ ~committing /\ disk[LogStart] = << >> /\ (Ops = {} => lh = << >>)
InLog(t) ==
    /\ pc[t] = "write_log" /\ disk[LogStart] = << >>
    /\ \A j \in DOMAIN lh : j < tail => disk[j] = Seen(lh[j])
InHead(t) ==
    /\ pc[t] = "write_head" /\ disk[LogStart] = << >>
    /\ \A j \in DOMAIN lh : disk[j] = Seen(lh[j])
InInstall(t) ==
    /\ pc[t] = "install" /\ disk[LogStart] = lh
    /\ \A j \in DOMAIN lh : tail <= j => disk[j] = Seen(lh[j])
    /\ \A j \in DOMAIN lh : j < tail => disk[lh[j]] = disk[j]
InClear(t) ==
    /\ pc[t] = "clear_head" /\ lh = << >>
    /\ \A j \in DOMAIN disk[LogStart] : disk[disk[LogStart][j]] = disk[j]
InRelease(t) == pc[t] = "release" /\ disk[LogStart] = << >> /\ lh = << >>
InRead == boot = "read_head" /\ lh = << >>
InReplay ==
    /\ boot = "install" /\ disk[LogStart] = lh
    /\ \A j \in DOMAIN lh : j < tail => disk[lh[j]] = disk[j]
InErase ==
    /\ boot = "clear_head" /\ lh = << >>
    /\ \A j \in DOMAIN disk[LogStart] : disk[disk[LogStart][j]] = disk[j]

Committing(t) == InLog(t) \/ InHead(t) \/ InInstall(t) \/ InClear(t) \/ InRelease(t)
Outside == InQuiet \/ InRead \/ InReplay \/ InErase

\* It is what HeadInv and SlotInv say ...
LEMMA PhaseFacts ==
    ASSUME IInv, CInv
    PROVE  /\ \A t \in Thread : pc[t] \in Phases => Committing(t)
           /\ boot # "up" \/ ~committing => Outside
<1>1. ASSUME NEW t \in Thread, pc[t] \in Phases PROVE Committing(t)
  <2>1. /\ \A p \in Phases : Phase(p) <=> pc[t] = p
        /\ boot = "up" /\ (Installing <=> pc[t] = "install")
    BY <1>1, PhaseAt
  <2>2. CASE pc[t] = "write_log"
    BY <2>1, <2>2 DEF CInv, HeadInv, SlotInv, Committing, InLog, Phases
  <2>3. CASE pc[t] = "write_head"
    BY <2>1, <2>3 DEF CInv, HeadInv, SlotInv, Committing, InHead, Phases
  <2>4. CASE pc[t] = "install"
    BY <2>1, <2>4 DEF CInv, HeadInv, SlotInv, Committing, InInstall, Phases
  <2>5. CASE pc[t] = "clear_head"
    BY <2>1, <2>5 DEF CInv, HeadInv, SlotInv, Committing, InClear, Phases
  <2>6. CASE pc[t] = "release"
    BY <2>1, <2>6 DEF CInv, HeadInv, SlotInv, Committing, InRelease, Phases
  <2>7. QED
    BY <1>1, <2>2, <2>3, <2>4, <2>5, <2>6 DEF Phases
<1>2. ASSUME boot # "up" \/ ~committing PROVE Outside
  <2>1. (\A p \in Phases : ~Phase(p)) /\ (Installing <=> boot = "install")
    BY <1>2, NoPhase
  <2>2. boot \in {"read_head", "install", "clear_head", "up"}
    BY DEF IInv, TypeInv
  <2>3. CASE boot = "up"
    BY <1>2, <2>1, <2>3, QuietHead DEF Outside, InQuiet
  <2>4. CASE boot = "read_head"
    BY <2>4 DEF CInv, HeadInv, Outside, InRead
  <2>5. CASE boot = "install"
    BY <2>1, <2>5 DEF CInv, HeadInv, SlotInv, Outside, InReplay
  <2>6. CASE boot = "clear_head"
    BY <2>6 DEF CInv, HeadInv, SlotInv, Outside, InErase
  <2>7. QED
    BY <2>2, <2>3, <2>4, <2>5, <2>6
<1>3. QED
  BY <1>1, <1>2

\* ... and all they say.
LEMMA PhaseEnough ==
    ASSUME IInv, Outside \/ \E t \in Thread : Committing(t)
    PROVE  HeadInv /\ SlotInv
<1>1. ASSUME NEW t \in Thread, Committing(t) PROVE HeadInv /\ SlotInv
  <2>0. pc[t] \in Phases
    BY <1>1 DEF Committing, InLog, InHead, InInstall, InClear, InRelease, Phases
  <2>1. /\ \A p \in Phases : Phase(p) <=> pc[t] = p
        /\ boot = "up" /\ committing /\ Ops = {} /\ (Installing <=> pc[t] = "install")
    BY <2>0, PhaseAt
  <2>a. Committer(t)
    BY <2>0 DEF Committer, Phases
  <2>b. /\ Phase("write_log") <=> pc[t] = "write_log"
        /\ Phase("write_head") <=> pc[t] = "write_head"
        /\ Phase("install") <=> pc[t] = "install"
        /\ Phase("clear_head") <=> pc[t] = "clear_head"
        /\ Phase("release") <=> pc[t] = "release"
    BY <2>1 DEF Phases
  <2>2. HeadInv
    BY <1>1, <2>1, <2>a, <2>b DEF HeadInv, Committing, InLog, InHead, InInstall, InClear, InRelease
  <2>3. CASE InLog(t)
    BY <2>1, <2>2, <2>3, <2>b DEF SlotInv, InLog
  <2>4. CASE InHead(t)
    BY <2>1, <2>2, <2>4, <2>b DEF SlotInv, InHead
  <2>5. CASE InInstall(t)
    BY <2>1, <2>2, <2>5, <2>b DEF SlotInv, InInstall
  <2>6. CASE InClear(t)
    BY <2>1, <2>2, <2>6, <2>b DEF SlotInv, InClear
  <2>7. CASE InRelease(t)
    BY <2>1, <2>2, <2>7, <2>b DEF SlotInv, InRelease
  <2>8. QED
    BY <1>1, <2>3, <2>4, <2>5, <2>6, <2>7 DEF Committing
<1>2. ASSUME Outside PROVE HeadInv /\ SlotInv
  <2>0. boot # "up" \/ ~committing
    BY <1>2 DEF Outside, InQuiet, InRead, InReplay, InErase
  <2>1. (\A p \in Phases : ~Phase(p)) /\ (Installing <=> boot = "install")
    BY <2>0, NoPhase
  <2>b. ~Phase("write_log") /\ ~Phase("write_head") /\ ~Phase("install") /\ ~Phase("clear_head") /\ ~Phase("release")
    BY <2>1 DEF Phases
  <2>c. ~committing
    BY <2>0 DEF IInv, CommitInv
  <2>2. HeadInv
    BY <1>2, <2>1, <2>b, <2>c DEF HeadInv, Outside, InQuiet, InRead, InReplay, InErase
  <2>3. SlotInv
    BY <1>2, <2>1, <2>b DEF SlotInv, Outside, InQuiet, InRead, InReplay, InErase
  <2>4. QED
    BY <2>2, <2>3
<1>3. QED
  BY <1>1, <1>2

LEMMA PhaseImpl == IInv /\ (Outside \/ \E t \in Thread : Committing(t)) => HeadInv /\ SlotInv
  BY PhaseEnough

LEMMA PhaseNext ==
    (IInv /\ (Outside \/ \E t \in Thread : Committing(t)))' => (HeadInv /\ SlotInv)'
  BY PhaseImpl, PTL

LEMMA CAssembled ==
    ASSUME IInv', Outside' \/ \E t \in Thread : Committing(t)',
           \A x \in Block \cup Slot : Dirty(x)' \/ Seen(x)' = disk'[x],
           \A x \in Block : Dirty(x)' => Cached(cache', x),
           Steady => Exact'
    PROVE  CInv'
<1>1. (HeadInv /\ SlotInv)'
  BY PhaseNext
<1>2. CleanInv'
  BY DEF CleanInv
<1>3. QED
  BY <1>1, <1>2 DEF CInv, Steady

-----------------------------------------------------------------------------
(* Steps that touch neither the cache nor the disk. *)

\* They keep everything but the phase.
LEMMA StillC ==
    ASSUME IInv, CInv, IInv', UNCHANGED <<disk, cache, lh, boot>>, \A x \in Addr : Pending(x)' <=> Pending(x),
           Outside' \/ \E t \in Thread : Committing(t)'
    PROVE  CInv' /\ \A x : Seen(x)' = Seen(x)
<1>1. ASSUME NEW x PROVE Seen(x)' = Seen(x)
  BY DEF Seen
<1>2. ASSUME NEW x \in Block \cup Slot PROVE Dirty(x)' <=> Dirty(x)
  BY HomeFacts DEF Dirty
<1>3. CleanInv
  BY DEF CInv
<1>4. \A x \in Block \cup Slot : Dirty(x)' \/ Seen(x)' = disk'[x]
  <2> TAKE x \in Block \cup Slot
  <2>1. Dirty(x) \/ Seen(x) = disk[x]
    BY <1>3 DEF CleanInv
  <2>2. QED
    BY <1>1, <1>2, <2>1
<1>5. \A x \in Block : Dirty(x)' => Cached(cache', x)
  BY <1>2, <1>3 DEF CleanInv
<1>6. Steady => Exact'
  BY UntouchedExact DEF CInv, IInv
<1>7. QED
  BY <1>1, <1>4, <1>5, <1>6, CAssembled

\* A thread that is not committing moves to where it is not committing either.
LEMMA StandByC ==
    ASSUME IInv, CInv, IInv', NEW t \in Thread, NEW s, pc[t] \notin Phases, s \notin Phases,
           pc' = [pc EXCEPT ![t] = s], UNCHANGED <<disk, cache, lh, boot, committing, tail>>,
           ~committing => (Ops' = {} => Ops = {}), boot = "up"
    PROVE  CInv' /\ \A x : Seen(x)' = Seen(x)
<1>1. pc \in [Thread -> Pc]
  BY DEF IInv, TypeInv
<1>2. pc'[t] = s /\ \A u \in Thread : u # t => pc'[u] = pc[u]
  BY <1>1
<1>3. ASSUME NEW u \in Thread, NEW p \in Phases PROVE pc'[u] = p <=> pc[u] = p
  BY <1>2
<1>4. Installing' <=> Installing
  BY <1>3 DEF Installing, Phases
<1>5. \A x \in Addr : Pending(x)' <=> Pending(x)
  BY <1>4 DEF Pending
<1>6. ASSUME NEW x PROVE Seen(x)' = Seen(x)
  BY DEF Seen
<1>7. CASE ~committing
  <2>1. disk[LogStart] = << >> /\ (Ops = {} => lh = << >>)
    BY <1>7, QuietHead
  <2>2. InQuiet'
    BY <1>7, <2>1 DEF InQuiet
  <2>3. QED
    BY <1>5, <2>2, StillC DEF Outside
<1>8. CASE committing
  <2>1. PICK u \in Thread : Committer(u)
    BY <1>8 DEF CInv, HeadInv
  <2>2. pc[u] \in Phases
    BY <2>1 DEF Committer, Phases
  <2>3. Committing(u)
    BY <2>2, PhaseFacts
  <2>4. pc'[u] = pc[u]
    BY <1>3, <2>2
  <2>5. Committing(u)'
    BY <1>6, <2>3, <2>4 DEF Committing, InLog, InHead, InInstall, InClear, InRelease
  <2>6. QED
    BY <1>5, <2>5, StillC
<1>9. QED
  BY <1>7, <1>8 DEF IInv, TypeInv

LEMMA BeginC ==
    ASSUME IInv, CInv, NEW t \in Thread, BeginOp(t)
    PROVE  CInv' /\ \A x : Seen(x)' = Seen(x)
<1>1. /\ UNCHANGED <<disk, cache, lh, committing, tail, boot, wrote>> /\ boot = "up" /\ pc[t] \in {"idle", "begin"}
      /\ pc' = [pc EXCEPT ![t] = "waiting"] \/ pc' = [pc EXCEPT ![t] = "active"]
  BY DEF BeginOp
<1>2. IInv' /\ pc[t] \notin Phases /\ "waiting" \notin Phases /\ "active" \notin Phases
  BY <1>1, BeginStep DEF Phases
<1>3. Ops' = {} => Ops = {}
  <2>1. pc \in [Thread -> Pc]
    BY DEF IInv, TypeInv
  <2>2. \A u \in Thread : pc[u] = "active" => pc'[u] = "active"
    BY <1>1, <2>1
  <2>3. QED
    BY <2>2 DEF Ops
<1>4. QED
  BY <1>1, <1>2, <1>3, StandByC

LEMMA EndC ==
    ASSUME IInv, CInv, NEW t \in Thread, EndOp(t)
    PROVE  CInv' /\ \A x : Seen(x)' = Seen(x)
<1>1. UNCHANGED <<disk, cache, lh, boot>> /\ pc[t] = "active"
  BY DEF EndOp
<1>2. IInv' /\ TypeInv /\ CommitInv
  BY EndStep DEF IInv
<1>3. boot = "up" /\ t \in Ops /\ ~committing /\ pc \in [Thread -> Pc] /\ IsFiniteSet(Ops) /\ outstanding = Cardinality(Ops)
  BY <1>1, <1>2 DEF CommitInv, Ops, TypeInv
<1>4. pc[t] \notin Phases /\ "idle" \notin Phases
  BY <1>1 DEF Phases
<1>5. CASE outstanding # 1
  <2>1. pc' = [pc EXCEPT ![t] = "idle"] /\ UNCHANGED <<committing, tail>>
    BY <1>5 DEF EndOp
  <2>2. Ops' # {}
    <3>1. Ops \ {t} # {}
      <4>1. SUFFICES ASSUME Ops = {t} PROVE FALSE
        BY <1>3
      <4>2. Cardinality({t}) = 1
        BY FS_Singleton
      <4>3. QED
        BY <1>3, <1>5, <4>1, <4>2
    <3>2. Ops' = Ops \ {t}
      BY <1>3, <2>1 DEF Ops
    <3>3. QED
      BY <3>1, <3>2
  <2>3. QED
    BY <1>1, <1>2, <1>3, <1>4, <2>1, <2>2, StandByC
<1>6. CASE outstanding = 1
  <2>1. tail' = 1 /\ pc'[t] = IF lh = << >> THEN "release" ELSE "write_log"
    BY <1>3, <1>6 DEF EndOp
  <2>2. disk[LogStart] = << >> /\ ~Installing
    BY <1>3, QuietHead
  <2>3. \A u \in Thread : u # t => pc'[u] = pc[u]
    BY <1>3, <1>6 DEF EndOp
  <2>4. ~Installing'
    BY <1>1, <1>3, <2>1, <2>2, <2>3 DEF Installing
  <2>5. \A x \in Addr : Pending(x)' <=> Pending(x)
    BY <1>1, <2>2, <2>4 DEF Pending
  <2>6. Committing(t)'
    <3>1. CASE lh = << >>
      BY <1>1, <2>1, <2>2, <3>1 DEF Committing, InRelease
    <3>2. CASE lh # << >>
      <4>1. \A j \in DOMAIN lh : ~(j < 1)
        BY <1>2 DEF TypeInv
      <4>2. InLog(t)'
        BY <1>1, <2>1, <2>2, <3>2, <4>1 DEF InLog
      <4>3. QED
        BY <4>2 DEF Committing
    <3>3. QED
      BY <3>1, <3>2
  <2>7. QED
    BY <1>1, <1>2, <2>5, <2>6, StillC
<1>7. QED
  BY <1>5, <1>6

LEMMA ReleaseC ==
    ASSUME IInv, CInv, NEW t \in Thread, Release(t)
    PROVE  CInv' /\ \A x : Seen(x)' = Seen(x)
<1>1. UNCHANGED <<disk, cache, lh, outstanding, tail, boot, wrote>> /\ pc[t] = "release" /\ committing' = FALSE
  BY DEF Release
<1>2. IInv'
  BY ReleaseStep
<1>3. pc[t] \in Phases
  BY <1>1 DEF Phases
<1>4. boot = "up" /\ Committing(t)
  BY <1>3, PhaseAt, PhaseFacts
<1>5. disk[LogStart] = << >> /\ lh = << >>
  BY <1>1, <1>4 DEF Committing, InLog, InHead, InInstall, InClear, InRelease
<1>6. InQuiet'
  BY <1>1, <1>4, <1>5 DEF InQuiet
<1>7. \A x \in Addr : Pending(x)' <=> Pending(x)
  <2>1. DOMAIN lh = {} /\ DOMAIN lh' = {}
    BY <1>1, <1>5
  <2>2. QED
    BY <2>1 DEF Pending
<1>8. QED
  BY <1>1, <1>2, <1>6, <1>7, StillC DEF Outside

LEMMA StutterC ==
    ASSUME IInv, CInv, UNCHANGED vars
    PROVE  CInv' /\ \A x : Seen(x)' = Seen(x)
<1>1. UNCHANGED <<disk, cache, lh, outstanding, committing, pc, tail, boot, wrote>>
  BY DEF vars
<1>2. IInv'
  BY StutterStep
<1>3. \A x \in Addr : Pending(x)' <=> Pending(x)
  BY <1>1 DEF Pending, Installing
<1>4. ASSUME NEW x PROVE Seen(x)' = Seen(x)
  BY <1>1 DEF Seen
<1>5. HeadInv'
  BY <1>1 DEF CInv, HeadInv, Phase, Installing, Ops, Committer
<1>6. SlotInv'
  BY <1>1, <1>4 DEF CInv, SlotInv, Phase, Installing
<1>7. ASSUME NEW x \in Block \cup Slot PROVE Dirty(x)' <=> Dirty(x)
  BY <1>1, <1>3, HomeFacts DEF Dirty
<1>8. CleanInv'
  BY <1>1, <1>4, <1>7 DEF CInv, CleanInv
<1>9. Steady => Exact'
  BY <1>1, <1>3, UntouchedExact DEF CInv, IInv
<1>10. QED
  BY <1>4, <1>5, <1>6, <1>8, <1>9 DEF CInv, Steady

-----------------------------------------------------------------------------
(* Blocks are read and written. *)

LEMMA WriteC ==
    ASSUME IInv, CInv, Ample, NEW t \in Thread, NEW b \in Block, NEW v \in Val, WriteBlock(t, b, v)
    PROVE  CInv' /\ (\A x \in Block \cup Slot : x # b => Seen(x)' = Seen(x)) /\ Seen(b)' = v
<1>1. TypeInv /\ CommitInv /\ ReserveInv /\ Disciplined /\ IInv'
  BY WriteStep DEF IInv, Ample
<1>2. /\ boot = "up" /\ pc[t] = "active" /\ Cardinality(wrote[t] \cup {b}) <= OpBlocks
      /\ UNCHANGED <<disk, outstanding, committing, pc, tail, boot>>
  BY DEF WriteBlock
<1>3. t \in Ops /\ Ops' = Ops /\ ~committing
  BY <1>1, <1>2 DEF Ops, CommitInv
<1>4. disk[LogStart] = << >> /\ ~Installing
  BY <1>2, <1>3, QuietHead
<1>5. ~Installing'
  BY <1>2, <1>4 DEF Installing
<1>6. Contains(lh, b) \/ Len(lh) < NLog - 1
  BY <1>1, <1>2, <1>3, Logged
<1>7. /\ lh \in Seq(Block) /\ Len(lh) \in Nat /\ DOMAIN lh = 1 .. Len(lh)
      /\ b \in Addr
  BY <1>1, AddrFacts DEF TypeInv
<1>8. \/ Contains(lh, b) /\ lh' = lh /\ Loaded(cache, b, 0, v, cache')
      \/ ~Contains(lh, b) /\ lh' = Append(lh, b) /\ Loaded(cache, b, 1, v, cache')
  <2>1. \/ /\ Len(lh) >= NLog - 1 \/ Contains(lh, b)
           /\ lh' = lh /\ Loaded(cache, b, 0, v, cache')
        \/ /\ Len(lh) < NLog - 1 /\ ~Contains(lh, b)
           /\ lh' = Append(lh, b) /\ Loaded(cache, b, 1, v, cache')
    BY <1>1, LogWriteOK DEF WriteBlock
  <2>2. Len(lh) >= NLog - 1 => Contains(lh, b)
    BY <1>6, <1>7, NumFacts
  <2>3. QED
    BY <2>1, <2>2
<1>9. ASSUME NEW x PROVE (Pending(x) <=> Contains(lh, x)) /\ (Pending(x)' <=> Contains(lh', x))
  <2>1. Pending(x) <=> Contains(lh, x)
    BY <1>4, <1>7 DEF Pending, Contains
  <2>2. lh' \in Seq(Block)
    BY <1>1 DEF IInv, TypeInv
  <2>3. Pending(x)' <=> Contains(lh', x)
    BY <1>5, <2>2 DEF Pending, Contains
  <2>4. QED
    BY <2>1, <2>3
<1>10. \A x : Contains(lh', x) <=> Contains(lh, x) \/ x = b
  <2>1. CASE Contains(lh, b) /\ lh' = lh
    BY <2>1
  <2>2. CASE lh' = Append(lh, b)
    <3>1. /\ DOMAIN lh' = 1 .. Len(lh) + 1 /\ lh'[Len(lh) + 1] = b
          /\ \A j \in DOMAIN lh : j \in DOMAIN lh' /\ lh'[j] = lh[j]
      BY <1>7, <2>2
    <3>2. \A j \in DOMAIN lh' : j \in DOMAIN lh \/ j = Len(lh) + 1
      BY <1>7, <3>1
    <3>3. Len(lh) + 1 \in DOMAIN lh'
      BY <1>7, <3>1
    <3>4. QED
      BY <3>1, <3>2, <3>3 DEF Contains
  <2>3. QED
    BY <1>8, <2>1, <2>2
<1>11. PICK n \in {0, 1} : Loaded(cache, b, n, v, cache')
  BY <1>8
<1>12. /\ \A x \in Block \cup Slot : x # b => Seen(x)' = Seen(x)
       /\ \A x \in Block \cup Slot : x = b => Seen(x)' = v
       /\ \A x \in Block : Dirty(x) \/ x = b => Cached(cache', x)
  BY <1>2, <1>7, <1>11, SeenLoaded
<1>13. ASSUME NEW x PROVE Dirty(x)' <=> Dirty(x) \/ x = b
  BY <1>2, <1>9, <1>10 DEF Dirty
<1>14. \A x \in Block \cup Slot : Dirty(x)' \/ Seen(x)' = disk'[x]
  <2> TAKE x \in Block \cup Slot
  <2>1. Dirty(x) \/ Seen(x) = disk[x]
    BY DEF CInv, CleanInv
  <2>2. CASE x = b
    BY <1>13, <2>2
  <2>3. CASE x # b
    BY <1>2, <1>12, <1>13, <2>1, <2>3
  <2>4. QED
    BY <2>2, <2>3
<1>15. \A x \in Block : Dirty(x)' => Cached(cache', x)
  BY <1>12, <1>13
<1>16. Steady => Exact'
  <2> SUFFICES ASSUME Steady PROVE Exact'
    OBVIOUS
  <2>1. Exact
    BY DEF CInv
  <2>2. \A x \in Addr : Pending(x) => Pending(x)'
    BY <1>9, <1>10
  <2>3. CASE Loaded(cache, b, 0, v, cache')
    BY <1>1, <1>7, <2>1, <2>2, <2>3, LoadedExact
  <2>4. CASE ~Contains(lh, b) /\ Loaded(cache, b, 1, v, cache')
    BY <1>1, <1>7, <1>9, <1>10, <2>1, <2>2, <2>4, PinnedExact
  <2>5. QED
    BY <1>8, <2>3, <2>4
<1>17. InQuiet'
  BY <1>2, <1>3, <1>4 DEF InQuiet
<1>18. CInv'
  BY <1>1, <1>14, <1>15, <1>16, <1>17, CAssembled DEF Outside
<1>19. QED
  BY <1>12, <1>18

LEMMA BypassC ==
    ASSUME IInv, CInv, Ample, NEW b \in Block, NEW v \in Val, BypassLog(b, v)
    PROVE  /\ CInv' /\ (\A x \in Block \cup Slot : x # b => Seen(x)' = Seen(x)) /\ Seen(b)' = v
           /\ (\A x \in Addr : x # b => disk'[x] = disk[x]) /\ disk'[b] = v /\ lh = << >> /\ ~committing
<1>1. TypeInv /\ CommitInv /\ IInv'
  BY BypassStep DEF IInv
<1>2. /\ UNCHANGED <<lh, outstanding, committing, pc, tail, boot, wrote>> /\ boot = "up"
      /\ disk' = [disk EXCEPT ![b] = v] /\ Available(cache, b)
      /\ cache' = Brelse(Fill(Bread(cache, b, disk[b]), b, v), b)
      /\ \A t \in Thread : pc[t] = "idle"
  BY DEF BypassLog
<1>3. b \in Addr /\ CacheOK(cache) /\ Fits(b, disk[b]) /\ Fits(b, v)
  BY <1>1, AddrFacts, DiskFits DEF TypeInv, Fits
<1>4. Loaded(cache, b, 0, v, cache')
  BY <1>2, <1>3, WriteOK
<1>5. Ops = {} /\ Ops' = {} /\ ~committing
  BY <1>2 DEF Ops, CInv, HeadInv, Committer
<1>6. disk[LogStart] = << >> /\ lh = << >>
  BY <1>2, <1>5, QuietHead
<1>7. (\A x \in Addr : x # b => disk'[x] = disk[x]) /\ disk'[b] = v
  BY <1>1, <1>2, <1>3 DEF TypeInv
<1>8. /\ \A x \in Block \cup Slot : x # b => Seen(x)' = Seen(x)
      /\ \A x \in Block \cup Slot : x = b => Seen(x)' = v
  BY <1>3, <1>4, <1>7, HomeFacts, SeenLoaded
<1>9. DOMAIN lh = {} /\ DOMAIN lh' = {}
  BY <1>2, <1>6
<1>10. ASSUME NEW x PROVE ~Pending(x) /\ ~Pending(x)'
  BY <1>9 DEF Pending
<1>11. \A x \in Block \cup Slot : Dirty(x)' \/ Seen(x)' = disk'[x]
  <2> TAKE x \in Block \cup Slot
  <2>1. Seen(x) = disk[x]
    BY <1>10 DEF CInv, CleanInv, Dirty
  <2>2. CASE x = b
    BY <1>7, <1>8, <2>2
  <2>3. CASE x # b
    BY <1>7, <1>8, <2>1, <2>3, HomeFacts
  <2>4. QED
    BY <2>2, <2>3
<1>12. \A x \in Block : Dirty(x)' => Cached(cache', x)
  BY <1>10 DEF Dirty
<1>13. Steady => Exact'
  BY <1>1, <1>3, <1>4, <1>10, LoadedExact DEF CInv
<1>14. InQuiet'
  BY <1>2, <1>5, <1>6, <1>7, AddrFacts DEF InQuiet
<1>15. CInv'
  BY <1>1, <1>11, <1>12, <1>13, <1>14, CAssembled DEF Outside
<1>16. QED
  BY <1>5, <1>6, <1>7, <1>8, <1>15

\* A step that changes nothing but the cache, and there no contents.
LEMMA CachedC ==
    ASSUME IInv, CInv, Ample, IInv', NEW a \in Addr, NEW e, Loaded(cache, a, 0, e, cache'),
           \A x \in Block \cup Slot : x = a => e = Seen(x),
           UNCHANGED <<disk, lh, committing, pc, tail, boot>>, boot = "up"
    PROVE  CInv' /\ \A x \in Block \cup Slot : Seen(x)' = Seen(x)
<1>1. TypeInv /\ lh \in Seq(Block)
  BY DEF IInv, TypeInv
<1>2. /\ \A x \in Block \cup Slot : x # a => Seen(x)' = Seen(x)
      /\ \A x \in Block \cup Slot : x = a => Seen(x)' = e
      /\ \A x \in Block : Dirty(x) \/ x = a => Cached(cache', x)
  BY SeenLoaded
<1>3. \A x \in Block \cup Slot : Seen(x)' = Seen(x)
  BY <1>2
<1>4. Installing' <=> Installing
  BY DEF Installing
<1>5. ASSUME NEW x PROVE (Pending(x)' <=> Pending(x)) /\ (Dirty(x)' <=> Dirty(x))
  BY <1>4 DEF Pending, Dirty
<1>6. \A x \in Block \cup Slot : Dirty(x)' \/ Seen(x)' = disk'[x]
  BY <1>3, <1>5 DEF CInv, CleanInv
<1>7. \A x \in Block : Dirty(x)' => Cached(cache', x)
  BY <1>2, <1>5
<1>8. Steady => Exact'
  BY <1>1, <1>5, LoadedExact DEF CInv
<1>9. CASE ~committing
  <2>1. disk[LogStart] = << >> /\ (Ops = {} => lh = << >>) /\ Ops' = Ops
    BY <1>9, QuietHead DEF Ops
  <2>2. InQuiet'
    BY <1>9, <2>1 DEF InQuiet
  <2>3. QED
    BY <1>3, <1>6, <1>7, <1>8, <2>2, CAssembled DEF Outside
<1>10. CASE committing
  <2>1. PICK u \in Thread : Committer(u)
    BY <1>10 DEF CInv, HeadInv
  <2>2. pc[u] \in Phases
    BY <2>1 DEF Committer, Phases
  <2>3. Committing(u)
    BY <2>2, PhaseFacts
  <2>4. \A j \in DOMAIN lh : lh[j] \in Block \cup Slot
    BY <1>1
  <2>5. \A j \in DOMAIN lh : Seen(lh[j])' = Seen(lh[j])
    <3> TAKE j \in DOMAIN lh
    <3>1. PICK x \in Block \cup Slot : x = lh[j]
      BY <2>4
    <3>2. Seen(x)' = Seen(x) /\ lh' = lh
      BY <1>3
    <3>3. QED
      BY <3>1, <3>2 DEF Seen
  <2>6. Committing(u)'
    BY <2>3, <2>5 DEF Committing, InLog, InHead, InInstall, InClear, InRelease
  <2>7. QED
    BY <1>3, <1>6, <1>7, <1>8, <2>6, CAssembled
<1>11. QED
  BY <1>9, <1>10

LEMMA ReadC ==
    ASSUME IInv, CInv, Ample, NEW b \in Block, ReadBlock(b)
    PROVE  CInv' /\ \A x \in Block \cup Slot : Seen(x)' = Seen(x)
<1>1. TypeInv /\ IInv'
  BY ReadStep DEF IInv
<1>2. /\ UNCHANGED <<disk, lh, outstanding, committing, pc, tail, boot, wrote>> /\ boot = "up"
      /\ Available(cache, b) /\ cache' = Brelse(Bread(cache, b, disk[b]), b)
  BY DEF ReadBlock, Touch
<1>3. b \in Addr /\ CacheOK(cache) /\ Fits(b, disk[b])
  BY <1>1, AddrFacts, DiskFits DEF TypeInv
<1>4. Loaded(cache, b, 0, Content(cache, b, disk[b]), cache')
  BY <1>2, <1>3, TouchOK
<1>5. Loaded(cache, b, 0, Seen(b), cache')
  BY <1>4 DEF Seen
<1>6. QED
  BY <1>1, <1>2, <1>3, <1>5, CachedC

-----------------------------------------------------------------------------
(* commit *)

\* Neither bread of a loop fails.
LEMMA CopyAlways ==
    ASSUME IInv, CInv, Ample, NEW src \in Block \cup Slot, NEW dst \in Block \cup Slot, src # dst, NEW u \in BOOLEAN,
           OldRef(cache, src) >= 0, Pending(src) \/ Pending(dst), CopyBlock(src, dst, u)
    PROVE  /\ Copied(cache, src, dst, IF u THEN -1 ELSE 0, Seen(src), cache')
           /\ disk' = [disk EXCEPT ![dst] = Seen(src)]
<1>1. TypeInv /\ src \in Addr /\ dst \in Addr
  BY HomeFacts DEF IInv
<1>2. \/ NoBuffer(src, dst) /\ disk' = disk
      \/ /\ Copied(cache, src, dst, IF u THEN -1 ELSE 0, Content(cache, src, disk[src]), cache')
         /\ disk' = [disk EXCEPT ![dst] = Content(cache, src, disk[src])]
  BY <1>1, CopyBlockOK
<1>3. ~NoBuffer(src, dst)
  <2>1. Available(cache, src)
    BY <1>1, Always
  <2>2. ASSUME NEW c1, Loaded(cache, src, 1, Content(cache, src, disk[src]), c1) PROVE Available(c1, dst)
    BY <1>1, <2>2, SecondBread
  <2>3. QED
    BY <2>1, <2>2 DEF NoBuffer
<1>4. QED
  BY <1>2, <1>3 DEF Seen

LEMMA LogC ==
    ASSUME IInv, CInv, Ample, NEW t \in Thread, CommitLog(t)
    PROVE  /\ CInv' /\ (\A x \in Block : Seen(x)' = Seen(x) /\ disk'[x] = disk[x])
           /\ disk[LogStart] = << >> /\ disk'[LogStart] = << >>
<1>1. TypeInv /\ CommitInv /\ Refs /\ (~MayCrash => Pins) /\ IInv'
  BY LogStep, IInvParts
<1>2. /\ UNCHANGED <<lh, outstanding, committing, boot, wrote>> /\ pc[t] = "write_log"
      /\ CopyBlock(lh[tail], tail, FALSE) /\ pc[t] \in Phases
  BY DEF CommitLog, WriteLog, Phases
<1>3. boot = "up" /\ ~Installing /\ InLog(t)
  BY <1>2, PhaseAt, PhaseFacts DEF Committing, InLog, InHead, InInstall, InClear, InRelease
<1>b. PICK b : b = lh[tail]
  OBVIOUS
<1>i. PICK i : i = tail
  OBVIOUS
<1>4. /\ lh \in Seq(Block) /\ Len(lh) \in Nat /\ DOMAIN lh = 1 .. Len(lh)
      /\ i \in Slot /\ i \in DOMAIN lh /\ lh[i] = b /\ i \in Nat
  BY <1>1, <1>2, <1>b, <1>i, NumFacts DEF TypeInv, CommitInv
<1>5. b \in Block /\ b # i /\ b \in Addr /\ i \in Addr
  BY <1>4, AddrFacts
<1>6. Pending(b)
  BY <1>3, <1>4 DEF Pending
<1>7. OldRef(cache, b) >= 0
  BY <1>1, <1>5, <1>6, FloorFacts
<1>8. Copied(cache, b, i, 0, Seen(b), cache') /\ disk' = [disk EXCEPT ![i] = Seen(b)]
  <2>1. CopyBlock(b, i, FALSE) /\ b \in Block \cup Slot /\ i \in Block \cup Slot
    BY <1>2, <1>4, <1>5, <1>b, <1>i
  <2>2. QED
    BY <2>1, <1>5, <1>6, <1>7, CopyAlways
<1>9. /\ \A x \in Block \cup Slot : x # i => Seen(x)' = Seen(x) /\ disk'[x] = disk[x]
      /\ \A x \in Block \cup Slot : x = i => Seen(x)' = Seen(b) /\ disk'[x] = Seen(b)
      /\ \A x \in Block : Dirty(x) => Cached(cache', x)
      /\ disk'[LogStart] = disk[LogStart]
  <2>1. b \in Block \cup Slot /\ i \in Block \cup Slot
    BY <1>4, <1>5
  <2>2. QED
    BY <1>5, <1>8, <2>1, SeenCopied
<1>10. PICK s \in {"write_log", "write_head"} :
         /\ pc' = [pc EXCEPT ![t] = s]
         /\ s = "write_log" => tail < Len(lh) /\ tail' = tail + 1
         /\ s = "write_head" => tail >= Len(lh)
  <2>1. pc \in [Thread -> Pc]
    BY <1>1 DEF TypeInv
  <2>2. QED
    BY <1>2, <1>4, <1>i, <2>1 DEF CommitLog
<1>11. pc'[t] = s /\ pc'[t] \in Phases
  BY <1>1, <1>10 DEF TypeInv, Phases
<1>12. ~Installing'
  <2>1. pc \in [Thread -> Pc]
    BY <1>1 DEF TypeInv
  <2>2. \A u \in Thread : pc'[u] = "install" => pc[u] = "install"
    BY <1>10, <1>11, <2>1
  <2>3. QED
    BY <1>2, <1>3, <2>2 DEF Installing
<1>13. ASSUME NEW x PROVE (Pending(x)' <=> Pending(x)) /\ (Dirty(x)' <=> Dirty(x))
  BY <1>2, <1>3, <1>12 DEF Pending, Dirty
<1>14. \A x \in Block \cup Slot : Dirty(x)' \/ Seen(x)' = disk'[x]
  BY <1>9, <1>13 DEF CInv, CleanInv
<1>15. \A x \in Block : Dirty(x)' => Cached(cache', x)
  BY <1>9, <1>13
<1>16. Steady => Exact'
  BY <1>1, <1>5, <1>8, <1>13, CopiedExact DEF CInv
<1>17. ASSUME NEW j \in DOMAIN lh, j < i \/ j = i PROVE disk'[j] = Seen(lh[j])'
  <2>1. PICK x : x = lh[j]
    OBVIOUS
  <2>2. x \in Block /\ j \in Slot /\ x # i
    <3>1. x \in Block
      BY <1>4, <2>1
    <3>2. j \in Slot
      BY <1>1, <1>4, NumFacts DEF TypeInv
    <3>3. QED
      BY <1>4, <3>1, <3>2, AddrFacts
  <2>3. Seen(x)' = Seen(x)
    BY <1>9, <2>2
  <2>4. CASE j = i
    BY <1>2, <1>4, <1>9, <2>1, <2>2, <2>3, <2>4 DEF Seen
  <2>5. CASE j < i
    <3>1. disk[j] = Seen(x) /\ j # i
      BY <1>3, <1>4, <1>i, <2>1, <2>5 DEF InLog
    <3>2. disk'[j] = Seen(x)'
      BY <1>9, <2>2, <2>3, <3>1
    <3>3. QED
      BY <1>2, <2>1, <3>2 DEF Seen
  <2>6. QED
    BY <1>17, <2>4, <2>5
<1>18. Committing(t)'
  <2>0. disk'[LogStart] = << >>
    BY <1>3, <1>9 DEF InLog
  <2>1. CASE s = "write_log"
    <3>1. \A j \in DOMAIN lh : j < i + 1 => j < i \/ j = i
      BY <1>4
    <3>2. \A j \in DOMAIN lh' : j < tail' => disk'[j] = Seen(lh[j])'
      BY <1>2, <1>10, <1>17, <1>i, <2>1, <3>1
    <3>3. InLog(t)'
      BY <1>11, <2>0, <2>1, <3>2 DEF InLog
    <3>4. QED
      BY <3>3 DEF Committing
  <2>2. CASE s = "write_head"
    <3>1. \A j \in DOMAIN lh : j < i \/ j = i
      BY <1>4, <1>10, <1>i, <2>2
    <3>2. \A j \in DOMAIN lh' : disk'[j] = Seen(lh[j])'
      BY <1>2, <1>17, <3>1
    <3>3. InHead(t)'
      BY <1>11, <2>0, <2>2, <3>2 DEF InHead
    <3>4. QED
      BY <3>3 DEF Committing
  <2>3. QED
    BY <1>10, <2>1, <2>2
<1>19. CInv'
  BY <1>1, <1>14, <1>15, <1>16, <1>18, CAssembled
<1>20. \A x \in Block : x # i /\ x \in Block \cup Slot
  BY <1>4, AddrFacts
<1>21. disk[LogStart] = << >>
  BY <1>3 DEF InLog
<1>22. QED
  BY <1>9, <1>19, <1>20, <1>21

\* write_head always writes.
LEMMA HeadAlways ==
    ASSUME IInv, CInv, Ample, WriteHead(lh)
    PROVE  /\ Loaded(cache, LogStart, 0, lh, cache') /\ disk'[LogStart] = lh
           /\ \A x \in Block \cup Slot : Seen(x)' = Seen(x) /\ disk'[x] = disk[x]
           /\ \A x \in Block : Dirty(x) => Cached(cache', x)
<1>1. TypeInv /\ CacheOK(cache) /\ disk \in [Addr -> Val \cup Seq(Block)] /\ lh \in Seq(Block) /\ LogStart \in Addr
  BY AddrFacts DEF IInv, TypeInv
<1>2. Available(cache, LogStart)
  BY <1>1, Always
<1>3. Fits(LogStart, disk[LogStart]) /\ Fits(LogStart, lh)
  BY <1>1, AddrFacts, DiskFits DEF Fits
<1>4. Loaded(cache, LogStart, 0, lh, cache')
  BY <1>1, <1>2, <1>3, WriteOK DEF WriteHead
<1>5. disk' = [disk EXCEPT ![LogStart] = lh]
  BY <1>2 DEF WriteHead
<1>6. disk'[LogStart] = lh /\ \A x \in Block \cup Slot : disk'[x] = disk[x]
  BY <1>1, <1>5, HomeFacts
<1>7. /\ \A x \in Block \cup Slot : x # LogStart => Seen(x)' = Seen(x)
      /\ \A x \in Block : Dirty(x) \/ x = LogStart => Cached(cache', x)
  BY <1>1, <1>4, <1>6, SeenLoaded
<1>8. QED
  BY <1>4, <1>6, <1>7, HomeFacts

LEMMA HeadC ==
    ASSUME IInv, CInv, Ample, NEW t \in Thread, CommitHead(t)
    PROVE  /\ CInv' /\ (\A x \in Block : Seen(x)' = Seen(x))
           /\ boot = "up" /\ Ops = {} /\ InHead(t) /\ InInstall(t)' /\ \A x \in Block \cup Slot : disk'[x] = disk[x]
<1>1. TypeInv /\ CommitInv /\ IInv'
  BY HeadStep DEF IInv
<1>2. /\ UNCHANGED <<lh, outstanding, committing, tail, boot, wrote>> /\ pc[t] = "write_head"
      /\ WriteHead(lh) /\ pc' = [pc EXCEPT ![t] = "install"] /\ pc[t] \in Phases
  BY DEF CommitHead, Phases
<1>3. boot = "up" /\ Ops = {} /\ ~Installing /\ InHead(t) /\ tail = 1
  BY <1>1, <1>2, PhaseAt, PhaseFacts DEF Committing, InLog, InHead, InInstall, InClear, InRelease, CommitInv
<1>4. lh \in Seq(Block) /\ DOMAIN lh = 1 .. Len(lh) /\ Len(lh) \in Nat /\ pc'[t] = "install"
  BY <1>1, <1>2 DEF TypeInv
<1>5. /\ Loaded(cache, LogStart, 0, lh, cache') /\ disk'[LogStart] = lh
      /\ \A x \in Block \cup Slot : Seen(x)' = Seen(x) /\ disk'[x] = disk[x]
      /\ \A x \in Block : Dirty(x) => Cached(cache', x)
  BY <1>2, HeadAlways
<1>6. \A j \in DOMAIN lh : 1 <= j /\ ~(j < 1) /\ lh[j] \in Block /\ j \in Slot
  <2>1. Len(lh) < NLog
    BY <1>1 DEF TypeInv
  <2>2. QED
    BY <1>4, <2>1, NumFacts
<1>7. ASSUME NEW x PROVE (Pending(x)' <=> Pending(x)) /\ (Dirty(x)' <=> Dirty(x))
  BY <1>2, <1>3, <1>6 DEF Pending, Dirty
<1>8. \A x \in Block \cup Slot : Dirty(x)' \/ Seen(x)' = disk'[x]
  BY <1>5, <1>7 DEF CInv, CleanInv
<1>9. \A x \in Block : Dirty(x)' => Cached(cache', x)
  BY <1>5, <1>7
<1>10. Steady => Exact'
  BY <1>1, <1>5, <1>7, AddrFacts, LoadedExact DEF CInv
<1>11. InInstall(t)'
  <2>1. ASSUME NEW j \in DOMAIN lh PROVE disk'[j] = Seen(lh[j])'
    <3>1. PICK x \in Block : x = lh[j]
      BY <1>6
    <3>2. disk[j] = Seen(x)
      BY <1>3, <3>1 DEF InHead
    <3>3. disk'[j] = Seen(x)'
      BY <1>5, <1>6, <3>2
    <3>4. QED
      BY <1>2, <3>1, <3>3 DEF Seen
  <2>2. QED
    BY <1>2, <1>3, <1>4, <1>5, <1>6, <2>1 DEF InInstall
<1>12. CInv'
  BY <1>1, <1>8, <1>9, <1>10, <1>11, CAssembled DEF Committing
<1>13. QED
  BY <1>3, <1>5, <1>11, <1>12

LEMMA ClearC ==
    ASSUME IInv, CInv, Ample, NEW t \in Thread, CommitClear(t)
    PROVE  CInv' /\ InClear(t) /\ disk'[LogStart] = << >> /\ \A x \in Block \cup Slot : Seen(x)' = Seen(x) /\ disk'[x] = disk[x]
<1>1. TypeInv /\ CommitInv /\ IInv'
  BY ClearStep DEF IInv
<1>2. /\ UNCHANGED <<lh, outstanding, committing, tail, boot, wrote>> /\ pc[t] = "clear_head"
      /\ WriteHead(lh) /\ pc' = [pc EXCEPT ![t] = "release"] /\ pc[t] \in Phases
  BY DEF CommitClear, Phases
<1>3. boot = "up" /\ InClear(t)
  BY <1>1, <1>2, PhaseAt, PhaseFacts DEF Committing, InLog, InHead, InInstall, InClear, InRelease
<1>4. lh = << >> /\ DOMAIN lh = {} /\ pc'[t] = "release"
  BY <1>1, <1>2, <1>3 DEF TypeInv, InClear
<1>5. /\ Loaded(cache, LogStart, 0, lh, cache') /\ disk'[LogStart] = lh
      /\ \A x \in Block \cup Slot : Seen(x)' = Seen(x) /\ disk'[x] = disk[x]
      /\ \A x \in Block : Dirty(x) => Cached(cache', x)
  BY <1>2, HeadAlways
<1>6. ASSUME NEW x PROVE ~Pending(x) /\ ~Pending(x)' /\ ~Dirty(x) /\ ~Dirty(x)'
  BY <1>2, <1>4 DEF Pending, Dirty
<1>7. \A x \in Block \cup Slot : Dirty(x)' \/ Seen(x)' = disk'[x]
  BY <1>5, <1>6 DEF CInv, CleanInv
<1>8. \A x \in Block : Dirty(x)' => Cached(cache', x)
  BY <1>6
<1>9. Steady => Exact'
  BY <1>1, <1>5, <1>6, AddrFacts, LoadedExact DEF CInv
<1>10. InRelease(t)'
  BY <1>2, <1>4, <1>5 DEF InRelease
<1>11. CInv'
  BY <1>1, <1>7, <1>8, <1>9, <1>10, CAssembled DEF Committing
<1>12. QED
  BY <1>3, <1>4, <1>5, <1>11

\* One iteration of install_trans, in a commit or in a recovery: the log block holds
\* on the disk what the home block gets, and the home block is clean from then on.
LEMMA InstallC ==
    ASSUME IInv, CInv, Ample, Installing, InstallTrans(tail), NEW i, i = tail, i \in DOMAIN lh, NEW b, b = lh[tail],
           \/ lh' = << >> /\ i = Len(lh)
           \/ lh' = lh /\ tail' = tail + 1 /\ Installing',
           boot' = "up" => boot = "up", boot = "up" => boot' = "up",
           \A j \in DOMAIN lh : j < tail => disk[lh[j]] = disk[j]
    PROVE  /\ b \in Block /\ i \in Slot /\ i \in Nat /\ Pending(b) /\ lh[i] = b
           /\ \A x \in Block \cup Slot : x # b => Seen(x)' = Seen(x) /\ disk'[x] = disk[x]
           /\ \A x \in Block \cup Slot : x = b => Seen(x)' = disk[i] /\ disk'[x] = disk[i]
           /\ disk'[LogStart] = disk[LogStart]
           /\ \A x \in Block \cup Slot : Dirty(x)' \/ Seen(x)' = disk'[x]
           /\ \A x \in Block : Dirty(x)' => Cached(cache', x)
           /\ \A j \in DOMAIN lh : j <= i => disk'[lh[j]] = disk'[j]
           /\ Steady => Exact'
<1>1. TypeInv /\ CommitInv /\ Refs /\ (~MayCrash => Pins) /\ Distinct(lh)
  BY IInvParts
<1>2. /\ lh \in Seq(Block) /\ Len(lh) \in Nat /\ DOMAIN lh = 1 .. Len(lh) /\ Len(lh) < NLog
      /\ i \in Slot /\ lh[i] = b /\ i \in Nat
  BY <1>1, NumFacts DEF TypeInv
<1>3. b \in Block /\ b # i /\ b \in Addr /\ i \in Addr /\ i \notin Block
  BY <1>2, AddrFacts
<1>4. Pending(b) /\ ~Pending(i)
  <2>1. Pending(b)
    BY <1>2 DEF Pending
  <2>2. QED
    BY <1>1, <1>3, <2>1, PendingBlock
<1>5. OldRef(cache, i) >= 0
  BY <1>1, <1>3, FloorFacts
<1>6. Seen(i) = disk[i]
  BY <1>2, <1>4 DEF CInv, CleanInv, Dirty
<1>7. Copied(cache, i, b, -1, Seen(i), cache') /\ disk' = [disk EXCEPT ![b] = Seen(i)]
  <2>1. CopyBlock(i, b, TRUE) /\ b \in Block \cup Slot /\ i \in Block \cup Slot
    BY <1>2, <1>3 DEF InstallTrans
  <2>2. QED
    BY <2>1, <1>3, <1>4, <1>5, CopyAlways
<1>8. /\ \A x \in Block \cup Slot : x # b => Seen(x)' = Seen(x) /\ disk'[x] = disk[x]
      /\ \A x \in Block \cup Slot : x = b => Seen(x)' = Seen(i) /\ disk'[x] = Seen(i)
      /\ \A x \in Block : Dirty(x) => Cached(cache', x)
      /\ disk'[LogStart] = disk[LogStart]
  <2>1. b \in Block \cup Slot /\ i \in Block \cup Slot
    BY <1>2, <1>3
  <2>2. QED
    BY <1>3, <1>7, <2>1, SeenCopied
<1>9. ASSUME NEW x PROVE Pending(x)' <=> Pending(x) /\ x # b
  <2>1. CASE lh' = << >> /\ i = Len(lh)
    <3>1. DOMAIN lh' = {}
      BY <2>1
    <3>2. \A j \in DOMAIN lh : i <= j => j = i
      BY <1>2, <2>1
    <3>3. QED
      BY <1>2, <3>1, <3>2 DEF Pending
  <2>2. CASE lh' = lh /\ tail' = tail + 1 /\ Installing'
    <3>1. \A j \in DOMAIN lh : i + 1 <= j <=> i <= j /\ j # i
      BY <1>2
    <3>2. \A j \in DOMAIN lh : lh[j] = b <=> j = i
      BY <1>1, <1>2 DEF Distinct
    <3>3. QED
      BY <1>2, <2>2, <3>1, <3>2 DEF Pending
  <2>3. QED
    BY <2>1, <2>2
<1>10. ASSUME NEW x PROVE Dirty(x)' <=> Dirty(x) /\ x # b
  BY <1>9 DEF Dirty
<1>11. \A x \in Block \cup Slot : Dirty(x)' \/ Seen(x)' = disk'[x]
  <2> TAKE x \in Block \cup Slot
  <2>1. Dirty(x) \/ Seen(x) = disk[x]
    BY DEF CInv, CleanInv
  <2>2. CASE x = b
    BY <1>8, <2>2
  <2>3. CASE x # b
    BY <1>8, <1>10, <2>1, <2>3
  <2>4. QED
    BY <2>2, <2>3
<1>12. \A x \in Block : Dirty(x)' => Cached(cache', x)
  BY <1>8, <1>10
<1>13. \A j \in DOMAIN lh : j <= i => disk'[lh[j]] = disk'[j]
  <2> SUFFICES ASSUME NEW j \in DOMAIN lh, j <= i PROVE disk'[lh[j]] = disk'[j]
    OBVIOUS
  <2>1. lh[j] \in Block /\ j \in Slot /\ j # b
    <3>1. lh[j] \in Block /\ j \in Slot
      BY <1>2, NumFacts
    <3>2. QED
      BY <1>3, <3>1, AddrFacts
  <2>2. disk'[j] = disk[j]
    BY <1>8, <2>1
  <2>3. CASE j = i
    BY <1>2, <1>3, <1>6, <1>8, <2>2, <2>3
  <2>4. CASE j # i
    <3>1. lh[j] # b /\ j < tail
      BY <1>1, <1>2, <2>4 DEF Distinct
    <3>2. disk'[lh[j]] = disk[lh[j]]
      BY <1>8, <2>1, <3>1
    <3>3. QED
      BY <2>2, <3>1, <3>2
  <2>5. QED
    BY <2>3, <2>4
<1>14. Steady => Exact'
  <2> SUFFICES ASSUME Steady PROVE Exact'
    OBVIOUS
  <2>1. Exact /\ \A x \in Addr : x # b => (Pending(x) => Pending(x)')
    BY <1>9 DEF CInv
  <2>2. QED
    BY <1>1, <1>3, <1>4, <1>7, <2>1, CopiedExact
<1>15. QED
  BY <1>2, <1>3, <1>4, <1>6, <1>8, <1>11, <1>12, <1>13, <1>14

LEMMA CommitInstallC ==
    ASSUME IInv, CInv, Ample, NEW t \in Thread, CommitInstall(t)
    PROVE  /\ CInv' /\ (\A x \in Block : Seen(x)' = Seen(x)) /\ boot = "up"
           /\ pc'[t] \in {"install", "clear_head"}
<1>1. TypeInv /\ CommitInv /\ IInv'
  BY InstallStep DEF IInv
<1>2. /\ UNCHANGED <<outstanding, committing, boot, wrote>> /\ pc[t] = "install" /\ InstallTrans(tail)
      /\ pc[t] \in Phases
  BY DEF CommitInstall, Phases
<1>3. boot = "up" /\ Installing /\ InInstall(t) /\ tail \in DOMAIN lh
  BY <1>1, <1>2, PhaseAt, PhaseFacts DEF Committing, InLog, InHead, InInstall, InClear, InRelease, CommitInv
<1>4. /\ lh \in Seq(Block) /\ Len(lh) \in Nat /\ DOMAIN lh = 1 .. Len(lh) /\ Len(lh) < NLog
      /\ pc \in [Thread -> Pc]
  BY <1>1 DEF TypeInv
<1>5. \/ lh' = lh /\ tail' = tail + 1 /\ pc' = [pc EXCEPT ![t] = "install"]
      \/ lh' = << >> /\ tail = Len(lh) /\ pc' = [pc EXCEPT ![t] = "clear_head"]
  BY <1>2, <1>3, <1>4 DEF CommitInstall
<1>i. PICK i : i = tail
  OBVIOUS
<1>b. PICK b : b = lh[tail]
  OBVIOUS
<1>6. \/ lh' = << >> /\ i = Len(lh)
      \/ lh' = lh /\ tail' = tail + 1 /\ Installing'
  <2>1. ASSUME pc' = [pc EXCEPT ![t] = "install"] PROVE Installing'
    BY <1>4, <2>1 DEF Installing
  <2>2. QED
    BY <1>5, <1>i, <2>1
<1>7. \A j \in DOMAIN lh : j < tail => disk[lh[j]] = disk[j]
  BY <1>3 DEF InInstall
<1>8. /\ b \in Block /\ i \in Slot /\ i \in Nat /\ Pending(b) /\ lh[i] = b
      /\ \A x \in Block \cup Slot : x # b => Seen(x)' = Seen(x) /\ disk'[x] = disk[x]
      /\ \A x \in Block \cup Slot : x = b => Seen(x)' = disk[i] /\ disk'[x] = disk[i]
      /\ disk'[LogStart] = disk[LogStart]
      /\ \A x \in Block \cup Slot : Dirty(x)' \/ Seen(x)' = disk'[x]
      /\ \A x \in Block : Dirty(x)' => Cached(cache', x)
      /\ \A j \in DOMAIN lh : j <= i => disk'[lh[j]] = disk'[j]
      /\ Steady => Exact'
  BY <1>2, <1>3, <1>6, <1>7, <1>i, <1>b, InstallC
<1>9. i \in DOMAIN lh /\ disk[i] = Seen(b)
  BY <1>3, <1>4, <1>8, <1>i DEF InInstall
<1>10. \A x \in Block : Seen(x)' = Seen(x)
  BY <1>8, <1>9
<1>11. disk[LogStart] = lh
  BY <1>3 DEF InInstall
<1>12. Committing(t)' /\ pc'[t] \in {"install", "clear_head"}
  <2>1. CASE lh' = lh /\ tail' = tail + 1 /\ pc' = [pc EXCEPT ![t] = "install"]
    <3>1. pc'[t] = "install"
      BY <1>4, <2>1
    <3>2. ASSUME NEW j \in DOMAIN lh, i + 1 <= j PROVE disk'[j] = Seen(lh[j])'
      <4>1. PICK x : x = lh[j]
        OBVIOUS
      <4>2. x \in Block /\ j \in Slot /\ i <= j /\ j # b
        <5>1. x \in Block /\ j \in Slot /\ i <= j
          BY <1>4, <1>8, <3>2, <4>1, NumFacts
        <5>2. QED
          BY <1>8, <5>1, AddrFacts
      <4>3. disk[j] = Seen(x) /\ disk'[j] = disk[j] /\ Seen(x)' = Seen(x)
        BY <1>3, <1>8, <1>10, <1>i, <4>1, <4>2 DEF InInstall
      <4>4. disk'[j] = Seen(x)'
        BY <4>3
      <4>5. QED
        BY <2>1, <4>1, <4>4 DEF Seen
    <3>3. \A j \in DOMAIN lh : j < i + 1 => j <= i
      BY <1>4, <1>8
    <3>4. InInstall(t)'
      BY <1>8, <1>11, <1>i, <2>1, <3>1, <3>2, <3>3 DEF InInstall
    <3>5. QED
      BY <3>1, <3>4 DEF Committing
  <2>2. CASE lh' = << >> /\ tail = Len(lh) /\ pc' = [pc EXCEPT ![t] = "clear_head"]
    <3>1. pc'[t] = "clear_head"
      BY <1>4, <2>2
    <3>2. \A j \in DOMAIN lh : j <= i
      BY <1>4, <1>i, <2>2
    <3>3. \A j \in DOMAIN disk'[LogStart] : disk'[disk'[LogStart][j]] = disk'[j]
      BY <1>8, <1>11, <3>2
    <3>4. InClear(t)'
      BY <2>2, <3>1, <3>3 DEF InClear
    <3>5. QED
      BY <3>1, <3>4 DEF Committing
  <2>3. QED
    BY <1>5, <2>1, <2>2
<1>13. CInv'
  BY <1>1, <1>8, <1>12, CAssembled
<1>14. QED
  BY <1>3, <1>10, <1>12, <1>13

-----------------------------------------------------------------------------
(* Crash and recovery. *)

LEMMA CrashC ==
    ASSUME IInv, CInv, Crash
    PROVE  CInv'
<1>1. /\ MayCrash /\ lh' = << >> /\ disk' = disk /\ boot' = "read_head" /\ cache' = EmptyCache(NBuf, Block0)
  BY DEF Crash
<1>2. IInv' /\ ~Steady
  BY <1>1, CrashStep DEF Steady
<1>3. \A a \in Addr : ~Cached(cache', a)
  BY <1>1, EmptyOK
<1>4. InRead'
  BY <1>1 DEF InRead
<1>5. \A x \in Block \cup Slot : Seen(x)' = disk'[x]
  BY <1>3, HomeFacts DEF Seen, Content
<1>6. \A x : ~Dirty(x)'
  BY <1>1 DEF Dirty
<1>7. QED
  BY <1>2, <1>4, <1>5, <1>6, CAssembled DEF Outside

LEMMA RecoverHeadC ==
    ASSUME IInv, CInv, Ample, RecoverHead
    PROVE  CInv' /\ (boot' = "up" => disk[LogStart] = << >>) /\ \A x \in Block \cup Slot : Seen(x)' = disk[x]
<1>1. TypeInv /\ CommitInv /\ IInv'
  BY RecoverHeadStep DEF IInv
<1>2. /\ UNCHANGED <<disk, outstanding, committing, pc, tail, wrote>> /\ boot = "read_head" /\ lh' = disk[LogStart]
      /\ cache' = Brelse(Bread(cache, LogStart, disk[LogStart]), LogStart)
      /\ boot' = IF lh' = << >> THEN "up" ELSE "install"
  BY DEF RecoverHead, Touch
<1>3. tail = 1 /\ cache = EmptyCache(NBuf, Block0) /\ ~committing
  BY <1>1, <1>2 DEF CommitInv
<1>4. CacheOK(cache) /\ (\A a \in Addr : ~Cached(cache, a)) /\ Available(cache, LogStart) /\ Fits(LogStart, disk[LogStart])
  BY <1>1, <1>3, EmptyOK, AddrFacts, DiskFits
<1>5. Loaded(cache, LogStart, 0, Content(cache, LogStart, disk[LogStart]), cache')
  BY <1>2, <1>4, AddrFacts, TouchOK
<1>6. /\ \A x \in Addr : x # LogStart => ~Cached(cache', x)
      /\ Cached(cache', LogStart) /\ Ref(cache', LogStart) = OldRef(cache, LogStart) + 0
  BY <1>4, <1>5, AddrFacts DEF Loaded, Others, Same, Evicted
<1>7. \A x \in Block \cup Slot : Seen(x)' = disk'[x]
  BY <1>6, HomeFacts DEF Seen, Content
<1>8. CASE lh' = << >>
  <2>1. boot' = "up" /\ DOMAIN lh' = {}
    BY <1>2, <1>8
  <2>2. ASSUME NEW x PROVE ~Pending(x)' /\ ~Dirty(x)'
    BY <2>1 DEF Pending, Dirty
  <2>3. OldRef(cache', LogStart) = 0
    BY <1>4, <1>6, AddrFacts DEF OldRef
  <2>4. Exact'
    BY <1>6, <2>3 DEF Exact, OldRef
  <2>5. InQuiet'
    BY <1>2, <1>3, <1>8, <2>1 DEF InQuiet
  <2>6. CInv'
    BY <1>1, <1>7, <2>2, <2>4, <2>5, CAssembled DEF Outside
  <2>7. QED
    BY <1>2, <1>7, <1>8, <2>6
<1>9. CASE lh' # << >>
  <2>1. boot' = "install"
    BY <1>2, <1>9
  <2>2. MayCrash
    BY <1>2, <1>9, IInvParts
  <2>3. ~Steady
    BY <2>2 DEF Steady
  <2>4. \A x : ~Dirty(x)'
    BY <2>1 DEF Dirty
  <2>5. \A j \in DOMAIN lh' : ~(j < 1)
    BY <1>1 DEF IInv, TypeInv
  <2>6. InReplay'
    BY <1>2, <1>3, <2>1, <2>5 DEF InReplay
  <2>7. CInv'
    BY <1>1, <1>7, <2>3, <2>4, <2>6, CAssembled DEF Outside
  <2>8. QED
    BY <1>2, <1>7, <2>1, <2>7
<1>10. QED
  BY <1>8, <1>9

LEMMA RecoverInstallC ==
    ASSUME IInv, CInv, Ample, RecoverInstall
    PROVE  /\ CInv' /\ InReplay /\ Distinct(lh) /\ boot' # "up" /\ disk'[LogStart] = disk[LogStart]
           /\ \E i \in DOMAIN lh : /\ \A x \in Block \cup Slot : x # lh[i] => disk'[x] = disk[x]
                                   /\ disk'[lh[i]] = disk[i]
<1>1. TypeInv /\ CommitInv /\ Distinct(lh) /\ IInv'
  BY RecoverInstallStep, IInvParts
<1>2. UNCHANGED <<outstanding, committing, pc, wrote>> /\ boot = "install" /\ InstallTrans(tail)
  BY DEF RecoverInstall
<1>3. Installing /\ InReplay /\ tail \in DOMAIN lh /\ MayCrash
  BY <1>1, <1>2, PhaseFacts, IInvParts DEF Installing, CommitInv, Outside, InQuiet, InRead, InReplay, InErase
<1>4. lh \in Seq(Block) /\ Len(lh) \in Nat /\ DOMAIN lh = 1 .. Len(lh)
  BY <1>1 DEF TypeInv
<1>5. \/ lh' = lh /\ tail' = tail + 1 /\ boot' = "install"
      \/ lh' = << >> /\ tail = Len(lh) /\ boot' = "clear_head"
  BY <1>2, <1>3, <1>4 DEF RecoverInstall
<1>i. PICK i : i = tail
  OBVIOUS
<1>b. PICK b : b = lh[tail]
  OBVIOUS
<1>6. \/ lh' = << >> /\ i = Len(lh)
      \/ lh' = lh /\ tail' = tail + 1 /\ Installing'
  BY <1>5, <1>i DEF Installing
<1>7. (\A j \in DOMAIN lh : j < tail => disk[lh[j]] = disk[j]) /\ disk[LogStart] = lh
  BY <1>3 DEF InReplay
<1>8. /\ b \in Block /\ i \in Slot /\ i \in Nat /\ lh[i] = b
      /\ \A x \in Block \cup Slot : x # b => Seen(x)' = Seen(x) /\ disk'[x] = disk[x]
      /\ \A x \in Block \cup Slot : x = b => Seen(x)' = disk[i] /\ disk'[x] = disk[i]
      /\ disk'[LogStart] = disk[LogStart]
      /\ \A x \in Block \cup Slot : Dirty(x)' \/ Seen(x)' = disk'[x]
      /\ \A x \in Block : Dirty(x)' => Cached(cache', x)
      /\ \A j \in DOMAIN lh : j <= i => disk'[lh[j]] = disk'[j]
      /\ Steady => Exact'
  <2>1. boot # "up" /\ boot' # "up"
    BY <1>2, <1>5
  <2>2. QED
    BY <1>2, <1>3, <1>6, <1>7, <1>i, <1>b, <2>1, InstallC
<1>9. Outside'
  <2>1. CASE lh' = lh /\ tail' = tail + 1 /\ boot' = "install"
    <3>1. \A j \in DOMAIN lh : j < i + 1 => j <= i
      BY <1>4, <1>8
    <3>2. InReplay'
      BY <1>7, <1>8, <1>i, <2>1, <3>1 DEF InReplay
    <3>3. QED
      BY <3>2 DEF Outside
  <2>2. CASE lh' = << >> /\ tail = Len(lh) /\ boot' = "clear_head"
    <3>1. \A j \in DOMAIN lh : j <= i
      BY <1>4, <1>i, <2>2
    <3>2. \A j \in DOMAIN disk'[LogStart] : disk'[disk'[LogStart][j]] = disk'[j]
      BY <1>7, <1>8, <3>1
    <3>3. InErase'
      BY <2>2, <3>2 DEF InErase
    <3>4. QED
      BY <3>3 DEF Outside
  <2>3. QED
    BY <1>5, <2>1, <2>2
<1>10. CInv'
  BY <1>1, <1>8, <1>9, CAssembled
<1>11. i \in DOMAIN lh /\ (\A x \in Block \cup Slot : x # lh[i] => disk'[x] = disk[x]) /\ disk'[lh[i]] = disk[i]
  BY <1>3, <1>8, <1>i
<1>12. QED
  BY <1>1, <1>3, <1>5, <1>8, <1>10, <1>11

LEMMA RecoverClearC ==
    ASSUME IInv, CInv, Ample, RecoverClear
    PROVE  /\ CInv' /\ InErase /\ disk'[LogStart] = << >>
           /\ \A x \in Block \cup Slot : Seen(x)' = Seen(x) /\ disk'[x] = disk[x] /\ Seen(x)' = disk'[x]
<1>1. TypeInv /\ CommitInv /\ IInv'
  BY RecoverClearStep DEF IInv
<1>2. /\ UNCHANGED <<lh, outstanding, committing, pc, tail, wrote>> /\ boot = "clear_head" /\ boot' = "up"
      /\ WriteHead(lh)
  BY DEF RecoverClear
<1>3. InErase /\ ~committing
  BY <1>1, <1>2, PhaseFacts DEF CommitInv, Outside, InQuiet, InRead, InReplay, InErase
<1>4. lh = << >> /\ DOMAIN lh = {}
  BY <1>3 DEF InErase
<1>5. /\ Loaded(cache, LogStart, 0, lh, cache') /\ disk'[LogStart] = lh
      /\ \A x \in Block \cup Slot : Seen(x)' = Seen(x) /\ disk'[x] = disk[x]
      /\ \A x \in Block : Dirty(x) => Cached(cache', x)
  BY <1>2, HeadAlways
<1>6. ASSUME NEW x PROVE ~Pending(x) /\ ~Pending(x)' /\ ~Dirty(x) /\ ~Dirty(x)'
  BY <1>2, <1>4 DEF Pending, Dirty
<1>7. \A x \in Block \cup Slot : Seen(x)' = disk'[x]
  BY <1>5, <1>6 DEF CInv, CleanInv
<1>8. Steady => Exact'
  BY <1>1, <1>5, <1>6, AddrFacts, LoadedExact DEF CInv
<1>9. InQuiet'
  BY <1>2, <1>3, <1>4, <1>5 DEF InQuiet
<1>10. CInv'
  BY <1>1, <1>6, <1>7, <1>8, <1>9, CAssembled DEF Outside
<1>11. QED
  BY <1>3, <1>4, <1>5, <1>7, <1>10

-----------------------------------------------------------------------------
(* The invariant. *)

LEMMA InitC == Init => CInv
<1> SUFFICES ASSUME Init PROVE CInv
  OBVIOUS
<1>1. IInv /\ lh = << >> /\ boot = "read_head" /\ cache = EmptyCache(NBuf, Block0)
  BY InitIInv DEF Init
<1>2. \A a \in Addr : ~Cached(cache, a)
  BY <1>1, EmptyOK
<1>3. HeadInv /\ SlotInv
  BY <1>1, PhaseEnough DEF Outside, InRead
<1>4. CleanInv
  BY <1>1, <1>2, HomeFacts DEF CleanInv, Dirty, Seen, Content
<1>5. Exact
  BY <1>2 DEF Exact, OldRef
<1>6. QED
  BY <1>3, <1>4, <1>5 DEF CInv

LEMMA NextC == Ample /\ IInv /\ CInv /\ [Next]_vars => CInv'
<1> SUFFICES ASSUME Ample, IInv, CInv, [Next]_vars PROVE CInv'
  OBVIOUS
<1>1. ASSUME NEW t \in Thread, Step(t) PROVE CInv'
  BY <1>1, BeginC, EndC, LogC, HeadC, CommitInstallC, ClearC, ReleaseC DEF Step
<1>2. ASSUME NEW t \in Thread, BeginOp(t) PROVE CInv'
  BY <1>2, BeginC
<1>3. ASSUME NEW t \in Thread, NEW b \in Block, NEW v \in Val, WriteBlock(t, b, v) PROVE CInv'
  BY <1>3, WriteC
<1>4. ASSUME NEW b \in Block, NEW v \in Val, BypassLog(b, v) PROVE CInv'
  BY <1>4, BypassC
<1>5. ASSUME NEW b \in Block, ReadBlock(b) PROVE CInv'
  BY <1>5, ReadC
<1>6. CASE Crash
  BY <1>6, CrashC
<1>7. CASE RecoverHead
  BY <1>7, RecoverHeadC
<1>8. CASE RecoverInstall
  BY <1>8, RecoverInstallC
<1>9. CASE RecoverClear
  BY <1>9, RecoverClearC
<1>10. CASE UNCHANGED vars
  BY <1>10, StutterC
<1>11. QED
  BY <1>1, <1>2, <1>3, <1>4, <1>5, <1>6, <1>7, <1>8, <1>9, <1>10 DEF Next

LEMMA CInvariant == Ample => (Spec => [](IInv /\ CInv))
<1>1. ASSUME Ample PROVE Spec => [](IInv /\ CInv)
  <2>1. IInv /\ CInv /\ [Next]_vars => CInv'
    BY <1>1, NextC
  <2>2. QED
    BY <2>1, InitC, InitIInv, NextIInv, PTL DEF Spec
<1>2. QED
  BY <1>1

LEMMA QuietClean ==
    ASSUME IInv, CInv, boot = "up", ~committing, Ops = {}
    PROVE  disk[LogStart] = << >> /\ \A x \in Block \cup Slot : Seen(x) = disk[x]
<1>1. disk[LogStart] = << >> /\ lh = << >>
  BY QuietHead
<1>2. \A x : ~Dirty(x)
  BY <1>1 DEF Dirty, Pending
<1>3. QED
  BY <1>1, <1>2 DEF CInv, CleanInv

LEMMA CInvDurable == IInv /\ CInv => Durable
<1> SUFFICES ASSUME IInv, CInv, boot = "up", outstanding = 0, ~committing
             PROVE  (\A b \in Block : disk[b] = Logical[b]) /\ disk[LogStart] = << >>
  BY DEF Durable
<1>1. Ops = {}
  <2>1. IsFiniteSet(Ops) /\ outstanding = Cardinality(Ops)
    BY DEF IInv, TypeInv
  <2>2. QED
    BY <2>1, FS_EmptySet
<1>2. disk[LogStart] = << >> /\ \A x \in Block \cup Slot : Seen(x) = disk[x]
  BY <1>1, QuietClean
<1>3. \A b \in Block : Logical[b] = Seen(b)
  BY DEF Logical, Seen, Content
<1>4. QED
  BY <1>2, <1>3

\* The end of end_op (log.c): once the last operation has ended and the commit is
\* through, what bread returns is in place on the disk and the header names
\* nothing, so no later recovery overwrites it.  It needs every bread of write_log and
\* install_trans to find a buffer: those that find none skip their block in silence.
THEOREM CommitsAreDurable == Ample => (Spec => []Durable)
<1>1. ASSUME Ample PROVE Spec => []Durable
  <2>1. Spec => [](IInv /\ CInv)
    BY <1>1, CInvariant
  <2>2. QED
    BY <2>1, CInvDurable, PTL
<1>2. QED
  BY <1>1

-----------------------------------------------------------------------------
(* What a recovery makes of the disk. *)

Replayed(d, b) ==
    IF Contains(d[LogStart], b) THEN d[SelectInSeq(d[LogStart], LAMBDA x : x = b)] ELSE d[b]

LEMMA ReplayedAt ==
    ASSUME NEW d, d[LogStart] \in Seq(Block), Distinct(d[LogStart]), NEW b
    PROVE  /\ \A j \in DOMAIN d[LogStart] : d[LogStart][j] = b => Replayed(d, b) = d[j]
           /\ (\A j \in DOMAIN d[LogStart] : d[LogStart][j] # b) => Replayed(d, b) = d[b]
<1>1. PICK h : h = d[LogStart]
  OBVIOUS
<1>2. h \in Seq(Block) /\ Len(h) \in Nat /\ DOMAIN h = 1 .. Len(h) /\ Distinct(h)
  BY <1>1
<1>3. ASSUME NEW j \in DOMAIN h, h[j] = b PROVE Replayed(d, b) = d[j]
  <2> DEFINE I == {i \in 1 .. Len(h) : h[i] = b}
  <2>1. I = {j}
    BY <1>2, <1>3 DEF Distinct
  <2>2. j \in Nat
    BY <1>2
  <2>3. Min({j}) = j
    <3>1. \E m \in {j} : \A y \in {j} : m <= y
      BY <2>2
    <3>2. QED
      BY <3>1 DEF Min
  <2>4. SelectInSeq(h, LAMBDA x : x = b) = IF I # {} THEN Min(I) ELSE 0
    BY DEF SelectInSeq
  <2>5. SelectInSeq(h, LAMBDA x : x = b) = j
    BY <2>1, <2>3, <2>4
  <2>6. Contains(h, b)
    BY <1>2, <1>3 DEF Contains
  <2>7. QED
    BY <1>1, <2>5, <2>6 DEF Replayed
<1>4. ASSUME \A j \in DOMAIN h : h[j] # b PROVE Replayed(d, b) = d[b]
  <2>1. ~Contains(h, b)
    BY <1>2, <1>4 DEF Contains
  <2>2. QED
    BY <1>1, <2>1 DEF Replayed
<1>5. QED
  BY <1>1, <1>3, <1>4

LEMMA ReplayedEmpty ==
    ASSUME NEW d, d[LogStart] = << >>, NEW b
    PROVE  Replayed(d, b) = d[b]
<1>1. ~Contains(d[LogStart], b)
  BY DEF Contains
<1>2. QED
  BY <1>1 DEF Replayed

\* From write_head until the next operation begins, a crash loses nothing.
Settled ==
    /\ boot = "up"
    /\ (\E t \in Thread : pc[t] \in {"install", "clear_head", "release"}) \/ (~committing /\ Ops = {})

LEMMA SettledView ==
    IInv /\ CInv /\ Settled => \A x \in Block : Replayed(disk, x) = Seen(x)
<1> SUFFICES ASSUME IInv, CInv, Settled, NEW x \in Block PROVE Replayed(disk, x) = Seen(x)
  OBVIOUS
<1>1. TypeInv /\ Distinct(lh) /\ Distinct(disk[LogStart]) /\ disk[LogStart] \in Seq(Block) /\ lh \in Seq(Block)
  BY IInvParts DEF TypeInv
<1>2. /\ \A j \in DOMAIN disk[LogStart] : disk[LogStart][j] = x => Replayed(disk, x) = disk[j]
      /\ (\A j \in DOMAIN disk[LogStart] : disk[LogStart][j] # x) => Replayed(disk, x) = disk[x]
  BY <1>1, ReplayedAt
<1>3. ~Dirty(x) => Seen(x) = disk[x]
  BY DEF CInv, CleanInv
<1>4. CASE ~committing /\ Ops = {}
  BY <1>4, QuietClean, ReplayedEmpty DEF Settled
<1>5. ASSUME NEW t \in Thread, pc[t] \in {"install", "clear_head", "release"} PROVE Replayed(disk, x) = Seen(x)
  <2>0. Committing(t) /\ boot = "up" /\ (Installing <=> pc[t] = "install")
    BY <1>5, PhaseFacts, PhaseAt DEF Phases
  <2>1. CASE InInstall(t)
    <3>1. /\ disk[LogStart] = lh
          /\ \A j \in DOMAIN lh : tail <= j => disk[j] = Seen(lh[j])
          /\ \A j \in DOMAIN lh : j < tail => disk[lh[j]] = disk[j]
          /\ Installing
      BY <2>0, <2>1 DEF InInstall
    <3>2. ASSUME NEW j \in DOMAIN lh, lh[j] = x PROVE Replayed(disk, x) = Seen(x)
      <4>1. Replayed(disk, x) = disk[j] /\ tail \in Nat /\ j \in Nat
        BY <1>1, <1>2, <3>1, <3>2, NumFacts DEF TypeInv
      <4>2. CASE tail <= j
        BY <3>1, <3>2, <4>1, <4>2
      <4>3. CASE j < tail
        <5>1. ~Pending(x)
          BY <1>1, <3>1, <3>2, <4>1, <4>3 DEF Pending, Distinct
        <5>2. Seen(x) = disk[x] /\ disk[x] = disk[j]
          BY <1>3, <3>1, <3>2, <4>3, <5>1 DEF Dirty
        <5>3. QED
          BY <4>1, <5>2
      <4>4. QED
        BY <4>1, <4>2, <4>3
    <3>3. ASSUME \A j \in DOMAIN lh : lh[j] # x PROVE Replayed(disk, x) = Seen(x)
      BY <1>2, <1>3, <3>1, <3>3 DEF Dirty, Pending
    <3>4. QED
      BY <3>2, <3>3
  <2>2. CASE InClear(t)
    <3>1. Seen(x) = disk[x]
      BY <1>3, <2>2 DEF InClear, Dirty, Pending
    <3>2. ASSUME NEW j \in DOMAIN disk[LogStart], disk[LogStart][j] = x PROVE Replayed(disk, x) = disk[x]
      BY <1>2, <2>2, <3>2 DEF InClear
    <3>3. QED
      BY <1>2, <3>1, <3>2
  <2>3. CASE InRelease(t)
    <3>1. Seen(x) = disk[x]
      BY <1>3, <2>3 DEF InRelease, Dirty, Pending
    <3>2. QED
      BY <2>3, <3>1, ReplayedEmpty DEF InRelease
  <2>4. QED
    BY <1>5, <2>0, <2>1, <2>2, <2>3 DEF Committing, InLog, InHead
<1>6. QED
  BY <1>4, <1>5 DEF Settled

LEMMA SettledNext ==
    (IInv /\ CInv /\ Settled)' => (\A x \in Block : Replayed(disk, x) = Seen(x))'
  BY SettledView, PTL

-----------------------------------------------------------------------------
(* The refinement mapping, by name. *)

Mem == [b \in Block |-> IF boot = "up" THEN Seen(b) ELSE Replayed(disk, b)]
Stable == [b \in Block |-> Replayed(disk, b)]

LEMMA MemIs == (IF boot = "up" THEN Logical ELSE Recovered) = Mem
<1>1. CASE boot = "up"
  BY <1>1 DEF Mem, Logical, Seen, Content
<1>2. CASE boot # "up"
  BY <1>2 DEF Mem, Recovered, Replayed
<1>3. QED
  BY <1>1, <1>2

LEMMA MemNext == (IF boot = "up" THEN Logical ELSE Recovered)' = Mem'
<1>1. ((IF boot = "up" THEN Logical ELSE Recovered) = Mem)'
  BY MemIs, PTL
<1>2. QED
  BY <1>1

LEMMA StableIs == Recovered = Stable
  BY DEF Recovered, Stable, Replayed

LEMMA StableNext == Recovered' = Stable'
<1>1. (Recovered = Stable)'
  BY StableIs, PTL
<1>2. QED
  BY <1>1

\* Steps of the atomic disk, in these names.
LEMMA PromiseSame ==
    ASSUME Mem' = Mem, Stable' = Stable, Ops' = Ops
    PROVE  (Promise!vars)' = Promise!vars
  BY MemIs, MemNext, StableIs, StableNext, Zenon DEF Promise!vars, Ops

LEMMA PromiseBegin ==
    ASSUME NEW t \in Thread, t \notin Ops, Ops = {} => Mem = Stable, Ops' = Ops \cup {t}, Mem' = Mem, Stable' = Stable
    PROVE  Promise!Next
<1>1. Promise!Begin(t)
  BY MemIs, MemNext, StableIs, StableNext, Zenon DEF Promise!Begin, Ops
<1>2. QED
  BY <1>1, Zenon DEF Promise!Next

LEMMA PromiseEnd ==
    ASSUME NEW t \in Thread, t \in Ops, Ops' = Ops \ {t}, Mem' = Mem, Stable' = Stable
    PROVE  Promise!Next
<1>1. Promise!End(t)
  BY MemIs, MemNext, StableIs, StableNext, Zenon DEF Promise!End, Ops
<1>2. QED
  BY <1>1, Zenon DEF Promise!Next

LEMMA PromiseWrite ==
    ASSUME NEW t \in Thread, NEW b \in Block, NEW v \in Val, t \in Ops, Mem' = [Mem EXCEPT ![b] = v],
           Stable' = Stable, Ops' = Ops
    PROVE  Promise!Next
<1>1. Promise!Write(t, b, v)
  BY MemIs, MemNext, StableIs, StableNext, Zenon DEF Promise!Write, Ops
<1>2. QED
  BY <1>1, Zenon DEF Promise!Next

LEMMA PromiseThrough ==
    ASSUME NEW b \in Block, NEW v \in Val, Ops = {}, Mem' = [Mem EXCEPT ![b] = v],
           Stable' = [Stable EXCEPT ![b] = v], Ops' = Ops
    PROVE  Promise!Next
<1>1. Promise!WriteThrough(b, v)
  BY MemIs, MemNext, StableIs, StableNext, Zenon DEF Promise!WriteThrough, Ops
<1>2. QED
  BY <1>1, Zenon DEF Promise!Next

LEMMA PromiseCommit ==
    ASSUME Ops = {}, Stable' = Mem, Mem' = Mem, Ops' = Ops
    PROVE  Promise!Next
<1>1. Promise!Commit
  BY MemIs, MemNext, StableIs, StableNext, Zenon DEF Promise!Commit, Ops
<1>2. QED
  BY <1>1, Zenon DEF Promise!Next

LEMMA PromiseCrash ==
    ASSUME Mem' = Stable, Stable' = Stable, Ops' = {}
    PROVE  Promise!Next
<1>1. Promise!Crash
  BY MemIs, MemNext, StableIs, StableNext, Zenon DEF Promise!Crash, Ops
<1>2. QED
  BY <1>1, Zenon DEF Promise!Next

-----------------------------------------------------------------------------
(* Every step is a step of the atomic disk or changes nothing there. *)

LEMMA SameMem ==
    ASSUME boot = "up", boot' = "up", \A x \in Block : Seen(x)' = Seen(x)
    PROVE  Mem' = Mem
  BY DEF Mem

LEMMA SameStable ==
    ASSUME disk' = disk
    PROVE  Stable' = Stable
  BY DEF Stable

LEMMA BeginRefines ==
    ASSUME IInv, CInv, NEW t \in Thread, BeginOp(t)
    PROVE  Promise!Next \/ (Promise!vars)' = Promise!vars
<1>1. /\ UNCHANGED <<disk, boot>> /\ boot = "up" /\ pc[t] \in {"idle", "begin"} /\ pc \in [Thread -> Pc]
  BY DEF BeginOp, IInv, TypeInv
<1>2. Mem' = Mem /\ Stable' = Stable
  BY <1>1, BeginC, SameMem, SameStable
<1>3. t \notin Ops
  BY <1>1 DEF Ops
<1>4. CASE committing \/ ~Room
  <2>1. pc' = [pc EXCEPT ![t] = "waiting"]
    BY <1>4 DEF BeginOp
  <2>2. Ops' = Ops
    BY <1>1, <2>1 DEF Ops
  <2>3. QED
    BY <1>2, <2>2, PromiseSame
<1>5. CASE ~committing /\ Room
  <2>1. pc' = [pc EXCEPT ![t] = "active"]
    BY <1>5 DEF BeginOp
  <2>2. Ops' = Ops \cup {t}
    BY <1>1, <2>1 DEF Ops
  <2>3. Ops = {} => Mem = Stable
    <3> SUFFICES ASSUME Ops = {} PROVE Mem = Stable
      OBVIOUS
    <3>1. \A x \in Block : Replayed(disk, x) = Seen(x)
      BY <1>1, <1>5, SettledView DEF Settled
    <3>2. QED
      BY <1>1, <3>1 DEF Mem, Stable
  <2>4. QED
    BY <1>2, <1>3, <2>2, <2>3, PromiseBegin
<1>6. QED
  BY <1>4, <1>5

LEMMA EndRefines ==
    ASSUME IInv, CInv, NEW t \in Thread, EndOp(t)
    PROVE  Promise!Next
<1>1. UNCHANGED <<disk, boot>> /\ pc[t] = "active" /\ pc \in [Thread -> Pc] /\ CommitInv
  BY DEF EndOp, IInv, TypeInv
<1>2. boot = "up" /\ t \in Ops
  BY <1>1 DEF CommitInv, Ops
<1>3. Mem' = Mem /\ Stable' = Stable
  BY <1>1, <1>2, EndC, SameMem, SameStable
<1>4. PICK s \in {"release", "write_log", "idle"} : pc' = [pc EXCEPT ![t] = s]
  BY DEF EndOp
<1>5. Ops' = Ops \ {t}
  BY <1>1, <1>4 DEF Ops
<1>6. QED
  BY <1>2, <1>3, <1>5, PromiseEnd

\* While a thread commits nobody is inside an operation.
LEMMA AtImpl == IInv => \A u \in Thread : pc[u] \in Phases => Ops = {} /\ boot = "up"
  BY PhaseAt

LEMMA AtNext == IInv' => (\A u \in Thread : pc[u] \in Phases => Ops = {} /\ boot = "up")'
  BY AtImpl, PTL

LEMMA OpsEmpty ==
    ASSUME IInv, IInv', NEW t \in Thread, pc[t] \in Phases, pc'[t] \in Phases
    PROVE  Ops = {} /\ Ops' = Ops /\ boot = "up" /\ boot' = "up"
  BY AtImpl, AtNext

LEMMA LogRefines ==
    ASSUME IInv, CInv, Ample, NEW t \in Thread, CommitLog(t)
    PROVE  (Promise!vars)' = Promise!vars
<1>1. /\ (\A x \in Block : Seen(x)' = Seen(x) /\ disk'[x] = disk[x])
      /\ disk[LogStart] = << >> /\ disk'[LogStart] = << >> /\ IInv'
  BY LogC, LogStep
<1>2. pc[t] \in Phases /\ pc'[t] \in Phases
  <2>1. pc \in [Thread -> Pc]
    BY DEF IInv, TypeInv
  <2>2. QED
    BY <2>1 DEF CommitLog, Phases
<1>3. Ops' = Ops /\ boot = "up" /\ boot' = "up"
  BY <1>1, <1>2, OpsEmpty
<1>4. Mem' = Mem
  BY <1>1, <1>3, SameMem
<1>5. \A x \in Block : Replayed(disk', x) = Replayed(disk, x)
  BY <1>1, ReplayedEmpty
<1>6. Stable' = Stable
  BY <1>5 DEF Stable
<1>7. QED
  BY <1>3, <1>4, <1>6, PromiseSame

\* write_head is the commit point.
LEMMA HeadRefines ==
    ASSUME IInv, CInv, Ample, NEW t \in Thread, CommitHead(t)
    PROVE  Promise!Next
<1>1. CInv' /\ (\A x \in Block : Seen(x)' = Seen(x)) /\ IInv'
  BY HeadC, HeadStep
<1>2. pc[t] \in Phases /\ pc'[t] = "install" /\ pc'[t] \in Phases
  <2>1. pc \in [Thread -> Pc]
    BY DEF IInv, TypeInv
  <2>2. QED
    BY <2>1 DEF CommitHead, Phases
<1>3. Ops = {} /\ Ops' = Ops /\ boot = "up" /\ boot' = "up"
  BY <1>1, <1>2, OpsEmpty
<1>4. Mem' = Mem
  BY <1>1, <1>3, SameMem
<1>5. Settled'
  BY <1>2, <1>3 DEF Settled
<1>6. \A x \in Block : Replayed(disk', x) = Seen(x)'
  BY <1>1, <1>5, SettledNext
<1>7. Stable' = Mem
  BY <1>1, <1>3, <1>6 DEF Stable, Mem
<1>8. QED
  BY <1>3, <1>4, <1>7, PromiseCommit

\* After it the disk changes, but not what a recovery makes of it.
LEMMA AfterCommit ==
    ASSUME IInv, CInv, IInv', CInv', NEW t \in Thread, pc[t] \in {"install", "clear_head"},
           pc'[t] \in {"install", "clear_head", "release"}, \A x \in Block : Seen(x)' = Seen(x)
    PROVE  (Promise!vars)' = Promise!vars
<1>1. Ops' = Ops /\ boot = "up" /\ boot' = "up"
  BY OpsEmpty DEF Phases
<1>2. Settled /\ Settled'
  BY <1>1 DEF Settled
<1>3. \A x \in Block : Replayed(disk, x) = Seen(x)
  BY <1>2, SettledView
<1>4. \A x \in Block : Replayed(disk', x) = Seen(x)'
  BY <1>2, SettledNext
<1>5. Stable' = Stable
  BY <1>3, <1>4 DEF Stable
<1>6. QED
  BY <1>1, <1>5, SameMem, PromiseSame

LEMMA InstallRefines ==
    ASSUME IInv, CInv, Ample, NEW t \in Thread, CommitInstall(t)
    PROVE  (Promise!vars)' = Promise!vars
<1>1. CInv' /\ IInv' /\ (\A x \in Block : Seen(x)' = Seen(x)) /\ pc'[t] \in {"install", "clear_head"}
  BY CommitInstallC, InstallStep
<1>2. pc[t] = "install"
  BY DEF CommitInstall
<1>3. QED
  BY <1>1, <1>2, AfterCommit

LEMMA ClearRefines ==
    ASSUME IInv, CInv, Ample, NEW t \in Thread, CommitClear(t)
    PROVE  (Promise!vars)' = Promise!vars
<1>1. CInv' /\ IInv' /\ \A x \in Block : Seen(x)' = Seen(x)
  BY ClearC, ClearStep
<1>2. pc[t] = "clear_head" /\ pc'[t] = "release"
  <2>1. pc \in [Thread -> Pc]
    BY DEF IInv, TypeInv
  <2>2. QED
    BY <2>1 DEF CommitClear
<1>3. QED
  BY <1>1, <1>2, AfterCommit

LEMMA ReleaseRefines ==
    ASSUME IInv, CInv, NEW t \in Thread, Release(t)
    PROVE  (Promise!vars)' = Promise!vars
<1>1. UNCHANGED <<disk, boot>> /\ pc[t] \in Phases /\ \A x : Seen(x)' = Seen(x)
  BY ReleaseC DEF Release, Phases
<1>2. boot = "up"
  BY <1>1, AtImpl
<1>3. \A u \in Thread : pc'[u] = "active" <=> pc[u] = "active"
  BY DEF Release
<1>4. Ops' = Ops
  BY <1>3 DEF Ops
<1>5. QED
  BY <1>1, <1>2, <1>4, SameMem, SameStable, PromiseSame

LEMMA WriteRefines ==
    ASSUME IInv, CInv, Ample, NEW t \in Thread, NEW b \in Block, NEW v \in Val, WriteBlock(t, b, v)
    PROVE  Promise!Next
<1>1. UNCHANGED <<disk, pc, boot>> /\ boot = "up" /\ pc[t] = "active"
  BY DEF WriteBlock
<1>2. (\A x \in Block : x # b => Seen(x)' = Seen(x)) /\ Seen(b)' = v
  BY WriteC
<1>3. Mem' = [Mem EXCEPT ![b] = v]
  BY <1>1, <1>2 DEF Mem
<1>4. t \in Ops /\ Ops' = Ops
  BY <1>1 DEF Ops
<1>5. QED
  BY <1>1, <1>3, <1>4, SameStable, PromiseWrite

LEMMA BypassRefines ==
    ASSUME IInv, CInv, Ample, NEW b \in Block, NEW v \in Val, BypassLog(b, v)
    PROVE  Promise!Next
<1>1. UNCHANGED <<pc, boot>> /\ boot = "up" /\ \A t \in Thread : pc[t] = "idle"
  BY DEF BypassLog
<1>2. /\ (\A x \in Block : x # b => Seen(x)' = Seen(x)) /\ Seen(b)' = v
      /\ (\A x \in Addr : x # b => disk'[x] = disk[x]) /\ disk'[b] = v /\ ~committing
  BY BypassC
<1>3. Ops = {} /\ Ops' = Ops
  BY <1>1 DEF Ops
<1>4. disk[LogStart] = << >> /\ disk'[LogStart] = << >> /\ \A x \in Block : x \in Addr
  BY <1>1, <1>2, <1>3, QuietHead, AddrFacts
<1>5. \A x \in Block : Replayed(disk, x) = disk[x] /\ Replayed(disk', x) = disk'[x]
  BY <1>4, ReplayedEmpty
<1>6. Stable' = [Stable EXCEPT ![b] = v]
  BY <1>2, <1>4, <1>5 DEF Stable
<1>7. Mem' = [Mem EXCEPT ![b] = v]
  BY <1>1, <1>2 DEF Mem
<1>8. QED
  BY <1>3, <1>6, <1>7, PromiseThrough

LEMMA ReadRefines ==
    ASSUME IInv, CInv, Ample, NEW b \in Block, ReadBlock(b)
    PROVE  (Promise!vars)' = Promise!vars
<1>1. UNCHANGED <<disk, pc, boot>> /\ boot = "up"
  BY DEF ReadBlock
<1>2. \A x \in Block : Seen(x)' = Seen(x)
  BY ReadC
<1>3. Ops' = Ops
  BY <1>1 DEF Ops
<1>4. QED
  BY <1>1, <1>2, <1>3, SameMem, SameStable, PromiseSame

LEMMA CrashRefines ==
    ASSUME IInv, CInv, Crash
    PROVE  Promise!Next
<1>1. disk' = disk /\ boot' = "read_head" /\ \A t \in Thread : pc'[t] = "idle"
  BY DEF Crash
<1>2. Ops' = {}
  BY <1>1 DEF Ops
<1>3. Mem' = Stable
  BY <1>1 DEF Mem, Stable
<1>4. QED
  BY <1>1, <1>2, <1>3, SameStable, PromiseCrash

LEMMA RecoverHeadRefines ==
    ASSUME IInv, CInv, Ample, RecoverHead
    PROVE  (Promise!vars)' = Promise!vars
<1>1. UNCHANGED <<disk, pc>> /\ boot = "read_head"
  BY DEF RecoverHead
<1>2. (boot' = "up" => disk[LogStart] = << >>) /\ \A x \in Block : Seen(x)' = disk[x]
  BY RecoverHeadC
<1>3. Ops' = Ops
  BY <1>1 DEF Ops
<1>4. \A x \in Block : boot' = "up" => Seen(x)' = Replayed(disk, x)
  BY <1>2, ReplayedEmpty
<1>5. Mem' = Mem
  BY <1>1, <1>4 DEF Mem
<1>6. QED
  BY <1>1, <1>3, <1>5, SameStable, PromiseSame

LEMMA RecoverInstallRefines ==
    ASSUME IInv, CInv, Ample, RecoverInstall
    PROVE  (Promise!vars)' = Promise!vars
<1>1. pc' = pc /\ boot = "install"
  BY DEF RecoverInstall
<1>2. InReplay /\ Distinct(lh) /\ boot' # "up" /\ disk'[LogStart] = disk[LogStart]
  BY RecoverInstallC
<1>3. PICK i \in DOMAIN lh : (\A x \in Block \cup Slot : x # lh[i] => disk'[x] = disk[x]) /\ disk'[lh[i]] = disk[i]
  BY RecoverInstallC
<1>4. /\ lh \in Seq(Block) /\ disk[LogStart] = lh /\ disk'[LogStart] = lh /\ Len(lh) \in Nat /\ Len(lh) < NLog
      /\ DOMAIN lh = 1 .. Len(lh)
  BY <1>2 DEF InReplay, IInv, TypeInv
<1>5. \A j \in DOMAIN lh : lh[j] \in Block /\ j \in Slot
  BY <1>4, NumFacts
<1>6. ASSUME NEW x \in Block PROVE Replayed(disk', x) = Replayed(disk, x)
  <2>1. /\ \A j \in DOMAIN lh : lh[j] = x => Replayed(disk, x) = disk[j] /\ Replayed(disk', x) = disk'[j]
        /\ (\A j \in DOMAIN lh : lh[j] # x) => Replayed(disk, x) = disk[x] /\ Replayed(disk', x) = disk'[x]
    BY <1>2, <1>4, ReplayedAt
  <2>2. \A j \in DOMAIN lh : disk'[j] = disk[j]
    <3> TAKE j \in DOMAIN lh
    <3>1. j \in Slot /\ j # lh[i]
      BY <1>5, AddrFacts
    <3>2. QED
      BY <1>3, <3>1
  <2>3. (\A j \in DOMAIN lh : lh[j] # x) => disk'[x] = disk[x]
    BY <1>3
  <2>4. QED
    BY <2>1, <2>2, <2>3
<1>7. Stable' = Stable /\ Mem' = Mem
  BY <1>1, <1>2, <1>6 DEF Stable, Mem
<1>8. Ops' = Ops
  BY <1>1 DEF Ops
<1>9. QED
  BY <1>7, <1>8, PromiseSame

LEMMA RecoverClearRefines ==
    ASSUME IInv, CInv, Ample, RecoverClear
    PROVE  (Promise!vars)' = Promise!vars
<1>1. pc' = pc /\ boot = "clear_head" /\ boot' = "up"
  BY DEF RecoverClear
<1>2. /\ InErase /\ disk'[LogStart] = << >>
      /\ \A x \in Block : disk'[x] = disk[x] /\ Seen(x)' = disk'[x]
  BY RecoverClearC
<1>3. disk[LogStart] \in Seq(Block) /\ Distinct(disk[LogStart])
  BY IInvParts DEF TypeInv
<1>4. ASSUME NEW x \in Block PROVE Replayed(disk, x) = disk[x] /\ Replayed(disk', x) = disk[x] /\ Seen(x)' = disk[x]
  <2>1. /\ \A j \in DOMAIN disk[LogStart] : disk[LogStart][j] = x => Replayed(disk, x) = disk[j]
        /\ (\A j \in DOMAIN disk[LogStart] : disk[LogStart][j] # x) => Replayed(disk, x) = disk[x]
    BY <1>3, ReplayedAt
  <2>2. \A j \in DOMAIN disk[LogStart] : disk[LogStart][j] = x => disk[j] = disk[x]
    BY <1>2 DEF InErase
  <2>3. Replayed(disk, x) = disk[x]
    BY <2>1, <2>2
  <2>4. Replayed(disk', x) = disk'[x]
    BY <1>2, ReplayedEmpty
  <2>5. QED
    BY <1>2, <2>3, <2>4
<1>5. Stable' = Stable /\ Mem' = Mem
  BY <1>1, <1>4 DEF Stable, Mem
<1>6. Ops' = Ops
  BY <1>1 DEF Ops
<1>7. QED
  BY <1>5, <1>6, PromiseSame

LEMMA StutterRefines ==
    ASSUME IInv, CInv, UNCHANGED vars
    PROVE  (Promise!vars)' = Promise!vars
<1>1. UNCHANGED <<disk, pc, boot>> /\ \A x : Seen(x)' = Seen(x)
  BY StutterC DEF vars
<1>2. Ops' = Ops
  BY <1>1 DEF Ops
<1>3. Mem' = Mem
  BY <1>1 DEF Mem
<1>4. QED
  BY <1>1, <1>2, <1>3, SameStable, PromiseSame

LEMMA NextRefines ==
    Ample /\ IInv /\ CInv /\ [Next]_vars => Promise!Next \/ (Promise!vars)' = Promise!vars
<1> SUFFICES ASSUME Ample, IInv, CInv, [Next]_vars PROVE Promise!Next \/ (Promise!vars)' = Promise!vars
  OBVIOUS
<1>1. ASSUME NEW t \in Thread, Step(t) PROVE Promise!Next \/ (Promise!vars)' = Promise!vars
  BY <1>1, BeginRefines, EndRefines, LogRefines, HeadRefines, InstallRefines, ClearRefines, ReleaseRefines DEF Step
<1>2. ASSUME NEW t \in Thread, BeginOp(t) PROVE Promise!Next \/ (Promise!vars)' = Promise!vars
  BY <1>2, BeginRefines
<1>3. ASSUME NEW t \in Thread, NEW b \in Block, NEW v \in Val, WriteBlock(t, b, v) PROVE Promise!Next
  BY <1>3, WriteRefines
<1>4. ASSUME NEW b \in Block, NEW v \in Val, BypassLog(b, v) PROVE Promise!Next
  BY <1>4, BypassRefines
<1>5. ASSUME NEW b \in Block, ReadBlock(b) PROVE (Promise!vars)' = Promise!vars
  BY <1>5, ReadRefines
<1>6. CASE Crash
  BY <1>6, CrashRefines
<1>7. CASE RecoverHead
  BY <1>7, RecoverHeadRefines
<1>8. CASE RecoverInstall
  BY <1>8, RecoverInstallRefines
<1>9. CASE RecoverClear
  BY <1>9, RecoverClearRefines
<1>10. CASE UNCHANGED vars
  BY <1>10, StutterRefines
<1>11. QED
  BY <1>1, <1>2, <1>3, <1>4, <1>5, <1>6, <1>7, <1>8, <1>9, <1>10 DEF Next

LEMMA InitRefines == Init => Promise!Init
<1> SUFFICES ASSUME Init PROVE Promise!Init
  OBVIOUS
<1>1. IInv /\ boot = "read_head" /\ \A t \in Thread : pc[t] = "idle"
  BY InitIInv DEF Init
<1>2. disk[LogStart] = << >> /\ \A x \in Block : disk[x] \in Val
  <2>1. TypeInv
    BY <1>1 DEF IInv
  <2>2. QED
    BY <2>1, AddrFacts DEF Init, TypeInv
<1>3. \A x \in Block : Replayed(disk, x) \in Val
  BY <1>2, ReplayedEmpty
<1>4. Stable \in [Block -> Val] /\ Mem = Stable
  BY <1>1, <1>3 DEF Stable, Mem
<1>5. Ops = {}
  BY <1>1 DEF Ops
<1>6. QED
  BY <1>4, <1>5, MemIs, StableIs, Zenon DEF Promise!Init, Ops

\* The journal of simple-fs (log.c over buf.c) implements the atomic disk: the blocks
\* of overlapping operations appear on the disk all at once, when write_head writes the
\* header of their commit, or not at all, wherever the process dies in a commit or in
\* a recovery and however often.  Ample are the hypotheses: operations keep to
\* MAXOPBLOCKS, and either the cache holds every block of the image, so that the
\* references recovery takes twice do no harm, or the process does not crash and
\* the cache is no smaller than the log, as NBUF and LOGSIZE are.
THEOREM ImplementsAtomicDisk == Ample => (Spec => CrashAtomic)
<1>1. ASSUME Ample PROVE Spec => Promise!Spec
  <2>1. IInv /\ CInv /\ [Next]_vars => [Promise!Next]_(Promise!vars)
    BY <1>1, NextRefines
  <2>2. Spec => [](IInv /\ CInv)
    BY <1>1, CInvariant
  <2>3. QED
    BY <2>1, <2>2, InitRefines, PTL DEF Spec, Promise!Spec
<1>2. QED
  BY <1>1 DEF CrashAtomic
=============================================================================
