-------------------------- MODULE RecursionProofs --------------------------
(***************************************************************************)
(* What recursive functions compute, for every argument.                   *)
(*                                                                         *)
(* A definition f[x \in S] == e chooses a function that satisfies its      *)
(* equation, so two things have to be shown each time: that there is one,  *)
(* and what every one of them returns.  Both go by induction over an       *)
(* initial segment of the naturals, written with a set instead of a        *)
(* predicate (UpTo) because the provers take no operator for an argument.  *)
(***************************************************************************)
EXTENDS Integers, Sequences, FiniteSets, FiniteSetTheorems, WellFoundedInduction, TLAPS
LOCAL INSTANCE LowerBound

\* Every set of natural numbers that is not empty has a least element.
LEMMA LeastNat ==
    ASSUME NEW T \in SUBSET Nat, T # {}
    PROVE  \E m \in T : \A y \in T : m <= y
<1> DEFINE R == {ss \in Nat \X Nat : ss[1] < ss[2]}
<1>1. IsWellFoundedOn(R, Nat)
  BY NatLessThanWellFounded, Zenon DEF OpToRel
<1>2. \A a, b \in Nat : a < b => <<a, b>> \in R
  OBVIOUS
<1> HIDE DEF R
<1>3. PICK m \in T : \A y \in T : ~(<<y, m>> \in R)
  BY <1>1, WFMin
<1>4. \A y \in T : m <= y
  <2> TAKE y \in T
  <2>1. m \in Nat /\ y \in Nat
    OBVIOUS
  <2>2. ~(y < m)
    BY <1>2, <1>3, <2>1, Zenon
  <2>3. QED
    BY <2>1, <2>2
<1>5. QED
  BY <1>4

\* Induction over 0 .. n: a set that holds 0 and with each number the next holds all.
LEMMA UpTo ==
    ASSUME NEW n \in Nat, NEW S, 0 \in S,
           \A k \in 0 .. n - 1 : k \in S => k + 1 \in S
    PROVE  \A k \in 0 .. n : k \in S
<1> SUFFICES ASSUME \E k \in 0 .. n : k \notin S PROVE FALSE
  OBVIOUS
<1> DEFINE T == {k \in 0 .. n : k \notin S}
<1>1. T \in SUBSET Nat /\ T # {}
  OBVIOUS
<1>2. PICK m \in T : \A y \in T : m <= y
  BY <1>1, LeastNat
<1>3. m \in 1 .. n
  BY <1>2
<1>4. m - 1 \in 0 .. n - 1 /\ m - 1 \in S
  BY <1>2, <1>3
<1>5. (m - 1) + 1 \in S
  BY <1>4
<1>6. QED
  BY <1>2, <1>3, <1>5

\* Induction downwards is the same over n - k; a bounded set of naturals has a greatest.
LEMMA GreatestNat ==
    ASSUME NEW T \in SUBSET Nat, T # {}, NEW b \in Nat, \A x \in T : x <= b
    PROVE  \E m \in T : \A y \in T : y <= m
<1> DEFINE D == {b - x : x \in T}
<1>1. D \in SUBSET Nat
  <2>1. \A x \in T : b - x \in Nat
    OBVIOUS
  <2>2. QED
    BY <2>1, Zenon
<1>2. D # {}
  BY Zenon
<1> HIDE DEF D
<1>3. PICK d \in D : \A y \in D : d <= y
  BY <1>1, <1>2, LeastNat
<1>4. PICK m \in T : d = b - m
  BY <1>3 DEF D
<1>5. \A y \in T : y <= m
  <2> TAKE y \in T
  <2>1. b - y \in D
    BY DEF D
  <2>2. b - m <= b - y
    BY <1>3, <1>4, <2>1
  <2>3. QED
    BY <2>2
<1>6. QED
  BY <1>5

-----------------------------------------------------------------------------
(* Primitive recursion. *)

\* F makes a result of type T of a step's number and the result before it.
StepsIn(F, n, T) == F \in [(1 .. n) \X T -> T]

Recurs(g, n, T, F, base) ==
    /\ g \in [0 .. n -> T]
    /\ g[0] = base
    /\ \A i \in 1 .. n : g[i] = F[<<i, g[i - 1]>>]

\* There is a function on 0 .. n that begins with base and goes on with F.
LEMMA RecursionExists ==
    ASSUME NEW n \in Nat, NEW T, NEW F, StepsIn(F, n, T), NEW base \in T
    PROVE  \E g : Recurs(g, n, T, F, base)
<1> USE DEF StepsIn
<1> DEFINE Fits(k) == \E g \in [0 .. k -> T] :
                         /\ g[0] = base
                         /\ \A i \in 1 .. k : g[i] = F[<<i, g[i - 1]>>]
           S == {k \in 0 .. n : Fits(k)}
<1>1. 0 \in S
  <2>1. [i \in 0 .. 0 |-> base] \in [0 .. 0 -> T]
    OBVIOUS
  <2>2. [i \in 0 .. 0 |-> base][0] = base
    OBVIOUS
  <2>3. \A i \in 1 .. 0 : FALSE
    OBVIOUS
  <2>4. Fits(0)
    BY <2>1, <2>2, <2>3
  <2>5. QED
    BY <2>4
<1>2. ASSUME NEW k \in 0 .. n - 1, k \in S PROVE k + 1 \in S
  <2>1. PICK g \in [0 .. k -> T] :
           /\ g[0] = base
           /\ \A i \in 1 .. k : g[i] = F[<<i, g[i - 1]>>]
    BY <1>2
  <2> DEFINE e == F[<<k + 1, g[k]>>]
  <2>2. e \in T
    <3>1. k + 1 \in 1 .. n /\ g[k] \in T
      BY <2>1
    <3>2. <<k + 1, g[k]>> \in (1 .. n) \X T
      BY <3>1
    <3>3. QED
      BY <3>2
  <2> HIDE DEF e
  <2> DEFINE h == [i \in 0 .. k + 1 |-> IF i = k + 1 THEN e ELSE g[i]]
  <2>3. h \in [0 .. k + 1 -> T]
    <3>1. \A i \in 0 .. k + 1 : i # k + 1 => i \in 0 .. k
      OBVIOUS
    <3>2. QED
      BY <2>1, <2>2, <3>1
  <2>4. h[0] = base
    BY <2>1
  <2>5. \A i \in 1 .. k + 1 : h[i] = F[<<i, h[i - 1]>>]
    <3> TAKE i \in 1 .. k + 1
    <3>1. i \in 0 .. k + 1 /\ i - 1 \in 0 .. k + 1 /\ i - 1 # k + 1
      OBVIOUS
    <3>2. h[i - 1] = g[i - 1]
      BY <3>1
    <3>3. CASE i = k + 1
      <4>1. h[i] = e /\ i - 1 = k
        BY <3>1, <3>3
      <4>2. QED
        BY <3>2, <3>3, <4>1 DEF e
    <3>4. CASE i # k + 1
      <4>1. h[i] = g[i] /\ i \in 1 .. k
        BY <3>1, <3>4
      <4>2. QED
        BY <2>1, <3>2, <4>1
    <3>5. QED
      BY <3>3, <3>4
  <2> HIDE DEF h
  <2>6. Fits(k + 1)
    BY <2>3, <2>4, <2>5
  <2>7. QED
    BY <2>6
<1> HIDE DEF S
<1>3. n \in S
  <2>1. \A k \in 0 .. n : k \in S
    BY <1>1, <1>2, UpTo
  <2>2. QED
    BY <2>1
<1>4. QED
  BY <1>3 DEF S, Recurs

-----------------------------------------------------------------------------
(* The binary search. *)

Mid(l, r) == l + (r - l) \div 2

LEMMA MidBetween ==
    ASSUME NEW l \in Nat, NEW r \in Nat, l < r
    PROVE  Mid(l, r) \in Nat /\ l <= Mid(l, r) /\ Mid(l, r) < r
BY DEF Mid

\* One round of the loop, given what g says of the shorter ranges.
Round(g, below, w) ==
    IF w[1] >= w[2] THEN w[1]
    ELSE IF Mid(w[1], w[2]) \in below THEN g[<<Mid(w[1], w[2]) + 1, w[2]>>]
                                      ELSE g[<<w[1], Mid(w[1], w[2])>>]

Ranges(n) == (0 .. n) \X (0 .. n)

LEMMA RoundTyped ==
    ASSUME NEW n \in Nat, NEW below, NEW g \in [Ranges(n) -> 0 .. n], NEW w \in Ranges(n)
    PROVE  Round(g, below, w) \in 0 .. n
<1>1. w[1] \in 0 .. n /\ w[2] \in 0 .. n
  BY DEF Ranges
<1>2. CASE w[1] >= w[2]
  BY <1>1, <1>2 DEF Round
<1>3. CASE w[1] < w[2]
  <2>1. PICK m : m = Mid(w[1], w[2])
    OBVIOUS
  <2>2. m \in Nat /\ w[1] <= m /\ m < w[2]
    BY <1>1, <1>3, <2>1, MidBetween
  <2>3. <<m + 1, w[2]>> \in Ranges(n) /\ <<w[1], m>> \in Ranges(n)
    BY <1>1, <2>2 DEF Ranges
  <2>4. g[<<m + 1, w[2]>>] \in 0 .. n /\ g[<<w[1], m>>] \in 0 .. n
    BY <2>3
  <2>5. QED
    BY <1>1, <1>3, <2>1, <2>4 DEF Round
<1>4. QED
  BY <1>1, <1>2, <1>3

LEMMA SearchExists ==
    ASSUME NEW n \in Nat, NEW below
    PROVE  \E g : g = [w \in Ranges(n) |-> Round(g, below, w)]
<1> DEFINE Fits(k) == \E g \in [Ranges(n) -> 0 .. n] :
                         \A w \in Ranges(n) : w[2] - w[1] <= k => g[w] = Round(g, below, w)
           S == {k \in 0 .. n : Fits(k)}
<1>0. \A w \in Ranges(n) : w[1] \in 0 .. n /\ w[2] \in 0 .. n
  BY DEF Ranges
<1>1. 0 \in S
  <2> DEFINE g == [w \in Ranges(n) |-> w[1]]
  <2>1. g \in [Ranges(n) -> 0 .. n]
    BY <1>0
  <2>2. \A w \in Ranges(n) : g[w] = w[1]
    OBVIOUS
  <2> HIDE DEF g
  <2>3. \A w \in Ranges(n) : w[2] - w[1] <= 0 => g[w] = Round(g, below, w)
    BY <1>0, <2>2 DEF Round
  <2>4. Fits(0)
    BY <2>1, <2>3
  <2> HIDE DEF Fits
  <2>5. QED
    BY <2>4
<1>2. ASSUME NEW k \in 0 .. n - 1, k \in S PROVE k + 1 \in S
  <2>1. PICK g \in [Ranges(n) -> 0 .. n] :
           \A w \in Ranges(n) : w[2] - w[1] <= k => g[w] = Round(g, below, w)
    BY <1>2
  <2> DEFINE h == [w \in Ranges(n) |-> IF w[2] - w[1] <= k THEN g[w] ELSE Round(g, below, w)]
  <2>2. h \in [Ranges(n) -> 0 .. n]
    <3>1. \A w \in Ranges(n) : Round(g, below, w) \in 0 .. n
      BY RoundTyped
    <3>2. QED
      BY <3>1
  <2>3. \A w \in Ranges(n) : w[2] - w[1] <= k => h[w] = g[w]
    OBVIOUS
  <2>4. \A w \in Ranges(n) : ~(w[2] - w[1] <= k) => h[w] = Round(g, below, w)
    OBVIOUS
  <2> HIDE DEF h
  <2>5. ASSUME NEW w \in Ranges(n), w[2] - w[1] <= k + 1
        PROVE  h[w] = Round(h, below, w)
    <3>1. h[w] = Round(g, below, w)
      BY <2>1, <2>3, <2>4
    <3>2. CASE w[1] >= w[2]
      BY <3>1, <3>2 DEF Round
    <3>3. CASE w[1] < w[2]
      <4>1. PICK m : m = Mid(w[1], w[2])
        OBVIOUS
      <4>2. m \in Nat /\ w[1] <= m /\ m < w[2]
        BY <1>0, <3>3, <4>1, MidBetween
      <4>3. PICK a, b : a = <<m + 1, w[2]>> /\ b = <<w[1], m>>
        OBVIOUS
      <4>4. a \in Ranges(n) /\ b \in Ranges(n) /\ a[2] - a[1] <= k /\ b[2] - b[1] <= k
        <5>1. w[1] \in 0 .. n /\ w[2] \in 0 .. n
          BY <1>0
        <5>2. a[1] = m + 1 /\ a[2] = w[2] /\ b[1] = w[1] /\ b[2] = m
          BY <4>3
        <5>3. a \in Ranges(n) /\ b \in Ranges(n)
          BY <4>2, <4>3, <5>1 DEF Ranges
        <5>4. w[2] - (m + 1) <= k /\ m - w[1] <= k
          BY <2>5, <4>2, <5>1
        <5>5. QED
          BY <5>2, <5>3, <5>4
      <4>5. h[a] = g[a] /\ h[b] = g[b]
        BY <2>3, <4>4
      <4>6. ~(w[1] >= w[2])
        BY <1>0, <3>3
      <4>7. QED
        BY <3>1, <4>1, <4>3, <4>5, <4>6 DEF Round
    <3>4. QED
      BY <1>0, <3>2, <3>3
  <2>6. Fits(k + 1)
    BY <2>2, <2>5
  <2> HIDE DEF Fits
  <2>7. QED
    BY <2>6
<1> HIDE DEF S
<1>3. n \in S
  <2>1. \A k \in 0 .. n : k \in S
    BY <1>1, <1>2, UpTo
  <2>2. QED
    BY <2>1
<1>4. PICK g \in [Ranges(n) -> 0 .. n] :
         \A w \in Ranges(n) : w[2] - w[1] <= n => g[w] = Round(g, below, w)
  BY <1>3 DEF S
<1>5. \A w \in Ranges(n) : g[w] = Round(g, below, w)
  BY <1>0, <1>4
<1>6. g = [w \in Ranges(n) |-> Round(g, below, w)]
  BY <1>4, <1>5
<1>7. QED
  BY <1>6

\* Every function that does the rounds ends where the position before is below and
\* the one it stops at is not.
Stops(l, r, m, below) ==
    /\ m \in l .. r
    /\ m = l \/ m - 1 \in below
    /\ m = r \/ m \notin below

LEMMA SearchStops ==
    ASSUME NEW n \in Nat, NEW below, NEW g,
           \A w \in Ranges(n) : g[w] = Round(g, below, w),
           NEW l \in 0 .. n, NEW r \in 0 .. n, l <= r
    PROVE  Stops(l, r, g[<<l, r>>], below)
<1> DEFINE S == {k \in 0 .. n : \A a, b \in 0 .. n :
                   a <= b /\ b - a <= k => Stops(a, b, g[<<a, b>>], below)}
<1>1. 0 \in S
  <2>1. ASSUME NEW a \in 0 .. n, NEW b \in 0 .. n, a <= b, b - a <= 0
        PROVE  Stops(a, b, g[<<a, b>>], below)
    <3>1. a = b /\ <<a, b>> \in Ranges(n)
      BY <2>1 DEF Ranges
    <3>2. g[<<a, b>>] = Round(g, below, <<a, b>>)
      BY <3>1
    <3>3. Round(g, below, <<a, b>>) = a
      BY <3>1 DEF Round
    <3>4. QED
      BY <3>1, <3>2, <3>3 DEF Stops
  <2>2. QED
    BY <2>1
<1>2. ASSUME NEW k \in 0 .. n - 1, k \in S PROVE k + 1 \in S
  <2>0. \A a, b \in 0 .. n : a <= b /\ b - a <= k => Stops(a, b, g[<<a, b>>], below)
    BY <1>2
  <2>1. ASSUME NEW a \in 0 .. n, NEW b \in 0 .. n, a <= b, b - a <= k + 1
        PROVE  Stops(a, b, g[<<a, b>>], below)
    <3>1. <<a, b>> \in Ranges(n)
      BY DEF Ranges
    <3>2. g[<<a, b>>] = Round(g, below, <<a, b>>)
      BY <3>1
    <3>3. CASE a = b
      BY <2>0, <3>3
    <3>4. CASE a < b
      <4>1. PICK m : m = Mid(a, b)
        OBVIOUS
      <4>2. m \in Nat /\ a <= m /\ m < b
        BY <3>4, <4>1, MidBetween
      <4>3. g[<<a, b>>] = IF m \in below THEN g[<<m + 1, b>>] ELSE g[<<a, m>>]
        BY <3>2, <3>4, <4>1 DEF Round
      <4>4. CASE m \in below
        <5>1. Stops(m + 1, b, g[<<m + 1, b>>], below)
          BY <2>0, <2>1, <4>2
        <5>2. QED
          BY <4>2, <4>3, <4>4, <5>1 DEF Stops
      <4>5. CASE m \notin below
        <5>1. Stops(a, m, g[<<a, m>>], below)
          BY <2>0, <2>1, <4>2
        <5>2. QED
          BY <4>2, <4>3, <4>5, <5>1 DEF Stops
      <4>6. QED
        BY <4>4, <4>5
    <3>5. QED
      BY <2>1, <3>3, <3>4
  <2>2. QED
    BY <2>1
<1>3. n \in S
  <2>1. \A k \in 0 .. n : k \in S
    <3> HIDE DEF S
    <3>1. QED
      BY <1>1, <1>2, UpTo
  <2>2. QED
    BY <2>1
<1>4. QED
  BY <1>3

\* FirstNotBelow stops at a position that is not below, or the end, with one that is
\* below before it, or the beginning.
LEMMA FirstNotBelowStops ==
    ASSUME NEW n \in Nat, NEW below
    PROVE  Stops(0, n, FirstNotBelow(n, below), below)
<1> DEFINE It == CHOOSE g : g = [w \in Ranges(n) |-> Round(g, below, w)]
<1>1. It = [w \in Ranges(n) |-> Round(It, below, w)]
  BY SearchExists, Zenon
<1>2. FirstNotBelow(n, below) = It[<<0, n>>]
  BY Zenon DEF FirstNotBelow, Ranges, Round, Mid
<1> HIDE DEF It
<1>3. PICK g : g = It
  OBVIOUS
<1>4. \A w \in Ranges(n) : g[w] = Round(g, below, w)
  <2>1. g = [w \in Ranges(n) |-> Round(g, below, w)]
    BY <1>1, <1>3, Zenon
  <2>2. QED
    BY <2>1
<1>5. Stops(0, n, g[<<0, n>>], below)
  BY <1>4, SearchStops, SMTT(40)
<1>6. QED
  BY <1>2, <1>3, <1>5
=============================================================================
