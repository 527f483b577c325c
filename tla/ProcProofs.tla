----------------------------- MODULE ProcProofs -----------------------------
(***************************************************************************)
(* Proofs about ProcTable, for any number of slots, pages and processes.   *)
(***************************************************************************)
EXTENDS ProcTable, WellFoundedInduction, SequenceTheorems, TLAPS

-----------------------------------------------------------------------------
(* The inductive invariant. *)

\* Where a process may be in the kernel; in fork it owns the slot np[p].
ForkPc == {"stack", "copy", "undo", "publish"}
Pc == {"user", "tick", "back", "return", "asleep"} \cup ForkPc

There == {"SLEEPING", "RUNNABLE", "RUNNING"}
Live == There \cup {"ZOMBIE"}

TypeInv ==
    /\ TypeOK
    /\ pc \in [Proc -> Pc]
    /\ panicked \in BOOLEAN
    /\ free \in Seq(Page)

\* A slot is filled by at most one fork, which is not interrupted by a sleep or an
\* exit; the slot stays an EMBRYO, so that nobody else takes, runs or collects it,
\* and is a child only when it is complete.
ForkOK(p) ==
    /\ pc[p] \in ForkPc =>
          /\ state[p] \in {"RUNNABLE", "RUNNING"}
          /\ np[p] \in Proc /\ state[np[p]] = "EMBRYO"
          /\ pc[p] = "publish" => parent[np[p]] = p
          /\ pc[p] # "publish" => parent[np[p]] = None
    /\ pc[p] \notin ForkPc => np[p] = None

ForkInv ==
    /\ \A p \in Proc : ForkOK(p)
    /\ \A p, q \in Proc : np[p] = np[q] /\ np[p] # None => p = q

\* Init is there and nobody's child, and neither is a free slot.
ParentInv ==
    /\ state[initproc] \in There /\ parent[initproc] = None
    /\ \A p \in Proc : parent[p] # p
    /\ \A p \in Proc : state[p] = "UNUSED" => parent[p] = None
    /\ ParentAlive

\* A process that sleeps does so in wait, on its own slot.
SleepInv ==
    /\ \A p \in Proc : state[p] = "SLEEPING" => pc[p] = "asleep" /\ chan[p] = p
    /\ \A p \in Proc : pc[p] = "asleep" => state[p] \in There
    /\ NoLostWakeup

\* The slots that hold a stack and those that hold a page directory: the live ones,
\* and an embryo from the step of fork on that allocated it.
HasStack(q) ==
    \/ state[q] \in Live
    \/ \E p \in Proc : np[p] = q /\ pc[p] \in {"copy", "publish"}
HasDir(q) ==
    \/ state[q] \in Live
    \/ \E p \in Proc : np[p] = q /\ pc[p] = "publish"

InUse(x) ==
    \/ \E q \in Proc : HasStack(q) /\ kstack[q] = x
    \/ \E q \in Proc : HasDir(q) /\ pgdir[q] = x

PageInv ==
    /\ \A q \in Proc : HasStack(q) => kstack[q] # None
    /\ \A q \in Proc : HasDir(q) => pgdir[q] # None
    /\ \A i \in DOMAIN free : ~InUse(free[i])
    /\ \A q, r \in Proc : HasStack(q) /\ HasStack(r) /\ kstack[q] = kstack[r] => q = r
    /\ \A q, r \in Proc : HasDir(q) /\ HasDir(r) /\ pgdir[q] = pgdir[r] => q = r
    /\ \A q, r \in Proc : HasStack(q) /\ HasDir(r) => kstack[q] # pgdir[r]
    /\ \A i, j \in DOMAIN free : free[i] = free[j] => i = j

IInv == TypeInv /\ ForkInv /\ ParentInv /\ SleepInv /\ PageInv

-----------------------------------------------------------------------------
(* Facts the steps share. *)

\* First returns a member of the set, the least.
LEMMA FirstMember ==
    ASSUME NEW S \in SUBSET Proc, S # {}
    PROVE  First(S) \in S /\ First(S) \in Proc
<1> DEFINE R == {ss \in Nat \X Nat : ss[1] < ss[2]}
<1>1. IsWellFoundedOn(R, Nat)
  BY NatLessThanWellFounded, Zenon DEF OpToRel
<1>2. S \in SUBSET Nat
  BY DEF Proc
<1>3. \A a, b \in Nat : a < b => <<a, b>> \in R
  OBVIOUS
<1> HIDE DEF R
<1>4. PICK x \in S : \A y \in S : ~(<<y, x>> \in R)
  BY <1>1, <1>2, WFMin
<1>5. \A y \in S : x <= y
  <2> TAKE y \in S
  <2>1. x \in Nat /\ y \in Nat
    BY <1>2
  <2>2. ~(y < x)
    BY <1>3, <1>4, <2>1, Zenon
  <2>3. QED
    BY <2>1, <2>2
<1>6. First(S) \in S
  BY <1>5 DEF First
<1>7. QED
  BY <1>6

LEMMA Slots == initproc \in Proc /\ None \notin Proc /\ Proc \subseteq Nat
BY ProcAssumption DEF initproc, None, Proc

LEMMA Runs ==
    ASSUME IInv, NEW p \in Proc, cur = p
    PROVE  state[p] = "RUNNING"
BY DEF IInv, TypeInv, TypeOK

\* A step of p outside fork leaves the forks of the others alone.
LEMMA ForkFrame ==
    ASSUME IInv, NEW p \in Proc, NEW v, v \notin ForkPc, pc[p] \notin ForkPc,
           state[p] # "EMBRYO", pc' = [pc EXCEPT ![p] = v], UNCHANGED <<parent, np>>,
           \A q \in Proc : q # p => state'[q] = state[q]
    PROVE  ForkInv'
<1>1. ForkInv /\ pc \in [Proc -> Pc]
  BY DEF IInv, TypeInv
<1>2. ASSUME NEW q \in Proc PROVE ForkOK(q)'
  <2>1. ForkOK(q)
    BY <1>1 DEF ForkInv
  <2>2. CASE q = p
    BY <1>1, <2>1, <2>2 DEF ForkOK
  <2>3. CASE q # p
    <3>1. pc'[q] = pc[q] /\ state'[q] = state[q]
      BY <1>1, <2>3
    <3>2. CASE pc[q] \in ForkPc
      <4>1. np[q] \in Proc /\ state[np[q]] = "EMBRYO"
        BY <2>1, <3>2 DEF ForkOK
      <4>2. state'[np[q]] = state[np[q]]
        BY <4>1
      <4>3. QED
        BY <2>1, <3>1, <3>2, <4>1, <4>2 DEF ForkOK
    <3>3. CASE pc[q] \notin ForkPc
      BY <2>1, <3>1, <3>3 DEF ForkOK
    <3>4. QED
      BY <3>2, <3>3
  <2>4. QED
    BY <2>2, <2>3
<1>3. QED
  BY <1>1, <1>2 DEF ForkInv

\* A step in which p, which runs, does not fall asleep and nobody else changes.
LEMMA SleepFrame ==
    ASSUME IInv, NEW p \in Proc, cur = p, NEW v, v # "asleep", pc' = [pc EXCEPT ![p] = v],
           UNCHANGED <<parent, chan>>, state'[p] \in {"RUNNING", "RUNNABLE"},
           \A q \in Proc : q # p => state'[q] = state[q] /\ (killed'[q] <=> killed[q])
    PROVE  SleepInv'
<1>1. SleepInv /\ pc \in [Proc -> Pc]
  BY DEF IInv, TypeInv
<1>2. \A q \in Proc : state'[q] = "SLEEPING" => q # p /\ state[q] = "SLEEPING" /\ pc'[q] = pc[q]
  BY <1>1
<1>3. \A q \in Proc : pc'[q] = "asleep" => q # p /\ pc[q] = "asleep" /\ state'[q] = state[q]
  BY <1>1
<1>4. \A q \in Proc : state'[q] = "ZOMBIE" => state[q] = "ZOMBIE"
  OBVIOUS
<1>5. NoLostWakeup'
  BY <1>1, <1>2, <1>4 DEF SleepInv, NoLostWakeup
<1>6. QED
  BY <1>1, <1>2, <1>3, <1>5 DEF SleepInv

\* Pages stay owned once when none changes hands and no slot comes to hold one.
LEMMA PagesFrame ==
    ASSUME PageInv, UNCHANGED <<kstack, pgdir, free>>,
           \A q \in Proc : HasStack(q)' => HasStack(q),
           \A q \in Proc : HasDir(q)' => HasDir(q)
    PROVE  PageInv'
<1>1. \A x : InUse(x)' => InUse(x)
  BY DEF InUse
<1>2. QED
  BY <1>1 DEF PageInv

-----------------------------------------------------------------------------
(* One lemma per step. *)

LEMMA TimerStep ==
    ASSUME IInv, NEW p \in Proc, Timer(p)
    PROVE  IInv'
<1> USE Slots DEF IInv, Timer, Interruptible
<1>1. TypeInv'
  BY DEF TypeInv, TypeOK, Pc
<1>2. ForkInv'
  BY SMTT(30) DEF TypeInv, TypeOK, ForkInv, ForkOK, ForkPc
<1>3. ParentInv'
  BY DEF TypeInv, TypeOK, ParentInv, ParentAlive, There
<1>4. SleepInv'
  BY DEF TypeInv, TypeOK, SleepInv, NoLostWakeup, There
<1>5. PageInv'
  <2>1. \A q \in Proc : HasStack(q)' => HasStack(q)
    BY DEF TypeInv, TypeOK, HasStack, Live, There
  <2>2. \A q \in Proc : HasDir(q)' => HasDir(q)
    BY DEF TypeInv, TypeOK, HasDir, Live, There
  <2>3. QED
    BY <2>1, <2>2, PagesFrame
<1>6. QED
  BY <1>1, <1>2, <1>3, <1>4, <1>5

LEMMA SchedulerStep ==
    ASSUME IInv, Scheduler
    PROVE  IInv'
<1> DEFINE ready == {p \in Proc : p >= scan /\ state[p] = "RUNNABLE"}
           r == First(ready)
<1>1. CASE ready = {}
  <2>1. UNCHANGED <<table, pc, np, free, cur, nextpid, panicked>> /\ scan' = 1
    BY <1>1 DEF Scheduler, table
  <2>2. TypeInv'
    BY <2>1, ProcAssumption DEF IInv, TypeInv, TypeOK, table
  <2>3. QED
    BY <2>1, <2>2 DEF IInv, table, ForkInv, ForkOK, ParentInv, ParentAlive, SleepInv, NoLostWakeup,
        PageInv, InUse, HasStack, HasDir
<1>2. CASE ready # {}
  <2>1. r \in Proc /\ state[r] = "RUNNABLE"
    BY <1>2, FirstMember
  <2>2. /\ cur = None /\ cur' = r
        /\ scan' = r + 1
        /\ state' = [state EXCEPT ![r] = "RUNNING"]
        /\ panicked' \in BOOLEAN
        /\ UNCHANGED <<pid, parent, killed, kstack, pgdir, sz, chan, pc, np, free, nextpid>>
    BY <1>2 DEF Scheduler
  <2> HIDE DEF r
  <2> USE Slots DEF IInv
  <2>3. TypeInv'
    <3>1. scan' \in 1 .. NPROC + 1
      BY <2>1, <2>2, ProcAssumption DEF Proc
    <3>2. QED
      BY <2>1, <2>2, <3>1 DEF TypeInv, TypeOK
  <2>4. ForkInv'
    BY <2>1, <2>2 DEF TypeInv, TypeOK, ForkInv, ForkOK, ForkPc
  <2>5. ParentInv'
    BY <2>1, <2>2 DEF TypeInv, TypeOK, ParentInv, ParentAlive, There
  <2>6. SleepInv'
    BY <2>1, <2>2, SMTT(30) DEF TypeInv, TypeOK, SleepInv, NoLostWakeup, There
  <2>7. \A q \in Proc : HasStack(q)' => HasStack(q)
    BY <2>1, <2>2 DEF TypeInv, TypeOK, HasStack, Live, There
  <2>8. \A q \in Proc : HasDir(q)' => HasDir(q)
    BY <2>1, <2>2 DEF TypeInv, TypeOK, HasDir, Live, There
  <2>9. PageInv'
    BY <2>2, <2>7, <2>8, PagesFrame
  <2>10. QED
    BY <2>3, <2>4, <2>5, <2>6, <2>9
<1>3. QED
  BY <1>1, <1>2

\* exit, wherever it is called from outside fork and wait.
LEMMA ExitStep ==
    ASSUME IInv, NEW p \in Proc, cur = p, pc[p] \notin ForkPc \cup {"asleep"}, Exit(p)
    PROVE  IInv'
<1> DEFINE orphans == {q \in Proc : parent[q] = p}
           woken == {parent[p]} \cup
                    IF \E q \in orphans : state[q] = "ZOMBIE" THEN {initproc} ELSE {}
<1>1. CASE p = initproc
  <2>1. panicked' = TRUE /\ UNCHANGED <<table, pc, np, free, nextpid, cur, scan>>
    BY <1>1 DEF Exit
  <2>2. TypeInv'
    BY <2>1 DEF IInv, TypeInv, TypeOK, table
  <2>3. QED
    BY <2>1, <2>2 DEF IInv, table, ForkInv, ForkOK, ParentInv, ParentAlive, SleepInv, NoLostWakeup,
        PageInv, InUse, HasStack, HasDir
<1>2. CASE p # initproc
  <2>1. /\ state' = [q \in Proc |->
                       IF q = p THEN "ZOMBIE"
                       ELSE IF state[q] = "SLEEPING" /\ chan[q] \in woken
                         THEN "RUNNABLE" ELSE state[q]]
        /\ parent' = [q \in Proc |-> IF q \in orphans THEN initproc ELSE parent[q]]
        /\ cur' = None
        /\ UNCHANGED <<pid, killed, kstack, pgdir, sz, chan, pc, np, free, nextpid,
                       scan, panicked>>
    BY <1>2 DEF Exit
  <2> USE Slots DEF IInv
  <2>2. state[p] = "RUNNING" /\ p \notin orphans
    BY DEF TypeInv, TypeOK, ParentInv
  <2>3. \A q \in Proc \ {p} :
          \/ state'[q] = state[q]
          \/ state[q] = "SLEEPING" /\ state'[q] = "RUNNABLE"
    BY <2>1
  <2>4. state'[p] = "ZOMBIE"
    BY <2>1
  <2>5. state' \in [Proc -> {"UNUSED", "EMBRYO", "SLEEPING", "RUNNABLE", "RUNNING", "ZOMBIE"}]
    BY <2>1 DEF TypeInv, TypeOK
  <2>6. \A q \in Proc : parent'[q] = IF parent[q] = p THEN initproc ELSE parent[q]
    BY <2>1
  <2>7. parent' \in [Proc -> Proc \cup {None}]
    BY <2>1 DEF TypeInv, TypeOK
  <2>8. \A q \in Proc : state'[q] = "SLEEPING" => chan[q] \notin woken
    BY <2>1
  <2>9. parent[p] \in woken
    OBVIOUS
  <2>10. (\E q \in Proc : parent[q] = p /\ state[q] = "ZOMBIE") => initproc \in woken
    OBVIOUS
  <2> HIDE DEF orphans, woken
  <2>11. TypeInv'
    BY <2>1, <2>2, <2>3, <2>4, <2>5, <2>7 DEF TypeInv, TypeOK
  <2>12. ForkInv'
    <3>1. ASSUME NEW r \in Proc
          PROVE  ForkOK(r)'
      <4>1. ForkOK(r)
        BY DEF ForkInv
      <4>2. CASE pc[r] \in ForkPc
        <5>1. /\ r # p /\ state[r] \in {"RUNNABLE", "RUNNING"}
              /\ np[r] \in Proc /\ state[np[r]] = "EMBRYO"
          BY <4>1, <4>2 DEF ForkOK
        <5>2. state'[r] = state[r] /\ state'[np[r]] = "EMBRYO"
          BY <2>2, <2>3, <5>1
        <5>3. parent[np[r]] # p
          BY <4>1, <4>2, <5>1 DEF ForkOK
        <5>4. parent'[np[r]] = parent[np[r]]
          BY <2>6, <5>1, <5>3
        <5>5. QED
          BY <2>1, <4>1, <5>1, <5>2, <5>4 DEF ForkOK
      <4>3. CASE pc[r] \notin ForkPc
        BY <2>1, <4>1, <4>3 DEF ForkOK
      <4>4. QED
        BY <4>2, <4>3
    <3>2. QED
      BY <2>1, <3>1 DEF ForkInv
  <2>13. ParentInv'
    <3>1. state'[initproc] \in There /\ parent'[initproc] = None
      BY <1>2, <2>3, <2>6 DEF ParentInv, There
    <3>2. \A q \in Proc : parent'[q] # q
      BY <2>6 DEF ParentInv
    <3>5. \A q \in Proc : state'[q] = "UNUSED" => parent'[q] = None
      BY <2>3, <2>4, <2>6 DEF ParentInv
    <3>3. ASSUME NEW q \in Proc \ {initproc}, state'[q] \in Live
          PROVE  parent'[q] \in Proc /\ state'[parent'[q]] \in There
      <4>1. parent[q] \in Proc /\ state[parent[q]] \in There
        BY <2>2, <2>3, <3>3 DEF ParentInv, ParentAlive, Live, There
      <4>2. CASE parent[q] = p
        BY <2>6, <3>1, <4>2
      <4>3. CASE parent[q] # p
        BY <2>3, <2>6, <4>1, <4>3 DEF There
      <4>4. QED
        BY <4>2, <4>3
    <3>4. QED
      BY <3>1, <3>2, <3>3, <3>5 DEF ParentInv, ParentAlive, Live, There
  <2>14. SleepInv'
    <3>1. \A q \in Proc : state'[q] = "SLEEPING" => state[q] = "SLEEPING" /\ q # p
      BY <2>3, <2>4
    <3>2. \A q \in Proc : state'[q] = "SLEEPING" => pc'[q] = "asleep" /\ chan'[q] = q
      BY <2>1, <3>1 DEF SleepInv
    <3>3. \A q \in Proc : pc'[q] = "asleep" => state'[q] \in There
      BY <2>1, <2>3, <2>4 DEF SleepInv, There
    <3>4. ASSUME NEW q \in Proc, state'[q] = "SLEEPING"
          PROVE  /\ ~killed'[q]
                 /\ \E c \in Proc : parent'[c] = q
                 /\ \A c \in Proc : parent'[c] = q => state'[c] # "ZOMBIE"
      <4>1. /\ ~killed[q] /\ chan[q] = q /\ q # p
            /\ \E c \in Proc : parent[c] = q
            /\ \A c \in Proc : parent[c] = q => state[c] # "ZOMBIE"
        BY <3>1, <3>4 DEF SleepInv, NoLostWakeup
      <4>2. \E c \in Proc : parent'[c] = q
        BY <2>6, <4>1
      <4>3. ASSUME NEW c \in Proc, parent'[c] = q, state'[c] = "ZOMBIE"
            PROVE  FALSE
        <5>1. q \notin woken
          BY <2>8, <3>4, <4>1
        <5>2. CASE c = p
          BY <2>2, <2>6, <2>9, <4>3, <5>1, <5>2 DEF ParentInv
        <5>3. CASE c # p
          <6>1. state[c] = "ZOMBIE"
            BY <2>3, <4>3, <5>3
          <6>2. parent[c] = p /\ q = initproc
            BY <2>6, <4>1, <4>3, <6>1
          <6>3. QED
            BY <2>10, <5>1, <6>1, <6>2
        <5>4. QED
          BY <5>2, <5>3
      <4>4. QED
        BY <2>1, <4>1, <4>2, <4>3
    <3>5. QED
      BY <3>2, <3>3, <3>4 DEF SleepInv, NoLostWakeup
  <2>15. \A q \in Proc : HasStack(q)' => HasStack(q)
    BY <2>1, <2>2, <2>3 DEF HasStack, Live, There
  <2>16. \A q \in Proc : HasDir(q)' => HasDir(q)
    BY <2>1, <2>2, <2>3 DEF HasDir, Live, There
  <2>17. PageInv'
    BY <2>1, <2>15, <2>16, PagesFrame
  <2>18. QED
    BY <2>11, <2>12, <2>13, <2>14, <2>17
<1>3. QED
  BY <1>1, <1>2

LEMMA FaultStep ==
    ASSUME IInv, NEW p \in Proc, Fault(p)
    PROVE  IInv'
<1>a. /\ cur = p /\ pc[p] = "user" /\ pc' = [pc EXCEPT ![p] = "back"]
      /\ UNCHANGED <<parent, np, state>>
  BY DEF Fault, At
<1>b. state[p] = "RUNNING"
  BY <1>a, Runs
<1>2. ForkInv'
  BY <1>a, <1>b, ForkFrame DEF ForkPc
<1>4. SleepInv'
  <2>1. killed' = [killed EXCEPT ![p] = TRUE] /\ UNCHANGED chan
    BY DEF Fault
  <2>2. killed \in [Proc -> BOOLEAN]
    BY DEF IInv, TypeInv, TypeOK
  <2>3. QED
    BY <1>a, <1>b, <2>1, <2>2, SleepFrame
<1> USE Slots DEF IInv, Fault, At
<1>1. TypeInv'
  BY DEF TypeInv, TypeOK, Pc
<1>3. ParentInv'
  BY DEF TypeInv, TypeOK, ParentInv, ParentAlive
<1>5. PageInv'
  <2>1. \A q \in Proc : HasStack(q)' => HasStack(q)
    BY DEF TypeInv, TypeOK, HasStack
  <2>2. \A q \in Proc : HasDir(q)' => HasDir(q)
    BY DEF TypeInv, TypeOK, HasDir
  <2>3. QED
    BY <2>1, <2>2, PagesFrame
<1>6. QED
  BY <1>1, <1>2, <1>3, <1>4, <1>5

LEMMA ReturnStep ==
    ASSUME IInv, NEW p \in Proc, Return(p)
    PROVE  IInv'
<1>1. cur = p /\ pc[p] \in {"return", "back"}
  BY DEF Return, At
<1>2. CASE killed[p]
  BY <1>1, <1>2, ExitStep DEF Return, ForkPc
<1>3. CASE ~killed[p]
  <2>1. /\ pc' = [pc EXCEPT ![p] = "user"]
        /\ UNCHANGED <<table, np, free, nextpid, cur, scan, panicked>>
    BY <1>3 DEF Return
  <2>3. ForkInv'
    <3>1. UNCHANGED <<state, parent, np>>
      BY <2>1 DEF table
    <3>2. QED
      BY <1>1, <2>1, <3>1, Runs, ForkFrame DEF ForkPc
  <2>5. SleepInv'
    <3>1. UNCHANGED <<state, parent, chan, killed>>
      BY <2>1 DEF table
    <3>2. QED
      BY <1>1, <2>1, <3>1, Runs, SleepFrame
  <2> USE Slots DEF IInv, table
  <2>2. TypeInv'
    BY <2>1 DEF TypeInv, TypeOK, Pc
  <2>4. ParentInv'
    BY <2>1 DEF ParentInv, ParentAlive
  <2>6. \A q \in Proc : HasStack(q)' => HasStack(q)
    BY <1>1, <2>1 DEF TypeInv, HasStack
  <2>7. \A q \in Proc : HasDir(q)' => HasDir(q)
    BY <1>1, <2>1 DEF TypeInv, HasDir
  <2>8. PageInv'
    BY <2>1, <2>6, <2>7, PagesFrame
  <2>9. QED
    BY <2>2, <2>3, <2>4, <2>5, <2>8
<1>4. QED
  BY <1>2, <1>3

LEMMA SecondYieldStep ==
    ASSUME IInv, NEW p \in Proc, SecondYield(p)
    PROVE  IInv'
<1>1. cur = p /\ pc[p] = "tick"
  BY DEF SecondYield, At
<1>2. CASE killed[p]
  BY <1>1, <1>2, ExitStep DEF SecondYield, ForkPc
<1>3. CASE ~killed[p]
  <2>1. /\ pc' = [pc EXCEPT ![p] = "back"]
        /\ state' = [state EXCEPT ![p] = "RUNNABLE"]
        /\ cur' = None
        /\ UNCHANGED <<pid, parent, killed, kstack, pgdir, sz, chan, np, free, nextpid,
                       scan, panicked>>
    BY <1>3 DEF SecondYield
  <2>3. ForkInv'
    <3>1. \A q \in Proc : q # p => state'[q] = state[q]
      BY <2>1 DEF IInv, TypeInv, TypeOK
    <3>2. QED
      BY <1>1, <2>1, <3>1, Runs, ForkFrame DEF ForkPc
  <2>5. SleepInv'
    <3>1. state'[p] = "RUNNABLE" /\ \A q \in Proc : q # p => state'[q] = state[q]
      BY <2>1 DEF IInv, TypeInv, TypeOK
    <3>2. QED
      BY <1>1, <2>1, <3>1, SleepFrame
  <2> USE Slots DEF IInv
  <2>2. TypeInv'
    BY <1>1, <2>1 DEF TypeInv, TypeOK, Pc
  <2>4. ParentInv'
    BY <1>1, <2>1 DEF TypeInv, TypeOK, ParentInv, ParentAlive, There
  <2>6. \A q \in Proc : HasStack(q)' => HasStack(q)
    BY <1>1, <2>1 DEF TypeInv, TypeOK, HasStack, Live, There
  <2>7. \A q \in Proc : HasDir(q)' => HasDir(q)
    BY <1>1, <2>1 DEF TypeInv, TypeOK, HasDir, Live, There
  <2>8. PageInv'
    BY <2>1, <2>6, <2>7, PagesFrame
  <2>9. QED
    BY <2>2, <2>3, <2>4, <2>5, <2>8
<1>4. QED
  BY <1>2, <1>3

\* A process that is in no fork and not asleep comes back from a system call that
\* changed at most its own size, a killed flag and the free list's length.
LEMMA ReturnFrame ==
    ASSUME IInv, NEW p \in Proc, At(p, "user"), pc' = [pc EXCEPT ![p] = "return"],
           UNCHANGED <<state, parent, kstack, pgdir, chan, np>>
    PROVE  /\ ForkInv' /\ ParentInv'
           /\ \A q \in Proc : HasStack(q)' => HasStack(q)
           /\ \A q \in Proc : HasDir(q)' => HasDir(q)
           /\ \A q \in Proc : state[q] = "SLEEPING" => pc'[q] = "asleep" /\ chan'[q] = q
           /\ \A q \in Proc : pc'[q] = "asleep" => state'[q] \in There
<1>0. cur = p /\ pc[p] = "user"
  BY DEF At
<1>1. ForkInv'
  BY <1>0, Runs, ForkFrame DEF ForkPc
<1> USE Slots DEF IInv, At
<1>2. ParentInv'
  BY DEF ParentInv, ParentAlive
<1>3. \A q \in Proc : HasStack(q)' => HasStack(q)
  BY DEF TypeInv, HasStack
<1>4. \A q \in Proc : HasDir(q)' => HasDir(q)
  BY DEF TypeInv, HasDir
<1>5. /\ \A q \in Proc : state[q] = "SLEEPING" => pc'[q] = "asleep" /\ chan'[q] = q
      /\ \A q \in Proc : pc'[q] = "asleep" => state'[q] \in There
  BY DEF TypeInv, TypeOK, SleepInv, There
<1>6. QED
  BY <1>1, <1>2, <1>3, <1>4, <1>5

\* kalloc: the free list without its first k pages.
LEMMA FreeTail ==
    ASSUME NEW f \in Seq(Page), NEW k \in 0 .. Len(f), NEW g, g = SubSeq(f, k + 1, Len(f))
    PROVE  /\ g \in Seq(Page)
           /\ \A i \in DOMAIN g : i \in Nat /\ i + k \in DOMAIN f /\ g[i] = f[i + k]
<1>1. g \in Seq(Page) /\ Len(g) = Len(f) - k
  OBVIOUS
<1>2. \A i \in 1 .. Len(g) : g[i] = f[i + k] /\ i + k \in 1 .. Len(f)
  BY <1>1
<1>3. QED
  BY <1>1, <1>2

LEMMA PagesShrink ==
    ASSUME PageInv, free \in Seq(Page), UNCHANGED <<kstack, pgdir>>,
           NEW k \in 0 .. Len(free), free' = SubSeq(free, k + 1, Len(free)),
           \A q \in Proc : HasStack(q)' => HasStack(q),
           \A q \in Proc : HasDir(q)' => HasDir(q)
    PROVE  PageInv'
<1>1. \A i \in DOMAIN free : /\ \A q \in Proc : HasStack(q) => kstack[q] # free[i]
                             /\ \A q \in Proc : HasDir(q) => pgdir[q] # free[i]
  BY DEF PageInv, InUse
<1>2. \A i \in DOMAIN free' : i \in Nat /\ i + k \in DOMAIN free /\ free'[i] = free[i + k]
  BY FreeTail
<1>3. \A i \in DOMAIN free' : (~InUse(free[i]))'
  BY <1>1, <1>2 DEF InUse
<1>4. ASSUME NEW i \in DOMAIN free', NEW j \in DOMAIN free', free'[i] = free'[j]
      PROVE  i = j
  <2>1. i + k = j + k
    BY <1>2, <1>4 DEF PageInv
  <2>2. QED
    BY <1>2, <2>1
<1>5. QED
  BY <1>3, <1>4 DEF PageInv

LEMMA SbrkStep ==
    ASSUME IInv, NEW p \in Proc, NEW n \in {-2, -1, 1, 2}, Sbrk(p, n)
    PROVE  IInv'
<1> DEFINE took == IF n <= 0 THEN 0 ELSE IF n < Len(free) THEN n ELSE Len(free)
           grown == IF (n > 0 /\ took < n) \/ sz[p] + n <= 0 THEN sz[p] ELSE sz[p] + n
<1>1. /\ At(p, "user") /\ pc' = [pc EXCEPT ![p] = "return"]
      /\ sz[p] + n <= MaxSz
      /\ free' = SubSeq(free, took + 1, Len(free))
      /\ sz' = [sz EXCEPT ![p] = grown]
      /\ UNCHANGED <<state, pid, parent, killed, kstack, pgdir, chan, np, nextpid, cur, scan,
                     panicked>>
  BY DEF Sbrk, Calls
<1>2. free \in Seq(Page) /\ took \in 0 .. Len(free)
  BY DEF IInv, TypeInv
<1>3. sz[p] \in 0 .. MaxSz
  BY DEF IInv, TypeInv, TypeOK
<1>4. grown \in 0 .. MaxSz
  BY <1>1, <1>3, ProcAssumption, SMTT(30)
<1> HIDE DEF took, grown
<1>5. free' \in Seq(Page) /\ \A i \in DOMAIN free' : free'[i] \in Page
  BY <1>1, <1>2
<1>6. TypeInv'
  BY <1>1, <1>4, <1>5 DEF IInv, TypeInv, TypeOK, Pc
<1>7. /\ ForkInv' /\ ParentInv'
      /\ \A q \in Proc : HasStack(q)' => HasStack(q)
      /\ \A q \in Proc : HasDir(q)' => HasDir(q)
      /\ \A q \in Proc : state[q] = "SLEEPING" => pc'[q] = "asleep" /\ chan'[q] = q
      /\ \A q \in Proc : pc'[q] = "asleep" => state'[q] \in There
  BY <1>1, ReturnFrame
<1>8. SleepInv'
  BY <1>1, <1>7 DEF IInv, SleepInv, NoLostWakeup
<1>9. PageInv'
  BY <1>1, <1>2, <1>7, PagesShrink DEF IInv
<1>10. QED
  BY <1>6, <1>7, <1>8, <1>9 DEF IInv

LEMMA KillStep ==
    ASSUME IInv, NEW p \in Proc, NEW n \in 0 .. MaxPid, Kill(p, n)
    PROVE  IInv'
<1> DEFINE hits == {q \in Proc : pid[q] = n}
           q == First(hits)
<1>1. /\ At(p, "user") /\ pc' = [pc EXCEPT ![p] = "return"]
      /\ UNCHANGED <<pid, parent, kstack, pgdir, sz, chan, np, free, nextpid, cur, scan,
                     panicked>>
  BY DEF Kill, Calls
<1>2. CASE hits = {}
  <2>1. UNCHANGED <<killed, state>>
    BY <1>2 DEF Kill
  <2>2. TypeInv'
    BY <1>1, <2>1 DEF IInv, TypeInv, TypeOK, Pc
  <2>3. /\ ForkInv' /\ ParentInv'
        /\ \A r \in Proc : HasStack(r)' => HasStack(r)
        /\ \A r \in Proc : HasDir(r)' => HasDir(r)
        /\ \A r \in Proc : state[r] = "SLEEPING" => pc'[r] = "asleep" /\ chan'[r] = r
        /\ \A r \in Proc : pc'[r] = "asleep" => state'[r] \in There
    BY <1>1, <2>1, ReturnFrame
  <2>4. SleepInv'
    BY <1>1, <2>1, <2>3 DEF IInv, SleepInv, NoLostWakeup
  <2>5. PageInv'
    BY <1>1, <2>3, PagesFrame DEF IInv
  <2>6. QED
    BY <2>2, <2>3, <2>4, <2>5 DEF IInv
<1>3. CASE hits # {}
  <2>1. q \in Proc
    BY <1>3, FirstMember
  <2>2. /\ killed' = [killed EXCEPT ![q] = TRUE]
        /\ state' = [state EXCEPT ![q] = IF @ = "SLEEPING" THEN "RUNNABLE" ELSE @]
    BY <1>3 DEF Kill
  <2> HIDE DEF q, hits
  <2> USE Slots DEF IInv
  <2>3. /\ \A r \in Proc : \/ state'[r] = state[r]
                           \/ state[r] = "SLEEPING" /\ state'[r] = "RUNNABLE"
        /\ state'[q] # "SLEEPING"
        /\ \A r \in Proc : r # q => killed'[r] = killed[r]
        /\ cur = p /\ pc[p] = "user"
    BY <1>1, <2>1, <2>2 DEF TypeInv, TypeOK, At
  <2>4. TypeInv'
    BY <1>1, <2>1, <2>2 DEF TypeInv, TypeOK, Pc
  <2>5. ForkInv'
    <3>1. ASSUME NEW r \in Proc
          PROVE  ForkOK(r)'
      <4>1. ForkOK(r) /\ r # p => pc'[r] = pc[r]
        BY <1>1 DEF ForkInv, TypeInv
      <4>2. pc'[p] = "return"
        BY <1>1 DEF TypeInv
      <4>3. QED
        BY <1>1, <2>3, <4>1, <4>2 DEF ForkOK, ForkPc, ForkInv
    <3>2. QED
      BY <1>1, <3>1 DEF ForkInv
  <2>6. ParentInv'
    <3>1. /\ \A r \in Proc : state'[r] = "UNUSED" => state[r] = "UNUSED"
          /\ \A r \in Proc : state[r] \in There => state'[r] \in There
          /\ \A r \in Proc : state'[r] \in Live => state[r] \in Live
      BY <2>3 DEF There, Live
    <3>2. ParentInv /\ UNCHANGED parent
      BY <1>1
    <3>3. ParentAlive'
      BY <3>1, <3>2 DEF ParentInv, ParentAlive, There, Live
    <3>4. QED
      BY <3>1, <3>2, <3>3 DEF ParentInv
  <2>7. SleepInv'
    <3>1. \A r \in Proc : state'[r] = "SLEEPING" => state[r] = "SLEEPING" /\ r # q /\ r # p
      BY <2>3 DEF SleepInv
    <3>2. \A r \in Proc : state'[r] = "SLEEPING" => pc'[r] = "asleep" /\ chan'[r] = r
      BY <1>1, <3>1 DEF TypeInv, SleepInv
    <3>3. \A r \in Proc : pc'[r] = "asleep" => state'[r] \in There
      BY <1>1, <2>3 DEF TypeInv, SleepInv, There
    <3>4. NoLostWakeup'
      BY <1>1, <2>3, <3>1 DEF SleepInv, NoLostWakeup
    <3>5. QED
      BY <3>2, <3>3, <3>4 DEF SleepInv
  <2>8. \A r \in Proc : HasStack(r)' => HasStack(r)
    BY <1>1, <2>3 DEF TypeInv, HasStack, Live, There
  <2>9. \A r \in Proc : HasDir(r)' => HasDir(r)
    BY <1>1, <2>3 DEF TypeInv, HasDir, Live, There
  <2>10. PageInv'
    BY <1>1, <2>8, <2>9, PagesFrame
  <2>11. QED
    BY <2>4, <2>5, <2>6, <2>7, <2>10
<1>4. QED
  BY <1>2, <1>3

-----------------------------------------------------------------------------
(* fork *)

LEMMA ForkStep ==
    ASSUME IInv, NEW p \in Proc, Fork(p)
    PROVE  IInv'
<1> DEFINE slots == {r \in Proc : state[r] = "UNUSED"}
           q == First(slots)
<1>1. /\ At(p, "user") /\ nextpid <= MaxPid
      /\ UNCHANGED <<parent, killed, kstack, pgdir, sz, chan, free, cur, scan, panicked>>
  BY DEF Fork, Calls
<1>2. CASE slots = {}
  <2>1. pc' = [pc EXCEPT ![p] = "return"] /\ UNCHANGED <<state, pid, np, nextpid>>
    BY <1>2 DEF Fork
  <2>2. TypeInv'
    BY <1>1, <2>1 DEF IInv, TypeInv, TypeOK, Pc
  <2>3. /\ ForkInv' /\ ParentInv'
        /\ \A r \in Proc : HasStack(r)' => HasStack(r)
        /\ \A r \in Proc : HasDir(r)' => HasDir(r)
        /\ \A r \in Proc : state[r] = "SLEEPING" => pc'[r] = "asleep" /\ chan'[r] = r
        /\ \A r \in Proc : pc'[r] = "asleep" => state'[r] \in There
    BY <1>1, <2>1, ReturnFrame
  <2>4. SleepInv'
    BY <1>1, <2>1, <2>3 DEF IInv, SleepInv, NoLostWakeup
  <2>5. PageInv'
    BY <1>1, <2>3, PagesFrame DEF IInv
  <2>6. QED
    BY <2>2, <2>3, <2>4, <2>5 DEF IInv
<1>3. CASE slots # {}
  <2>1. q \in Proc /\ state[q] = "UNUSED"
    BY <1>3, FirstMember
  <2>2. /\ state' = [state EXCEPT ![q] = "EMBRYO"]
        /\ pid' = [pid EXCEPT ![q] = nextpid]
        /\ nextpid' = nextpid + 1
        /\ np' = [np EXCEPT ![p] = q]
        /\ pc' = [pc EXCEPT ![p] = "stack"]
    BY <1>3 DEF Fork
  <2> HIDE DEF q, slots
  <2> USE Slots DEF IInv
  <2>3. /\ \A r \in Proc : state'[r] = IF r = q THEN "EMBRYO" ELSE state[r]
        /\ \A r \in Proc : np'[r] = IF r = p THEN q ELSE np[r]
        /\ \A r \in Proc : pc'[r] = IF r = p THEN "stack" ELSE pc[r]
        /\ cur = p /\ pc[p] = "user" /\ state[p] = "RUNNING" /\ np[p] = None /\ p # q
    BY <1>1, <2>1, <2>2 DEF TypeInv, TypeOK, At, ForkInv, ForkOK, ForkPc
  <2>4. TypeInv'
    <3>1. nextpid \in 0 .. MaxPid /\ nextpid + 1 \in 2 .. MaxPid + 1
      BY <1>1, ProcAssumption DEF TypeInv, TypeOK
    <3>2. QED
      BY <1>1, <2>1, <2>2, <2>3, <3>1 DEF TypeInv, TypeOK, Pc, ForkPc
  <2>5. ForkInv'
    <3>1. ASSUME NEW r \in Proc
          PROVE  ForkOK(r)'
      <4>1. ForkOK(r)
        BY DEF ForkInv
      <4>2. CASE r = p
        BY <1>1, <2>1, <2>3, <4>2 DEF ParentInv, ForkOK, ForkPc
      <4>3. CASE r # p
        BY <1>1, <2>1, <2>3, <4>1, <4>3 DEF ForkOK
      <4>4. QED
        BY <4>2, <4>3
    <3>2. ASSUME NEW r \in Proc, NEW t \in Proc, np'[r] = np'[t], np'[r] # None
          PROVE  r = t
      <4>1. \A x \in Proc : np[x] # q
        BY <2>1 DEF ForkInv, ForkOK
      <4>2. QED
        BY <2>3, <3>2, <4>1 DEF ForkInv
    <3>3. QED
      BY <3>1, <3>2 DEF ForkInv
  <2>6. ParentInv'
    BY <1>1, <2>1, <2>3 DEF ParentInv, ParentAlive, There
  <2>7. SleepInv'
    BY <1>1, <2>1, <2>3 DEF SleepInv, NoLostWakeup, There
  <2>8. \A r \in Proc : HasStack(r)' => HasStack(r)
    BY <2>3 DEF HasStack, Live, There
  <2>9. \A r \in Proc : HasDir(r)' => HasDir(r)
    BY <2>3 DEF HasDir, Live, There
  <2>10. PageInv'
    BY <1>1, <2>8, <2>9, PagesFrame
  <2>11. QED
    BY <2>4, <2>5, <2>6, <2>7, <2>10
<1>4. QED
  BY <1>2, <1>3

\* What a process in fork knows of the slot it fills: nobody else does.
LEMMA InFork ==
    ASSUME IInv, NEW p \in Proc, cur = p, pc[p] \in ForkPc
    PROVE  /\ np[p] \in Proc /\ np[p] # p /\ np[p] # initproc
           /\ state[np[p]] = "EMBRYO" /\ state[p] = "RUNNING"
           /\ pc[np[p]] \notin ForkPc \cup {"asleep"}
           /\ \A r \in Proc : np[r] = np[p] => r = p
           /\ HasStack(np[p]) => pc[p] \in {"copy", "publish"}
           /\ HasDir(np[p]) => pc[p] = "publish"
<1> USE Slots DEF IInv
<1>1. /\ np[p] \in Proc /\ state[np[p]] = "EMBRYO" /\ state[p] = "RUNNING"
      /\ \A r \in Proc : np[r] = np[p] => r = p
  BY DEF TypeInv, TypeOK, ForkInv, ForkOK
<1>2. np[p] # p /\ np[p] # initproc
  BY <1>1 DEF ParentInv, There
<1>3. pc[np[p]] \notin ForkPc \cup {"asleep"}
  BY <1>1 DEF ForkInv, ForkOK, SleepInv, There
<1>4. HasStack(np[p]) => pc[p] \in {"copy", "publish"}
  BY <1>1 DEF HasStack, Live, There
<1>5. HasDir(np[p]) => pc[p] = "publish"
  BY <1>1 DEF HasDir, Live, There
<1>6. QED
  BY <1>1, <1>2, <1>3, <1>4, <1>5

\* Pages stay owned once when a slot that holds none any more forgets its own.
LEMMA PagesKept ==
    ASSUME PageInv, UNCHANGED free,
           \A q \in Proc : HasStack(q)' => HasStack(q) /\ kstack'[q] = kstack[q],
           \A q \in Proc : HasDir(q)' => HasDir(q) /\ pgdir'[q] = pgdir[q]
    PROVE  PageInv'
BY DEF PageInv, InUse

\* kalloc gives a slot its stack: a page from the free list, which nobody holds.
LEMMA StackTaken ==
    ASSUME PageInv, free \in Seq(Page), free # << >>, free' = Tail(free), NEW q \in Proc,
           kstack'[q] = Head(free), UNCHANGED pgdir,
           \A r \in Proc : HasStack(r)' => r = q \/ (HasStack(r) /\ kstack'[r] = kstack[r]),
           \A r \in Proc : HasDir(r)' => HasDir(r)
    PROVE  PageInv'
<1>1. \A i \in DOMAIN free : /\ \A r \in Proc : HasStack(r) => kstack[r] # free[i]
                             /\ \A r \in Proc : HasDir(r) => pgdir[r] # free[i]
  BY DEF PageInv, InUse
<1>2. 1 \in DOMAIN free /\ Head(free) = free[1] /\ Head(free) \in Page
  OBVIOUS
<1>3. \A i \in DOMAIN free' : i \in Nat \ {0} /\ i + 1 \in DOMAIN free /\ free'[i] = free[i + 1]
  OBVIOUS
<1>4. \A i, j \in DOMAIN free' : free'[i] = free'[j] => i = j
  <2> TAKE i, j \in DOMAIN free'
  <2> HAVE free'[i] = free'[j]
  <2>1. i + 1 = j + 1
    BY <1>3 DEF PageInv
  <2>2. QED
    BY <1>3, <2>1
<1>5. \A i \in DOMAIN free' : free'[i] # Head(free)
  <2> TAKE i \in DOMAIN free'
  <2>1. free'[i] = Head(free) => i + 1 = 1
    BY <1>2, <1>3 DEF PageInv
  <2>2. QED
    BY <1>3, <2>1
<1>6. \A i \in DOMAIN free' : (~InUse(free[i]))'
  BY <1>1, <1>3, <1>5 DEF InUse
<1>7. Head(free) # None
  BY <1>2 DEF Page, None
<1>8. QED
  BY <1>1, <1>2, <1>4, <1>6, <1>7 DEF PageInv

\* The same for its page directory.
LEMMA DirTaken ==
    ASSUME PageInv, free \in Seq(Page), free # << >>, free' = Tail(free), NEW q \in Proc,
           pgdir'[q] = Head(free), UNCHANGED kstack,
           \A r \in Proc : HasDir(r)' => r = q \/ (HasDir(r) /\ pgdir'[r] = pgdir[r]),
           \A r \in Proc : HasStack(r)' => HasStack(r)
    PROVE  PageInv'
<1>1. \A i \in DOMAIN free : /\ \A r \in Proc : HasStack(r) => kstack[r] # free[i]
                             /\ \A r \in Proc : HasDir(r) => pgdir[r] # free[i]
  BY DEF PageInv, InUse
<1>2. 1 \in DOMAIN free /\ Head(free) = free[1] /\ Head(free) \in Page
  OBVIOUS
<1>3. \A i \in DOMAIN free' : i \in Nat \ {0} /\ i + 1 \in DOMAIN free /\ free'[i] = free[i + 1]
  OBVIOUS
<1>4. \A i, j \in DOMAIN free' : free'[i] = free'[j] => i = j
  <2> TAKE i, j \in DOMAIN free'
  <2> HAVE free'[i] = free'[j]
  <2>1. i + 1 = j + 1
    BY <1>3 DEF PageInv
  <2>2. QED
    BY <1>3, <2>1
<1>5. \A i \in DOMAIN free' : free'[i] # Head(free)
  <2> TAKE i \in DOMAIN free'
  <2>1. free'[i] = Head(free) => i + 1 = 1
    BY <1>2, <1>3 DEF PageInv
  <2>2. QED
    BY <1>3, <2>1
<1>6. \A i \in DOMAIN free' : (~InUse(free[i]))'
  BY <1>1, <1>3, <1>5 DEF InUse
<1>7. Head(free) # None
  BY <1>2 DEF Page, None
<1>8. QED
  BY <1>1, <1>2, <1>4, <1>6, <1>7 DEF PageInv

LEMMA ForkStackStep ==
    ASSUME IInv, NEW p \in Proc, ForkStack(p)
    PROVE  IInv'
<1> DEFINE q == np[p]
<1>1. /\ cur = p /\ pc[p] = "stack"
      /\ UNCHANGED <<pid, parent, killed, pgdir, sz, chan, nextpid, cur, scan, panicked>>
  BY DEF ForkStack, At
<1>2. /\ q \in Proc /\ q # p /\ q # initproc
      /\ state[q] = "EMBRYO" /\ state[p] = "RUNNING"
      /\ pc[q] \notin ForkPc \cup {"asleep"}
      /\ \A r \in Proc : np[r] = q => r = p
      /\ ~HasStack(q) /\ ~HasDir(q)
  BY <1>1, InFork DEF ForkPc
<1> USE Slots DEF IInv
<1>3. CASE free = << >>
  <2>1. /\ kstack' = [kstack EXCEPT ![q] = None]
        /\ state' = [state EXCEPT ![q] = "UNUSED"]
        /\ pc' = [pc EXCEPT ![p] = "return"]
        /\ np' = [np EXCEPT ![p] = None]
        /\ UNCHANGED free
    BY <1>3 DEF ForkStack
  <2> HIDE DEF q
  <2>2. /\ \A r \in Proc : state'[r] = IF r = q THEN "UNUSED" ELSE state[r]
        /\ \A r \in Proc : np'[r] = IF r = p THEN None ELSE np[r]
        /\ \A r \in Proc : pc'[r] = IF r = p THEN "return" ELSE pc[r]
        /\ \A r \in Proc : r # q => kstack'[r] = kstack[r]
    BY <1>2, <2>1 DEF TypeInv, TypeOK
  <2>3. TypeInv'
    BY <1>1, <1>2, <2>1, <2>2 DEF TypeInv, TypeOK, Pc
  <2>4. ForkInv'
    <3>1. ASSUME NEW r \in Proc
          PROVE  ForkOK(r)'
      <4>1. ForkOK(r) /\ (r # p => np[r] # q)
        BY <1>2 DEF ForkInv
      <4>2. CASE r = p
        BY <2>2, <4>2 DEF ForkOK, ForkPc
      <4>3. CASE r # p
        BY <1>1, <1>2, <2>2, <4>1, <4>3 DEF ForkOK
      <4>4. QED
        BY <4>2, <4>3
    <3>2. QED
      BY <2>2, <3>1 DEF ForkInv
  <2>5. ParentInv'
    <3>1. parent[q] = None
      BY <1>1 DEF q, ForkInv, ForkOK, ForkPc
    <3>2. ParentAlive'
      BY <1>1, <1>2, <2>2 DEF ParentInv, ParentAlive, There
    <3>3. QED
      BY <1>1, <1>2, <2>2, <3>1, <3>2 DEF ParentInv, There
  <2>6. SleepInv'
    BY <1>1, <1>2, <2>2 DEF SleepInv, NoLostWakeup, There
  <2>7. \A r \in Proc : HasStack(r)' => HasStack(r) /\ kstack'[r] = kstack[r]
    BY <1>2, <2>2 DEF HasStack, Live, There
  <2>8. \A r \in Proc : HasDir(r)' => HasDir(r)
    BY <2>2 DEF HasDir, Live, There
  <2>9. PageInv'
    BY <1>1, <2>1, <2>7, <2>8, PagesKept
  <2>10. QED
    BY <2>3, <2>4, <2>5, <2>6, <2>9
<1>4. CASE free # << >>
  <2>1. /\ kstack' = [kstack EXCEPT ![q] = Head(free)]
        /\ free' = Tail(free)
        /\ pc' = [pc EXCEPT ![p] = "copy", ![q] = "user"]
        /\ UNCHANGED <<state, np>>
    BY <1>4 DEF ForkStack
  <2> HIDE DEF q
  <2>2. free \in Seq(Page) /\ Head(free) \in Page /\ free' \in Seq(Page)
    BY <1>4, <2>1 DEF TypeInv
  <2>3. /\ pc'[p] = "copy" /\ pc'[q] = "user"
        /\ \A r \in Proc : r # p /\ r # q => pc'[r] = pc[r]
        /\ \A r \in Proc : r # q => kstack'[r] = kstack[r]
        /\ kstack'[q] = Head(free)
    BY <1>2, <2>1 DEF TypeInv, TypeOK
  <2>4. TypeInv'
    <3>1. pc' \in [Proc -> Pc]
      BY <1>2, <2>1 DEF TypeInv, Pc, ForkPc
    <3>2. \A i \in DOMAIN free' : free'[i] \in Page
      BY <2>2
    <3>3. QED
      BY <1>1, <1>2, <2>1, <2>2, <3>1, <3>2 DEF TypeInv, TypeOK
  <2>5. ForkInv'
    <3>1. ASSUME NEW r \in Proc
          PROVE  ForkOK(r)'
      <4>1. ForkOK(r)
        BY DEF ForkInv
      <4>2. CASE r \in {p, q}
        BY <1>1, <1>2, <2>1, <2>3, <4>1, <4>2 DEF ForkOK, ForkPc
      <4>3. CASE r \notin {p, q}
        BY <1>1, <2>1, <2>3, <4>1, <4>3 DEF ForkOK
      <4>4. QED
        BY <4>2, <4>3
    <3>2. QED
      BY <2>1, <3>1 DEF ForkInv
  <2>6. ParentInv'
    BY <1>1, <2>1 DEF ParentInv, ParentAlive
  <2>7. SleepInv'
    <3>1. \A r \in Proc : state[r] = "SLEEPING" => r # p /\ r # q
      BY <1>2
    <3>2. \A r \in Proc : pc'[r] = "asleep" => pc[r] = "asleep"
      BY <2>3
    <3>3. QED
      <4>1. SleepInv /\ UNCHANGED <<state, chan, killed>>
        BY <1>1, <2>1
      <4>2. NoLostWakeup'
        BY <1>1, <2>1, <2>3, <3>1, <4>1 DEF SleepInv, NoLostWakeup
      <4>3. QED
        BY <2>3, <3>1, <3>2, <4>1, <4>2 DEF SleepInv
  <2>8. \A r \in Proc : HasStack(r)' => r = q \/ (HasStack(r) /\ kstack'[r] = kstack[r])
    <3> SUFFICES ASSUME NEW r \in Proc, r # q, HasStack(r)'
                 PROVE  HasStack(r)
      BY <2>3
    <3>1. np[p] = q
      BY DEF q
    <3>2. \A t \in Proc : np'[t] = r /\ pc'[t] \in {"copy", "publish"} => pc[t] = pc'[t]
      BY <2>1, <2>3, <3>1
    <3>3. QED
      BY <2>1, <3>2 DEF HasStack
  <2>9. \A r \in Proc : HasDir(r)' => HasDir(r)
    BY <1>2, <2>1, <2>3 DEF HasDir
  <2>10. PageInv'
    BY <1>1, <1>2, <1>4, <2>1, <2>2, <2>3, <2>8, <2>9, StackTaken
  <2>11. QED
    BY <2>4, <2>5, <2>6, <2>7, <2>10
<1>5. QED
  BY <1>3, <1>4

LEMMA ForkCopyStep ==
    ASSUME IInv, NEW p \in Proc, ForkCopy(p)
    PROVE  IInv'
<1> DEFINE q == np[p]
<1>1. /\ cur = p /\ pc[p] = "copy"
      /\ UNCHANGED <<state, pid, killed, kstack, chan, np, nextpid, cur, scan, panicked>>
  BY DEF ForkCopy, At
<1>2. /\ q \in Proc /\ q # p /\ q # initproc
      /\ state[q] = "EMBRYO" /\ state[p] = "RUNNING"
      /\ pc[q] \notin ForkPc \cup {"asleep"}
      /\ \A r \in Proc : np[r] = q => r = p
      /\ ~HasDir(q)
  BY <1>1, InFork DEF ForkPc
<1> USE Slots DEF IInv
<1>3. HasStack(q)
  BY <1>1, <1>2 DEF HasStack
<1>4. CASE free = << >>
  <2>1. /\ free' = <<kstack[q]>>
        /\ pgdir' = [pgdir EXCEPT ![q] = None]
        /\ pc' = [pc EXCEPT ![p] = "undo"]
        /\ UNCHANGED <<parent, sz>>
    BY <1>4 DEF ForkCopy
  <2> HIDE DEF q
  <2>2. kstack[q] \in Page
    BY <1>2, <1>3 DEF TypeInv, TypeOK, PageInv
  <2>3. /\ \A r \in Proc : pc'[r] = IF r = p THEN "undo" ELSE pc[r]
        /\ \A r \in Proc : r # q => pgdir'[r] = pgdir[r]
    BY <1>2, <2>1 DEF TypeInv, TypeOK
  <2>4. TypeInv'
    <3>1. free' \in Seq(Page) /\ \A i \in DOMAIN free' : free'[i] \in Page
      BY <2>1, <2>2
    <3>2. QED
      BY <1>1, <1>2, <2>1, <3>1 DEF TypeInv, TypeOK, Pc, ForkPc
  <2>5. ForkInv'
    <3>1. ASSUME NEW r \in Proc
          PROVE  ForkOK(r)'
      <4>1. ForkOK(r)
        BY DEF ForkInv
      <4>2. QED
        BY <1>1, <1>2, <2>1, <2>3, <4>1 DEF ForkOK, ForkPc
    <3>2. QED
      BY <1>1, <3>1 DEF ForkInv
  <2>6. ParentInv'
    BY <1>1, <2>1 DEF ParentInv, ParentAlive
  <2>7. SleepInv'
    BY <1>1, <1>2, <2>1, <2>3 DEF SleepInv, NoLostWakeup, There
  <2>8. \A r \in Proc : HasStack(r)' => HasStack(r) /\ r # q
    BY <1>1, <1>2, <2>3 DEF HasStack, Live, There
  <2>9. \A r \in Proc : HasDir(r)' => HasDir(r) /\ pgdir'[r] = pgdir[r]
    BY <1>1, <1>2, <2>3 DEF HasDir
  <2>10. PageInv'
    <3>1. \A i \in DOMAIN free' : i = 1 /\ free'[i] = kstack[q]
      BY <2>1
    <3>2. \A i \in DOMAIN free' : (~InUse(free[i]))'
      BY <1>1, <1>2, <1>3, <2>8, <2>9, <3>1 DEF InUse, PageInv
    <3>3. QED
      BY <1>1, <2>8, <2>9, <3>1, <3>2 DEF PageInv
  <2>11. QED
    BY <2>4, <2>5, <2>6, <2>7, <2>10
<1>5. CASE free # << >>
  <2>1. /\ free' = Tail(free)
        /\ pgdir' = [pgdir EXCEPT ![q] = Head(free)]
        /\ sz' = [sz EXCEPT ![q] = sz[p]]
        /\ parent' = [parent EXCEPT ![q] = p]
        /\ pc' = [pc EXCEPT ![p] = "publish"]
    BY <1>5 DEF ForkCopy
  <2> HIDE DEF q
  <2>2. free \in Seq(Page) /\ Head(free) \in Page /\ free' \in Seq(Page)
    BY <1>5, <2>1 DEF TypeInv
  <2>3. /\ \A r \in Proc : pc'[r] = IF r = p THEN "publish" ELSE pc[r]
        /\ \A r \in Proc : parent'[r] = IF r = q THEN p ELSE parent[r]
        /\ \A r \in Proc : r # q => pgdir'[r] = pgdir[r]
        /\ pgdir'[q] = Head(free)
    BY <1>2, <2>1 DEF TypeInv, TypeOK
  <2>4. TypeInv'
    <3>1. \A i \in DOMAIN free' : free'[i] \in Page
      BY <2>2
    <3>2. QED
      BY <1>1, <1>2, <2>1, <2>2, <3>1 DEF TypeInv, TypeOK, Pc, ForkPc
  <2>5. ForkInv'
    <3>1. ASSUME NEW r \in Proc
          PROVE  ForkOK(r)'
      <4>1. ForkOK(r) /\ (r # p => np[r] # q)
        BY <1>2 DEF ForkInv
      <4>2. np[p] = q
        BY DEF q
      <4>3. CASE r = p
        BY <1>1, <1>2, <2>3, <4>1, <4>2, <4>3 DEF ForkOK, ForkPc
      <4>4. CASE r # p
        BY <1>1, <1>2, <2>3, <4>1, <4>4 DEF ForkOK
      <4>5. QED
        BY <4>3, <4>4
    <3>2. QED
      BY <1>1, <3>1 DEF ForkInv
  <2>6. ParentInv'
    BY <1>1, <1>2, <2>3 DEF ParentInv, ParentAlive, There
  <2>7. SleepInv'
    <3>1. parent[q] = None /\ np[p] = q
      BY <1>1 DEF ForkInv, ForkOK, ForkPc, q
    <3>2. QED
      BY <1>1, <1>2, <2>3, <3>1 DEF SleepInv, NoLostWakeup, There
  <2>8. \A r \in Proc : HasStack(r)' => HasStack(r)
    BY <1>1, <1>2, <2>3 DEF HasStack
  <2>9. \A r \in Proc : HasDir(r)' => r = q \/ (HasDir(r) /\ pgdir'[r] = pgdir[r])
    <3>1. np[p] = q
      BY DEF q
    <3>2. QED
      BY <1>1, <2>3, <3>1 DEF HasDir
  <2>10. PageInv'
    BY <1>1, <1>2, <1>5, <2>1, <2>2, <2>3, <2>8, <2>9, DirTaken
  <2>11. QED
    BY <2>4, <2>5, <2>6, <2>7, <2>10
<1>6. QED
  BY <1>4, <1>5

LEMMA ForkUndoStep ==
    ASSUME IInv, NEW p \in Proc, ForkUndo(p)
    PROVE  IInv'
<1> DEFINE q == np[p]
<1>1. /\ cur = p /\ pc[p] = "undo"
      /\ kstack' = [kstack EXCEPT ![q] = None]
      /\ state' = [state EXCEPT ![q] = "UNUSED"]
      /\ np' = [np EXCEPT ![p] = None]
      /\ pc' = [pc EXCEPT ![p] = "return"]
      /\ UNCHANGED <<pid, parent, killed, pgdir, sz, chan, free, nextpid, cur, scan, panicked>>
  BY DEF ForkUndo, At
<1>2. /\ q \in Proc /\ q # p /\ q # initproc
      /\ state[q] = "EMBRYO" /\ state[p] = "RUNNING"
      /\ \A r \in Proc : np[r] = q => r = p
  BY <1>1, InFork DEF ForkPc
<1> USE Slots DEF IInv
<1>3. parent[q] = None
  BY <1>1 DEF q, ForkInv, ForkOK, ForkPc
<1> HIDE DEF q
<1>4. /\ \A r \in Proc : state'[r] = IF r = q THEN "UNUSED" ELSE state[r]
      /\ \A r \in Proc : np'[r] = IF r = p THEN None ELSE np[r]
      /\ \A r \in Proc : pc'[r] = IF r = p THEN "return" ELSE pc[r]
      /\ \A r \in Proc : r # q => kstack'[r] = kstack[r]
  BY <1>1, <1>2 DEF TypeInv, TypeOK
<1>5. TypeInv'
  BY <1>1, <1>2, <1>4 DEF TypeInv, TypeOK, Pc
<1>6. ForkInv'
  <2>1. ASSUME NEW r \in Proc
        PROVE  ForkOK(r)'
    <3>1. ForkOK(r) /\ (r # p => np[r] # q)
      BY <1>2 DEF ForkInv
    <3>2. CASE r = p
      BY <1>4, <3>2 DEF ForkOK, ForkPc
    <3>3. CASE r # p
      BY <1>1, <1>2, <1>4, <3>1, <3>3 DEF ForkOK
    <3>4. QED
      BY <3>2, <3>3
  <2>2. QED
    BY <1>4, <2>1 DEF ForkInv
<1>7. ParentInv'
  <2>1. ParentAlive'
    BY <1>1, <1>2, <1>4 DEF ParentInv, ParentAlive, There
  <2>2. QED
    BY <1>1, <1>2, <1>3, <1>4, <2>1 DEF ParentInv, There
<1>8. SleepInv'
  BY <1>1, <1>2, <1>4 DEF SleepInv, NoLostWakeup, There
<1>9. \A r \in Proc : HasStack(r)' => HasStack(r) /\ kstack'[r] = kstack[r]
  BY <1>2, <1>4 DEF HasStack, Live, There
<1>10. \A r \in Proc : HasDir(r)' => HasDir(r)
  BY <1>4 DEF HasDir, Live, There
<1>11. PageInv'
  BY <1>1, <1>9, <1>10, PagesKept
<1>12. QED
  BY <1>5, <1>6, <1>7, <1>8, <1>11

LEMMA ForkPublishStep ==
    ASSUME IInv, NEW p \in Proc, ForkPublish(p)
    PROVE  IInv'
<1> DEFINE q == np[p]
<1>1. /\ cur = p /\ pc[p] = "publish"
      /\ state' = [state EXCEPT ![q] = "RUNNABLE"]
      /\ np' = [np EXCEPT ![p] = None]
      /\ pc' = [pc EXCEPT ![p] = "return"]
      /\ UNCHANGED <<pid, parent, killed, kstack, pgdir, sz, chan, free, nextpid, cur, scan,
                     panicked>>
  BY DEF ForkPublish, At
<1>2. /\ q \in Proc /\ q # p /\ q # initproc
      /\ state[q] = "EMBRYO" /\ state[p] = "RUNNING"
      /\ pc[q] \notin ForkPc \cup {"asleep"}
      /\ \A r \in Proc : np[r] = q => r = p
  BY <1>1, InFork DEF ForkPc
<1> USE Slots DEF IInv
<1>3. parent[q] = p /\ HasStack(q) /\ HasDir(q)
  BY <1>1, <1>2 DEF ForkInv, ForkOK, ForkPc, HasStack, HasDir
<1> HIDE DEF q
<1>4. /\ \A r \in Proc : state'[r] = IF r = q THEN "RUNNABLE" ELSE state[r]
      /\ \A r \in Proc : np'[r] = IF r = p THEN None ELSE np[r]
      /\ \A r \in Proc : pc'[r] = IF r = p THEN "return" ELSE pc[r]
  BY <1>1, <1>2 DEF TypeInv, TypeOK
<1>5. TypeInv'
  BY <1>1, <1>2, <1>4 DEF TypeInv, TypeOK, Pc
<1>6. ForkInv'
  <2>1. ASSUME NEW r \in Proc
        PROVE  ForkOK(r)'
    <3>1. ForkOK(r) /\ (r # p => np[r] # q)
      BY <1>2 DEF ForkInv
    <3>2. CASE r = p
      BY <1>4, <3>2 DEF ForkOK, ForkPc
    <3>3. CASE r # p
      BY <1>1, <1>2, <1>4, <3>1, <3>3 DEF ForkOK
    <3>4. QED
      BY <3>2, <3>3
  <2>2. QED
    BY <1>4, <2>1 DEF ForkInv
<1>7. ParentInv'
  <2>1. ParentAlive'
    BY <1>1, <1>2, <1>3, <1>4 DEF ParentInv, ParentAlive, There
  <2>2. QED
    BY <1>1, <1>2, <1>3, <1>4, <2>1 DEF ParentInv, There
<1>8. SleepInv'
  BY <1>1, <1>2, <1>4 DEF SleepInv, NoLostWakeup, There
<1>9. \A r \in Proc : HasStack(r)' => HasStack(r)
  BY <1>3, <1>4 DEF HasStack
<1>10. \A r \in Proc : HasDir(r)' => HasDir(r)
  BY <1>3, <1>4 DEF HasDir
<1>11. PageInv'
  BY <1>1, <1>9, <1>10, PagesFrame
<1>12. QED
  BY <1>5, <1>6, <1>7, <1>8, <1>11

-----------------------------------------------------------------------------
(* wait *)

\* kfree of two pages: they are put in front of the free list.
LEMMA PushTwo ==
    ASSUME NEW a \in Page, NEW b \in Page, NEW f \in Seq(Page), NEW g, g = <<a, b>> \o f
    PROVE  /\ g \in Seq(Page) /\ \A i \in DOMAIN g : g[i] \in Page
           /\ \A i \in DOMAIN g : \/ i = 1 /\ g[i] = a
                                  \/ i = 2 /\ g[i] = b
                                  \/ i - 2 \in DOMAIN f /\ g[i] = f[i - 2]
           /\ \A i \in DOMAIN g : i \in Nat
<1> DEFINE h == <<a, b>>
<1>1. h \in Seq(Page) /\ Len(h) = 2 /\ h[1] = a /\ h[2] = b
  OBVIOUS
<1> HIDE DEF h
<1>2. g = h \o f
  BY DEF h
<1>3. g \in Seq(Page) /\ Len(g) = 2 + Len(f)
  BY <1>1, <1>2, ConcatProperties
<1>4. \A i \in 1 .. Len(g) : g[i] = IF i <= 2 THEN h[i] ELSE f[i - 2]
  BY <1>1, <1>2, <1>3, ConcatProperties
<1>5. QED
  BY <1>1, <1>3, <1>4

\* The loop of wait, entered by the call or after the sleep.
LEMMA WaitStep ==
    ASSUME IInv, NEW p \in Proc, cur = p, pc[p] \in {"user", "asleep"}, WaitLoop(p), WaitRest
    PROVE  IInv'
<1> DEFINE kids == {r \in Proc : parent[r] = p}
           zombies == {r \in kids : state[r] = "ZOMBIE"}
           z == First(zombies)
<1> USE Slots DEF IInv
<1>1. /\ UNCHANGED <<pgdir, sz, np, nextpid, scan, panicked>>
      /\ state[p] = "RUNNING" /\ np[p] = None
  BY DEF WaitRest, TypeInv, TypeOK, ForkInv, ForkOK, ForkPc
<1>2. CASE /\ zombies = {} /\ (kids = {} \/ killed[p])
           /\ chan' = [chan EXCEPT ![p] = None]
           /\ pc' = [pc EXCEPT ![p] = "return"]
           /\ UNCHANGED <<state, pid, parent, killed, kstack, free, cur>>
  <2>1. \A r \in Proc : /\ pc'[r] = IF r = p THEN "return" ELSE pc[r]
                        /\ r # p => chan'[r] = chan[r]
    BY <1>2 DEF TypeInv, TypeOK
  <2>2. TypeInv'
    BY <1>1, <1>2 DEF TypeInv, TypeOK, Pc
  <2>3. ForkInv'
    BY <1>1, <1>2, <2>1 DEF ForkInv, ForkOK, ForkPc
  <2>4. ParentInv'
    BY <1>2 DEF ParentInv, ParentAlive
  <2>5. SleepInv'
    BY <1>1, <1>2, <2>1 DEF SleepInv, NoLostWakeup, There
  <2>6. \A r \in Proc : HasStack(r)' => HasStack(r)
    BY <1>1, <1>2, <2>1 DEF HasStack
  <2>7. \A r \in Proc : HasDir(r)' => HasDir(r)
    BY <1>1, <1>2, <2>1 DEF HasDir
  <2>8. PageInv'
    BY <1>1, <1>2, <2>6, <2>7, PagesFrame
  <2>9. QED
    BY <2>2, <2>3, <2>4, <2>5, <2>8
<1>3. CASE /\ zombies = {} /\ kids # {} /\ ~killed[p]
           /\ chan' = [chan EXCEPT ![p] = p]
           /\ state' = [state EXCEPT ![p] = "SLEEPING"]
           /\ pc' = [pc EXCEPT ![p] = "asleep"]
           /\ cur' = None
           /\ UNCHANGED <<pid, parent, killed, kstack, free>>
  <2>1. \A r \in Proc : /\ pc'[r] = IF r = p THEN "asleep" ELSE pc[r]
                        /\ chan'[r] = IF r = p THEN p ELSE chan[r]
                        /\ state'[r] = IF r = p THEN "SLEEPING" ELSE state[r]
    BY <1>3 DEF TypeInv, TypeOK
  <2>2. TypeInv'
    BY <1>1, <1>3, <2>1 DEF TypeInv, TypeOK, Pc
  <2>3. ForkInv'
    <3>1. ASSUME NEW r \in Proc
          PROVE  ForkOK(r)'
      <4>1. ForkOK(r)
        BY DEF ForkInv
      <4>2. QED
        BY <1>1, <1>3, <2>1, <4>1 DEF ForkOK, ForkPc
    <3>2. QED
      BY <1>1, <3>1 DEF ForkInv
  <2>4. ParentInv'
    BY <1>1, <1>3, <2>1 DEF ParentInv, ParentAlive, There
  <2>5. SleepInv'
    <3>1. (\E r \in Proc : parent[r] = p) /\ (\A r \in Proc : parent[r] = p => state[r] # "ZOMBIE")
      BY <1>3
    <3>2. QED
      BY <1>1, <1>3, <2>1, <3>1 DEF SleepInv, NoLostWakeup, There
  <2>6. \A r \in Proc : HasStack(r)' => HasStack(r)
    BY <1>1, <2>1 DEF HasStack, Live, There
  <2>7. \A r \in Proc : HasDir(r)' => HasDir(r)
    BY <1>1, <2>1 DEF HasDir, Live, There
  <2>8. PageInv'
    BY <1>1, <1>3, <2>6, <2>7, PagesFrame
  <2>9. QED
    BY <2>2, <2>3, <2>4, <2>5, <2>8
<1>4. CASE /\ zombies # {}
           /\ free' = <<pgdir[z], kstack[z]>> \o free
           /\ kstack' = [kstack EXCEPT ![z] = None]
           /\ pid' = [pid EXCEPT ![z] = None]
           /\ parent' = [parent EXCEPT ![z] = None]
           /\ killed' = [killed EXCEPT ![z] = FALSE]
           /\ state' = [state EXCEPT ![z] = "UNUSED"]
           /\ chan' = [chan EXCEPT ![p] = None]
           /\ pc' = [pc EXCEPT ![p] = "return"]
           /\ UNCHANGED cur
  <2>1. z \in Proc /\ parent[z] = p /\ state[z] = "ZOMBIE" /\ z # p /\ z # initproc
    BY <1>1, <1>4, FirstMember DEF ParentInv
  <2> HIDE DEF z, zombies, kids
  <2>2. \A r \in Proc : /\ pc'[r] = IF r = p THEN "return" ELSE pc[r]
                        /\ r # p => chan'[r] = chan[r]
                        /\ r # z => kstack'[r] = kstack[r] /\ killed'[r] = killed[r]
                        /\ parent'[r] = IF r = z THEN None ELSE parent[r]
                        /\ state'[r] = IF r = z THEN "UNUSED" ELSE state[r]
    BY <1>4, <2>1 DEF TypeInv, TypeOK
  <2>3. HasStack(z) /\ HasDir(z) /\ \A r \in Proc : np[r] # z
    BY <2>1 DEF HasStack, HasDir, Live, ForkInv, ForkOK
  <2>4. kstack[z] \in Page /\ pgdir[z] \in Page /\ free \in Seq(Page)
    BY <2>1, <2>3 DEF TypeInv, TypeOK, PageInv
  <2>5. /\ free' \in Seq(Page) /\ \A i \in DOMAIN free' : free'[i] \in Page
        /\ \A i \in DOMAIN free' : \/ i = 1 /\ free'[i] = pgdir[z]
                                   \/ i = 2 /\ free'[i] = kstack[z]
                                   \/ i - 2 \in DOMAIN free /\ free'[i] = free[i - 2]
        /\ \A i \in DOMAIN free' : i \in Nat
    BY <1>4, <2>4, PushTwo
  <2>6. TypeInv'
    <3>1. None \in 0 .. MaxPid
      BY ProcAssumption DEF None
    <3>2. \A r \in Proc : (state'[r] = "RUNNING") <=> (cur' = r)
      BY <1>4, <2>1, <2>2 DEF TypeInv, TypeOK
    <3>3. QED
      BY <1>1, <1>4, <2>1, <2>5, <3>1, <3>2 DEF TypeInv, TypeOK, Pc
  <2>7. ForkInv'
    <3>1. ASSUME NEW r \in Proc
          PROVE  ForkOK(r)'
      <4>1. ForkOK(r) /\ np[r] # z
        BY <2>3 DEF ForkInv
      <4>2. CASE r = p
        BY <1>1, <2>2, <4>1, <4>2 DEF ForkOK, ForkPc
      <4>3. CASE r # p
        BY <1>1, <2>1, <2>2, <4>1, <4>3 DEF ForkOK
      <4>4. QED
        BY <4>2, <4>3
    <3>2. QED
      BY <1>1, <3>1 DEF ForkInv
  <2>8. ParentInv'
    <3>1. ASSUME NEW r \in Proc \ {initproc}, state'[r] \in Live
          PROVE  parent'[r] \in Proc /\ state'[parent'[r]] \in There
      <4>1. r # z /\ state[r] \in Live
        BY <2>2, <3>1 DEF Live, There
      <4>2. parent[r] \in Proc /\ state[parent[r]] \in There
        BY <4>1 DEF ParentInv, ParentAlive, Live, There
      <4>3. parent[r] # z
        BY <2>1, <4>2 DEF There
      <4>4. parent'[r] = parent[r] /\ state'[parent[r]] = state[parent[r]]
        BY <2>2, <4>1, <4>2, <4>3
      <4>5. QED
        BY <4>2, <4>4
    <3>2. ParentAlive'
      BY <3>1 DEF ParentAlive, Live, There
    <3>3. QED
      BY <2>1, <2>2, <3>2 DEF ParentInv, There
  <2>9. SleepInv'
    BY <1>1, <2>1, <2>2 DEF SleepInv, NoLostWakeup, There
  <2>10. \A r \in Proc : HasStack(r)' => r # z /\ HasStack(r) /\ kstack'[r] = kstack[r]
    BY <1>1, <2>2, <2>3 DEF HasStack, Live, There
  <2>11. \A r \in Proc : HasDir(r)' => r # z /\ HasDir(r) /\ pgdir'[r] = pgdir[r]
    BY <1>1, <2>2, <2>3 DEF HasDir, Live, There
  <2>12. PageInv'
    <3>1. \A i \in DOMAIN free : /\ \A r \in Proc : HasStack(r) => kstack[r] # free[i]
                                 /\ \A r \in Proc : HasDir(r) => pgdir[r] # free[i]
      BY DEF PageInv, InUse
    <3>2. \A i \in DOMAIN free' : (~InUse(free[i]))'
      <4> SUFFICES ASSUME NEW i \in DOMAIN free'
                   PROVE  /\ \A r \in Proc : HasStack(r)' => kstack'[r] # free'[i]
                          /\ \A r \in Proc : HasDir(r)' => pgdir'[r] # free'[i]
        BY DEF InUse
      <4>1. /\ \A r \in Proc : HasStack(r) /\ r # z => kstack[r] # free'[i]
            /\ \A r \in Proc : HasDir(r) /\ r # z => pgdir[r] # free'[i]
        BY <2>1, <2>3, <2>5, <3>1 DEF PageInv
      <4>2. QED
        BY <2>10, <2>11, <4>1
    <3>3. ASSUME NEW i \in DOMAIN free', NEW j \in DOMAIN free', free'[i] = free'[j]
          PROVE  i = j
      <4>1. pgdir[z] # kstack[z] /\ \A k \in DOMAIN free : free[k] # pgdir[z] /\ free[k] # kstack[z]
        BY <2>1, <2>3, <3>1 DEF PageInv
      <4>2. i - 2 \in DOMAIN free /\ j - 2 \in DOMAIN free => i - 2 = j - 2 \/ free[i - 2] # free[j - 2]
        BY DEF PageInv
      <4>3. i \in Nat /\ j \in Nat
        BY <2>5
      <4>4. QED
        BY <2>5, <3>3, <4>1, <4>2, <4>3
    <3>4. QED
      BY <2>10, <2>11, <3>2, <3>3 DEF PageInv
  <2>13. QED
    BY <2>6, <2>7, <2>8, <2>9, <2>12
<1>5. QED
  BY <1>2, <1>3, <1>4 DEF WaitLoop

-----------------------------------------------------------------------------
(* The theorems. *)

LEMMA InitInv == Init => IInv
<1> SUFFICES ASSUME Init PROVE IInv
  OBVIOUS
<1> USE ProcAssumption, Slots
<1>1. TypeInv
  <2>1. /\ state \in [Proc -> {"UNUSED", "EMBRYO", "SLEEPING", "RUNNABLE", "RUNNING", "ZOMBIE"}]
        /\ parent \in [Proc -> Proc \cup {None}] /\ chan \in [Proc -> Proc \cup {None}]
        /\ killed \in [Proc -> BOOLEAN] /\ np \in [Proc -> Proc \cup {None}]
        /\ pc \in [Proc -> Pc] /\ panicked \in BOOLEAN
        /\ cur = None /\ \A p \in Proc : state[p] # "RUNNING" /\ p # None
    BY DEF Init, Pc
  <2>2. pid \in [Proc -> 0 .. MaxPid] /\ nextpid \in 2 .. MaxPid + 1
    BY DEF Init, None
  <2>3. kstack \in [Proc -> Page \cup {None}] /\ pgdir \in [Proc -> Page \cup {None}]
    BY DEF Init, Page, Proc
  <2>4. sz \in [Proc -> 0 .. MaxSz] /\ scan \in 1 .. NPROC + 1
    BY DEF Init
  <2>5. free \in Seq(Page) /\ \A i \in DOMAIN free : free[i] \in Page
    <3>1. Pages - NPROC - 4 \in Nat
      OBVIOUS
    <3>2. \A i \in 1 .. Pages - NPROC - 4 : NPROC + 4 + i \in Page
      BY DEF Page
    <3>3. QED
      BY <3>1, <3>2 DEF Init
  <2>6. QED
    BY <2>1, <2>2, <2>3, <2>4, <2>5 DEF TypeInv, TypeOK
<1>2. ForkInv
  BY DEF Init, ForkInv, ForkOK, ForkPc
<1>3. ParentInv
  BY DEF Init, ParentInv, ParentAlive, There
<1>4. SleepInv
  BY DEF Init, SleepInv, NoLostWakeup
<1>5. PageInv
  <2>1. \A q \in Proc : (HasStack(q) => q = initproc) /\ (HasDir(q) => q = initproc)
    BY DEF Init, HasStack, HasDir, Live, There
  <2>2. kstack[initproc] = NPROC + 2 /\ pgdir[initproc] = NPROC + 3
    BY DEF Init
  <2>3. \A i \in DOMAIN free : i \in Nat \ {0} /\ free[i] = NPROC + 4 + i
    BY DEF Init
  <2>4. kstack[initproc] # None /\ pgdir[initproc] # None /\ kstack[initproc] # pgdir[initproc]
    BY <2>2 DEF None
  <2>5. \A i \in DOMAIN free : free[i] # kstack[initproc] /\ free[i] # pgdir[initproc]
    BY <2>2, <2>3
  <2>6. \A i, j \in DOMAIN free : free[i] = free[j] => i = j
    BY <2>3
  <2>7. QED
    BY <2>1, <2>4, <2>5, <2>6 DEF PageInv, InUse
<1>6. QED
  BY <1>1, <1>2, <1>3, <1>4, <1>5 DEF IInv

LEMMA NextInv == IInv /\ [Next]_vars => IInv'
<1> SUFFICES ASSUME IInv, [Next]_vars PROVE IInv'
  OBVIOUS
<1>1. ASSUME NEW p \in Proc, Kernel(p) PROVE IInv'
  <2>1. CASE KilledAtEntry(p)
    BY <2>1, ExitStep DEF KilledAtEntry, At, ForkPc
  <2>2. CASE Awake(p)
    BY <2>2, WaitStep DEF Awake, At
  <2>3. QED
    BY <1>1, <2>1, <2>2, ReturnStep, SecondYieldStep, ForkStackStep, ForkCopyStep, ForkUndoStep,
       ForkPublishStep DEF Kernel
<1>2. ASSUME NEW p \in Proc, User(p) PROVE IInv'
  <2>1. CASE SysExit(p)
    BY <2>1, ExitStep DEF SysExit, Calls, At, ForkPc
  <2>2. CASE Wait(p)
    BY <2>2, WaitStep DEF Wait, Calls, At
  <2>3. QED
    BY <1>2, <2>1, <2>2, FaultStep, ForkStep, KillStep, SbrkStep DEF User
<1>3. CASE UNCHANGED vars
  <2>1. TypeInv'
    BY <1>3 DEF IInv, TypeInv, TypeOK, vars, table
  <2>2. QED
    BY <1>3, <2>1 DEF IInv, vars, table, ForkInv, ForkOK, ParentInv, ParentAlive, SleepInv,
       NoLostWakeup, PageInv, InUse, HasStack, HasDir
<1>4. QED
  BY <1>1, <1>2, <1>3, SchedulerStep, TimerStep DEF Next, Panicked

LEMMA Invariant == Spec => []IInv
BY InitInv, NextInv, PTL DEF Spec

\* Every reachable state has the types of struct proc and of the allocator, and the
\* process that is RUNNING is the one the CPU's proc pointer names, for any number of
\* slots, pages and processes.
THEOREM TypeCorrect == Spec => []TypeOK
<1>1. IInv => TypeOK
  BY DEF IInv, TypeInv
<1>2. QED
  BY <1>1, Invariant, PTL

\* No wake-up is lost: whatever exits, is killed or is passed to init, in whatever
\* order, and wherever the timer interrupts, a process that sleeps in wait has a
\* child that may still exit.
THEOREM WakeupsKept == Spec => []NoLostWakeup
<1>1. IInv => NoLostWakeup
  BY DEF IInv, SleepInv
<1>2. QED
  BY <1>1, Invariant, PTL

\* The error paths of fork, the exits and the collections by wait free each page once
\* and never one that a live process stands on.
THEOREM PagesSafe == Spec => []PagesOwnedOnce
<1>1. IInv => PagesOwnedOnce
  <2> SUFFICES ASSUME IInv PROVE PagesOwnedOnce
    OBVIOUS
  <2> DEFINE live == {p \in Proc : state[p] \in {"SLEEPING", "RUNNABLE", "RUNNING", "ZOMBIE"}}
             owned == {<<p, kstack[p]>> : p \in live} \cup {<<-p, pgdir[p]>> : p \in live}
  <2>1. \A p \in live : p \in Proc /\ HasStack(p) /\ HasDir(p)
    BY DEF HasStack, HasDir, Live, There
  <2>2. \A p \in live : kstack[p] # None /\ pgdir[p] # None
    BY <2>1 DEF IInv, PageInv
  <2>3. \A p \in live : \A i \in DOMAIN free : free[i] # kstack[p] /\ free[i] # pgdir[p]
    BY <2>1 DEF IInv, PageInv, InUse
  <2>4. \A p, q \in live : /\ kstack[p] = kstack[q] => p = q
                           /\ pgdir[p] = pgdir[q] => p = q
                           /\ kstack[p] # pgdir[q]
    BY <2>1 DEF IInv, PageInv
  <2> HIDE DEF live
  <2>a. \A x \in owned : \E p \in live : \/ x = <<p, kstack[p]>> /\ x[2] = kstack[p]
                                         \/ x = <<-p, pgdir[p]>> /\ x[2] = pgdir[p]
    <3> TAKE x \in owned
    <3>1. CASE x \in {<<p, kstack[p]>> : p \in live}
      <4>1. PICK p \in live : x = <<p, kstack[p]>>
        BY <3>1, Zenon
      <4>2. x[2] = kstack[p]
        BY <4>1
      <4>3. QED
        BY <4>1, <4>2, Zenon
    <3>2. CASE x \in {<<-p, pgdir[p]>> : p \in live}
      <4>1. PICK p \in live : x = <<-p, pgdir[p]>>
        BY <3>2, Zenon
      <4> DEFINE m == -p
      <4>a. x = <<m, pgdir[p]>>
        BY <4>1, Zenon
      <4> HIDE DEF m
      <4>2. x[2] = pgdir[p]
        BY <4>a
      <4>3. QED
        BY <4>1, <4>2, Zenon
    <3>3. QED
      BY <3>1, <3>2, Zenon
  <2>5. \A x \in owned : x[2] # None /\ \A i \in DOMAIN free : free[i] # x[2]
    BY <2>2, <2>3, <2>a, ZenonT(40)
  <2>6. \A x, y \in owned : x[2] = y[2] => x = y
    <3> TAKE x, y \in owned
    <3> HAVE x[2] = y[2]
    <3>1. PICK p \in live : \/ x = <<p, kstack[p]>> /\ x[2] = kstack[p]
                            \/ x = <<-p, pgdir[p]>> /\ x[2] = pgdir[p]
      BY <2>a, Zenon
    <3>2. PICK q \in live : \/ y = <<q, kstack[q]>> /\ y[2] = kstack[q]
                            \/ y = <<-q, pgdir[q]>> /\ y[2] = pgdir[q]
      BY <2>a, Zenon
    <3>3. QED
      BY <2>4, <3>1, <3>2, Zenon
  <2>7. \A i, j \in DOMAIN free : free[i] = free[j] => i = j
    BY DEF IInv, PageInv
  <2>8. QED
    BY <2>5, <2>6, <2>7, Zenon DEF PagesOwnedOnce, live
<1>2. QED
  BY <1>1, Invariant, PTL

\* Nobody is left without a parent that may still collect it.
THEOREM ParentsThere == Spec => []ParentAlive
<1>1. IInv => ParentAlive
  BY DEF IInv, ParentInv
<1>2. QED
  BY <1>1, Invariant, PTL
=============================================================================
