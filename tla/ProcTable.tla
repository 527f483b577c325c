----------------------------- MODULE ProcTable -----------------------------
(***************************************************************************)
(* The process table of projects/systems/mini-os: fork, exit, wait, kill,  *)
(* sbrk, the scheduler and the page allocator they draw on.                *)
(*                                                                         *)
(* There is one CPU.  A system call runs with interrupts enabled except    *)
(* under a lock (T_SYSCALL is a trap gate), so the timer may take the CPU  *)
(* away between any two lock sections of the kernel as well as in user     *)
(* mode.  Each action below is the code from one such place to the next.   *)
(* What user programs do is not known: they make any system call at any    *)
(* time.                                                                   *)
(***************************************************************************)
EXTENDS Integers, Sequences, FiniteSets

CONSTANTS
    NPROC,    \* slots of ptable.proc
    Pages,    \* bound: physical pages
    MaxPid,   \* bound: process numbers
    MaxSz,    \* bound: the size of a process in pages
    Growers   \* bound: the numbers of the processes that call sbrk

ASSUME ProcAssumption ==
    /\ NPROC \in Nat \ {0}
    /\ Pages \in Nat /\ Pages >= NPROC + 4
    /\ MaxPid \in Nat \ {0} /\ MaxSz \in Nat \ {0} /\ Growers \subseteq 1 .. MaxPid

VARIABLES
    state, pid, parent, killed,   \* fields of struct proc
    kstack, pgdir, sz,
    chan,
    pc,        \* where each process is in the kernel, or "user"
    np,        \* the slot that its fork is filling
    free,      \* kmem.freelist
    nextpid,
    cur,       \* mycpu()->proc
    scan,      \* where the loop of scheduler() is
    panicked

table == <<state, pid, parent, killed, kstack, pgdir, sz, chan>>
vars == <<table, pc, np, free, nextpid, cur, scan, panicked>>

Proc == 1 .. NPROC
None == 0            \* the null pointer, and no process number
Page == 1 .. Pages

\* initproc is the first slot: userinit runs when all of them are free.
initproc == 1

\* The first of a set of slots, as a loop over ptable.proc meets it.
First(S) == CHOOSE p \in S : \A q \in S : p <= q

-----------------------------------------------------------------------------
(* main: kinit, kvminit, procinit, userinit.  procinit gives every slot a    *)
(* stack that allocproc replaces, and inituvm takes a page for initcode.     *)

Init ==
    /\ state = [p \in Proc |-> IF p = initproc THEN "RUNNABLE" ELSE "UNUSED"]
    /\ pid = [p \in Proc |-> IF p = initproc THEN 1 ELSE None]
    /\ parent = [p \in Proc |-> None]
    /\ killed = [p \in Proc |-> FALSE]
    /\ kstack = [p \in Proc |-> IF p = initproc THEN NPROC + 2 ELSE p + 1]
    /\ pgdir = [p \in Proc |-> IF p = initproc THEN NPROC + 3 ELSE None]
    /\ sz = [p \in Proc |-> IF p = initproc THEN 1 ELSE 0]
    /\ chan = [p \in Proc |-> None]
    /\ pc = [p \in Proc |-> "user"]
    /\ np = [p \in Proc |-> None]
    /\ free = [i \in 1 .. Pages - NPROC - 4 |-> NPROC + 4 + i]
    /\ nextpid = 2
    /\ cur = None
    /\ scan = 1
    /\ panicked = FALSE

-----------------------------------------------------------------------------
(* The scheduler. *)

\* One turn of scheduler(): the next RUNNABLE slot of this pass, or the end of
\* the pass.
Scheduler ==
    LET ready == {p \in Proc : p >= scan /\ state[p] = "RUNNABLE"}
    IN  /\ ~panicked /\ cur = None
        /\ \/ /\ ready # {}
              /\ cur' = First(ready)
              /\ scan' = First(ready) + 1
              /\ state' = [state EXCEPT ![First(ready)] = "RUNNING"]
              /\ panicked' = (kstack[First(ready)] = None \/ pgdir[First(ready)] = None)
           \/ /\ ready = {} /\ scan # 1
              /\ scan' = 1
              /\ UNCHANGED <<state, cur, panicked>>
        /\ UNCHANGED <<pid, parent, killed, kstack, pgdir, sz, chan, pc, np, free, nextpid>>

\* The process that has the CPU is at the given place.
At(p, where) == ~panicked /\ cur = p /\ pc[p] = where

\* Interrupts are enabled: p does not hold ptable.lock, which sleep returns with,
\* and is in no handler of an interrupt or a fault, whose gates disable them.
Interruptible(p) == ~panicked /\ cur = p /\ pc[p] \notin {"asleep", "tick", "back"}

\* Mutant: yield does not change the state.
TimerRunning(p) ==
    /\ Interruptible(p)
    /\ cur' = None
    /\ pc' = [pc EXCEPT ![p] = IF @ = "user" THEN "tick" ELSE @]
    /\ UNCHANGED <<state, pid, parent, killed, kstack, pgdir, sz, chan, np, free, nextpid,
                   scan, panicked>>

\* The timer interrupt: trap calls yield.  In user mode what follows the yield is
\* trap's, in the kernel it is the interrupted code.
Timer(p) ==
    /\ Interruptible(p)
    /\ state' = [state EXCEPT ![p] = "RUNNABLE"]
    /\ cur' = None
    /\ pc' = [pc EXCEPT ![p] = IF @ = "user" THEN "tick" ELSE @]
    /\ UNCHANGED <<pid, parent, killed, kstack, pgdir, sz, chan, np, free, nextpid, scan,
                   panicked>>

-----------------------------------------------------------------------------
(* exit. *)

\* Mutant: the parent is not woken.
ExitSilently(p) ==
    LET orphans == {q \in Proc : parent[q] = p}
        woken == IF \E q \in orphans : state[q] = "ZOMBIE" THEN {initproc} ELSE {}
    IN  IF p = initproc
          THEN panicked' = TRUE /\ UNCHANGED <<table, pc, np, free, nextpid, cur, scan>>
          ELSE /\ state' = [q \in Proc |->
                     IF q = p THEN "ZOMBIE"
                     ELSE IF state[q] = "SLEEPING" /\ chan[q] \in woken
                       THEN "RUNNABLE" ELSE state[q]]
               /\ parent' = [q \in Proc |-> IF q \in orphans THEN initproc ELSE parent[q]]
               /\ cur' = None
               /\ UNCHANGED <<pid, killed, kstack, pgdir, sz, chan, pc, np, free, nextpid,
                              scan, panicked>>

\* Mutant: the exiting process frees its stack itself.
ExitFreesStack(p) ==
    IF p = initproc
      THEN panicked' = TRUE /\ UNCHANGED <<table, pc, np, free, nextpid, cur, scan>>
      ELSE /\ state' = [q \in Proc |->
                 IF q = p THEN "ZOMBIE"
                 ELSE IF state[q] = "SLEEPING" /\ chan[q] \in {parent[p], initproc}
                   THEN "RUNNABLE" ELSE state[q]]
           /\ parent' = [q \in Proc |-> IF parent[q] = p THEN initproc ELSE parent[q]]
           /\ cur' = None
           /\ free' = <<kstack[p]>> \o free
           /\ UNCHANGED <<pid, killed, kstack, pgdir, sz, chan, pc, np, nextpid, scan,
                          panicked>>

\* Mutant: only children that are still running are passed to init.
ExitKeepsZombies(p) ==
    IF p = initproc
      THEN panicked' = TRUE /\ UNCHANGED <<table, pc, np, free, nextpid, cur, scan>>
      ELSE /\ state' = [q \in Proc |->
                 IF q = p THEN "ZOMBIE"
                 ELSE IF state[q] = "SLEEPING" /\ chan[q] = parent[p]
                   THEN "RUNNABLE" ELSE state[q]]
           /\ parent' = [q \in Proc |-> IF parent[q] = p /\ state[q] # "ZOMBIE"
                                          THEN initproc ELSE parent[q]]
           /\ cur' = None
           /\ UNCHANGED <<pid, killed, kstack, pgdir, sz, chan, pc, np, free, nextpid,
                          scan, panicked>>

\* exit: wakeup1 of the parent, the children passed to init, which is woken for a
\* zombie among them, and sched as a ZOMBIE.  Init must not exit.
Exit(p) ==
    LET orphans == {q \in Proc : parent[q] = p}
        woken == {parent[p]} \cup
                 IF \E q \in orphans : state[q] = "ZOMBIE" THEN {initproc} ELSE {}
    IN  IF p = initproc
          THEN panicked' = TRUE /\ UNCHANGED <<table, pc, np, free, nextpid, cur, scan>>
          ELSE /\ state' = [q \in Proc |->
                     IF q = p THEN "ZOMBIE"
                     ELSE IF state[q] = "SLEEPING" /\ chan[q] \in woken
                       THEN "RUNNABLE" ELSE state[q]]
               /\ parent' = [q \in Proc |-> IF q \in orphans THEN initproc ELSE parent[q]]
               /\ cur' = None
               /\ UNCHANGED <<pid, killed, kstack, pgdir, sz, chan, pc, np, free, nextpid,
                              scan, panicked>>

-----------------------------------------------------------------------------
(* Into and out of the kernel: trap. *)

\* A system call begins; a process that was killed exits instead.
Calls(p) == At(p, "user") /\ ~killed[p]

KilledAtEntry(p) == At(p, "user") /\ killed[p] /\ Exit(p)

\* sys_exit.
SysExit(p) == Calls(p) /\ Exit(p)

\* Any other trap in user mode kills the process.
Fault(p) ==
    /\ At(p, "user")
    /\ killed' = [killed EXCEPT ![p] = TRUE]
    /\ pc' = [pc EXCEPT ![p] = "back"]
    /\ UNCHANGED <<state, pid, parent, kstack, pgdir, sz, chan, np, free, nextpid, cur,
                   scan, panicked>>

\* The way back to user mode, after a system call, a fault or the second yield.
Return(p) ==
    /\ At(p, "return") \/ At(p, "back")
    /\ IF killed[p] THEN Exit(p)
       ELSE /\ pc' = [pc EXCEPT ![p] = "user"]
            /\ UNCHANGED <<table, np, free, nextpid, cur, scan, panicked>>

\* trap after its first yield: exit if killed, or yield a second time.
SecondYield(p) ==
    /\ At(p, "tick")
    /\ IF killed[p] THEN Exit(p)
       ELSE /\ pc' = [pc EXCEPT ![p] = "back"]
            /\ state' = [state EXCEPT ![p] = "RUNNABLE"]
            /\ cur' = None
            /\ UNCHANGED <<pid, parent, killed, kstack, pgdir, sz, chan, np, free, nextpid,
                           scan, panicked>>

-----------------------------------------------------------------------------
(* fork. *)

\* allocproc under the lock; -1 when no slot is free.
Fork(p) ==
    LET slots == {q \in Proc : state[q] = "UNUSED"}
        q == First(slots)
    IN  /\ Calls(p) /\ nextpid <= MaxPid
        /\ IF slots = {}
             THEN /\ pc' = [pc EXCEPT ![p] = "return"]
                  /\ UNCHANGED <<state, pid, np, nextpid>>
             ELSE /\ state' = [state EXCEPT ![q] = "EMBRYO"]
                  /\ pid' = [pid EXCEPT ![q] = nextpid]
                  /\ nextpid' = nextpid + 1
                  /\ np' = [np EXCEPT ![p] = q]
                  /\ pc' = [pc EXCEPT ![p] = "stack"]
        /\ UNCHANGED <<parent, killed, kstack, pgdir, sz, chan, free, cur, scan, panicked>>

\* allocproc: the kernel stack, or the slot is given back without the lock; its
\* pid stays.  The new process starts in forkret.
ForkStack(p) ==
    LET q == np[p]
    IN  /\ At(p, "stack")
        /\ IF free = << >>
             THEN /\ kstack' = [kstack EXCEPT ![q] = None]
                  /\ state' = [state EXCEPT ![q] = "UNUSED"]
                  /\ pc' = [pc EXCEPT ![p] = "return"]
                  /\ np' = [np EXCEPT ![p] = None]
                  /\ UNCHANGED free
             ELSE /\ kstack' = [kstack EXCEPT ![q] = Head(free)]
                  /\ free' = Tail(free)
                  /\ pc' = [pc EXCEPT ![p] = "copy", ![q] = "user"]
                  /\ UNCHANGED <<state, np>>
        /\ UNCHANGED <<pid, parent, killed, pgdir, sz, chan, nextpid, cur, scan, panicked>>

\* copyuvm: the page directory; what follows until the lock; or the stack is freed.
ForkCopy(p) ==
    LET q == np[p]
    IN  /\ At(p, "copy")
        /\ IF free = << >>
             THEN /\ free' = <<kstack[q]>>
                  /\ pgdir' = [pgdir EXCEPT ![q] = None]
                  /\ pc' = [pc EXCEPT ![p] = "undo"]
                  /\ UNCHANGED <<parent, sz>>
             ELSE /\ free' = Tail(free)
                  /\ pgdir' = [pgdir EXCEPT ![q] = Head(free)]
                  /\ sz' = [sz EXCEPT ![q] = sz[p]]
                  /\ parent' = [parent EXCEPT ![q] = p]
                  /\ pc' = [pc EXCEPT ![p] = "publish"]
        /\ UNCHANGED <<state, pid, killed, kstack, chan, np, nextpid, cur, scan, panicked>>

\* The slot is given back.
ForkUndo(p) ==
    /\ At(p, "undo")
    /\ kstack' = [kstack EXCEPT ![np[p]] = None]
    /\ state' = [state EXCEPT ![np[p]] = "UNUSED"]
    /\ np' = [np EXCEPT ![p] = None]
    /\ pc' = [pc EXCEPT ![p] = "return"]
    /\ UNCHANGED <<pid, parent, killed, pgdir, sz, chan, free, nextpid, cur, scan, panicked>>

\* The new process is RUNNABLE, and fork returns its pid.
ForkPublish(p) ==
    /\ At(p, "publish")
    /\ state' = [state EXCEPT ![np[p]] = "RUNNABLE"]
    /\ np' = [np EXCEPT ![p] = None]
    /\ pc' = [pc EXCEPT ![p] = "return"]
    /\ UNCHANGED <<pid, parent, killed, kstack, pgdir, sz, chan, free, nextpid, cur, scan,
                   panicked>>

-----------------------------------------------------------------------------
(* wait, kill and sbrk. *)

\* The loop of wait, with ptable.lock held: the first zombie child is freed, or
\* without children, or killed, it is -1, or the process sleeps on itself.
WaitLoop(p) ==
    LET kids == {q \in Proc : parent[q] = p}
        zombies == {q \in kids : state[q] = "ZOMBIE"}
        z == First(zombies)
    IN  \/ /\ zombies # {}
           /\ free' = <<pgdir[z], kstack[z]>> \o free
           /\ kstack' = [kstack EXCEPT ![z] = None]
           /\ pid' = [pid EXCEPT ![z] = None]
           /\ parent' = [parent EXCEPT ![z] = None]
           /\ killed' = [killed EXCEPT ![z] = FALSE]
           /\ state' = [state EXCEPT ![z] = "UNUSED"]
           /\ chan' = [chan EXCEPT ![p] = None]
           /\ pc' = [pc EXCEPT ![p] = "return"]
           /\ UNCHANGED cur
        \/ /\ zombies = {} /\ (kids = {} \/ killed[p])
           /\ chan' = [chan EXCEPT ![p] = None]
           /\ pc' = [pc EXCEPT ![p] = "return"]
           /\ UNCHANGED <<state, pid, parent, killed, kstack, free, cur>>
        \/ /\ zombies = {} /\ kids # {} /\ ~killed[p]
           /\ chan' = [chan EXCEPT ![p] = p]
           /\ state' = [state EXCEPT ![p] = "SLEEPING"]
           /\ pc' = [pc EXCEPT ![p] = "asleep"]
           /\ cur' = None
           /\ UNCHANGED <<pid, parent, killed, kstack, free>>

WaitRest == UNCHANGED <<pgdir, sz, np, nextpid, scan, panicked>>

Wait(p) == Calls(p) /\ WaitLoop(p) /\ WaitRest

\* sleep returns in wait, ptable.lock held since the scheduler acquired it.
Awake(p) == At(p, "asleep") /\ WaitLoop(p) /\ WaitRest

\* Mutant: a process that sleeps is left asleep.
KillNoWake(p, n) ==
    LET hits == {q \in Proc : pid[q] = n}
        q == First(hits)
    IN  /\ Calls(p)
        /\ killed' = IF hits = {} THEN killed ELSE [killed EXCEPT ![q] = TRUE]
        /\ pc' = [pc EXCEPT ![p] = "return"]
        /\ UNCHANGED <<state, pid, parent, kstack, pgdir, sz, chan, np, free, nextpid, cur,
                       scan, panicked>>

\* kill: the first slot with the pid, in whatever state it is.
Kill(p, n) ==
    LET hits == {q \in Proc : pid[q] = n}
        q == First(hits)
    IN  /\ Calls(p)
        /\ IF hits = {} THEN UNCHANGED <<killed, state>>
           ELSE /\ killed' = [killed EXCEPT ![q] = TRUE]
                /\ state' = [state EXCEPT ![q] = IF @ = "SLEEPING" THEN "RUNNABLE" ELSE @]
        /\ pc' = [pc EXCEPT ![p] = "return"]
        /\ UNCHANGED <<pid, parent, kstack, pgdir, sz, chan, np, free, nextpid, cur, scan,
                       panicked>>

\* growproc by n pages.  The pages are taken one by one and mapped nowhere;
\* deallocuvm gives none back.  A size of 0 is taken for a failure, and a
\* negative one wraps around and leaves the size as it is.
Sbrk(p, n) ==
    /\ Calls(p) /\ pid[p] \in Growers /\ sz[p] + n <= MaxSz
    /\ LET took == IF n <= 0 THEN 0 ELSE IF n < Len(free) THEN n ELSE Len(free)
       IN  /\ free' = SubSeq(free, took + 1, Len(free))
           /\ sz' = [sz EXCEPT ![p] = IF (n > 0 /\ took < n) \/ sz[p] + n <= 0
                                        THEN @ ELSE @ + n]
    /\ pc' = [pc EXCEPT ![p] = "return"]
    /\ UNCHANGED <<state, pid, parent, killed, kstack, pgdir, chan, np, nextpid, cur, scan,
                   panicked>>

-----------------------------------------------------------------------------
(* The specification. *)

\* panic never returns.
Panicked == panicked /\ UNCHANGED vars

\* What a process does once it is in the kernel.
Kernel(p) ==
    \/ KilledAtEntry(p) \/ Return(p) \/ SecondYield(p)
    \/ ForkStack(p) \/ ForkCopy(p) \/ ForkUndo(p) \/ ForkPublish(p)
    \/ Awake(p)

\* The system calls and faults of a user program.
User(p) ==
    \/ SysExit(p) \/ Fault(p) \/ Fork(p) \/ Wait(p)
    \/ \E n \in 0 .. MaxPid : Kill(p, n)
    \/ \E n \in {-2, -1, 1, 2} : Sbrk(p, n)

Next ==
    \/ Scheduler
    \/ \E p \in Proc : Timer(p) \/ Kernel(p) \/ User(p)
    \/ Panicked

\* The scheduler's loop goes on, and so does the timer, which is the hardware's: no
\* code of the kernel programs it.  A process that gets the CPU again and
\* again gets on in the kernel; init calls wait again and again, as its program
\* does.
Fairness ==
    /\ WF_vars(Scheduler)
    /\ \A p \in Proc : WF_vars(Timer(p)) /\ SF_vars(Kernel(p))
    /\ SF_vars(Wait(initproc))

Spec == Init /\ [][Next]_vars /\ Fairness

-----------------------------------------------------------------------------
(* Properties. *)

\* Every variable keeps its type.
TypeOK ==
    /\ state \in [Proc -> {"UNUSED", "EMBRYO", "SLEEPING", "RUNNABLE", "RUNNING", "ZOMBIE"}]
    /\ pid \in [Proc -> 0 .. MaxPid] /\ nextpid \in 2 .. MaxPid + 1
    /\ parent \in [Proc -> Proc \cup {None}] /\ chan \in [Proc -> Proc \cup {None}]
    /\ killed \in [Proc -> BOOLEAN]
    /\ kstack \in [Proc -> Page \cup {None}] /\ pgdir \in [Proc -> Page \cup {None}]
    /\ sz \in [Proc -> 0 .. MaxSz]
    /\ np \in [Proc -> Proc \cup {None}]
    /\ \A i \in DOMAIN free : free[i] \in Page
    /\ cur \in Proc \cup {None} /\ scan \in 1 .. NPROC + 1
    /\ \A p \in Proc : (state[p] = "RUNNING") <=> (cur = p)

\* A process that sleeps in wait has a child and no zombie among its children,
\* and was not killed: no exit, no orphan passed to init and no kill happens between
\* its look at the table and its sleep without waking it.
NoLostWakeup ==
    \A p \in Proc :
        state[p] = "SLEEPING" =>
            /\ ~killed[p]
            /\ \E q \in Proc : parent[q] = p
            /\ \A q \in Proc : parent[q] = p => state[q] # "ZOMBIE"

\* The pages a process lives on are there, are its own and are not on the free
\* list, until its parent has collected it: fork, exit and wait free each page
\* once, and never the stack that is in use.
PagesOwnedOnce ==
    LET live == {p \in Proc : state[p] \in {"SLEEPING", "RUNNABLE", "RUNNING", "ZOMBIE"}}
        owned == {<<p, kstack[p]>> : p \in live} \cup {<<-p, pgdir[p]>> : p \in live}
    IN  /\ \A x \in owned : x[2] # None /\ \A i \in DOMAIN free : free[i] # x[2]
        /\ \A x, y \in owned : x[2] = y[2] => x = y
        /\ \A i, j \in DOMAIN free : free[i] = free[j] => i = j

\* Everyone but init has a parent that is there and may still call wait: who
\* exits leaves no child behind, and none that is being made.
ParentAlive ==
    \A p \in Proc \ {initproc} :
        state[p] \in {"SLEEPING", "RUNNABLE", "RUNNING", "ZOMBIE"} =>
            parent[p] \in Proc /\ state[parent[p]] \in {"SLEEPING", "RUNNABLE", "RUNNING"}

\* A zombie that init inherits is collected, as long as init waits.
OrphansCollected ==
    \A p \in Proc \ {initproc} :
        (state[p] = "ZOMBIE" /\ parent[p] = initproc) ~> (state[p] = "UNUSED" \/ panicked)

\* A process that was killed exits, wherever in the kernel it was, asleep or still
\* being made.
KilledExits ==
    \A p \in Proc \ {initproc} :
        (killed[p] /\ state[p] # "UNUSED") ~>
            (state[p] \in {"ZOMBIE", "UNUSED"} \/ panicked)
=============================================================================
