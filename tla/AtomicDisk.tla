----------------------------- MODULE AtomicDisk -----------------------------
(***************************************************************************)
(* What the journal of simple-fs promises: blocks written by overlapping   *)
(* operations become durable together, after the last of them has ended,   *)
(* and a crash goes back to the last commit.                               *)
(***************************************************************************)
CONSTANTS Thread, Block, Val

VARIABLES
    mem,     \* the contents the file system code sees
    stable,  \* the contents a crash leaves
    active   \* threads inside an operation

vars == <<mem, stable, active>>

Init ==
    /\ mem \in [Block -> Val]
    /\ stable = mem
    /\ active = {}

\* The first operation of a group starts only when the previous group is durable.
Begin(t) ==
    /\ t \notin active
    /\ active = {} => mem = stable
    /\ active' = active \cup {t}
    /\ UNCHANGED <<mem, stable>>

Write(t, b, v) ==
    /\ t \in active
    /\ mem' = [mem EXCEPT ![b] = v]
    /\ UNCHANGED <<stable, active>>

End(t) ==
    /\ t \in active
    /\ active' = active \ {t}
    /\ UNCHANGED <<mem, stable>>

Commit ==
    /\ active = {}
    /\ stable' = mem
    /\ UNCHANGED <<mem, active>>

\* A write outside any operation reaches the disk at once.
WriteThrough(b, v) ==
    /\ active = {}
    /\ mem' = [mem EXCEPT ![b] = v]
    /\ stable' = [stable EXCEPT ![b] = v]
    /\ UNCHANGED active

Crash ==
    /\ mem' = stable
    /\ active' = {}
    /\ UNCHANGED stable

Next ==
    \/ \E t \in Thread : Begin(t) \/ End(t)
    \/ \E t \in Thread, b \in Block, v \in Val : Write(t, b, v)
    \/ Commit
    \/ \E b \in Block, v \in Val : WriteThrough(b, v)
    \/ Crash

Spec == Init /\ [][Next]_vars
=============================================================================
