------------------------------ MODULE MCDistKv ------------------------------
(***************************************************************************)
(* Instances of DistKv for TLC.                                            *)
(***************************************************************************)
EXTENDS DistKv

\* Three nodes with two virtual nodes each on a ring of eight hashes: interleaved,
\* and in runs with the first hash and the last taken.
Interleaved == [points |-> 8, part |-> [p \in Partition |-> 3 * p + 2],
                vnode |-> <<<<1, 5>>, <<3, 2>>, <<6, 4>>>>]
InRuns      == [points |-> 8, part |-> [p \in Partition |-> 7 - 3 * p],
                vnode |-> <<<<0, 1>>, <<7, 3>>, <<4, 5>>>>]

\* Commands and crashes without calls, on either ring; calls and peers on one.
\* Five commands let three nodes join, be given partitions and one of them leave.
Changes == [admin |-> 5, crash |-> 1, late |-> 1, peer |-> 0, call |-> 0]
Calls   == [admin |-> 2, crash |-> 0, late |-> 0, peer |-> 2, call |-> 3]
MCScenarios ==
    {[hash |-> Interleaved, budget |-> Calls],
     [hash |-> Interleaved, budget |-> Changes],
     [hash |-> InRuns, budget |-> [Changes EXCEPT !.admin = 4]]}
=============================================================================
