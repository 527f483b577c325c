------------------------------- MODULE MCRaft -------------------------------
(***************************************************************************)
(* Instances of Raft for TLC: how many environment steps each run allows,  *)
(* which nodes may stand in which terms, and the symmetries.               *)
(***************************************************************************)
EXTENDS Raft, TLC

CONSTANTS s1, s2

NoSteps == [k \in BudgetKind |-> 0]

\* Nothing is used up.
Fresh == {NoSteps}

\* Only the steps of one of the mixes are left.
Mixes(mixes) == {[k \in BudgetKind |-> IF k \in mix THEN 0 ELSE Budget[k]] : mix \in mixes}

\* The ways to gain, hand over and lose leadership, one step of each.  A save that
\* fails and a restart are not mixed: together they let a node vote twice.
ElectionBudget == [k \in BudgetKind |-> IF k = "propose" THEN 0 ELSE 1]
ElectionMixes ==
    Mixes({{"restart", "transfer", "stop"}, {"savefail", "transfer", "stop"},
           {"prevote"}, {"heartbeat", "transfer", "tick"}})

\* Two leaders and two entries.
LogBudget == [NoSteps EXCEPT !["propose"] = 2]

\* Two entries and one heartbeat tick.
TickBudget == [NoSteps EXCEPT !["propose"] = 2, !["tick"] = 1]

\* Commands are interchangeable: the code never looks at them.
ValueSymmetry == Permutations(Value)

\* Two rivals: s1 stands in the first term and s2 in the second, and s1 once
\* more, in the second (Handover) or in a third (Comeback).
Rivals == {<<1, s1>>, <<2, s2>>}
Handover == Rivals \cup {<<2, s1>>}
Comeback == Rivals \cup {<<3, s1>>}
=============================================================================
