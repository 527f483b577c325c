----------------------------- MODULE MCLsmStore -----------------------------
(***************************************************************************)
(* Instances of LsmStore for TLC.                                          *)
(***************************************************************************)
EXTENDS LsmStore, TLC

\* At most n restarts and failures of each of the given kinds.
UpTo(n, kinds) == [f \in Kind |-> IF f \in kinds THEN n ELSE 0]

MCLevels == {UpTo(1, {"restart", "write"}), UpTo(1, {"open", "read"}),
             UpTo(1, {"table"}), UpTo(1, {"power"})}

\* Values are interchangeable; keys are ordered.
ValueSymmetry == Permutations(Value)
=============================================================================
