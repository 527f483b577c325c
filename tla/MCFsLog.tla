------------------------------ MODULE MCFsLog ------------------------------
(***************************************************************************)
(* Instances of FsLog for TLC.                                             *)
(***************************************************************************)
EXTENDS FsLog

\* The threads are interchangeable, and so are the home blocks.
Symmetry == Permutations(Thread) \cup Permutations(Block)
=============================================================================
