---------------------------- MODULE MCTxManager ----------------------------
(***************************************************************************)
(* Instances of TxManager for TLC.                                         *)
(***************************************************************************)
EXTENDS TxManager
=============================================================================
