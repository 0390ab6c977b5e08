------------------------------ MODULE MCTxLog ------------------------------
(***************************************************************************)
(* The write-ahead log for TLC.  Transactions are interchangeable: no      *)
(* action or property tells one from another.                              *)
(***************************************************************************)
EXTENDS TxBufferManagerInv

TxSymmetry == Permutations(Tx)

=============================================================================
