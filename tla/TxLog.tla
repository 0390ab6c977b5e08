------------------------------- MODULE TxLog -------------------------------
(***************************************************************************)
(* What the write-ahead log promises: one queue of operations.  A write    *)
(* appends one, a commit appends all of a transaction's operations in one  *)
(* step, the head of the queue is applied, a rollback forgets.             *)
(*                                                                         *)
(* The promise ends when intact becomes FALSE (in the implementation: when *)
(* a buffer was mapped over one in use); from then on nothing is promised. *)
(***************************************************************************)
EXTENDS Sequences

CONSTANTS Tx, Main, Op

VARIABLES
  txOps,    \* operations written in each transaction and not yet committed
  pending,  \* the queue
  applied,  \* operations given to the controller
  intact

vars == <<txOps, pending, applied, intact>>

Init ==
  /\ txOps = [t \in Tx |-> <<>>]
  /\ pending = <<>> /\ applied = <<>> /\ intact = TRUE

Write(op) ==
  /\ op.tx = Main
  /\ pending' = Append(pending, op)
  /\ UNCHANGED <<txOps, applied>>

TxWrite(op) ==
  /\ op.tx \in Tx
  /\ txOps' = [txOps EXCEPT ![op.tx] = Append(@, op)]
  /\ UNCHANGED <<pending, applied>>

Commit(t) ==
  /\ pending' = pending \o txOps[t]
  /\ txOps' = [txOps EXCEPT ![t] = <<>>]
  /\ UNCHANGED applied

Rollback(t) ==
  /\ txOps' = [txOps EXCEPT ![t] = <<>>]
  /\ UNCHANGED <<pending, applied>>

Apply ==
  /\ pending # <<>>
  /\ applied' = Append(applied, Head(pending))
  /\ pending' = Tail(pending)
  /\ UNCHANGED txOps

Promised ==
  /\ intact' = TRUE
  /\ \/ \E op \in Op : Write(op) \/ TxWrite(op)
     \/ \E t \in Tx : Commit(t) \/ Rollback(t)
     \/ Apply

Next == (intact /\ Promised) \/ intact' = FALSE

Spec == Init /\ [][Next]_vars

============================================================================
