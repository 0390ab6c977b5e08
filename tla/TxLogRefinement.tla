-------------------------- MODULE TxLogRefinement --------------------------
(***************************************************************************)
(* The buffers, locks and threads of TxBufferManager implement the queue   *)
(* of TxLog.                                                               *)
(***************************************************************************)
EXTENDS TxBufferManagerInv

\* The operations of a sequence of buffers, one buffer after the other
QueueContents(s) == FlattenSeq([i \in DOMAIN s |-> Contents(s[i])])

\* What the monitor has taken from the queue and not applied yet
InFlight ==
  IF monPc = "flush"
  THEN SubSeq(Contents(monBuf), buf[monBuf].pos + 1, buf[monBuf].len)
  ELSE <<>>

\* A commit counts from popAll on: its buffers are as good as queued.
Log == INSTANCE TxLog WITH
         txOps   <- [t \in Tx |-> QueueContents(txBuffers[t])],
         pending <- InFlight \o QueueContents(activeBuffers \o netAdd),
         intact  <- ~clash

(* Refinement: writes append, a commit of any number of buffers appends    *)
(* its operations in one step that nobody sees half of, the monitor takes  *)
(* from the head, and moving buffers between queue, monitor and reusable   *)
(* list neither adds nor loses nor reorders an operation.                  *)
ImplementsLog == Log!Spec

=============================================================================
