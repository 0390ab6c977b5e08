------------------------------- MODULE TxFind -------------------------------
(***************************************************************************)
(* Finds on the main log: BaseTransaction::findOperations walks the queue  *)
(* of active buffers without a lock, moving the cursors that flushBuffer   *)
(* uses, and BaseTransaction::find then asks the controller.  dbs and      *)
(* namespaces walk the log in the same way.                                *)
(*                                                                         *)
(* The network thread runs the find, so no request is served meanwhile;    *)
(* the monitor thread takes its steps in between.  A step of the reader is *)
(* one access to the shared queue or to a buffer's cursor; the read of one *)
(* operation is under the buffer's lock, the test before it is not.  Where *)
(* the walk runs past the end of the queue or of a buffer, or into a       *)
(* deleted buffer, its behaviour is undefined and the reader stops.        *)
(***************************************************************************)
EXTENDS TxBufferManagerInv

CONSTANT MaxFinds   \* bound: finds ever begun

VARIABLES
  findPc,     \* where the reader is
  findIdx,    \* the iterator over _vactiveBuffers, as a position
  findBuf,    \* the buffer it was at when it was dereferenced
  findOps,    \* the operations collected
  finds,      \* finds begun
  findQuiet   \* history: no find so far overlapped a flush

findVars == <<findPc, findIdx, findBuf, findOps, finds, findQuiet>>
allVars == <<vars, findVars>>

FInit ==
  /\ Init
  /\ findPc = "idle" /\ findIdx = 0 /\ findBuf = 0 /\ findOps = <<>>
  /\ finds = 0 /\ findQuiet = TRUE

FindBegin ==
  /\ netPc = "idle" /\ findPc = "idle" /\ finds < MaxFinds
  /\ finds' = finds + 1
  /\ findIdx' = 1 /\ findOps' = <<>> /\ findPc' = "next"
  /\ findQuiet' = (findQuiet /\ monPc # "flush")
  /\ UNCHANGED <<vars, findBuf>>

\* The iterator keeps its position when pop erases the first element.
FindDeref ==
  /\ findPc = "next"
  /\ findIdx \in 1..Len(activeBuffers)
  /\ findBuf' = activeBuffers[findIdx]
  /\ findPc' = "seek"
  /\ UNCHANGED <<vars, findIdx, findOps, finds, findQuiet>>

FindSeek ==
  /\ findPc = "seek" /\ Live(findBuf)
  /\ buf' = [buf EXCEPT ![findBuf].pos = 0]
  /\ findPc' = "read"
  /\ UNCHANGED <<mgrVars, lockVars, created, disk, control, logFiles, netVars,
                 monVars, txVars, issued, histVars, findIdx, findBuf, findOps,
                 finds, findQuiet>>

\* The test for the end of the buffer, made before its lock is taken
FindTest ==
  /\ findPc = "read" /\ Live(findBuf)
  /\ ~Eof(buf[findBuf])
  /\ findPc' = "locked"
  /\ UNCHANGED <<vars, findIdx, findBuf, findOps, finds, findQuiet>>

\* flushBuffer holds the lock of the buffer while it drains it.
Draining(b) == monPc = "flush" /\ monBuf = b

\* readOperationFromRegister for a namespace that every operation is in.  The
\* cursor may have moved since the test; what is read then is what the file
\* still holds there.
FindRead ==
  /\ findPc = "locked" /\ Live(findBuf) /\ ~Draining(findBuf)
  /\ LET r == buf[findBuf] IN
       /\ r.pos < BufCap
       /\ findOps' = Append(findOps, disk[r.file][r.slot][r.pos + 1])
       /\ buf' = [buf EXCEPT ![findBuf].pos = r.pos + 1]
  /\ findPc' = "read"
  /\ UNCHANGED <<mgrVars, lockVars, created, disk, control, logFiles, netVars,
                 monVars, txVars, issued, histVars, findIdx, findBuf, finds,
                 findQuiet>>

\* Mutant: one operation of a buffer is enough
FindBufferFirst ==
  /\ findPc = "read" /\ Live(findBuf)
  /\ Eof(buf[findBuf]) \/ buf[findBuf].pos > 0
  /\ findIdx' = findIdx + 1
  /\ findPc' = "next"
  /\ UNCHANGED <<vars, findBuf, findOps, finds, findQuiet>>

FindBufferDone ==
  /\ findPc = "read" /\ Live(findBuf)
  /\ Eof(buf[findBuf])
  /\ findIdx' = findIdx + 1
  /\ findPc' = "next"
  /\ UNCHANGED <<vars, findBuf, findOps, finds, findQuiet>>

\* Mutant: the last buffer of the queue is left out
FindEndEarly ==
  /\ findPc = "next"
  /\ findIdx >= Len(activeBuffers)
  /\ findPc' = "controller"
  /\ UNCHANGED <<vars, findIdx, findBuf, findOps, finds, findQuiet>>

\* i == buffers->end(): the operations are collected
FindEnd ==
  /\ findPc = "next"
  /\ findIdx = Len(activeBuffers) + 1
  /\ findPc' = "controller"
  /\ UNCHANGED <<vars, findIdx, findBuf, findOps, finds, findQuiet>>

\* _controller->find, the merge and the answer
FindController ==
  /\ findPc = "controller"
  /\ findPc' = "idle"
  /\ UNCHANGED <<vars, findIdx, findBuf, findOps, finds, findQuiet>>

FindStep ==
  \/ FindBegin \/ FindDeref \/ FindSeek \/ FindTest \/ FindRead
  \/ FindBufferDone
  \/ FindEnd \/ FindController

FNext ==
  \/ FindStep
  \/ findPc = "idle" /\ (Request \/ NetStep) /\ UNCHANGED findVars
  \/ /\ MonStep
     /\ findQuiet' = (findQuiet /\ ~(findPc # "idle" /\ monPc = "pop"))
     /\ UNCHANGED <<findPc, findIdx, findBuf, findOps, finds>>

FSpec == FInit /\ [][FNext]_allVars

----------------------------------------------------------------------------
(* Action property: as long as no find overlaps a flush, each one collects *)
(* exactly the operations that are not applied, in their order: it leaves  *)
(* the cursors so that later writes, flushes and finds are not disturbed.  *)
FindComplete ==
  [][findPc = "controller" /\ findQuiet /\ ~clash =>
       findOps = SubSeq(acked, Len(applied) + 1, Len(acked))]_allVars

=============================================================================
