------------------------- MODULE TxBufferManagerInv -------------------------
(***************************************************************************)
(* Invariants and action properties of the write-ahead log.                *)
(***************************************************************************)
EXTENDS TxBufferManager

MgrType ==
  /\ activeBuffers \in Seq(BufIds) /\ reusableBuffers \in Seq(BufIds)
  /\ buffersCount \in Nat /\ buffersByLog \in [Tx -> Int]
LockType == lockActiveBuffers \in {None, Net} /\ lockWait \in {None, Mon}
ObjType ==
  /\ buf \in [BufIds -> BufferRec] /\ created \in 0..MaxBuffers
  /\ disk \in [File -> [Slots -> [1..BufCap -> Op \cup {None}]]]
  /\ control \in [count : Nat, recs : Seq(ControlRec)]
  /\ logFiles \subseteq Tx
NetType ==
  /\ netPc \in NetPcs /\ netBuf \in BufIds \cup {0} /\ netNew \in BOOLEAN
  /\ netOp \in Op \cup {None} /\ netTx \in Tx \cup {None}
  /\ netAdd \in Seq(BufIds)
MonType == monPc \in MonPcs /\ monBuf \in BufIds \cup {0}
TxType == txState \in [Tx -> TxStates] /\ txBuffers \in [Tx -> Seq(BufIds)]
HistType ==
  /\ owner \in [BufIds -> Owners] /\ start \in [BufIds -> Nat]
  /\ acked \in Seq(Op \cup {None}) /\ applied \in Seq(Op \cup {None})
  /\ clash \in BOOLEAN

(* Every variable holds a value of its type.                               *)
TypeOK ==
  /\ MgrType /\ LockType /\ ObjType /\ NetType /\ MonType /\ TxType
  /\ issued \in 0..MaxOps /\ HistType

----------------------------------------------------------------------------
(* What makes the log correct.                                             *)

\* The sequence holds buffers of owner o only, each once.
Holds(s, o) ==
  /\ \A i \in 1..Len(s) : owner[s[i]] = o
  /\ \A i, j \in 1..Len(s) : s[i] = s[j] => i = j

\* _buffersCount is the length of the queue, and every container holds only
\* buffers it owns, each once.
Containers ==
  /\ buffersCount = Len(activeBuffers)
  /\ Holds(activeBuffers, "active")
  /\ Holds(reusableBuffers, "reusable")
  /\ Holds(netAdd, "writer")
  /\ \A t \in Tx :
       /\ Holds(txBuffers[t], "tx")
       /\ \A i \in 1..Len(txBuffers[t]) : buf[txBuffers[t][i]].file = t
  /\ \A b \in BufIds : owner[b] = "free" <=> b > created

(* The pool is well formed whoever is in the middle of a step: the count   *)
(* getBuffer and flushBuffer rely on is exact, no buffer is in two places, *)
(* and none was dropped on its way between the threads: whatever is        *)
(* neither new nor deleted can be reached from exactly one of queue,       *)
(* reusable list, monitor, writer and transaction.                         *)
NoBufferLeaked ==
  /\ Containers
  /\ \A b \in BufIds :
       /\ owner[b] = "active" => b \in ToSet(activeBuffers)
       /\ owner[b] = "reusable" => b \in ToSet(reusableBuffers)
       /\ owner[b] = "monitor" => monPc = "flush" /\ b = monBuf
       /\ owner[b] = "writer" => b = netBuf \/ b \in ToSet(netAdd)
       /\ owner[b] = "tx" => b \in ToSet(txBuffers[buf[b].file])

(* The buffer the network thread is about to append to is the last one of  *)
(* the queue, has room at its cursor, which stands at its end, and the     *)
(* monitor thread neither reads it nor is still about to reset it          *)
(* (flushBuffer resets a recycled buffer once more after it has put it in  *)
(* the reusable queue; only _lockWait keeps the writer away until then).   *)
WriterOwnsTail ==
  netPc = "write" =>
    /\ activeBuffers # <<>>
    /\ netBuf = Last(activeBuffers)
    /\ netBuf # monBuf
    /\ buf[netBuf].pos = buf[netBuf].len
    /\ buf[netBuf].len < BufCap

(* Operations reach the controller in the order the log accepted them,     *)
(* none skipped and none twice, as long as createNewBuffer has not mapped  *)
(* a new buffer over one in use.                                           *)
AppliedInOrder ==
  ~clash =>
    /\ Len(applied) <= Len(acked)
    /\ \A i \in 1..Len(applied) : applied[i] = acked[i]

(* An accepted operation that was not applied yet can still be read from a *)
(* buffer that is in the queue or with the monitor, at the place that the  *)
(* buffer's part of the log says.                                          *)
NothingLost ==
  ~clash =>
    \A i \in (Len(applied) + 1)..Len(acked) :
      \E b \in BufIds :
        /\ owner[b] \in {"active", "monitor"}
        /\ i - start[b] \in 1..buf[b].len
        /\ disk[buf[b].file][buf[b].slot][i - start[b]] = acked[i]

(* No operation of a transaction reaches the controller unless the client  *)
(* asked for its commit: rolled back and open transactions leave no trace. *)
OnlyCommittedApplied ==
  \A i \in 1..Len(applied) :
    LET op == applied[i] IN
    op # None /\ op.tx # Main => txState[op.tx] \in {"committing", "committed"}

(* A transaction's log file exists exactly as long as some buffer maps it: *)
(* dropBuffer neither removes a file that queued buffers still need for    *)
(* recovery nor leaves it behind with the last one.                        *)
LogFileLifetime ==
  \A t \in Tx :
    t \in logFiles <=> \E b \in BufIds : Live(b) /\ buf[b].file = t

InLog(b) == owner[b] \in {"active", "monitor"}

(* Action property: a buffer of the log is emptied, reused or deleted only *)
(* when everything in it has been applied.                                 *)
TruncatedOnlyWhenApplied ==
  [][\A b \in BufIds :
       InLog(b) /\ (buf'[b].len < buf[b].len \/ ~InLog(b)')
         => start[b] + buf[b].len <= Len(applied)]_vars

----------------------------------------------------------------------------
(* The inductive invariant behind these properties.                        *)

\* Where each thread is, which locks it holds and which buffer it works on
Control ==
  /\ lockActiveBuffers = Net <=> netPc \in {"addBufferNotify", "addBuffersLoop"}
  /\ lockWait = Mon <=> monPc # "wait"
  /\ netPc \in {"addBuffer", "addBufferNotify", "register", "write"}
       => netBuf # 0
  /\ netAdd # <<>> => netPc \in {"addBuffers", "addBuffersLoop"}
  /\ netPc = "addBuffer" => owner[netBuf] = "writer"
  /\ netPc \in {"addBufferNotify", "register", "write"}
       => activeBuffers # <<>> /\ netBuf = Last(activeBuffers)
  /\ monPc = "pop" => Len(activeBuffers) > 1
  /\ monPc \in {"flush", "register"} <=> monBuf # 0
  /\ monPc = "flush" => owner[monBuf] = "monitor"
  /\ monPc = "register" =>
       \/ owner[monBuf] = "reusable"
       \/ /\ netPc \in {"addBuffer", "addBufferNotify"}
          /\ netBuf = monBuf

\* Cursors and lengths
Cursors ==
  /\ \A b \in BufIds :
       /\ buf[b].pos <= buf[b].len
       /\ owner[b] # "monitor" /\ Live(b) => buf[b].pos = buf[b].len
       /\ owner[b] = "reusable" => buf[b].len = 0
  /\ netPc \in {"addBuffer", "addBufferNotify", "register"}
       => buf[netBuf].len = 0
  /\ netPc = "write" => buf[netBuf].len < BufCap
  /\ monPc = "register" => buf[monBuf].len = 0

\* What of this also holds for the buffers a start has loaded, whose cursor
\* stands at the beginning
CursorBounds ==
  /\ \A b \in BufIds :
       /\ buf[b].pos <= buf[b].len
       /\ owner[b] = "reusable" => buf[b].len = 0
  /\ netPc \in {"addBuffer", "addBufferNotify", "register"}
       => buf[netBuf].len = 0
  /\ netPc = "write" => buf[netBuf].pos < BufCap
  /\ monPc = "register" => buf[monBuf].len = 0

\* The part of the invariant that a restart keeps
BaseInv == TypeOK /\ Containers /\ Control /\ CursorBounds

\* The buffers of the queue cover the accepted operations from the first one
\* that is not applied to the last, each its own stretch, without a gap.
Stretches ==
  /\ \A b \in BufIds : InLog(b) => start[b] + buf[b].len <= Len(acked)
  /\ \A i \in 1..Len(activeBuffers) - 1 :
       start[activeBuffers[i + 1]] =
         start[activeBuffers[i]] + buf[activeBuffers[i]].len
  /\ activeBuffers # <<>> =>
       start[Last(activeBuffers)] + buf[Last(activeBuffers)].len = Len(acked)
  /\ monPc # "flush" /\ activeBuffers # <<>> =>
       start[activeBuffers[1]] = Len(applied)
  /\ monPc = "flush" =>
       /\ activeBuffers # <<>>
       /\ start[monBuf] + buf[monBuf].pos = Len(applied)
       /\ start[activeBuffers[1]] = start[monBuf] + buf[monBuf].len
  /\ activeBuffers = <<>> => Len(applied) = Len(acked)

Covered ==
  \A i \in (Len(applied) + 1)..Len(acked) :
    \E b \in BufIds : InLog(b) /\ i - start[b] \in 1..buf[b].len

\* Without a clash no two live buffers map the same place, and a buffer of
\* the log holds what its stretch says.
Intact ==
  ~clash =>
    /\ \A b, c \in BufIds :
         Live(b) /\ Live(c) /\ SameRegion(b, buf[c].file, buf[c].slot) => b = c
    /\ \A b \in BufIds : InLog(b) =>
         \A j \in 1..buf[b].len :
           disk[buf[b].file][buf[b].slot][j] = acked[start[b] + j]
    /\ \A i \in 1..Len(applied) : applied[i] = acked[i]

(* The inductive invariant: types, ownership, control, cursors, stretches  *)
(* of the log and contents of the buffers together.                        *)
IndInv ==
  TypeOK /\ Containers /\ Control /\ Cursors /\ Stretches /\ Covered /\ Intact

----------------------------------------------------------------------------
(* What else is needed for the log files and for what reaches the          *)
(* controller; inductive together with IndInv.                             *)

Handed(t) == txState[t] \in {"committing", "committed"}

\* Every buffer can be reached from the one who owns it, and maps a file
\* that owner may have.
PlacedAt(b) ==
  /\ owner[b] = "active" => b \in ToSet(activeBuffers)
  /\ owner[b] = "reusable" => b \in ToSet(reusableBuffers) /\ buf[b].file = Main
  /\ owner[b] = "monitor" => monPc = "flush" /\ b = monBuf
  /\ owner[b] = "tx" => buf[b].file \in Tx /\ b \in ToSet(txBuffers[buf[b].file])
  /\ owner[b] = "writer" =>
       \/ netPc = "addBuffer" /\ b = netBuf /\ buf[b].file = Main
       \/ /\ netPc \in {"addBuffers", "addBuffersLoop"}
          /\ b \in ToSet(netAdd) /\ buf[b].file = netTx /\ netTx \in Tx
Placed == \A b \in BufIds : PlacedAt(b)

\* A transaction's buffers leave it when it commits, all of them before the
\* monitor sees the first.
HandedAt(b) ==
  /\ owner[b] = "tx" => Unfinished(buf[b].file)
  /\ owner[b] \in {"active", "monitor", "writer"}
       => buf[b].file = Main \/ Handed(buf[b].file)
  /\ buf[b].file = netTx =>
       /\ netPc \in {"addBuffers", "addBuffersLoop"} => owner[b] # "monitor"
       /\ netPc = "addBuffers" => owner[b] # "active"
HandedOver ==
  /\ \A b \in BufIds : HandedAt(b)
  /\ netTx \in Tx => Handed(netTx)

\* The queued buffers that map the log file of t
QueuedOf(t) == {b \in BufIds : owner[b] = "active" /\ buf[b].file = t}

\* _buffersByLog counts the queued buffers of each transaction's log file.
Counted == \A t \in Tx : buffersByLog[t] = Cardinality(QueuedOf(t))

\* A log file holds operations of its own transaction and of none.
OwnOperations ==
  /\ netOp = None \/ netOp.tx = Main
  /\ \A f \in File, s \in Slots, i \in 1..BufCap :
       disk[f][s][i] = None \/ disk[f][s][i].tx \in {f, Main}

FileInv ==
  /\ Placed /\ HandedOver /\ Counted /\ OwnOperations
  /\ OnlyCommittedApplied /\ LogFileLifetime

(* What keeps the operations of other transactions away from the           *)
(* controller, with or without a restart.                                  *)
IsolationInv ==
  BaseInv /\ Placed /\ HandedOver /\ OwnOperations /\ OnlyCommittedApplied

(* Order and contents of the log, and the log files with who may map them, *)
(* in one inductive invariant.                                             *)
LogInv == IndInv /\ FileInv

----------------------------------------------------------------------------
(* Progress of the monitor thread and the wait that can end it.            *)

(* Producer and consumer never wait for each other's lock in a circle      *)
(* (addBuffer holds _lockActiveBuffers and wants _lockWait, flushBuffer    *)
(* holds _lockWait and wants _lockActiveBuffers in pop).  The code does    *)
(* not keep this.                                                          *)
NoLockCycle ==
  ~ /\ netPc = "addBufferNotify" /\ lockActiveBuffers = Net /\ lockWait = Mon
    /\ monPc = "pop"

(* Under fair scheduling of both threads the oldest buffer of a queue of   *)
(* two or more is taken by flushBuffer at last, unless the two threads     *)
(* are blocked on each other's lock.                                       *)
FlushProgress ==
  \A b \in BufIds :
    (owner[b] = "active" /\ buffersCount > 1 /\ Head(activeBuffers) = b)
      ~> (owner[b] # "active" \/ ~NoLockCycle)

=============================================================================
