-------------------------- MODULE TxBufferManager --------------------------
(***************************************************************************)
(* The write-ahead log of djondb: tx/txbuffermanager.cpp, tx/txbuffer.cpp  *)
(* and the parts of tx/basetransaction.cpp and tx/stdtransaction.cpp that  *)
(* drive it.                                                               *)
(*                                                                         *)
(* Two threads share the main TxBufferManager.  The network thread runs    *)
(* every request: writes outside a transaction, writes inside one (they go *)
(* to a private manager with its own log file), commits and rollbacks.     *)
(* The monitor thread (monitorBuffers) takes the oldest buffer whenever    *)
(* there are two or more and applies its operations to the controller.     *)
(*                                                                         *)
(* Both threads are modelled at the grain of their lock operations: a step *)
(* ends where a thread may block or where the other may see its work.      *)
(* Operations have one size; a buffer holds BufCap of them.                *)
(***************************************************************************)
EXTENDS Integers, SequencesExt

CONSTANTS
  Tx,          \* client transactions (StdTransaction), each with its own log
  Main,        \* the main log, main.log
  None,        \* no operation, no transaction, no lock owner
  Net, Mon,    \* the network thread and the monitor thread
  BufCap,      \* operations that fit in one buffer (_buffersSize)
  Slots,       \* places in a log file a buffer can be mapped at
  MaxBuffers,  \* bound: TxBuffer objects ever created
  MaxOps       \* bound: operations ever written

ASSUME TxAssumption == Main \notin Tx /\ None \notin Tx /\ None # Main
ASSUME ThreadAssumption == Net # Mon /\ None # Net /\ None # Mon
ASSUME BufCapAssumption == BufCap \in Nat \ {0}
ASSUME SlotsAssumption == Slots \subseteq Nat /\ 0 \in Slots
ASSUME BoundsAssumption == MaxBuffers \in Nat \ {0} /\ MaxOps \in Nat

File == Tx \cup {Main}
Op == [n : 1..MaxOps, tx : File]
\* Heap objects of class TxBuffer; 0 is the NULL pointer.
BufIds == 1..MaxBuffers

VARIABLES
  activeBuffers,      \* _activeBuffers (= _vactiveBuffers): oldest first
  reusableBuffers,    \* _reusableBuffers
  buffersCount,       \* _buffersCount
  buffersByLog,       \* _buffersByLog, for the transactions' log files
  lockActiveBuffers,  \* owner of _lockActiveBuffers
  lockWait,           \* owner of _lockWait
  buf,                \* the TxBuffer objects
  created,            \* how many objects were created
  disk,               \* contents of the mapped log files
  control,            \* the control file main.trc
  logFiles,           \* transaction log files that exist
  netPc, netBuf, netNew, netOp, netTx, netAdd,   \* network thread
  monPc, monBuf,                                 \* monitor thread
  txState, txBuffers, \* the transactions and their managers' buffers
  issued,             \* operations written so far
  \* history variables: no action's guard reads them
  owner,              \* who holds each buffer
  start,              \* log position of a buffer's first operation
  acked,              \* operations accepted by the main log, in order
  applied,            \* operations given to the controller, in order
  clash               \* a buffer was mapped over a live one

mgrVars == <<activeBuffers, reusableBuffers, buffersCount, buffersByLog>>
lockVars == <<lockActiveBuffers, lockWait>>
objVars == <<buf, created, disk, control, logFiles>>
netVars == <<netPc, netBuf, netNew, netOp, netTx, netAdd>>
monVars == <<monPc, monBuf>>
txVars == <<txState, txBuffers>>
histVars == <<owner, start, acked, applied, clash>>
vars == <<mgrVars, lockVars, objVars, netVars, monVars, txVars, issued,
          histVars>>

NetPcs == {"idle", "getBuffer", "addBuffer", "addBufferNotify", "register",
           "write", "addBuffers", "addBuffersLoop", "finishCommit"}
MonPcs == {"wait", "pop", "flush", "register"}
TxStates == {"new", "open", "committing", "committed", "rolledback"}
Owners == {"free", "writer", "active", "monitor", "reusable", "tx", "deleted"}

BufferRec == [file : File, slot : Slots, pos : 0..BufCap, len : 0..BufCap,
              ctl : Nat]
ControlRec == [file : File, slot : Slots, len : 0..BufCap]

----------------------------------------------------------------------------
(* TxBuffer objects.                                                       *)

\* The object exists and maps its part of the log file.
Live(b) == owner[b] \notin {"free", "deleted"}
SameRegion(b, f, s) == buf[b].file = f /\ buf[b].slot = s

\* The operations the buffer holds, read from the mapped file.
Contents(b) ==
  [i \in 1..buf[b].len |-> disk[buf[b].file][buf[b].slot][i]]

\* Mutant: reset leaves _bufferLength alone
ResetCursor(r) == [r EXCEPT !.pos = 0]

\* TxBuffer::reset
Reset(r) == [r EXCEPT !.pos = 0, !.len = 0]
\* Mutant: the last operation is taken for the end of the buffer
EofEarly(r) == r.len <= r.pos + 1

\* TxBuffer::eof
Eof(r) == r.len <= r.pos

\* Mutant: the length stays behind the cursor
WrittenShort(r) == [r EXCEPT !.pos = r.pos + 1]

\* TxBuffer::writeLong/writeChars: at the cursor, which then is the length
Written(r) == [r EXCEPT !.pos = r.pos + 1, !.len = r.pos + 1]
WrittenDisk(r, op) == [disk EXCEPT ![r.file][r.slot][r.pos + 1] = op]

\* Mutant: a buffer that is just full still has room
HasRoomWhenFull(queue) == queue # <<>> /\ BufCap - buf[Last(queue)].pos >= 0

\* getBuffer looks at the last buffer of the queue, if there is one
HasRoom(queue) == queue # <<>> /\ BufCap - buf[Last(queue)].pos >= 1

NewBuffer(f, s) == [file |-> f, slot |-> s, pos |-> 0, len |-> 0, ctl |-> 0]

\* registerBufferControlFile: the header always gets the current count, and
\* the record always says active and empty, whatever flag and length are.
Registered(c, count, r, isNew) ==
  LET rec == [file |-> r.file, slot |-> r.slot, len |-> 0]
  IN  [count |-> count,
       recs  |-> IF isNew THEN Append(c.recs, rec)
                 ELSE [c.recs EXCEPT ![r.ctl] = rec]]

----------------------------------------------------------------------------
Init ==
  /\ activeBuffers = <<>> /\ reusableBuffers = <<>> /\ buffersCount = 0
  /\ buffersByLog = [t \in Tx |-> 0]
  /\ lockActiveBuffers = None /\ lockWait = None
  /\ buf = [b \in BufIds |-> NewBuffer(Main, 0)]
  /\ created = 0
  /\ disk = [f \in File |-> [s \in Slots |-> [i \in 1..BufCap |-> None]]]
  /\ control = [count |-> 0, recs |-> <<>>]
  /\ logFiles = {}
  /\ netPc = "idle" /\ netBuf = 0 /\ netNew = FALSE
  /\ netOp = None /\ netTx = None /\ netAdd = <<>>
  /\ monPc = "wait" /\ monBuf = 0
  /\ txState = [t \in Tx |-> "new"]
  /\ txBuffers = [t \in Tx |-> <<>>]
  /\ issued = 0
  /\ owner = [b \in BufIds |-> "free"]
  /\ start = [b \in BufIds |-> 0]
  /\ acked = <<>> /\ applied = <<>> /\ clash = FALSE

----------------------------------------------------------------------------
(* The network thread, outside transactions.                               *)

\* BaseTransaction::insert, update, remove, dropNamespace
RequestWrite ==
  /\ netPc = "idle"
  /\ issued < MaxOps
  /\ issued' = issued + 1
  /\ netOp' = [n |-> issued + 1, tx |-> Main]
  /\ netPc' = "getBuffer"
  /\ UNCHANGED <<mgrVars, lockVars, objVars, netBuf, netNew, netTx, netAdd,
                 monVars, txVars, histVars>>

\* addBuffers forces a new buffer; a write wants one with room at the cursor.
TailFits == netOp # None /\ HasRoom(activeBuffers)

GetBufferTail ==
  /\ netPc = "getBuffer"
  /\ TailFits
  /\ netBuf' = Last(activeBuffers)
  /\ netPc' = "write"
  /\ UNCHANGED <<mgrVars, lockVars, objVars, netNew, netOp, netTx, netAdd,
                 monVars, txVars, issued, histVars>>

\* Mutant: front() without pop()
GetBufferReuseNoPop ==
  /\ netPc = "getBuffer" /\ ~TailFits /\ reusableBuffers # <<>>
  /\ LET b == Head(reusableBuffers) IN
       /\ netBuf' = b
       /\ buf' = [buf EXCEPT ![b] = Reset(buf[b])]
       /\ owner' = [owner EXCEPT ![b] = "writer"]
  /\ netNew' = FALSE /\ netPc' = "addBuffer"
  /\ UNCHANGED <<mgrVars, lockVars, created, disk, control, logFiles, netOp,
                 netTx, netAdd, monVars, txVars, issued, start, acked, applied,
                 clash>>

GetBufferReuse ==
  /\ netPc = "getBuffer"
  /\ ~TailFits
  /\ reusableBuffers # <<>>
  /\ LET b == Head(reusableBuffers) IN
       /\ netBuf' = b
       /\ buf' = [buf EXCEPT ![b] = Reset(buf[b])]
       /\ owner' = [owner EXCEPT ![b] = "writer"]
  /\ reusableBuffers' = Tail(reusableBuffers)
  /\ netNew' = FALSE
  /\ netPc' = "addBuffer"
  /\ UNCHANGED <<activeBuffers, buffersCount, buffersByLog, lockVars, created,
                 disk, control, logFiles, netOp, netTx, netAdd, monVars,
                 txVars, issued, start, acked, applied, clash>>

\* createNewBuffer: the offset is the current count times the buffer size
NewSlot == buffersCount

GetBufferCreate ==
  /\ netPc = "getBuffer"
  /\ ~TailFits
  /\ reusableBuffers = <<>>
  /\ created < MaxBuffers
  /\ NewSlot \in Slots
  /\ created' = created + 1
  /\ netBuf' = created + 1
  /\ buf' = [buf EXCEPT ![created + 1] = NewBuffer(Main, NewSlot)]
  /\ owner' = [owner EXCEPT ![created + 1] = "writer"]
  /\ clash' = (clash \/ \E b \in BufIds : Live(b) /\ SameRegion(b, Main, NewSlot))
  /\ netNew' = TRUE
  /\ netPc' = "addBuffer"
  /\ UNCHANGED <<mgrVars, lockVars, disk, control, logFiles, netOp, netTx,
                 netAdd, monVars, txVars, issued, start, acked, applied>>

\* addBuffer, first half: takes _lockActiveBuffers and keeps it
AddBuffer ==
  /\ netPc = "addBuffer"
  /\ lockActiveBuffers = None
  /\ lockActiveBuffers' = Net
  /\ activeBuffers' = Append(activeBuffers, netBuf)
  /\ buffersCount' = buffersCount + 1
  /\ owner' = [owner EXCEPT ![netBuf] = "active"]
  /\ start' = [start EXCEPT ![netBuf] = Len(acked)]
  /\ netPc' = "addBufferNotify"
  /\ UNCHANGED <<reusableBuffers, buffersByLog, lockWait, objVars, netBuf,
                 netNew, netOp, netTx, netAdd, monVars, txVars, issued, acked,
                 applied, clash>>

\* addBuffer, second half: takes _lockWait, notifies and releases both.  The
\* notification never ends the monitor's wait (Lock::wait returns only on a
\* timeout), so it leaves no trace in the state.
AddBufferNotify ==
  /\ netPc = "addBufferNotify"
  /\ lockWait = None
  /\ lockActiveBuffers' = None
  /\ netPc' = "register"
  /\ UNCHANGED <<mgrVars, lockWait, objVars, netBuf, netNew, netOp, netTx,
                 netAdd, monVars, txVars, issued, histVars>>

\* The end of getBuffer: registerBufferControlFile
Register ==
  /\ netPc = "register"
  /\ control' = Registered(control, buffersCount, buf[netBuf], netNew)
  /\ buf' = [buf EXCEPT ![netBuf] =
               IF netNew THEN [@ EXCEPT !.ctl = Len(control.recs) + 1]
               ELSE Reset(@)]
  /\ netPc' = IF netOp = None THEN "finishCommit" ELSE "write"
  /\ UNCHANGED <<mgrVars, lockVars, created, disk, logFiles, netBuf, netNew,
                 netOp, netTx, netAdd, monVars, txVars, issued, histVars>>

\* The rest of writeOperationToRegister; the reply then goes to the client
WriteOperation ==
  /\ netPc = "write"
  /\ LET r == buf[netBuf] IN
       /\ disk' = WrittenDisk(r, netOp)
       /\ buf' = [buf EXCEPT ![netBuf] = Written(r)]
       /\ control' = [control EXCEPT !.recs[r.ctl].len = r.pos + 1]
  /\ acked' = Append(acked, netOp)
  /\ netPc' = "idle" /\ netBuf' = 0 /\ netOp' = None
  /\ UNCHANGED <<mgrVars, lockVars, created, logFiles, netNew, netTx, netAdd,
                 monVars, txVars, issued, owner, start, applied, clash>>

----------------------------------------------------------------------------
(* The network thread, transactions.  A transaction's manager has no       *)
(* monitor and is used by this thread alone: its locks are never contended *)
(* and a write is one step.                                                *)

Unfinished(t) == txState[t] \in {"new", "open"}

TxWrite(t) ==
  /\ netPc = "idle" /\ Unfinished(t)
  /\ issued < MaxOps
  /\ HasRoom(txBuffers[t])
  /\ LET b  == Last(txBuffers[t])
         op == [n |-> issued + 1, tx |-> t]
     IN  /\ disk' = WrittenDisk(buf[b], op)
         /\ buf' = [buf EXCEPT ![b] = Written(@)]
  /\ issued' = issued + 1
  /\ txState' = [txState EXCEPT ![t] = "open"]
  /\ UNCHANGED <<mgrVars, lockVars, created, control, logFiles, netVars,
                 monVars, txBuffers, histVars>>

TxWriteNewBuffer(t) ==
  /\ netPc = "idle" /\ Unfinished(t)
  /\ issued < MaxOps /\ created < MaxBuffers
  /\ Len(txBuffers[t]) \in Slots
  /\ ~HasRoom(txBuffers[t])
  /\ LET b  == created + 1
         r  == NewBuffer(t, Len(txBuffers[t]))
         op == [n |-> issued + 1, tx |-> t]
     IN  /\ clash' = (clash \/ \E c \in BufIds :
                                 Live(c) /\ SameRegion(c, t, r.slot))
         /\ disk' = WrittenDisk(r, op)
         /\ buf' = [buf EXCEPT ![b] = Written(r)]
         /\ owner' = [owner EXCEPT ![b] = "tx"]
         /\ txBuffers' = [txBuffers EXCEPT ![t] = Append(@, b)]
  /\ created' = created + 1
  /\ issued' = issued + 1
  /\ logFiles' = logFiles \cup {t}
  /\ txState' = [txState EXCEPT ![t] = "open"]
  /\ UNCHANGED <<mgrVars, lockVars, control, netVars, monVars, start, acked,
                 applied>>

\* Mutant: rollback hands the buffers to the main log as commit does
RollbackHandsOn(t) ==
  /\ netPc = "idle" /\ Unfinished(t)
  /\ activeBuffers' = activeBuffers \o txBuffers[t]
  /\ buffersCount' = buffersCount + Len(txBuffers[t])
  /\ owner' = [b \in BufIds |->
                 IF b \in ToSet(txBuffers[t]) THEN "active" ELSE owner[b]]
  /\ txBuffers' = [txBuffers EXCEPT ![t] = <<>>]
  /\ txState' = [txState EXCEPT ![t] = "rolledback"]
  /\ UNCHANGED <<reusableBuffers, buffersByLog, lockVars, objVars, netVars,
                 monVars, issued, start, acked, applied, clash>>

\* StdTransaction::rollback: dropAllBuffers and dropControlFile
Rollback(t) ==
  /\ netPc = "idle" /\ Unfinished(t)
  /\ owner' = [b \in BufIds |->
                 IF b \in ToSet(txBuffers[t]) THEN "deleted" ELSE owner[b]]
  /\ txBuffers' = [txBuffers EXCEPT ![t] = <<>>]
  /\ logFiles' = logFiles \ {t}
  /\ txState' = [txState EXCEPT ![t] = "rolledback"]
  /\ UNCHANGED <<mgrVars, lockVars, buf, created, disk, control, netVars,
                 monVars, issued, start, acked, applied, clash>>

\* Mutant: popAll collects the buffers from the back
CommitReversed(t) ==
  /\ netPc = "idle" /\ Unfinished(t)
  /\ netAdd' = Reverse(txBuffers[t])
  /\ txBuffers' = [txBuffers EXCEPT ![t] = <<>>]
  /\ owner' = [b \in BufIds |->
                 IF b \in ToSet(txBuffers[t]) THEN "writer" ELSE owner[b]]
  /\ txState' = [txState EXCEPT ![t] = "committing"]
  /\ netTx' = t /\ netPc' = "addBuffers"
  /\ UNCHANGED <<mgrVars, lockVars, objVars, netBuf, netNew, netOp, monVars,
                 issued, start, acked, applied, clash>>

\* StdTransaction::commit: popAll on the transaction's manager
Commit(t) ==
  /\ netPc = "idle" /\ Unfinished(t)
  /\ netAdd' = txBuffers[t]
  /\ txBuffers' = [txBuffers EXCEPT ![t] = <<>>]
  /\ owner' = [b \in BufIds |->
                 IF b \in ToSet(txBuffers[t]) THEN "writer" ELSE owner[b]]
  /\ txState' = [txState EXCEPT ![t] = "committing"]
  /\ netTx' = t
  /\ netPc' = "addBuffers"
  /\ UNCHANGED <<mgrVars, lockVars, objVars, netBuf, netNew, netOp, monVars,
                 issued, start, acked, applied, clash>>

\* addBuffers on the main manager holds _lockActiveBuffers over the loop
AddBuffersLock ==
  /\ netPc = "addBuffers"
  /\ lockActiveBuffers = None
  /\ lockActiveBuffers' = Net
  /\ netPc' = "addBuffersLoop"
  /\ UNCHANGED <<mgrVars, lockWait, objVars, netBuf, netNew, netOp, netTx,
                 netAdd, monVars, txVars, issued, histVars>>

AddBuffersNext ==
  /\ netPc = "addBuffersLoop"
  /\ netAdd # <<>>
  /\ LET b == Head(netAdd)
         f == buf[b].file
     IN
       /\ activeBuffers' = Append(activeBuffers, b)
       /\ buffersByLog' = [buffersByLog EXCEPT ![f] = @ + 1]
       /\ control' = Registered(control, buffersCount + 1, buf[b], TRUE)
       /\ buf' = [buf EXCEPT ![b].ctl = Len(control.recs) + 1]
       /\ owner' = [owner EXCEPT ![b] = "active"]
       /\ start' = [start EXCEPT ![b] = Len(acked)]
       /\ acked' = acked \o Contents(b)
  /\ buffersCount' = buffersCount + 1
  /\ netAdd' = Tail(netAdd)
  /\ UNCHANGED <<reusableBuffers, lockVars, created, disk, logFiles, netPc,
                 netBuf, netNew, netOp, netTx, monVars, txVars, issued,
                 applied, clash>>

\* The notification of _lockActiveBuffers has no waiter.
AddBuffersUnlock ==
  /\ netPc = "addBuffersLoop"
  /\ netAdd = <<>>
  /\ lockActiveBuffers' = None
  /\ netPc' = "getBuffer"
  /\ UNCHANGED <<mgrVars, lockWait, objVars, netBuf, netNew, netOp, netTx,
                 netAdd, monVars, txVars, issued, histVars>>

\* dropControlFile, then CommitCommand drops the transaction
FinishCommit ==
  /\ netPc = "finishCommit"
  /\ txState' = [txState EXCEPT ![netTx] = "committed"]
  /\ netPc' = "idle" /\ netTx' = None /\ netBuf' = 0
  /\ UNCHANGED <<mgrVars, lockVars, objVars, netNew, netOp, netAdd, monVars,
                 txBuffers, issued, histVars>>

----------------------------------------------------------------------------
(* The monitor thread: monitorBuffers repeats flushBuffer.                 *)

\* Mutant: two buffers are not enough
FlushThresholdHigh == 2

\* _lockWait->wait(1) times out, holding _lockWait again; buffersCount() is
\* read without _lockActiveBuffers.  With fewer than two buffers the lock is
\* released and the thread waits again, which changes nothing.
FlushThreshold == 1

FlushWake ==
  /\ monPc = "wait"
  /\ lockWait = None
  /\ buffersCount > FlushThreshold
  /\ lockWait' = Mon
  /\ monPc' = "pop"
  /\ UNCHANGED <<mgrVars, lockActiveBuffers, objVars, netVars, monBuf, txVars,
                 issued, histVars>>

\* pop(), then the buffer is locked and rewound
FlushPop ==
  /\ monPc = "pop"
  /\ lockActiveBuffers = None
  /\ LET b == Head(activeBuffers)
         f == buf[b].file
     IN
       /\ monBuf' = b
       /\ buf' = [buf EXCEPT ![b].pos = 0]
       /\ owner' = [owner EXCEPT ![b] = "monitor"]
       /\ buffersByLog' = [t \in Tx |->
                             IF t = f THEN buffersByLog[t] - 1
                             ELSE buffersByLog[t]]
  /\ activeBuffers' = Tail(activeBuffers)
  /\ buffersCount' = buffersCount - 1
  /\ monPc' = "flush"
  /\ UNCHANGED <<reusableBuffers, lockVars, created, disk, control, logFiles,
                 netVars, txVars, issued, start, acked, applied, clash>>

\* Mutant: TxBuffer::readChars does not take over the stream's position
FlushApplyStays ==
  /\ monPc = "flush"
  /\ LET r == buf[monBuf] IN
       /\ ~Eof(r)
       /\ applied' = Append(applied, disk[r.file][r.slot][r.pos + 1])
  /\ UNCHANGED <<mgrVars, lockVars, objVars, netVars, monVars, txVars, issued,
                 owner, start, acked, clash>>

\* readOperationFromRegister and the call of the controller
FlushApply ==
  /\ monPc = "flush"
  /\ LET r == buf[monBuf] IN
       /\ ~Eof(r)
       /\ applied' = Append(applied, disk[r.file][r.slot][r.pos + 1])
       /\ buf' = [buf EXCEPT ![monBuf].pos = r.pos + 1]
  /\ UNCHANGED <<mgrVars, lockVars, created, disk, control, logFiles, netVars,
                 monVars, txVars, issued, owner, start, acked, clash>>

\* A buffer of the main log goes to the reusable ones ...
FlushRecycle ==
  /\ monPc = "flush"
  /\ Eof(buf[monBuf]) /\ buf[monBuf].file = Main
  /\ buf' = [buf EXCEPT ![monBuf] = Reset(@)]
  /\ reusableBuffers' = Append(reusableBuffers, monBuf)
  /\ owner' = [owner EXCEPT ![monBuf] = "reusable"]
  /\ monPc' = "register"
  /\ UNCHANGED <<activeBuffers, buffersCount, buffersByLog, lockVars, created,
                 disk, control, logFiles, netVars, monBuf, txVars, issued,
                 start, acked, applied, clash>>

\* ... and is registered, and reset once more, under _lockWait
FlushRegister ==
  /\ monPc = "register"
  /\ control' = Registered(control, buffersCount, buf[monBuf], FALSE)
  /\ buf' = [buf EXCEPT ![monBuf] = Reset(@)]
  /\ lockWait' = None
  /\ monPc' = "wait" /\ monBuf' = 0
  /\ UNCHANGED <<mgrVars, lockActiveBuffers, created, disk, logFiles, netVars,
                 txVars, issued, histVars>>

\* Mutant: the file goes one buffer too early
DropFileEarly(t) == buffersByLog[t] <= 1

\* dropBuffer: the file goes with the last buffer that refers to it.  A file
\* without an entry in _buffersByLog counts 0.
DropFile(t) == buffersByLog[t] <= 0

FlushDrop ==
  /\ monPc = "flush"
  /\ Eof(buf[monBuf]) /\ buf[monBuf].file # Main
  /\ logFiles' = IF DropFile(buf[monBuf].file)
                 THEN logFiles \ {buf[monBuf].file} ELSE logFiles
  /\ owner' = [owner EXCEPT ![monBuf] = "deleted"]
  /\ lockWait' = None
  /\ monPc' = "wait" /\ monBuf' = 0
  /\ UNCHANGED <<mgrVars, lockActiveBuffers, buf, created, disk, control,
                 netVars, txVars, issued, start, acked, applied, clash>>

----------------------------------------------------------------------------
\* The steps of a request already begun; requests themselves come from clients
NetStep ==
  \/ GetBufferTail \/ GetBufferReuse \/ GetBufferCreate
  \/ AddBuffer \/ AddBufferNotify \/ Register \/ WriteOperation
  \/ AddBuffersLock \/ AddBuffersNext \/ AddBuffersUnlock \/ FinishCommit

Request ==
  \/ RequestWrite
  \/ \E t \in Tx : TxWrite(t) \/ TxWriteNewBuffer(t) \/ Rollback(t) \/ Commit(t)

MonStep ==
  \/ FlushWake \/ FlushPop \/ FlushApply
  \/ FlushRecycle \/ FlushRegister \/ FlushDrop

Next == Request \/ NetStep \/ MonStep

Spec == Init /\ [][Next]_vars

\* Both threads are scheduled whenever they can run; clients may fall silent.
FairSpec == Spec /\ WF_vars(NetStep) /\ WF_vars(MonStep)

============================================================================
