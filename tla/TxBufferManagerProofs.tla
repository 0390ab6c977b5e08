----------------------- MODULE TxBufferManagerProofs -----------------------
(***************************************************************************)
(* Proofs about the write-ahead log, part 1: the initial state, what the   *)
(* helpers return, types, who holds which buffer, which thread is where    *)
(* with which lock, where the cursors stand, and that the buffers of the   *)
(* log cover the accepted operations.                                      *)
(***************************************************************************)
EXTENDS TxBufferManagerInv, SequenceTheorems, TLAPS

(* The state the constructor of TxBufferManager leaves is of the right     *)
(* types.                                                                  *)
LEMMA InitType == Init => TypeOK
<1> SUFFICES ASSUME Init PROVE TypeOK OBVIOUS
<1> USE DEF Init
<1>1. MgrType /\ LockType
  BY DEF MgrType, LockType
<1>2. ObjType
  <2>1. buf \in [BufIds -> BufferRec]
    BY BufCapAssumption, SlotsAssumption DEF BufferRec, NewBuffer, File
  <2>2. created \in 0..MaxBuffers
    BY BoundsAssumption
  <2>3. disk \in [File -> [Slots -> [1..BufCap -> Op \cup {None}]]]
    OBVIOUS
  <2>4. QED BY <2>1, <2>2, <2>3 DEF ObjType
<1>3. NetType
  <2>1. netNew \in BOOLEAN
    OBVIOUS
  <2>2. QED BY <2>1 DEF NetType, NetPcs
<1>4. MonType /\ TxType
  BY DEF MonType, MonPcs, TxType, TxStates
<1>5. HistType
  <2>1. clash \in BOOLEAN
    OBVIOUS
  <2>2. QED BY <2>1 DEF HistType, Owners
<1>6. issued \in 0..MaxOps
  BY BoundsAssumption
<1> QED BY <1>1, <1>2, <1>3, <1>4, <1>5, <1>6 DEF TypeOK

(* The empty log satisfies the inductive invariant.                        *)
LEMMA InitInv == Init => IndInv
<1> SUFFICES ASSUME Init PROVE IndInv OBVIOUS
<1>1. TypeOK BY InitType
<1> USE DEF Init
<1>2. Containers
  BY BoundsAssumption DEF Containers, Holds, BufIds
<1>3. Control
  BY ThreadAssumption DEF Control
<1>4. Cursors
  BY DEF Cursors, NewBuffer, Live
<1>5. Stretches /\ Covered /\ Intact
  BY DEF Stretches, Covered, Intact, InLog, Live
<1> QED BY <1>1, <1>2, <1>3, <1>4, <1>5 DEF IndInv

(* Writing at the cursor changes that place of the log file only.          *)
LEMMA WrittenDiskLemma ==
  ASSUME ObjType, NEW r \in BufferRec, r.pos < BufCap,
         NEW op \in Op \cup {None}
  PROVE  /\ WrittenDisk(r, op) \in
              [File -> [Slots -> [1..BufCap -> Op \cup {None}]]]
         /\ WrittenDisk(r, op)[r.file][r.slot][r.pos + 1] = op
         /\ \A f \in File, s \in Slots, i \in 1..BufCap :
              f # r.file \/ s # r.slot \/ i # r.pos + 1
                => WrittenDisk(r, op)[f][s][i] = disk[f][s][i]
         /\ Written(r) \in BufferRec
<1>1. /\ r.file \in File /\ r.slot \in Slots /\ r.pos + 1 \in 1..BufCap
      /\ r.pos \in Nat
  BY BufCapAssumption DEF BufferRec
<1> DEFINE Place == [1..BufCap -> Op \cup {None}]
           area == disk[r.file][r.slot]
           newArea == [area EXCEPT ![r.pos + 1] = op]
           newFile == [disk[r.file] EXCEPT ![r.slot] = newArea]
<1>2. disk \in [File -> [Slots -> Place]]
  BY DEF ObjType
<1>3. area \in Place /\ disk[r.file] \in [Slots -> Place]
  BY <1>1, <1>2
<1>4. newArea \in Place
  BY <1>1, <1>3
<1>5. newFile \in [Slots -> Place]
  BY <1>1, <1>3, <1>4
<1>6. WrittenDisk(r, op) = [disk EXCEPT ![r.file] = newFile]
  BY DEF WrittenDisk
<1> HIDE DEF Place, newArea, newFile
<1>7. WrittenDisk(r, op) \in [File -> [Slots -> Place]]
  BY <1>1, <1>2, <1>5, <1>6
<1>8. WrittenDisk(r, op)[r.file] = newFile
  BY <1>1, <1>2, <1>6
<1>9. \A f \in File : f # r.file => WrittenDisk(r, op)[f] = disk[f]
  BY <1>2, <1>6
<1>10. newFile[r.slot] = newArea /\
       \A s \in Slots : s # r.slot => newFile[s] = disk[r.file][s]
  BY <1>1, <1>3 DEF newFile
<1>11. newArea[r.pos + 1] = op /\
       \A i \in 1..BufCap : i # r.pos + 1 => newArea[i] = area[i]
  BY <1>1, <1>3 DEF newArea, Place
<1>12. Written(r) \in BufferRec
  <2>1. r.pos + 1 \in 0..BufCap
    BY <1>1, BufCapAssumption
  <2>2. QED BY <2>1 DEF Written, BufferRec
<1> QED
  BY <1>7, <1>8, <1>9, <1>10, <1>11, <1>12 DEF Place

(* TxBuffer::reset empties the buffer and keeps its place in the log file. *)
LEMMA ResetLemma ==
  ASSUME NEW r \in BufferRec
  PROVE  /\ Reset(r) \in BufferRec
         /\ Reset(r).pos = 0 /\ Reset(r).len = 0
         /\ Reset(r).file = r.file /\ Reset(r).slot = r.slot
<1>1. 0 \in 0..BufCap
  BY BufCapAssumption
<1>2. QED BY <1>1 DEF Reset, BufferRec

(* Overwriting an element keeps a sequence a sequence.                     *)
LEMMA ExceptType ==
  ASSUME NEW S, NEW s \in Seq(S), NEW i, NEW e \in S
  PROVE  [s EXCEPT ![i] = e] \in Seq(S)
<1>1. CASE i \in 1..Len(s)
  BY <1>1, ExceptSeq
<1>2. CASE i \notin 1..Len(s)
  <2>1. DOMAIN s = 1..Len(s)
    BY LenProperties
  <2>2. [s EXCEPT ![i] = e] = s
    BY <1>2, <2>1
  <2>3. QED BY <2>2
<1>3. QED BY <1>1, <1>2

(* registerBufferControlFile leaves a well-formed control file, whether it *)
(* appends a record or overwrites one.                                     *)
LEMMA RegisteredLemma ==
  ASSUME ObjType, NEW r \in BufferRec, NEW count \in Nat, NEW isNew \in BOOLEAN
  PROVE  Registered(control, count, r, isNew) \in
           [count : Nat, recs : Seq(ControlRec)]
<1> DEFINE rec == [file |-> r.file, slot |-> r.slot, len |-> 0]
<1>1. rec \in ControlRec
  BY BufCapAssumption DEF ControlRec, BufferRec
<1>2. control.recs \in Seq(ControlRec)
  BY DEF ObjType
<1> HIDE DEF rec
<1>3. Append(control.recs, rec) \in Seq(ControlRec)
  BY <1>1, <1>2
<1>4. [control.recs EXCEPT ![r.ctl] = rec] \in Seq(ControlRec)
  BY <1>1, <1>2, ExceptType
<1>5. QED
  BY <1>3, <1>4 DEF Registered, rec

(* The end of the control file is a position.                              *)
LEMMA NewControlPosition == ObjType => Len(control.recs) + 1 \in Nat
<1> SUFFICES ASSUME ObjType PROVE Len(control.recs) + 1 \in Nat OBVIOUS
<1>1. control.recs \in Seq(ControlRec)
  BY DEF ObjType
<1>2. QED BY <1>1

(* writeOperationToRegister overwrites the length field of one record.     *)
LEMMA ControlLengthLemma ==
  ASSUME ObjType, NEW i \in Nat, NEW n \in 0..BufCap
  PROVE  [control EXCEPT !.recs[i].len = n] \in
           [count : Nat, recs : Seq(ControlRec)]
<1> DEFINE recs == control.recs
           rec == [recs[i] EXCEPT !.len = n]
<1>1. recs \in Seq(ControlRec) /\ control \in [count : Nat, recs : Seq(ControlRec)]
  BY DEF ObjType
<1>2. CASE i \in 1..Len(recs)
  <2>1. recs[i] \in ControlRec
    BY <1>1, <1>2
  <2>2. rec \in ControlRec
    BY <2>1 DEF ControlRec
  <2>3. [recs EXCEPT ![i] = rec] \in Seq(ControlRec)
    BY <1>1, <2>2, ExceptType
  <2>4. [control EXCEPT !.recs[i].len = n] =
          [control EXCEPT !.recs = [recs EXCEPT ![i] = rec]]
    BY <1>1
  <2>5. QED BY <1>1, <2>3, <2>4
<1>3. CASE i \notin 1..Len(recs)
  <2>1. DOMAIN recs = 1..Len(recs)
    BY <1>1, LenProperties
  <2>2. [recs EXCEPT ![i] = rec] = recs
    BY <1>3, <2>1, <1>1
  <2>4. [control EXCEPT !.recs[i].len = n] =
          [control EXCEPT !.recs = [recs EXCEPT ![i] = rec]]
    BY <1>1
  <2>5. QED BY <1>1, <2>2, <2>4
<1>4. QED BY <1>2, <1>3

(* What a buffer holds is read from its place in the log file.             *)
LEMMA ContentsLemma ==
  ASSUME ObjType, NEW b \in BufIds
  PROVE  /\ Contents(b) \in Seq(Op \cup {None})
         /\ Len(Contents(b)) = buf[b].len
         /\ \A j \in 1..buf[b].len :
              Contents(b)[j] = disk[buf[b].file][buf[b].slot][j]
<1>1. /\ buf[b].file \in File /\ buf[b].slot \in Slots
      /\ buf[b].len \in 0..BufCap
  BY DEF ObjType, BufferRec
<1>2. disk[buf[b].file][buf[b].slot] \in [1..BufCap -> Op \cup {None}]
  BY <1>1 DEF ObjType
<1>3. \A j \in 1..buf[b].len :
        disk[buf[b].file][buf[b].slot][j] \in Op \cup {None}
  BY <1>1, <1>2, BufCapAssumption
<1>4. QED
  BY <1>1, <1>3, BufCapAssumption DEF Contents

(* What a restart keeps is part of the whole invariant.                    *)
LEMMA BaseOfInd == IndInv => BaseInv
<1> SUFFICES ASSUME IndInv PROVE BaseInv OBVIOUS
<1>1. TypeOK /\ Containers /\ Control /\ Cursors
  BY DEF IndInv
<1>2. netPc = "write" => netBuf \in BufIds
  BY <1>1 DEF TypeOK, NetType, Control
<1>3. \A b \in BufIds : buf[b].pos \in Nat /\ buf[b].len \in Nat
  BY <1>1, BufCapAssumption DEF TypeOK, ObjType, BufferRec
<1>4. netPc = "write" => buf[netBuf].pos < BufCap
  BY <1>1, <1>2, <1>3, BufCapAssumption DEF Cursors
<1>5. CursorBounds
  BY <1>1, <1>4 DEF Cursors, CursorBounds
<1>6. QED BY <1>1, <1>5 DEF BaseInv

----------------------------------------------------------------------------
(* Preservation, one lemma per conjunct of the invariant and one step per  *)
(* action.                                                                 *)

(* Every action keeps the types: cursors stay inside their buffers and     *)
(* counts do not become negative.                                          *)
LEMMA TypeStep == BaseInv /\ [Next]_vars => TypeOK'
<1> SUFFICES ASSUME BaseInv, [Next]_vars PROVE TypeOK' OBVIOUS
<1>0. TypeOK /\ Containers /\ Control /\ CursorBounds
  BY DEF BaseInv
<1> USE DEF TypeOK
<1>1. CASE UNCHANGED vars
  BY <1>0, <1>1 DEF vars, mgrVars, lockVars, objVars, netVars, monVars, txVars,
     histVars, MgrType, LockType, ObjType, NetType, MonType, TxType, HistType
<1>2. CASE RequestWrite
  <2>1. issued' \in 0..MaxOps /\ netOp' \in Op
    BY <1>0, <1>2, BoundsAssumption DEF RequestWrite, Op, File
  <2>2. NetType'
    BY <1>0, <1>2, <2>1 DEF RequestWrite, NetType, NetPcs
  <2>3. QED
    BY <1>0, <1>2, <2>1, <2>2 DEF RequestWrite, mgrVars, lockVars, objVars,
       monVars, txVars, histVars, MgrType, LockType, ObjType, MonType, TxType,
       HistType
<1>3. CASE GetBufferTail
  <2>1. netBuf' \in BufIds
    BY <1>0, <1>3 DEF GetBufferTail, TailFits, HasRoom, MgrType, Last
  <2>2. NetType'
    BY <1>0, <1>3, <2>1 DEF GetBufferTail, NetType, NetPcs
  <2>3. QED
    BY <1>0, <1>3, <2>2 DEF GetBufferTail, mgrVars, lockVars, objVars, monVars,
       txVars, histVars, MgrType, LockType, ObjType, MonType, TxType, HistType
<1>4. CASE GetBufferReuse
  <2>1. Head(reusableBuffers) \in BufIds /\ reusableBuffers' \in Seq(BufIds)
    BY <1>0, <1>4 DEF GetBufferReuse, MgrType
  <2>2. buf' \in [BufIds -> BufferRec]
    BY <1>0, <1>4, <2>1, ResetLemma DEF GetBufferReuse, ObjType
  <2>3. owner' \in [BufIds -> Owners]
    BY <1>0, <1>4, <2>1 DEF GetBufferReuse, HistType, Owners
  <2>4. NetType'
    BY <1>0, <1>4, <2>1 DEF GetBufferReuse, NetType, NetPcs
  <2>5. QED
    BY <1>0, <1>4, <2>1, <2>2, <2>3, <2>4 DEF GetBufferReuse, lockVars, monVars,
       txVars, MgrType, LockType, ObjType, MonType, TxType, HistType
<1>5. CASE GetBufferCreate
  <2>1. created' \in BufIds /\ created' \in 0..MaxBuffers
    BY <1>0, <1>5, BoundsAssumption DEF GetBufferCreate, BufIds, ObjType
  <2>2. NewBuffer(Main, NewSlot) \in BufferRec
    BY <1>5, BufCapAssumption DEF GetBufferCreate, NewBuffer, BufferRec, File
  <2>3. buf' \in [BufIds -> BufferRec] /\ owner' \in [BufIds -> Owners]
    BY <1>0, <1>5, <2>1, <2>2 DEF GetBufferCreate, ObjType, HistType, Owners
  <2>4. clash' \in BOOLEAN
    BY <1>5 DEF GetBufferCreate
  <2>5. NetType'
    BY <1>0, <1>5, <2>1 DEF GetBufferCreate, NetType, NetPcs
  <2>6. QED
    BY <1>0, <1>5, <2>1, <2>3, <2>4, <2>5 DEF GetBufferCreate, mgrVars, lockVars,
       monVars, txVars, MgrType, LockType, ObjType, MonType, TxType, HistType
<1>6. CASE AddBuffer
  <2>1. netBuf \in BufIds
    BY <1>0, <1>6 DEF AddBuffer, Control, NetType
  <2>2. MgrType' /\ HistType'
    BY <1>0, <1>6, <2>1 DEF AddBuffer, MgrType, HistType, Owners
  <2>3. NetType'
    BY <1>0, <1>6 DEF AddBuffer, NetType, NetPcs
  <2>4. QED
    BY <1>0, <1>6, <2>2, <2>3 DEF AddBuffer, objVars, monVars, txVars, LockType,
       ObjType, MonType, TxType
<1>7. CASE AddBufferNotify
  <2>1. NetType'
    BY <1>0, <1>7 DEF AddBufferNotify, NetType, NetPcs
  <2>2. QED
    BY <1>0, <1>7, <2>1 DEF AddBufferNotify, mgrVars, objVars, monVars, txVars,
       histVars, MgrType, LockType, ObjType, MonType, TxType, HistType
<1>8. CASE Register
  <2>1. netBuf \in BufIds /\ buf[netBuf] \in BufferRec
    BY <1>0, <1>8 DEF Register, Control, NetType, ObjType
  <2>2. control' \in [count : Nat, recs : Seq(ControlRec)]
    BY <1>0, <1>8, <2>1, RegisteredLemma DEF Register, MgrType, NetType
  <2>3. [buf[netBuf] EXCEPT !.ctl = Len(control.recs) + 1] \in BufferRec
    BY <1>0, <2>1, NewControlPosition DEF BufferRec
  <2>4. buf' \in [BufIds -> BufferRec]
    BY <1>0, <1>8, <2>1, <2>3, ResetLemma DEF Register, ObjType
  <2>5. NetType'
    BY <1>0, <1>8 DEF Register, NetType, NetPcs
  <2>6. QED
    BY <1>0, <1>8, <2>2, <2>4, <2>5 DEF Register, mgrVars, lockVars, monVars,
       txVars, histVars, MgrType, LockType, ObjType, MonType, TxType, HistType
<1>9. CASE WriteOperation
  <2>1. netBuf \in BufIds /\ buf[netBuf] \in BufferRec
    BY <1>0, <1>9 DEF WriteOperation, Control, NetType, ObjType
  <2>2. buf[netBuf].pos < BufCap /\ buf[netBuf].pos + 1 \in 0..BufCap
    BY <1>0, <1>9, <2>1, BufCapAssumption
    DEF WriteOperation, CursorBounds, BufferRec
  <2>3. disk' \in [File -> [Slots -> [1..BufCap -> Op \cup {None}]]]
        /\ buf' \in [BufIds -> BufferRec]
    BY <1>0, <1>9, <2>1, <2>2, WrittenDiskLemma
    DEF WriteOperation, NetType, ObjType
  <2>4. control' \in [count : Nat, recs : Seq(ControlRec)]
    <3>1. buf[netBuf].ctl \in Nat
      BY <2>1 DEF BufferRec
    <3>2. QED
      BY <1>0, <1>9, <2>2, <3>1, ControlLengthLemma DEF WriteOperation
  <2>5. NetType' /\ HistType'
    BY <1>0, <1>9 DEF WriteOperation, NetType, NetPcs, HistType
  <2>6. QED
    BY <1>0, <1>9, <2>3, <2>4, <2>5 DEF WriteOperation, mgrVars, lockVars,
       monVars, txVars, MgrType, LockType, ObjType, MonType, TxType
<1>10. ASSUME NEW t \in Tx, TxWrite(t) PROVE TypeOK'
  <2> DEFINE b == Last(txBuffers[t])
             op == [n |-> issued + 1, tx |-> t]
  <2>1. b \in BufIds /\ buf[b] \in BufferRec /\ buf[b].pos < BufCap
    BY <1>0, <1>10, BufCapAssumption
    DEF TxWrite, HasRoom, Last, TxType, ObjType, BufferRec
  <2>2. op \in Op /\ issued' \in 0..MaxOps
    BY <1>0, <1>10, BoundsAssumption DEF TxWrite, Op, File
  <2>3. disk' = WrittenDisk(buf[b], op) /\ buf' = [buf EXCEPT ![b] = Written(@)]
    BY <1>10 DEF TxWrite
  <2> HIDE DEF b, op
  <2>4. ObjType'
    <3>1. /\ WrittenDisk(buf[b], op) \in
               [File -> [Slots -> [1..BufCap -> Op \cup {None}]]]
          /\ Written(buf[b]) \in BufferRec
      BY <1>0, <2>1, <2>2, WrittenDiskLemma
    <3>2. buf' \in [BufIds -> BufferRec]
      BY <1>0, <2>1, <2>3, <3>1 DEF ObjType
    <3>3. QED
      BY <1>0, <1>10, <2>3, <3>1, <3>2 DEF TxWrite, ObjType
  <2>5. TxType'
    BY <1>0, <1>10 DEF TxWrite, TxType, TxStates
  <2>6. QED
    BY <1>0, <1>10, <2>2, <2>4, <2>5 DEF TxWrite, mgrVars, lockVars, netVars,
       monVars, histVars, MgrType, LockType, NetType, MonType, HistType
<1>11. ASSUME NEW t \in Tx, TxWriteNewBuffer(t) PROVE TypeOK'
  <2> DEFINE r == NewBuffer(t, Len(txBuffers[t]))
             op == [n |-> issued + 1, tx |-> t]
  <2>1. created' = created + 1 /\ created + 1 \in BufIds
        /\ created' \in 0..MaxBuffers
    BY <1>0, <1>11, BoundsAssumption DEF TxWriteNewBuffer, BufIds, ObjType
  <2>2. r \in BufferRec /\ r.pos < BufCap
    BY <1>11, BufCapAssumption DEF TxWriteNewBuffer, NewBuffer, BufferRec, File
  <2>3. op \in Op /\ issued' \in 0..MaxOps
    BY <1>0, <1>11, BoundsAssumption DEF TxWriteNewBuffer, Op, File
  <2>4. /\ disk' = WrittenDisk(r, op)
        /\ buf' = [buf EXCEPT ![created + 1] = Written(r)]
        /\ control' = control /\ logFiles' = logFiles \cup {t}
    BY <1>11 DEF TxWriteNewBuffer
  <2>5. clash' \in BOOLEAN
    BY <1>11 DEF TxWriteNewBuffer
  <2> HIDE DEF r, op
  <2>6. ObjType'
    BY <1>0, <2>1, <2>2, <2>3, <2>4, WrittenDiskLemma DEF ObjType
  <2>7. TxType' /\ HistType'
    BY <1>0, <1>11, <2>1, <2>5 DEF TxWriteNewBuffer, TxType, TxStates, HistType,
       Owners
  <2>8. QED
    BY <1>0, <1>11, <2>3, <2>6, <2>7 DEF TxWriteNewBuffer, mgrVars, lockVars,
       netVars, monVars, MgrType, LockType, NetType, MonType
<1>12. ASSUME NEW t \in Tx, Rollback(t) PROVE TypeOK'
  <2>1. TxType' /\ HistType'
    BY <1>0, <1>12 DEF Rollback, TxType, TxStates, HistType, Owners
  <2>2. QED
    BY <1>0, <1>12, <2>1 DEF Rollback, mgrVars, lockVars, netVars, monVars,
       MgrType, LockType, ObjType, NetType, MonType
<1>13. ASSUME NEW t \in Tx, Commit(t) PROVE TypeOK'
  <2>1. TxType' /\ HistType'
    BY <1>0, <1>13 DEF Commit, TxType, TxStates, HistType, Owners
  <2>2. NetType'
    BY <1>0, <1>13 DEF Commit, NetType, NetPcs, TxType
  <2>3. QED
    BY <1>0, <1>13, <2>1, <2>2 DEF Commit, mgrVars, lockVars, objVars, monVars,
       MgrType, LockType, ObjType, MonType
<1>14. CASE AddBuffersLock
  <2>1. NetType'
    BY <1>0, <1>14 DEF AddBuffersLock, NetType, NetPcs
  <2>2. QED
    BY <1>0, <1>14, <2>1 DEF AddBuffersLock, mgrVars, objVars, monVars, txVars,
       histVars, MgrType, LockType, ObjType, MonType, TxType, HistType
<1>15. CASE AddBuffersNext
  <2> DEFINE b == Head(netAdd)
  <2>1. /\ b \in BufIds /\ buf[b] \in BufferRec
        /\ netAdd' \in Seq(BufIds) /\ buffersCount + 1 \in Nat
    BY <1>0, <1>15 DEF AddBuffersNext, NetType, ObjType, MgrType
  <2>2. /\ activeBuffers' = Append(activeBuffers, b)
        /\ buffersByLog' = [buffersByLog EXCEPT ![buf[b].file] = @ + 1]
        /\ control' = Registered(control, buffersCount + 1, buf[b], TRUE)
        /\ buf' = [buf EXCEPT ![b].ctl = Len(control.recs) + 1]
        /\ owner' = [owner EXCEPT ![b] = "active"]
        /\ start' = [start EXCEPT ![b] = Len(acked)]
        /\ acked' = acked \o Contents(b)
        /\ buffersCount' = buffersCount + 1
        /\ UNCHANGED <<reusableBuffers, created, disk, logFiles, applied, clash>>
    BY <1>15 DEF AddBuffersNext
  <2> HIDE DEF b
  <2>3. MgrType'
    <3>1. buffersByLog' \in [Tx -> Int]
      <4>1. CASE buf[b].file \in Tx
        BY <1>0, <2>2, <4>1 DEF MgrType
      <4>2. CASE buf[b].file \notin Tx
        BY <1>0, <2>2, <4>2 DEF MgrType
      <4>3. QED BY <4>1, <4>2
    <3>2. activeBuffers' \in Seq(BufIds) /\ buffersCount' \in Nat
      BY <1>0, <2>1, <2>2 DEF MgrType
    <3>3. QED BY <1>0, <2>2, <3>1, <3>2 DEF MgrType
  <2>4. control' \in [count : Nat, recs : Seq(ControlRec)]
    BY <1>0, <2>1, <2>2, RegisteredLemma
  <2>5. [buf[b] EXCEPT !.ctl = Len(control.recs) + 1] \in BufferRec
    BY <1>0, <2>1, NewControlPosition DEF BufferRec
  <2>6. buf' \in [BufIds -> BufferRec]
    BY <1>0, <2>1, <2>2, <2>5 DEF ObjType
  <2>7. ObjType'
    BY <1>0, <2>2, <2>4, <2>6 DEF ObjType
  <2>8. acked' \in Seq(Op \cup {None})
    BY <1>0, <2>1, <2>2, ContentsLemma, ConcatProperties DEF HistType
  <2>9. HistType'
    BY <1>0, <2>1, <2>2, <2>8 DEF HistType, Owners
  <2>10. QED
    BY <1>0, <1>15, <2>1, <2>3, <2>7, <2>9 DEF AddBuffersNext, lockVars, monVars,
       txVars, LockType, NetType, MonType, TxType
<1>16. CASE AddBuffersUnlock
  <2>1. NetType'
    BY <1>0, <1>16 DEF AddBuffersUnlock, NetType, NetPcs
  <2>2. QED
    BY <1>0, <1>16, <2>1 DEF AddBuffersUnlock, mgrVars, objVars, monVars, txVars,
       histVars, MgrType, LockType, ObjType, MonType, TxType, HistType
<1>17. CASE FinishCommit
  <2>1. NetType' /\ TxType'
    BY <1>0, <1>17 DEF FinishCommit, NetType, NetPcs, TxType, TxStates
  <2>2. QED
    BY <1>0, <1>17, <2>1 DEF FinishCommit, mgrVars, lockVars, objVars, monVars,
       histVars, MgrType, LockType, ObjType, MonType, HistType
<1>18. CASE FlushWake
  BY <1>0, <1>18 DEF FlushWake, mgrVars, objVars, netVars, txVars, histVars,
     MgrType, LockType, ObjType, NetType, MonType, MonPcs, TxType, HistType
<1>19. CASE FlushPop
  <2>1. /\ activeBuffers # <<>> /\ Head(activeBuffers) \in BufIds
        /\ activeBuffers' \in Seq(BufIds)
    BY <1>0, <1>19 DEF FlushPop, Control, MgrType
  <2>2. buffersCount' \in Nat
    BY <1>0, <1>19, <2>1 DEF FlushPop, Containers, Control, MgrType
  <2>3. buffersByLog' \in [Tx -> Int]
    BY <1>0, <1>19 DEF FlushPop, MgrType
  <2>4. [buf[Head(activeBuffers)] EXCEPT !.pos = 0] \in BufferRec
    <3>1. buf[Head(activeBuffers)] \in BufferRec /\ 0 \in 0..BufCap
      BY <1>0, <2>1, BufCapAssumption DEF ObjType
    <3>2. QED BY <3>1 DEF BufferRec
  <2>5. buf' \in [BufIds -> BufferRec]
    BY <1>0, <1>19, <2>1, <2>4 DEF FlushPop, ObjType
  <2>6. owner' \in [BufIds -> Owners]
    BY <1>0, <1>19, <2>1 DEF FlushPop, HistType, Owners
  <2>7. MonType'
    BY <1>19, <2>1 DEF FlushPop, MonType, MonPcs
  <2>8. QED
    BY <1>0, <1>19, <2>1, <2>2, <2>3, <2>5, <2>6, <2>7 DEF FlushPop, lockVars,
       netVars, txVars, MgrType, LockType, ObjType, NetType, TxType, HistType
<1>20. CASE FlushApply
  <2>1. monBuf \in BufIds /\ buf[monBuf] \in BufferRec
    BY <1>0, <1>20 DEF FlushApply, Control, MonType, ObjType
  <2>2. buf[monBuf].pos + 1 \in 1..BufCap /\ buf[monBuf].pos + 1 \in 0..BufCap
    BY <1>20, <2>1, BufCapAssumption DEF FlushApply, Eof, BufferRec
  <2>3. disk[buf[monBuf].file][buf[monBuf].slot] \in [1..BufCap -> Op \cup {None}]
    BY <1>0, <2>1 DEF ObjType, BufferRec
  <2>4. HistType'
    <3>1. disk[buf[monBuf].file][buf[monBuf].slot][buf[monBuf].pos + 1]
            \in Op \cup {None}
      BY <2>2, <2>3
    <3>2. applied' \in Seq(Op \cup {None})
      BY <1>0, <1>20, <3>1 DEF FlushApply, HistType
    <3>3. QED BY <1>0, <1>20, <3>2 DEF FlushApply, HistType
  <2>5. [buf[monBuf] EXCEPT !.pos = buf[monBuf].pos + 1] \in BufferRec
    BY <2>1, <2>2 DEF BufferRec
  <2>6. buf' \in [BufIds -> BufferRec]
    BY <1>0, <1>20, <2>1, <2>5 DEF FlushApply, ObjType
  <2>7. QED
    BY <1>0, <1>20, <2>4, <2>6 DEF FlushApply, mgrVars, lockVars, netVars, monVars,
       txVars, MgrType, LockType, ObjType, NetType, MonType, TxType
<1>21. CASE FlushRecycle
  <2>1. monBuf \in BufIds /\ buf[monBuf] \in BufferRec
    BY <1>0, <1>21 DEF FlushRecycle, Control, MonType, ObjType
  <2>2. buf' \in [BufIds -> BufferRec]
    BY <1>0, <1>21, <2>1, ResetLemma DEF FlushRecycle, ObjType
  <2>3. MgrType' /\ HistType' /\ MonType'
    BY <1>0, <1>21, <2>1 DEF FlushRecycle, MgrType, HistType, Owners, MonType,
       MonPcs
  <2>4. QED
    BY <1>0, <1>21, <2>2, <2>3 DEF FlushRecycle, lockVars, netVars, txVars,
       LockType, ObjType, NetType, TxType
<1>22. CASE FlushRegister
  <2>1. monBuf \in BufIds /\ buf[monBuf] \in BufferRec
    BY <1>0, <1>22 DEF FlushRegister, Control, MonType, ObjType
  <2>2. buf' \in [BufIds -> BufferRec]
    BY <1>0, <1>22, <2>1, ResetLemma DEF FlushRegister, ObjType
  <2>3. control' \in [count : Nat, recs : Seq(ControlRec)]
    BY <1>0, <1>22, <2>1, RegisteredLemma DEF FlushRegister, MgrType
  <2>4. QED
    BY <1>0, <1>22, <2>2, <2>3 DEF FlushRegister, mgrVars, netVars, txVars,
       histVars, MgrType, LockType, ObjType, NetType, MonType, MonPcs, TxType,
       HistType
<1>23. CASE FlushDrop
  <2>1. monBuf \in BufIds
    BY <1>0, <1>23 DEF FlushDrop, Control, MonType
  <2>2. owner' \in [BufIds -> Owners]
    BY <1>0, <1>23, <2>1 DEF FlushDrop, HistType, Owners
  <2>3. QED
    BY <1>0, <1>23, <2>2 DEF FlushDrop, mgrVars, netVars, txVars, MgrType,
       LockType, ObjType, NetType, MonType, MonPcs, TxType, HistType
<1> QED
  BY <1>1, <1>2, <1>3, <1>4, <1>5, <1>6, <1>7, <1>8, <1>9, <1>10, <1>11, <1>12,
     <1>13, <1>14, <1>15, <1>16, <1>17, <1>18, <1>19, <1>20, <1>21, <1>22, <1>23
  DEF Next, Request, NetStep, MonStep

(* Who holds which buffer: the steps that change no container ...          *)
LEMMA ContainersFrame ==
  ASSUME Containers,
         UNCHANGED <<activeBuffers, reusableBuffers, buffersCount, netAdd,
                     txBuffers, owner, created>>,
         \A t \in Tx : \A i \in 1..Len(txBuffers[t]) :
           buf'[txBuffers[t][i]].file = buf[txBuffers[t][i]].file
  PROVE  Containers'
  BY DEF Containers, Holds

(* ... and the ones that move a buffer.                                    *)
LEMMA ContainersStep == BaseInv /\ [Next]_vars => Containers'
<1> SUFFICES ASSUME BaseInv, [Next]_vars PROVE Containers' OBVIOUS
<1>0. TypeOK /\ Containers /\ Control
  BY DEF BaseInv
<1>t. /\ activeBuffers \in Seq(BufIds) /\ reusableBuffers \in Seq(BufIds)
      /\ netAdd \in Seq(BufIds) /\ txBuffers \in [Tx -> Seq(BufIds)]
      /\ buf \in [BufIds -> BufferRec] /\ owner \in [BufIds -> Owners]
      /\ created \in 0..MaxBuffers /\ buffersCount \in Nat
  BY <1>0 DEF TypeOK, MgrType, NetType, TxType, ObjType, HistType
<1>1. CASE UNCHANGED vars
  BY <1>0, <1>1, ContainersFrame DEF vars, mgrVars, netVars, txVars, histVars,
     objVars
<1>2. CASE RequestWrite
  BY <1>0, <1>2, ContainersFrame DEF RequestWrite, mgrVars, txVars, histVars,
     objVars
<1>3. CASE GetBufferTail
  BY <1>0, <1>3, ContainersFrame DEF GetBufferTail, mgrVars, txVars, histVars,
     objVars
<1>4. CASE GetBufferReuse
  <2> DEFINE h == Head(reusableBuffers)
  <2>1. /\ h = reusableBuffers[1] /\ h \in BufIds /\ owner[h] = "reusable"
        /\ Len(reusableBuffers) >= 1
    BY <1>0, <1>t, <1>4 DEF GetBufferReuse, Containers, Holds
  <2>2. /\ reusableBuffers' = Tail(reusableBuffers)
        /\ owner' = [owner EXCEPT ![h] = "writer"]
        /\ buf' = [buf EXCEPT ![h] = Reset(buf[h])]
        /\ UNCHANGED <<activeBuffers, buffersCount, netAdd, txBuffers, created>>
    BY <1>4 DEF GetBufferReuse, txVars
  <2>3. Reset(buf[h]).file = buf[h].file
    BY <1>t, <2>1, ResetLemma
  <2> HIDE DEF h
  <2>4. Holds(activeBuffers, "active")' /\ Holds(netAdd, "writer")'
    BY <1>0, <1>t, <2>1, <2>2 DEF Containers, Holds
  <2>5. Holds(reusableBuffers, "reusable")'
    BY <1>0, <1>t, <2>1, <2>2 DEF Containers, Holds
  <2>6. \A t \in Tx : /\ Holds(txBuffers[t], "tx")'
                      /\ \A i \in 1..Len(txBuffers[t]) :
                           buf'[txBuffers[t][i]].file = t
    BY <1>0, <1>t, <2>1, <2>2, <2>3 DEF Containers, Holds
  <2>7. \A b \in BufIds : owner'[b] = "free" <=> b > created
    BY <1>0, <1>t, <2>1, <2>2 DEF Containers
  <2>8. QED
    BY <1>0, <2>2, <2>4, <2>5, <2>6, <2>7 DEF Containers
<1>5. CASE GetBufferCreate
  <2> DEFINE n == created + 1
  <2>1. n \in BufIds /\ owner[n] = "free"
    BY <1>0, <1>t, <1>5, BoundsAssumption DEF GetBufferCreate, Containers, BufIds
  <2>2. /\ owner' = [owner EXCEPT ![n] = "writer"]
        /\ buf' = [buf EXCEPT ![n] = NewBuffer(Main, NewSlot)]
        /\ created' = n
        /\ UNCHANGED <<activeBuffers, reusableBuffers, buffersCount, netAdd,
                       txBuffers>>
    BY <1>5 DEF GetBufferCreate, mgrVars, txVars
  <2>3. \A b \in BufIds : owner'[b] = "free" <=> b > created'
    BY <1>0, <1>t, <2>1, <2>2 DEF Containers, BufIds
  <2> HIDE DEF n
  <2>4. /\ Holds(activeBuffers, "active")' /\ Holds(netAdd, "writer")'
        /\ Holds(reusableBuffers, "reusable")'
    BY <1>0, <1>t, <2>1, <2>2 DEF Containers, Holds
  <2>5. \A t \in Tx : /\ Holds(txBuffers[t], "tx")'
                      /\ \A i \in 1..Len(txBuffers[t]) :
                           buf'[txBuffers[t][i]].file = t
    BY <1>0, <1>t, <2>1, <2>2 DEF Containers, Holds
  <2>6. QED
    BY <1>0, <2>2, <2>3, <2>4, <2>5 DEF Containers
<1>6. CASE AddBuffer
  <2>1. netBuf \in BufIds /\ owner[netBuf] = "writer" /\ netAdd = <<>>
    BY <1>0, <1>6 DEF AddBuffer, Control, TypeOK, NetType
  <2>2. /\ activeBuffers' = Append(activeBuffers, netBuf)
        /\ buffersCount' = buffersCount + 1
        /\ owner' = [owner EXCEPT ![netBuf] = "active"]
        /\ UNCHANGED <<reusableBuffers, netAdd, txBuffers, created, buf>>
    BY <1>6 DEF AddBuffer, txVars, objVars
  <2>3. Holds(activeBuffers, "active")' /\ buffersCount' = Len(activeBuffers')
    BY <1>0, <1>t, <2>1, <2>2 DEF Containers, Holds
  <2>4. /\ Holds(netAdd, "writer")' /\ Holds(reusableBuffers, "reusable")'
        /\ \A b \in BufIds : owner'[b] = "free" <=> b > created
    BY <1>0, <1>t, <2>1, <2>2 DEF Containers, Holds
  <2>5. \A t \in Tx : /\ Holds(txBuffers[t], "tx")'
                      /\ \A i \in 1..Len(txBuffers[t]) :
                           buf'[txBuffers[t][i]].file = t
    BY <1>0, <1>t, <2>1, <2>2 DEF Containers, Holds
  <2>6. QED
    BY <2>2, <2>3, <2>4, <2>5 DEF Containers
<1>7. CASE AddBufferNotify
  BY <1>0, <1>7, ContainersFrame DEF AddBufferNotify, mgrVars, txVars, histVars,
     objVars
<1>8. CASE Register
  <2>1. netBuf \in BufIds
    BY <1>0, <1>8 DEF Register, Control, TypeOK, NetType
  <2>2. \A b \in BufIds : buf'[b].file = buf[b].file
    BY <1>t, <1>8, <2>1, ResetLemma DEF Register, BufferRec
  <2>3. QED
    BY <1>0, <1>t, <1>8, <2>2, ContainersFrame DEF Register, mgrVars, txVars,
       histVars
<1>9. CASE WriteOperation
  <2>1. \A b \in BufIds : buf'[b].file = buf[b].file
    BY <1>t, <1>9 DEF WriteOperation, Written, BufferRec
  <2>2. QED
    BY <1>0, <1>t, <1>9, <2>1, ContainersFrame DEF WriteOperation, mgrVars, txVars
<1>10. ASSUME NEW t \in Tx, TxWrite(t) PROVE Containers'
  <2>1. \A b \in BufIds : buf'[b].file = buf[b].file
    BY <1>t, <1>10 DEF TxWrite, Written, BufferRec
  <2>2. QED
    BY <1>0, <1>t, <1>10, <2>1, ContainersFrame DEF TxWrite, mgrVars, netVars,
       histVars
<1>11. ASSUME NEW t \in Tx, TxWriteNewBuffer(t) PROVE Containers'
  <2> DEFINE n == created + 1
  <2>1. n \in BufIds /\ owner[n] = "free"
    BY <1>0, <1>t, <1>11, BoundsAssumption DEF TxWriteNewBuffer, Containers, BufIds
  <2>2. /\ owner' = [owner EXCEPT ![n] = "tx"] /\ created' = n
        /\ txBuffers' = [txBuffers EXCEPT ![t] = Append(@, n)]
        /\ UNCHANGED <<activeBuffers, reusableBuffers, buffersCount, netAdd>>
    BY <1>11 DEF TxWriteNewBuffer, mgrVars, netVars
  <2>3. buf'[n].file = t /\ \A b \in BufIds : b # n => buf'[b] = buf[b]
    BY <1>t, <1>11, <2>1 DEF TxWriteNewBuffer, NewBuffer, Written
  <2>4. \A b \in BufIds : owner'[b] = "free" <=> b > created'
    BY <1>0, <1>t, <2>1, <2>2 DEF Containers, BufIds
  <2> HIDE DEF n
  <2>5. /\ Holds(activeBuffers, "active")' /\ Holds(netAdd, "writer")'
        /\ Holds(reusableBuffers, "reusable")'
    BY <1>0, <1>t, <2>1, <2>2 DEF Containers, Holds
  <2>6. ASSUME NEW u \in Tx
        PROVE  /\ Holds(txBuffers[u], "tx")'
               /\ \A i \in 1..Len(txBuffers'[u]) : buf'[txBuffers'[u][i]].file = u
    <3> DEFINE s == txBuffers[u]
    <3>0. /\ s \in Seq(BufIds) /\ Holds(s, "tx")
          /\ \A i \in 1..Len(s) : buf[s[i]].file = u
      BY <1>0, <1>t DEF Containers
    <3>1. CASE u = t
      <4>1. txBuffers'[u] = Append(s, n)
        BY <1>t, <2>2, <3>1
      <4> HIDE DEF s
      <4>2. QED
        <5>1. \A i \in 1..Len(s) : s[i] \in BufIds /\ owner[s[i]] = "tx" /\ s[i] # n
          BY <2>1, <3>0 DEF Holds
        <5>2. /\ Len(txBuffers'[u]) = Len(s) + 1 /\ txBuffers'[u][Len(s) + 1] = n
              /\ \A i \in 1..Len(s) : txBuffers'[u][i] = s[i]
          BY <2>1, <3>0, <4>1
        <5>3. \A i \in 1..Len(txBuffers'[u]) : i \in 1..Len(s) \/ i = Len(s) + 1
          BY <3>0, <5>2
        <5>4. Holds(txBuffers[u], "tx")'
          <6>1. \A i \in 1..Len(txBuffers'[u]) : owner'[txBuffers'[u][i]] = "tx"
            <7>1. owner'[n] = "tx" /\ \A b \in BufIds : b # n => owner'[b] = owner[b]
              BY <1>t, <2>1, <2>2
            <7>2. QED BY <5>1, <5>2, <5>3, <7>1
          <6>2. \A i, j \in 1..Len(txBuffers'[u]) :
                  txBuffers'[u][i] = txBuffers'[u][j] => i = j
            BY <3>0, <5>1, <5>2, <5>3 DEF Holds
          <6>3. QED BY <6>1, <6>2 DEF Holds
        <5>5. \A i \in 1..Len(txBuffers'[u]) : buf'[txBuffers'[u][i]].file = u
          BY <2>3, <3>0, <3>1, <5>1, <5>2, <5>3
        <5>6. QED BY <5>4, <5>5
    <3>2. CASE u # t
      <4>1. txBuffers'[u] = s
        BY <1>t, <2>2, <3>2
      <4> HIDE DEF s
      <4>2. QED
        <5>1. \A i \in 1..Len(s) : s[i] \in BufIds /\ owner[s[i]] = "tx" /\ s[i] # n
          BY <2>1, <3>0 DEF Holds
        <5>2. Holds(txBuffers[u], "tx")'
          BY <1>t, <2>1, <2>2, <3>0, <4>1, <5>1 DEF Holds
        <5>3. QED BY <2>3, <3>0, <4>1, <5>1, <5>2
    <3>3. QED BY <3>1, <3>2
  <2>7. QED
    BY <1>0, <2>2, <2>4, <2>5, <2>6 DEF Containers
<1>12. ASSUME NEW t \in Tx, NEW o \in {"deleted", "writer"},
              netAdd' = (IF o = "deleted" THEN netAdd ELSE txBuffers[t]),
              netAdd = <<>> \/ o = "deleted",
              owner' = [b \in BufIds |->
                          IF b \in ToSet(txBuffers[t]) THEN o ELSE owner[b]],
              txBuffers' = [txBuffers EXCEPT ![t] = <<>>],
              UNCHANGED <<mgrVars, buf, created>>
       PROVE  Containers'
  <2>1. \A b \in ToSet(txBuffers[t]) :
          b \in BufIds /\ owner[b] = "tx" /\ buf[b].file = t
    BY <1>0, <1>t DEF Containers, Holds, ToSet
  <2>2. /\ Holds(activeBuffers, "active")' /\ Holds(reusableBuffers, "reusable")'
        /\ buffersCount' = Len(activeBuffers')
    BY <1>0, <1>t, <1>12, <2>1 DEF Containers, Holds, mgrVars
  <2>3. Holds(netAdd, "writer")'
    <3>1. CASE o = "deleted"
      BY <1>0, <1>t, <1>12, <2>1, <3>1 DEF Containers, Holds
    <3>2. CASE o = "writer"
      <4>1. netAdd' = txBuffers[t] /\ txBuffers[t] \in Seq(BufIds)
        BY <1>t, <1>12, <3>2
      <4>2. \A i \in 1..Len(txBuffers[t]) : txBuffers[t][i] \in ToSet(txBuffers[t])
        BY <4>1 DEF ToSet
      <4>3. \A i \in 1..Len(txBuffers[t]) : owner'[txBuffers[t][i]] = "writer"
        BY <1>12, <2>1, <3>2, <4>2
      <4>4. QED BY <1>0, <4>1, <4>3 DEF Containers, Holds
    <3>3. QED BY <3>1, <3>2
  <2>4. \A b \in BufIds : owner'[b] = "free" <=> b > created'
    BY <1>0, <1>t, <1>12, <2>1 DEF Containers
  <2>5. ASSUME NEW u \in Tx
        PROVE  /\ Holds(txBuffers[u], "tx")'
               /\ \A i \in 1..Len(txBuffers'[u]) : buf'[txBuffers'[u][i]].file = u
    <3>1. CASE u = t
      BY <1>t, <1>12, <3>1 DEF Holds
    <3>2. CASE u # t
      <4>1. txBuffers'[u] = txBuffers[u] /\ txBuffers[u] \in Seq(BufIds)
        BY <1>t, <1>12, <3>2
      <4>2. \A i \in 1..Len(txBuffers[u]) :
              /\ txBuffers[u][i] \in BufIds /\ buf[txBuffers[u][i]].file = u
              /\ owner[txBuffers[u][i]] = "tx"
        BY <1>0, <4>1 DEF Containers, Holds
      <4>3. \A i \in 1..Len(txBuffers[u]) : owner'[txBuffers[u][i]] = "tx"
        BY <1>12, <2>1, <3>2, <4>2
      <4>4. QED BY <1>0, <1>12, <4>1, <4>2, <4>3 DEF Containers, Holds
    <3>3. QED BY <3>1, <3>2
  <2>6. QED
    BY <2>2, <2>3, <2>4, <2>5 DEF Containers
<1>13. ASSUME NEW t \in Tx, Rollback(t) PROVE Containers'
  BY <1>12, <1>13 DEF Rollback, netVars, mgrVars
<1>14. ASSUME NEW t \in Tx, Commit(t) PROVE Containers'
  <2>1. netAdd = <<>>
    BY <1>0, <1>14 DEF Commit, Control
  <2>2. QED
    BY <1>12, <1>14, <2>1 DEF Commit, objVars, mgrVars
<1>15. CASE AddBuffersLock \/ AddBuffersUnlock \/ FinishCommit \/ FlushWake
  BY <1>0, <1>15, ContainersFrame DEF AddBuffersLock, AddBuffersUnlock,
     FinishCommit, FlushWake, mgrVars, txVars, histVars, objVars, netVars
<1>16. CASE AddBuffersNext
  <2> DEFINE h == Head(netAdd)
  <2>1. h = netAdd[1] /\ h \in BufIds /\ owner[h] = "writer" /\ Len(netAdd) >= 1
    <3>1. netAdd # <<>>
      BY <1>16 DEF AddBuffersNext
    <3>2. h = netAdd[1] /\ Len(netAdd) >= 1 /\ netAdd[1] \in BufIds
      BY <1>t, <3>1
    <3>3. QED BY <1>0, <3>2 DEF Containers, Holds
  <2>2. /\ activeBuffers' = Append(activeBuffers, h) /\ netAdd' = Tail(netAdd)
        /\ owner' = [owner EXCEPT ![h] = "active"]
        /\ buffersCount' = buffersCount + 1
        /\ buf' = [buf EXCEPT ![h].ctl = Len(control.recs) + 1]
        /\ UNCHANGED <<reusableBuffers, txBuffers, created>>
    BY <1>16 DEF AddBuffersNext, txVars
  <2>3. \A b \in BufIds : buf'[b].file = buf[b].file
    BY <1>t, <2>1, <2>2 DEF BufferRec
  <2> HIDE DEF h
  <2>4. Holds(activeBuffers, "active")' /\ buffersCount' = Len(activeBuffers')
    BY <1>0, <1>t, <2>1, <2>2 DEF Containers, Holds
  <2>5. Holds(netAdd, "writer")' /\ Holds(reusableBuffers, "reusable")'
    <3>1. Holds(reusableBuffers, "reusable")'
      BY <1>0, <1>t, <2>1, <2>2 DEF Containers, Holds
    <3>2. Holds(netAdd, "writer")
      BY <1>0 DEF Containers
    <3>3. \A i \in 1..Len(netAdd') : netAdd'[i] = netAdd[i + 1]
                                      /\ i + 1 \in 1..Len(netAdd)
                                      /\ netAdd[i + 1] \in BufIds
      BY <1>t, <2>1, <2>2
    <3>4. \A i \in 1..Len(netAdd') : netAdd'[i] # h
      BY <1>t, <2>1, <3>2, <3>3 DEF Holds
    <3>5. Holds(netAdd, "writer")'
      <4>1. \A i \in 1..Len(netAdd') : owner'[netAdd'[i]] = "writer"
        BY <1>t, <2>1, <2>2, <3>2, <3>3, <3>4 DEF Holds
      <4>2. \A i, j \in 1..Len(netAdd') : netAdd'[i] = netAdd'[j] => i + 1 = j + 1
        BY <3>2, <3>3 DEF Holds
      <4>3. \A i, j \in 1..Len(netAdd') : netAdd'[i] = netAdd'[j] => i = j
        BY <4>2
      <4>4. QED BY <4>1, <4>3 DEF Holds
    <3>6. QED BY <3>1, <3>5
  <2>6. \A t \in Tx : /\ Holds(txBuffers[t], "tx")'
                      /\ \A i \in 1..Len(txBuffers[t]) :
                           buf'[txBuffers[t][i]].file = t
    BY <1>0, <1>t, <2>1, <2>2, <2>3 DEF Containers, Holds
  <2>7. \A b \in BufIds : owner'[b] = "free" <=> b > created
    BY <1>0, <1>t, <2>1, <2>2 DEF Containers
  <2>8. QED
    BY <2>2, <2>4, <2>5, <2>6, <2>7 DEF Containers
<1>17. CASE FlushPop
  <2> DEFINE h == Head(activeBuffers)
  <2>1. /\ h = activeBuffers[1] /\ h \in BufIds /\ owner[h] = "active"
        /\ Len(activeBuffers) > 1
    <3>1. Len(activeBuffers) > 1
      BY <1>0, <1>17 DEF FlushPop, Control
    <3>2. activeBuffers # <<>> /\ h = activeBuffers[1] /\ activeBuffers[1] \in BufIds
      <4>1. activeBuffers # <<>>
        BY <3>1
      <4>2. QED BY <1>t, <4>1
    <3>3. QED BY <1>0, <1>t, <3>1, <3>2 DEF Containers, Holds
  <2>2. /\ activeBuffers' = Tail(activeBuffers)
        /\ owner' = [owner EXCEPT ![h] = "monitor"]
        /\ buffersCount' = buffersCount - 1
        /\ buf' = [buf EXCEPT ![h].pos = 0]
        /\ UNCHANGED <<reusableBuffers, netAdd, txBuffers, created>>
    BY <1>17 DEF FlushPop, txVars, netVars
  <2>3. \A b \in BufIds : buf'[b].file = buf[b].file
    BY <1>t, <2>1, <2>2 DEF BufferRec
  <2> HIDE DEF h
  <2>4. Holds(activeBuffers, "active")' /\ buffersCount' = Len(activeBuffers')
    BY <1>0, <1>t, <2>1, <2>2 DEF Containers, Holds
  <2>5. Holds(netAdd, "writer")' /\ Holds(reusableBuffers, "reusable")'
    BY <1>0, <1>t, <2>1, <2>2 DEF Containers, Holds
  <2>6. \A t \in Tx : /\ Holds(txBuffers[t], "tx")'
                      /\ \A i \in 1..Len(txBuffers[t]) :
                           buf'[txBuffers[t][i]].file = t
    BY <1>0, <1>t, <2>1, <2>2, <2>3 DEF Containers, Holds
  <2>7. \A b \in BufIds : owner'[b] = "free" <=> b > created
    BY <1>0, <1>t, <2>1, <2>2 DEF Containers
  <2>8. QED
    BY <2>2, <2>4, <2>5, <2>6, <2>7 DEF Containers
<1>18. CASE FlushApply
  <2>1. \A b \in BufIds : buf'[b].file = buf[b].file
    BY <1>t, <1>18 DEF FlushApply, BufferRec
  <2>2. QED
    BY <1>0, <1>t, <1>18, <2>1, ContainersFrame DEF FlushApply, mgrVars, txVars,
       netVars
<1>19. CASE FlushRegister
  <2>1. \A b \in BufIds : buf'[b].file = buf[b].file
    BY <1>t, <1>19, ResetLemma DEF FlushRegister, Reset, BufferRec
  <2>2. QED
    BY <1>0, <1>t, <1>19, <2>1, ContainersFrame DEF FlushRegister, mgrVars, txVars,
       netVars, histVars
<1>20. CASE FlushRecycle
  <2>1. monBuf \in BufIds /\ owner[monBuf] = "monitor"
    BY <1>0, <1>20 DEF FlushRecycle, Control, TypeOK, MonType
  <2>2. /\ reusableBuffers' = Append(reusableBuffers, monBuf)
        /\ owner' = [owner EXCEPT ![monBuf] = "reusable"]
        /\ UNCHANGED <<activeBuffers, buffersCount, netAdd, txBuffers, created>>
    BY <1>20 DEF FlushRecycle, txVars, netVars
  <2>3. \A b \in BufIds : buf'[b].file = buf[b].file
    BY <1>t, <1>20, <2>1, ResetLemma DEF FlushRecycle
  <2>4. /\ Holds(activeBuffers, "active")' /\ Holds(netAdd, "writer")'
        /\ Holds(reusableBuffers, "reusable")'
    BY <1>0, <1>t, <2>1, <2>2 DEF Containers, Holds
  <2>5. \A t \in Tx : /\ Holds(txBuffers[t], "tx")'
                      /\ \A i \in 1..Len(txBuffers[t]) :
                           buf'[txBuffers[t][i]].file = t
    BY <1>0, <1>t, <2>1, <2>2, <2>3 DEF Containers, Holds
  <2>6. \A b \in BufIds : owner'[b] = "free" <=> b > created
    BY <1>0, <1>t, <2>1, <2>2 DEF Containers
  <2>7. QED
    BY <1>0, <2>2, <2>4, <2>5, <2>6 DEF Containers
<1>21. CASE FlushDrop
  <2>1. monBuf \in BufIds /\ owner[monBuf] = "monitor"
    BY <1>0, <1>21 DEF FlushDrop, Control, TypeOK, MonType
  <2>2. /\ owner' = [owner EXCEPT ![monBuf] = "deleted"]
        /\ UNCHANGED <<activeBuffers, reusableBuffers, buffersCount, netAdd,
                       txBuffers, created, buf>>
    BY <1>21 DEF FlushDrop, mgrVars, txVars, netVars
  <2>3. /\ Holds(activeBuffers, "active")' /\ Holds(netAdd, "writer")'
        /\ Holds(reusableBuffers, "reusable")'
    BY <1>0, <1>t, <2>1, <2>2 DEF Containers, Holds
  <2>4. \A t \in Tx : /\ Holds(txBuffers[t], "tx")'
                      /\ \A i \in 1..Len(txBuffers[t]) :
                           buf'[txBuffers[t][i]].file = t
    BY <1>0, <1>t, <2>1, <2>2 DEF Containers, Holds
  <2>5. \A b \in BufIds : owner'[b] = "free" <=> b > created
    BY <1>0, <1>t, <2>1, <2>2 DEF Containers
  <2>6. QED
    BY <1>0, <2>2, <2>3, <2>4, <2>5 DEF Containers
<1> QED
  BY <1>1, <1>2, <1>3, <1>4, <1>5, <1>6, <1>7, <1>8, <1>9, <1>10, <1>11, <1>13,
     <1>14, <1>15, <1>16, <1>17, <1>18, <1>19, <1>20, <1>21
  DEF Next, Request, NetStep, MonStep

----------------------------------------------------------------------------
(* Which thread is where, holds which lock and works on which buffer, and  *)
(* where the cursors of the buffers stand.                                 *)

(* The network thread alone moves: the monitor's part is untouched.        *)
LEMMA ControlFrame ==
  ASSUME Control,
         UNCHANGED <<activeBuffers, lockVars, netPc, netBuf, netAdd, monVars>>,
         TypeOK,
         \A b \in BufIds : owner[b] \in {"writer", "monitor", "reusable"}
                             => owner'[b] = owner[b]
  PROVE  Control'
  BY DEF Control, TypeOK, NetType, MonType, lockVars, monVars

(* The last element of a sequence that grows at its end ...                *)
LEMMA AppendLast ==
  ASSUME NEW S, NEW s \in Seq(S), NEW e \in S
  PROVE  /\ Len(Append(s, e)) = Len(s) + 1 /\ Append(s, e) # <<>>
         /\ Last(Append(s, e)) = e
<1>1. Append(s, e) \in Seq(S) /\ Len(Append(s, e)) = Len(s) + 1
  OBVIOUS
<1>2. Append(s, e)[Len(s) + 1] = e
  OBVIOUS
<1>3. QED BY <1>1, <1>2 DEF Last

(* ... or shrinks at its front.                                            *)
LEMMA TailLast ==
  ASSUME NEW S, NEW s \in Seq(S), Len(s) > 1
  PROVE  /\ Len(Tail(s)) = Len(s) - 1 /\ Tail(s) # <<>>
         /\ Last(Tail(s)) = Last(s) /\ Tail(s)[1] = s[2]
         /\ \A i \in 1..Len(Tail(s)) : Tail(s)[i] = s[i + 1]
<1>0. s # <<>>
  OBVIOUS
<1>1. Tail(s) \in Seq(S) /\ Len(Tail(s)) = Len(s) - 1
  BY <1>0
<1>2. \A i \in 1..Len(Tail(s)) : Tail(s)[i] = s[i + 1]
  BY <1>0, <1>1
<1>3. Len(s) - 1 \in 1..Len(Tail(s)) /\ 1 \in 1..Len(Tail(s))
  BY <1>1
<1>4. Len(s) - 1 + 1 = Len(s) /\ 1 + 1 = 2
  OBVIOUS
<1>5. Tail(s)[Len(s) - 1] = s[Len(s)] /\ Tail(s)[1] = s[2]
  BY <1>2, <1>3, <1>4
<1>6. Tail(s) # <<>>
  <2>1. Len(Tail(s)) # 0
    BY <1>1
  <2>2. Len(<<>>) = 0
    OBVIOUS
  <2>3. QED BY <2>1, <2>2
<1>7. QED BY <1>1, <1>2, <1>5, <1>6 DEF Last

(* Every action keeps the relation between program counters, locks and the *)
(* buffers in the threads' hands.                                          *)
LEMMA ControlStep == BaseInv /\ [Next]_vars => Control'
<1> SUFFICES ASSUME BaseInv, [Next]_vars PROVE Control' OBVIOUS
<1>0. TypeOK /\ Containers /\ Control
  BY DEF BaseInv
<1>t. /\ activeBuffers \in Seq(BufIds) /\ reusableBuffers \in Seq(BufIds)
      /\ netAdd \in Seq(BufIds) /\ txBuffers \in [Tx -> Seq(BufIds)]
      /\ owner \in [BufIds -> Owners]
      /\ netBuf \in BufIds \cup {0} /\ monBuf \in BufIds \cup {0}
      /\ 0 \notin BufIds
      /\ lockActiveBuffers \in {None, Net} /\ lockWait \in {None, Mon}
      /\ netPc \in NetPcs /\ monPc \in MonPcs
  BY <1>0 DEF TypeOK, MgrType, NetType, TxType, HistType, MonType, BufIds, LockType
<1>1. CASE UNCHANGED vars
  BY <1>0, <1>1 DEF Control, vars, mgrVars, netVars, txVars, histVars,
     objVars, lockVars, monVars
<1>2. CASE RequestWrite
  BY <1>0, <1>2 DEF RequestWrite, Control, mgrVars, txVars, histVars,
     objVars, lockVars, monVars
<1>3. CASE GetBufferTail
  <2>1. activeBuffers # <<>> /\ Last(activeBuffers) # 0
    BY <1>t, <1>3 DEF GetBufferTail, TailFits, HasRoom, Last
  <2>2. QED
    BY <1>0, <1>3, <2>1 DEF GetBufferTail, Control, mgrVars, histVars, lockVars,
       monVars
<1>4. CASE GetBufferReuse
  <2> DEFINE h == Head(reusableBuffers)
  <2>1. h \in BufIds /\ owner[h] = "reusable"
    BY <1>0, <1>t, <1>4 DEF GetBufferReuse, Containers, Holds
  <2>2. /\ netPc = "getBuffer" /\ netPc' = "addBuffer" /\ netBuf' = h
        /\ owner' = [owner EXCEPT ![h] = "writer"]
        /\ UNCHANGED <<activeBuffers, lockActiveBuffers, lockWait, netAdd, monPc,
                       monBuf>>
    BY <1>4 DEF GetBufferReuse, lockVars, monVars
  <2> HIDE DEF h
  <2>3. QED
    BY <1>0, <1>t, <2>1, <2>2 DEF Control
<1>5. CASE GetBufferCreate
  <2> DEFINE n == created + 1
  <2>1. n \in BufIds /\ owner[n] = "free"
    BY <1>0, <1>5, BoundsAssumption
    DEF GetBufferCreate, Containers, BufIds, TypeOK, ObjType
  <2>2. /\ netPc = "getBuffer" /\ netPc' = "addBuffer" /\ netBuf' = n
        /\ owner' = [owner EXCEPT ![n] = "writer"]
        /\ UNCHANGED <<activeBuffers, lockActiveBuffers, lockWait, netAdd, monPc,
                       monBuf>>
    BY <1>5 DEF GetBufferCreate, mgrVars, lockVars, monVars
  <2> HIDE DEF n
  <2>3. QED
    BY <1>0, <1>t, <2>1, <2>2 DEF Control
<1>6. CASE AddBuffer
  <2>1. netBuf \in BufIds /\ owner[netBuf] = "writer"
    BY <1>0, <1>t, <1>6 DEF AddBuffer, Control
  <2>2. /\ Len(activeBuffers') = Len(activeBuffers) + 1
        /\ activeBuffers' # <<>> /\ Last(activeBuffers') = netBuf
    <3>1. activeBuffers' = Append(activeBuffers, netBuf)
      BY <1>6 DEF AddBuffer
    <3>2. QED BY <1>t, <2>1, <3>1, AppendLast
  <2>3. \A b \in BufIds : b # netBuf => owner'[b] = owner[b]
    BY <1>t, <1>6 DEF AddBuffer
  <2>4. /\ netPc = "addBuffer" /\ netPc' = "addBufferNotify"
        /\ lockActiveBuffers' = Net /\ lockActiveBuffers = None
        /\ UNCHANGED <<lockWait, netBuf, netAdd, monPc, monBuf>>
    BY <1>6 DEF AddBuffer, monVars
  <2>5. QED
    BY <1>0, <1>t, <2>1, <2>2, <2>3, <2>4 DEF Control
<1>7. CASE AddBufferNotify
  BY <1>0, <1>t, <1>7, ThreadAssumption DEF AddBufferNotify, Control, mgrVars,
     histVars, monVars
<1>8. CASE Register
  <2>1. monPc # "register" \/ owner[monBuf] = "reusable"
    BY <1>0, <1>8 DEF Register, Control
  <2>2. netPc' \in {"finishCommit", "write"} /\ netPc = "register"
    BY <1>8 DEF Register
  <2>3. QED
    BY <1>0, <1>8, <2>1, <2>2 DEF Register, Control, mgrVars, histVars, lockVars,
       monVars
<1>9. CASE WriteOperation
  BY <1>0, <1>9 DEF WriteOperation, Control, mgrVars, lockVars, monVars
<1>10. ASSUME NEW t \in Tx, TxWrite(t) PROVE Control'
  BY <1>0, <1>10, ControlFrame DEF TxWrite, mgrVars, netVars, histVars
<1>11. ASSUME NEW t \in Tx, TxWriteNewBuffer(t) PROVE Control'
  <2>1. created + 1 \in BufIds /\ owner[created + 1] = "free"
    BY <1>0, <1>11, BoundsAssumption
    DEF TxWriteNewBuffer, Containers, BufIds, TypeOK, ObjType
  <2>2. \A b \in BufIds : b # created + 1 => owner'[b] = owner[b]
    BY <1>t, <1>11 DEF TxWriteNewBuffer
  <2>3. QED
    BY <1>0, <1>11, <2>1, <2>2, ControlFrame DEF TxWriteNewBuffer, mgrVars, netVars
<1>12. ASSUME NEW t \in Tx
       PROVE  \A b \in ToSet(txBuffers[t]) : owner[b] = "tx"
  BY <1>0, <1>t DEF Containers, Holds, ToSet
<1>13. ASSUME NEW t \in Tx, Rollback(t) PROVE Control'
  <2>1. \A b \in BufIds : owner[b] # "tx" => owner'[b] = owner[b]
    BY <1>t, <1>12, <1>13 DEF Rollback
  <2>2. QED
    BY <1>0, <1>13, <2>1, ControlFrame DEF Rollback, mgrVars, netVars
<1>14. ASSUME NEW t \in Tx, Commit(t) PROVE Control'
  <2>1. \A b \in BufIds : owner[b] # "tx" => owner'[b] = owner[b]
    BY <1>t, <1>12, <1>14 DEF Commit
  <2>2. /\ netPc = "idle" /\ netPc' = "addBuffers"
        /\ UNCHANGED <<activeBuffers, lockActiveBuffers, lockWait, netBuf, monPc,
                       monBuf>>
    BY <1>14 DEF Commit, mgrVars, lockVars, monVars
  <2>3. QED
    BY <1>0, <1>t, <2>1, <2>2 DEF Control
<1>15. CASE AddBuffersLock
  BY <1>0, <1>t, <1>15, ThreadAssumption DEF AddBuffersLock, Control, mgrVars,
     histVars, monVars
<1>16. CASE AddBuffersNext
  <2> DEFINE h == Head(netAdd)
  <2>0. netAdd # <<>>
    BY <1>16 DEF AddBuffersNext
  <2>1. h \in BufIds /\ owner[h] = "writer"
    BY <1>0, <1>t, <2>0 DEF Containers, Holds
  <2>2. Len(activeBuffers') = Len(activeBuffers) + 1
    BY <1>t, <1>16, <2>1 DEF AddBuffersNext
  <2>3. \A b \in BufIds : b # h => owner'[b] = owner[b]
    BY <1>t, <1>16 DEF AddBuffersNext
  <2>4. /\ netPc = "addBuffersLoop"
        /\ UNCHANGED <<netPc, lockActiveBuffers, lockWait, netBuf, monPc, monBuf>>
    BY <1>16 DEF AddBuffersNext, lockVars, monVars
  <2> HIDE DEF h
  <2>5. QED
    BY <1>0, <1>t, <2>1, <2>2, <2>3, <2>4 DEF Control
<1>17. CASE AddBuffersUnlock
  BY <1>0, <1>t, <1>17, ThreadAssumption DEF AddBuffersUnlock, Control, mgrVars,
     histVars, monVars
<1>18. CASE FinishCommit
  BY <1>0, <1>t, <1>18 DEF FinishCommit, Control, mgrVars, lockVars, histVars,
     monVars
<1>19. CASE FlushWake
  BY <1>0, <1>t, <1>19, ThreadAssumption DEF FlushWake, FlushThreshold, Control,
     Containers, mgrVars, histVars, netVars
<1>20. CASE FlushPop
  <2> DEFINE h == Head(activeBuffers)
  <2>1. Len(activeBuffers) > 1
    BY <1>0, <1>20 DEF FlushPop, Control
  <2>2. activeBuffers # <<>>
    BY <2>1
  <2>3. h \in BufIds /\ owner[h] = "active"
    BY <1>0, <1>t, <2>1, <2>2 DEF Containers, Holds
  <2>4. activeBuffers' # <<>> /\ Last(activeBuffers') = Last(activeBuffers)
    <3>1. activeBuffers' = Tail(activeBuffers)
      BY <1>20 DEF FlushPop
    <3>2. QED BY <1>t, <2>1, <3>1, TailLast
  <2>5. owner'[h] = "monitor" /\ \A b \in BufIds : b # h => owner'[b] = owner[b]
    BY <1>t, <1>20, <2>3 DEF FlushPop
  <2>6. /\ monPc = "pop" /\ monPc' = "flush" /\ monBuf' = h
        /\ lockActiveBuffers = None
        /\ UNCHANGED <<lockActiveBuffers, lockWait, netPc, netBuf, netAdd>>
    BY <1>20 DEF FlushPop, lockVars, netVars
  <2> HIDE DEF h
  <2>7. QED
    BY <1>0, <1>t, <2>3, <2>4, <2>5, <2>6, ThreadAssumption DEF Control
<1>21. CASE FlushApply
  BY <1>0, <1>21 DEF FlushApply, Control, mgrVars, lockVars, netVars, monVars
<1>22. CASE FlushRecycle
  <2>1. monBuf \in BufIds /\ owner[monBuf] = "monitor"
    BY <1>0, <1>t, <1>22 DEF FlushRecycle, Control
  <2>2. owner'[monBuf] = "reusable"
        /\ \A b \in BufIds : b # monBuf => owner'[b] = owner[b]
    BY <1>t, <1>22, <2>1 DEF FlushRecycle
  <2>3. /\ monPc = "flush" /\ monPc' = "register"
        /\ UNCHANGED <<activeBuffers, lockActiveBuffers, lockWait, netPc, netBuf,
                       netAdd, monBuf>>
    BY <1>22 DEF FlushRecycle, lockVars, netVars
  <2>4. QED
    BY <1>0, <1>t, <2>1, <2>2, <2>3 DEF Control
<1>23. CASE FlushRegister
  BY <1>0, <1>t, <1>23, ThreadAssumption DEF FlushRegister, Control, mgrVars,
     netVars, histVars
<1>24. CASE FlushDrop
  <2>1. monBuf \in BufIds /\ owner[monBuf] = "monitor"
    BY <1>0, <1>t, <1>24 DEF FlushDrop, Control
  <2>2. \A b \in BufIds : b # monBuf => owner'[b] = owner[b]
    BY <1>t, <1>24, <2>1 DEF FlushDrop
  <2>3. /\ monPc = "flush" /\ monPc' = "wait" /\ monBuf' = 0 /\ lockWait' = None
        /\ UNCHANGED <<activeBuffers, lockActiveBuffers, netPc, netBuf, netAdd>>
    BY <1>24 DEF FlushDrop, mgrVars, netVars
  <2>4. QED
    BY <1>0, <1>t, <2>1, <2>2, <2>3, ThreadAssumption DEF Control
<1> QED
  BY <1>1, <1>2, <1>3, <1>4, <1>5, <1>6, <1>7, <1>8, <1>9, <1>10, <1>11, <1>13,
     <1>14, <1>15, <1>16, <1>17, <1>18, <1>19, <1>20, <1>21, <1>22, <1>23, <1>24
  DEF Next, Request, NetStep, MonStep

----------------------------------------------------------------------------
(* Cursors, when no cursor moves.                                          *)
LEMMA CursorsFrame ==
  ASSUME Cursors, UNCHANGED <<netPc, netBuf, monPc, monBuf>>,
         TypeOK, Control,
         \A b \in BufIds : /\ buf'[b].pos = buf[b].pos /\ buf'[b].len = buf[b].len
                           /\ owner[b] = "monitor" => owner'[b] = owner[b] \/ ~Live(b)'
                           /\ Live(b)' => Live(b)
                           /\ owner'[b] = "reusable" => owner[b] = "reusable"
  PROVE  Cursors'
  BY DEF Cursors, Control, TypeOK, NetType, MonType, Live

(* Every action keeps cursors behind lengths, at the end of every buffer   *)
(* that nobody reads, and reusable buffers empty.                          *)
LEMMA CursorsStep == IndInv /\ [Next]_vars => Cursors'
<1> SUFFICES ASSUME IndInv, [Next]_vars PROVE Cursors' OBVIOUS
<1>0. TypeOK /\ Containers /\ Control /\ Cursors
  BY DEF IndInv
<1>t. /\ activeBuffers \in Seq(BufIds) /\ reusableBuffers \in Seq(BufIds)
      /\ netAdd \in Seq(BufIds) /\ txBuffers \in [Tx -> Seq(BufIds)]
      /\ owner \in [BufIds -> Owners] /\ buf \in [BufIds -> BufferRec]
      /\ netBuf \in BufIds \cup {0} /\ monBuf \in BufIds \cup {0}
      /\ 0 \notin BufIds
  BY <1>0 DEF TypeOK, MgrType, NetType, TxType, ObjType, HistType, MonType, BufIds
<1>n. \A b \in BufIds : /\ buf[b].pos \in Nat /\ buf[b].len \in Nat
                        /\ buf[b].pos <= BufCap /\ buf[b].len <= BufCap
  BY <1>t, BufCapAssumption DEF BufferRec
<1>c. /\ netPc \in {"addBuffer", "addBufferNotify", "register", "write"}
           => netBuf \in BufIds
      /\ monPc = "register" => monBuf \in BufIds
  BY <1>0, <1>t DEF Control
<1>1. CASE UNCHANGED vars
  BY <1>0, <1>1 DEF Cursors, Live, vars, netVars, histVars, objVars, monVars
<1>2. CASE \/ RequestWrite \/ AddBufferNotify \/ AddBuffersLock
           \/ AddBuffersUnlock \/ FinishCommit
  BY <1>0, <1>2 DEF RequestWrite, AddBufferNotify, AddBuffersLock,
     AddBuffersUnlock, FinishCommit, Cursors, Live, netVars, histVars, objVars,
     monVars
<1>3. CASE GetBufferTail
  <2>1. /\ Last(activeBuffers) \in BufIds /\ owner[Last(activeBuffers)] = "active"
        /\ BufCap - buf[Last(activeBuffers)].pos >= 1
    BY <1>0, <1>t, <1>3 DEF GetBufferTail, TailFits, HasRoom, Last, Containers, Holds
  <2>2. buf[Last(activeBuffers)].len < BufCap
    BY <1>0, <1>n, <2>1, BufCapAssumption DEF Cursors, Live
  <2>3. QED
    BY <1>0, <1>3, <2>2 DEF GetBufferTail, Cursors, Live, objVars, histVars, monVars
<1>4. CASE GetBufferReuse
  <2> DEFINE h == Head(reusableBuffers)
  <2>1. h \in BufIds /\ owner[h] = "reusable"
    BY <1>0, <1>t, <1>4 DEF GetBufferReuse, Containers, Holds
  <2>2. /\ netPc' = "addBuffer" /\ netBuf' = h
        /\ owner' = [owner EXCEPT ![h] = "writer"]
        /\ buf' = [buf EXCEPT ![h] = Reset(buf[h])]
        /\ UNCHANGED <<monPc, monBuf>>
    BY <1>4 DEF GetBufferReuse, monVars
  <2> HIDE DEF h
  <2>3. /\ buf'[h].pos = 0 /\ buf'[h].len = 0 /\ owner'[h] = "writer"
        /\ \A b \in BufIds : b # h => buf'[b] = buf[b] /\ owner'[b] = owner[b]
    BY <1>t, <2>1, <2>2, ResetLemma
  <2>4. QED
    BY <1>0, <1>t, <1>n, <1>c, <2>1, <2>2, <2>3 DEF Cursors, Live
<1>5. CASE GetBufferCreate
  <2> DEFINE n == created + 1
  <2>1. n \in BufIds
    BY <1>0, <1>5, BoundsAssumption
    DEF GetBufferCreate, Containers, BufIds, TypeOK, ObjType
  <2>2. /\ netPc' = "addBuffer" /\ netBuf' = n
        /\ owner' = [owner EXCEPT ![n] = "writer"]
        /\ buf' = [buf EXCEPT ![n] = NewBuffer(Main, NewSlot)]
        /\ UNCHANGED <<monPc, monBuf>>
    BY <1>5 DEF GetBufferCreate, monVars
  <2> HIDE DEF n
  <2>3. /\ buf'[n].pos = 0 /\ buf'[n].len = 0 /\ owner'[n] = "writer"
        /\ \A b \in BufIds : b # n => buf'[b] = buf[b] /\ owner'[b] = owner[b]
    BY <1>t, <2>1, <2>2 DEF NewBuffer
  <2>4. QED
    BY <1>0, <1>t, <1>n, <1>c, <2>1, <2>2, <2>3 DEF Cursors, Live
<1>6. CASE AddBuffer
  <2>1. netBuf \in BufIds /\ owner[netBuf] = "writer"
    BY <1>0, <1>t, <1>6 DEF AddBuffer, Control
  <2>2. owner'[netBuf] = "active" /\ \A b \in BufIds : b # netBuf => owner'[b] = owner[b]
    BY <1>t, <1>6, <2>1 DEF AddBuffer
  <2>3. /\ netPc = "addBuffer" /\ netPc' = "addBufferNotify"
        /\ UNCHANGED <<buf, netBuf, monPc, monBuf>>
    BY <1>6 DEF AddBuffer, objVars, monVars
  <2>4. QED
    BY <1>0, <1>t, <1>n, <1>c, <2>1, <2>2, <2>3 DEF Cursors, Live
<1>8. CASE Register
  <2>1. netBuf \in BufIds /\ buf[netBuf].len = 0
    BY <1>0, <1>t, <1>8 DEF Register, Control, Cursors
  <2>2. buf[netBuf].pos = 0
    BY <1>0, <1>n, <2>1 DEF Cursors
  <2>3. buf'[netBuf].pos = 0 /\ buf'[netBuf].len = 0
    BY <1>t, <1>8, <2>1, <2>2, ResetLemma DEF Register, BufferRec
  <2>4. /\ netPc' \in {"finishCommit", "write"}
        /\ \A b \in BufIds : b # netBuf => buf'[b] = buf[b]
        /\ UNCHANGED <<owner, netBuf, monPc, monBuf>>
    BY <1>t, <1>8 DEF Register, monVars, histVars
  <2>5. QED
    <3>1. ASSUME NEW b \in BufIds
          PROVE  /\ buf'[b].pos <= buf'[b].len
                 /\ owner'[b] # "monitor" /\ Live(b)' => buf'[b].pos = buf'[b].len
                 /\ owner'[b] = "reusable" => buf'[b].len = 0
      BY <1>0, <1>n, <2>1, <2>2, <2>3, <2>4 DEF Cursors, Live
    <3>2. /\ netPc' \in {"addBuffer", "addBufferNotify", "register"}
               => buf'[netBuf'].len = 0
          /\ netPc' = "write" => buf'[netBuf'].len < BufCap
          /\ monPc' = "register" => buf'[monBuf'].len = 0
      BY <1>0, <1>n, <1>c, <2>1, <2>2, <2>3, <2>4, BufCapAssumption DEF Cursors
    <3>3. QED BY <3>1, <3>2 DEF Cursors
<1>9. CASE WriteOperation
  <2>1. netBuf \in BufIds /\ owner[netBuf] = "active"
    <3>1. activeBuffers # <<>> /\ netBuf = Last(activeBuffers)
      BY <1>0, <1>9 DEF WriteOperation, Control
    <3>2. QED BY <1>0, <1>t, <3>1 DEF Last, Containers, Holds
  <2>2. monPc = "register" => owner[monBuf] = "reusable"
    BY <1>0, <1>9 DEF WriteOperation, Control
  <2>3. /\ buf'[netBuf].pos = buf[netBuf].pos + 1
        /\ buf'[netBuf].len = buf[netBuf].pos + 1
        /\ \A b \in BufIds : b # netBuf => buf'[b] = buf[b]
    BY <1>t, <1>9, <2>1 DEF WriteOperation, Written, BufferRec
  <2>4. netPc' = "idle" /\ UNCHANGED <<owner, monPc, monBuf>>
    BY <1>9 DEF WriteOperation, monVars
  <2>5. QED
    <3>1. ASSUME NEW b \in BufIds
          PROVE  /\ buf'[b].pos <= buf'[b].len
                 /\ owner'[b] # "monitor" /\ Live(b)' => buf'[b].pos = buf'[b].len
                 /\ owner'[b] = "reusable" => buf'[b].len = 0
      BY <1>0, <1>n, <2>1, <2>2, <2>3, <2>4 DEF Cursors, Live
    <3>2. /\ netPc' \in {"addBuffer", "addBufferNotify", "register"}
               => buf'[netBuf'].len = 0
          /\ netPc' = "write" => buf'[netBuf'].len < BufCap
          /\ monPc' = "register" => buf'[monBuf'].len = 0
      BY <1>0, <1>n, <1>c, <2>1, <2>2, <2>3, <2>4, BufCapAssumption DEF Cursors
    <3>3. QED BY <3>1, <3>2 DEF Cursors
<1>10. ASSUME NEW t \in Tx, TxWrite(t) PROVE Cursors'
  <2> DEFINE b == Last(txBuffers[t])
  <2>1. b \in BufIds /\ owner[b] = "tx"
    <3>1. txBuffers[t] \in Seq(BufIds) /\ txBuffers[t] # <<>> /\ Holds(txBuffers[t], "tx")
      BY <1>0, <1>t, <1>10 DEF TxWrite, HasRoom, Containers
    <3>2. QED BY <3>1 DEF Last, Holds
  <2>2. monPc = "register" => owner[monBuf] = "reusable"
    BY <1>0, <1>10 DEF TxWrite, Control
  <2>3. buf' = [buf EXCEPT ![b] = Written(@)]
        /\ netPc' = "idle" /\ UNCHANGED <<owner, monPc, monBuf>>
    BY <1>10 DEF TxWrite, netVars, monVars, histVars
  <2> HIDE DEF b
  <2>4. /\ buf'[b].pos = buf[b].pos + 1 /\ buf'[b].len = buf[b].pos + 1
        /\ \A c \in BufIds : c # b => buf'[c] = buf[c]
    BY <1>t, <2>1, <2>3 DEF Written, BufferRec
  <2>5. QED
    BY <1>0, <1>t, <1>n, <1>c, <2>1, <2>2, <2>3, <2>4 DEF Cursors, Live
<1>11. ASSUME NEW t \in Tx, TxWriteNewBuffer(t) PROVE Cursors'
  <2> DEFINE n == created + 1
  <2>1. n \in BufIds /\ owner[n] = "free"
    BY <1>0, <1>11, BoundsAssumption
    DEF TxWriteNewBuffer, Containers, BufIds, TypeOK, ObjType
  <2>2. monPc = "register" => owner[monBuf] = "reusable"
    BY <1>0, <1>11 DEF TxWriteNewBuffer, Control
  <2>3. netPc' = "idle" /\ UNCHANGED <<monPc, monBuf>>
    BY <1>11 DEF TxWriteNewBuffer, netVars, monVars
  <2>4. /\ buf'[n].pos = 1 /\ buf'[n].len = 1 /\ owner'[n] = "tx"
        /\ \A b \in BufIds : b # n => buf'[b] = buf[b] /\ owner'[b] = owner[b]
    BY <1>t, <1>11, <2>1 DEF TxWriteNewBuffer, NewBuffer, Written
  <2> HIDE DEF n
  <2>5. QED
    <3>1. ASSUME NEW b \in BufIds
          PROVE  /\ buf'[b].pos <= buf'[b].len
                 /\ owner'[b] # "monitor" /\ Live(b)' => buf'[b].pos = buf'[b].len
                 /\ owner'[b] = "reusable" => buf'[b].len = 0
      BY <1>0, <1>n, <2>1, <2>2, <2>3, <2>4 DEF Cursors, Live
    <3>2. /\ netPc' \in {"addBuffer", "addBufferNotify", "register"}
               => buf'[netBuf'].len = 0
          /\ netPc' = "write" => buf'[netBuf'].len < BufCap
          /\ monPc' = "register" => buf'[monBuf'].len = 0
      BY <1>0, <1>n, <1>c, <2>1, <2>2, <2>3, <2>4, BufCapAssumption DEF Cursors
    <3>3. QED BY <3>1, <3>2 DEF Cursors
<1>12. ASSUME NEW t \in Tx
       PROVE  \A b \in ToSet(txBuffers[t]) : owner[b] = "tx"
  BY <1>0, <1>t DEF Containers, Holds, ToSet
<1>13. ASSUME NEW t \in Tx, Rollback(t) PROVE Cursors'
  <2>1. \A b \in BufIds : owner'[b] = owner[b]
                          \/ (owner[b] = "tx" /\ owner'[b] = "deleted")
    <3>1. \A b \in BufIds : owner'[b] = IF b \in ToSet(txBuffers[t]) THEN "deleted"
                                        ELSE owner[b]
      BY <1>13 DEF Rollback
    <3>2. \A b \in ToSet(txBuffers[t]) : owner[b] = "tx"
      BY <1>12
    <3>3. QED BY <3>1, <3>2
  <2>2. QED
    BY <1>0, <1>13, <2>1, CursorsFrame DEF Rollback, netVars, monVars, Live
<1>14. ASSUME NEW t \in Tx, Commit(t) PROVE Cursors'
  <2>1. \A b \in BufIds : owner'[b] = owner[b]
                          \/ (owner[b] = "tx" /\ owner'[b] = "writer")
    <3>1. \A b \in BufIds : owner'[b] = IF b \in ToSet(txBuffers[t]) THEN "writer"
                                        ELSE owner[b]
      BY <1>14 DEF Commit
    <3>2. \A b \in ToSet(txBuffers[t]) : owner[b] = "tx"
      BY <1>12
    <3>3. QED BY <3>1, <3>2
  <2>2. netPc' = "addBuffers" /\ UNCHANGED <<buf, netBuf, monPc, monBuf>>
    BY <1>14 DEF Commit, objVars, monVars
  <2>3. QED
    BY <1>0, <1>t, <2>1, <2>2 DEF Cursors, Live
<1>16. CASE AddBuffersNext
  <2> DEFINE h == Head(netAdd)
  <2>0. netAdd # <<>>
    BY <1>16 DEF AddBuffersNext
  <2>1. h \in BufIds /\ owner[h] = "writer"
    BY <1>0, <1>t, <2>0 DEF Containers, Holds
  <2>2. /\ buf' = [buf EXCEPT ![h].ctl = Len(control.recs) + 1]
        /\ owner' = [owner EXCEPT ![h] = "active"]
        /\ UNCHANGED <<netPc, netBuf, monPc, monBuf>>
    BY <1>16 DEF AddBuffersNext, monVars
  <2> HIDE DEF h
  <2>3. /\ owner'[h] = "active" /\ \A b \in BufIds : b # h => owner'[b] = owner[b]
        /\ \A b \in BufIds : buf'[b].pos = buf[b].pos /\ buf'[b].len = buf[b].len
    BY <1>t, <2>1, <2>2 DEF BufferRec
  <2>4. QED
    BY <1>0, <1>t, <1>n, <2>1, <2>2, <2>3, CursorsFrame DEF Live
<1>19. CASE FlushWake
  BY <1>0, <1>19 DEF FlushWake, Cursors, Live, netVars, histVars, objVars
<1>20. CASE FlushPop
  <2> DEFINE h == Head(activeBuffers)
  <2>0. activeBuffers # <<>>
    BY <1>0, <1>20 DEF FlushPop, Control
  <2>1. h \in BufIds /\ owner[h] = "active"
    BY <1>0, <1>t, <2>0 DEF Containers, Holds
  <2>2. /\ buf' = [buf EXCEPT ![h].pos = 0] /\ monPc' = "flush"
        /\ owner' = [owner EXCEPT ![h] = "monitor"]
        /\ UNCHANGED <<netPc, netBuf>>
    BY <1>20 DEF FlushPop, netVars
  <2> HIDE DEF h
  <2>3. /\ buf'[h].pos = 0 /\ buf'[h].len = buf[h].len /\ owner'[h] = "monitor"
        /\ \A b \in BufIds : b # h => buf'[b] = buf[b] /\ owner'[b] = owner[b]
    BY <1>t, <2>1, <2>2 DEF BufferRec
  <2>4. QED
    BY <1>0, <1>t, <1>n, <1>c, <2>1, <2>2, <2>3 DEF Cursors, Live
<1>21. CASE FlushApply
  <2>1. monBuf \in BufIds /\ owner[monBuf] = "monitor" /\ monPc = "flush"
    BY <1>0, <1>t, <1>21 DEF FlushApply, Control
  <2>2. /\ buf'[monBuf].pos = buf[monBuf].pos + 1
        /\ buf'[monBuf].len = buf[monBuf].len
        /\ \A b \in BufIds : b # monBuf => buf'[b] = buf[b]
    BY <1>t, <1>21, <2>1 DEF FlushApply, BufferRec
  <2>3. UNCHANGED <<owner, netPc, netBuf, monPc, monBuf>>
        /\ ~(buf[monBuf].len <= buf[monBuf].pos)
    BY <1>21 DEF FlushApply, netVars, monVars, Eof
  <2>4. QED
    <3>1. ASSUME NEW b \in BufIds
          PROVE  /\ buf'[b].pos <= buf'[b].len
                 /\ owner'[b] # "monitor" /\ Live(b)' => buf'[b].pos = buf'[b].len
                 /\ owner'[b] = "reusable" => buf'[b].len = 0
      BY <1>0, <1>n, <2>1, <2>2, <2>3 DEF Cursors, Live
    <3>2. /\ netPc' \in {"addBuffer", "addBufferNotify", "register"}
               => buf'[netBuf'].len = 0
          /\ netPc' = "write" => buf'[netBuf'].len < BufCap
          /\ monPc' = "register" => buf'[monBuf'].len = 0
      BY <1>0, <1>n, <1>c, <2>1, <2>2, <2>3, BufCapAssumption DEF Cursors
    <3>3. QED BY <3>1, <3>2 DEF Cursors
<1>22. CASE FlushRecycle
  <2>1. monBuf \in BufIds /\ owner[monBuf] = "monitor"
    BY <1>0, <1>t, <1>22 DEF FlushRecycle, Control
  <2>2. /\ buf'[monBuf].pos = 0 /\ buf'[monBuf].len = 0
        /\ \A b \in BufIds : b # monBuf => buf'[b] = buf[b] /\ owner'[b] = owner[b]
    BY <1>t, <1>22, <2>1, ResetLemma DEF FlushRecycle
  <2>3. UNCHANGED <<netPc, netBuf, monBuf>>
    BY <1>22 DEF FlushRecycle, netVars
  <2>4. QED
    <3>1. ASSUME NEW b \in BufIds
          PROVE  /\ buf'[b].pos <= buf'[b].len
                 /\ owner'[b] # "monitor" /\ Live(b)' => buf'[b].pos = buf'[b].len
                 /\ owner'[b] = "reusable" => buf'[b].len = 0
      BY <1>0, <1>n, <2>1, <2>2, <2>3 DEF Cursors, Live
    <3>2. /\ netPc' \in {"addBuffer", "addBufferNotify", "register"}
               => buf'[netBuf'].len = 0
          /\ netPc' = "write" => buf'[netBuf'].len < BufCap
          /\ monPc' = "register" => buf'[monBuf'].len = 0
      BY <1>0, <1>n, <1>c, <2>1, <2>2, <2>3, BufCapAssumption DEF Cursors
    <3>3. QED BY <3>1, <3>2 DEF Cursors
<1>23. CASE FlushRegister
  <2>1. monBuf \in BufIds
    BY <1>0, <1>t, <1>23 DEF FlushRegister, Control
  <2>2. /\ buf'[monBuf].pos = 0 /\ buf'[monBuf].len = 0
        /\ \A b \in BufIds : b # monBuf => buf'[b] = buf[b]
    BY <1>t, <1>23, <2>1, ResetLemma DEF FlushRegister
  <2>3. UNCHANGED <<netPc, netBuf, owner>> /\ monPc' = "wait"
    BY <1>23 DEF FlushRegister, netVars, histVars
  <2>4. QED
    <3>1. ASSUME NEW b \in BufIds
          PROVE  /\ buf'[b].pos <= buf'[b].len
                 /\ owner'[b] # "monitor" /\ Live(b)' => buf'[b].pos = buf'[b].len
                 /\ owner'[b] = "reusable" => buf'[b].len = 0
      BY <1>0, <1>n, <2>1, <2>2, <2>3 DEF Cursors, Live
    <3>2. /\ netPc' \in {"addBuffer", "addBufferNotify", "register"}
               => buf'[netBuf'].len = 0
          /\ netPc' = "write" => buf'[netBuf'].len < BufCap
          /\ monPc' = "register" => buf'[monBuf'].len = 0
      BY <1>0, <1>n, <1>c, <2>1, <2>2, <2>3, BufCapAssumption DEF Cursors
    <3>3. QED BY <3>1, <3>2 DEF Cursors
<1>24. CASE FlushDrop
  <2>1. monBuf \in BufIds /\ owner[monBuf] = "monitor"
    BY <1>0, <1>t, <1>24 DEF FlushDrop, Control
  <2>2. owner'[monBuf] = "deleted"
        /\ \A b \in BufIds : b # monBuf => owner'[b] = owner[b]
    BY <1>t, <1>24, <2>1 DEF FlushDrop
  <2>3. UNCHANGED <<netPc, netBuf, buf>> /\ monPc' = "wait"
    BY <1>24 DEF FlushDrop, netVars
  <2>4. QED
    BY <1>0, <1>t, <2>1, <2>2, <2>3 DEF Cursors, Live
<1> QED
  BY <1>1, <1>2, <1>3, <1>4, <1>5, <1>6, <1>8, <1>9, <1>10, <1>11, <1>13, <1>14,
     <1>16, <1>19, <1>20, <1>21, <1>22, <1>23, <1>24
  DEF Next, Request, NetStep, MonStep

----------------------------------------------------------------------------
(* The accepted operations.                                                *)

(* The facts about types and ownership that the proofs below use.          *)
LEMMA LogFacts ==
  ASSUME BaseInv \/ IndInv
  PROVE  /\ activeBuffers \in Seq(BufIds)
         /\ \A i \in 1..Len(activeBuffers) :
              activeBuffers[i] \in BufIds /\ owner[activeBuffers[i]] = "active"
         /\ activeBuffers # <<>> =>
              /\ Len(activeBuffers) \in 1..Len(activeBuffers)
              /\ 1 \in 1..Len(activeBuffers)
              /\ Last(activeBuffers) = activeBuffers[Len(activeBuffers)]
              /\ Last(activeBuffers) \in BufIds
              /\ owner[Last(activeBuffers)] = "active"
         /\ \A b \in BufIds : /\ buf[b].pos \in Nat /\ buf[b].len \in Nat
                              /\ buf[b].pos <= buf[b].len
                              /\ buf[b].len <= BufCap
                              /\ start[b] \in Nat
         /\ Len(acked) \in Nat /\ Len(applied) \in Nat
         /\ acked \in Seq(Op \cup {None}) /\ applied \in Seq(Op \cup {None})
         /\ monPc = "flush" => monBuf \in BufIds /\ owner[monBuf] = "monitor"
<1>1. /\ TypeOK /\ Containers /\ Control
      /\ \A b \in BufIds : buf[b].pos <= buf[b].len
  BY DEF IndInv, BaseInv, Cursors, CursorBounds
<1>2. activeBuffers \in Seq(BufIds)
  BY <1>1 DEF TypeOK, MgrType
<1>3. \A i \in 1..Len(activeBuffers) :
        activeBuffers[i] \in BufIds /\ owner[activeBuffers[i]] = "active"
  BY <1>1, <1>2 DEF Containers, Holds
<1>4. activeBuffers # <<>> =>
        /\ Len(activeBuffers) \in 1..Len(activeBuffers)
        /\ 1 \in 1..Len(activeBuffers)
  BY <1>2
<1>5. Last(activeBuffers) = activeBuffers[Len(activeBuffers)]
  BY DEF Last
<1>6. \A b \in BufIds : /\ buf[b].pos \in Nat /\ buf[b].len \in Nat
                        /\ buf[b].len <= BufCap
  BY <1>1, BufCapAssumption DEF TypeOK, ObjType, BufferRec
<1>7. \A b \in BufIds : buf[b].pos <= buf[b].len /\ start[b] \in Nat
  BY <1>1 DEF TypeOK, HistType
<1>8. acked \in Seq(Op \cup {None}) /\ applied \in Seq(Op \cup {None})
  BY <1>1 DEF TypeOK, HistType
<1>9. Len(acked) \in Nat /\ Len(applied) \in Nat
  BY <1>8
<1>10. monPc = "flush" => monBuf \in BufIds /\ owner[monBuf] = "monitor"
  BY <1>1 DEF Control, TypeOK, MonType
<1>11. QED
  BY <1>2, <1>3, <1>4, <1>5, <1>6, <1>7, <1>8, <1>9, <1>10

(* No more is applied than was accepted.                                   *)
LEMMA AppliedBound ==
  ASSUME IndInv
  PROVE  Len(applied) <= Len(acked)
<1>0. Stretches
  BY DEF IndInv
<1>1. CASE monPc = "flush"
  BY <1>0, <1>1, LogFacts DEF Stretches, InLog
<1>2. CASE monPc # "flush" /\ activeBuffers # <<>>
  <2>1. /\ activeBuffers[1] \in BufIds /\ InLog(activeBuffers[1])
        /\ start[activeBuffers[1]] = Len(applied)
    BY <1>0, <1>2, LogFacts DEF Stretches, InLog
  <2>2. QED BY <1>0, <2>1, LogFacts DEF Stretches
<1>3. CASE activeBuffers = <<>>
  BY <1>0, <1>3, LogFacts DEF Stretches
<1>4. QED BY <1>1, <1>2, <1>3

(* Steps that leave the buffers of the log alone.                          *)
LEMMA OrderFrame ==
  ASSUME IndInv,
         UNCHANGED <<activeBuffers, start, acked, applied>>,
         monPc' = "flush" <=> monPc = "flush",
         monPc = "flush" => monBuf' = monBuf,
         \A b \in BufIds : /\ InLog(b)' <=> InLog(b)
                           /\ InLog(b) => /\ buf'[b].pos = buf[b].pos
                                          /\ buf'[b].len = buf[b].len
  PROVE  Stretches' /\ Covered'
<1>0. Stretches /\ Covered
  BY DEF IndInv
<1>1. \A i \in 1..Len(activeBuffers) :
        /\ activeBuffers[i] \in BufIds
        /\ buf'[activeBuffers[i]].len = buf[activeBuffers[i]].len
  BY LogFacts DEF InLog
<1>2. activeBuffers # <<>> =>
        buf'[Last(activeBuffers)].len = buf[Last(activeBuffers)].len
  BY LogFacts, <1>1
<1>3. monPc = "flush" => /\ buf'[monBuf].len = buf[monBuf].len
                         /\ buf'[monBuf].pos = buf[monBuf].pos
  BY LogFacts DEF InLog
<1>4. \A i \in 1..Len(activeBuffers) - 1 :
        start'[activeBuffers'[i + 1]] =
          start'[activeBuffers'[i]] + buf'[activeBuffers'[i]].len
  <2>1. \A i \in 1..Len(activeBuffers) - 1 : i \in 1..Len(activeBuffers)
    BY LogFacts
  <2>2. QED BY <1>0, <1>1, <2>1 DEF Stretches
<1>5. \A b \in BufIds : InLog(b)' => start'[b] + buf'[b].len <= Len(acked')
  BY <1>0 DEF Stretches
<1>6. Stretches'
  BY <1>0, <1>2, <1>3, <1>4, <1>5 DEF Stretches
<1>7. Covered'
  BY <1>0 DEF Covered
<1>8. QED BY <1>6, <1>7

(* A buffer joins the queue: its operations are accepted behind the others.*)
LEMMA AppendStretch ==
  ASSUME IndInv, NEW h \in BufIds, owner[h] = "writer",
         activeBuffers' = Append(activeBuffers, h),
         owner' = [owner EXCEPT ![h] = "active"],
         start' = [start EXCEPT ![h] = Len(acked)],
         Len(acked') = Len(acked) + buf[h].len,
         \A b \in BufIds : buf'[b].pos = buf[b].pos /\ buf'[b].len = buf[b].len,
         UNCHANGED <<applied, monPc, monBuf>>
  PROVE  Stretches' /\ Covered'
<1>0. Stretches /\ Covered
  BY DEF IndInv
<1>t. owner \in [BufIds -> Owners] /\ start \in [BufIds -> Nat]
  BY DEF IndInv, TypeOK, HistType
<1>1. /\ owner'[h] = "active" /\ start'[h] = Len(acked)
      /\ \A b \in BufIds : b # h => owner'[b] = owner[b] /\ start'[b] = start[b]
  BY <1>t
<1>2. /\ Len(activeBuffers') = Len(activeBuffers) + 1
      /\ activeBuffers' # <<>> /\ Last(activeBuffers') = h
  BY LogFacts, AppendLast
<1>3. /\ \A i \in 1..Len(activeBuffers) : activeBuffers'[i] = activeBuffers[i]
      /\ activeBuffers'[Len(activeBuffers) + 1] = h
  BY LogFacts
<1>4. \A i \in 1..Len(activeBuffers) :
        activeBuffers[i] # h /\ start'[activeBuffers[i]] = start[activeBuffers[i]]
  BY LogFacts, <1>1
<1>5. \A b \in BufIds : InLog(b)' => start'[b] + buf'[b].len <= Len(acked')
  <2>1. ASSUME NEW b \in BufIds, InLog(b)' PROVE start'[b] + buf'[b].len <= Len(acked')
    <3>0. /\ start[b] \in Nat /\ buf[b].len \in Nat /\ buf[h].len \in Nat /\ Len(acked) \in Nat
          /\ buf'[b].len = buf[b].len
      BY LogFacts
    <3>1. CASE b = h
      BY <1>1, <3>0, <3>1
    <3>2. CASE b # h
      <4>1. owner'[b] = owner[b] /\ start'[b] = start[b]
        BY <1>1, <3>2
      <4>2. InLog(b)
        BY <2>1, <4>1 DEF InLog
      <4>3. start[b] + buf[b].len <= Len(acked)
        BY <1>0, <4>2 DEF Stretches
      <4>4. QED BY <3>0, <4>1, <4>3
    <3>3. QED BY <3>1, <3>2
  <2>2. QED BY <2>1
<1>6. ASSUME NEW i \in 1..Len(activeBuffers') - 1
      PROVE  start'[activeBuffers'[i + 1]] =
               start'[activeBuffers'[i]] + buf'[activeBuffers'[i]].len
  <2>0. i \in 1..Len(activeBuffers) /\ activeBuffers # <<>>
    BY <1>2, LogFacts
  <2>1. /\ activeBuffers'[i] = activeBuffers[i] /\ activeBuffers[i] \in BufIds
        /\ start'[activeBuffers[i]] = start[activeBuffers[i]]
        /\ buf'[activeBuffers[i]].len = buf[activeBuffers[i]].len
    BY <1>3, <1>4, <2>0, LogFacts
  <2>2. CASE i = Len(activeBuffers)
    <3>1. /\ activeBuffers'[i + 1] = h /\ start'[h] = Len(acked)
          /\ activeBuffers[i] = Last(activeBuffers)
      BY <1>1, <1>3, <2>0, <2>2, LogFacts
    <3>2. QED BY <1>0, <2>0, <2>1, <3>1 DEF Stretches
  <2>3. CASE i # Len(activeBuffers)
    <3>1. i + 1 \in 1..Len(activeBuffers) /\ i \in 1..Len(activeBuffers) - 1
      BY <2>0, <2>3, LogFacts
    <3>2. /\ activeBuffers'[i + 1] = activeBuffers[i + 1]
          /\ start'[activeBuffers[i + 1]] = start[activeBuffers[i + 1]]
      BY <1>3, <1>4, <3>1
    <3>3. QED BY <1>0, <2>1, <3>1, <3>2 DEF Stretches
  <2>4. QED BY <2>2, <2>3
<1>7. start'[Last(activeBuffers')] + buf'[Last(activeBuffers')].len = Len(acked')
  BY <1>1, <1>2
<1>8. activeBuffers # <<>> => start'[activeBuffers'[1]] = start[activeBuffers[1]]
  BY <1>3, <1>4, LogFacts
<1>9. activeBuffers = <<>> =>
        /\ start'[activeBuffers'[1]] = Len(applied) /\ monPc # "flush"
  <2> SUFFICES ASSUME activeBuffers = <<>>
               PROVE  start'[activeBuffers'[1]] = Len(applied) /\ monPc # "flush"
    OBVIOUS
  <2>1. Len(activeBuffers) + 1 = 1
    OBVIOUS
  <2>2. activeBuffers'[1] = h
    BY <1>3, <2>1
  <2>3. QED BY <1>0, <1>1, <2>2 DEF Stretches
<1>10. monPc = "flush" => start'[monBuf] = start[monBuf] /\ monBuf \in BufIds
  BY <1>1, LogFacts
<1>11. Stretches'
  <2>1. monPc' # "flush" => start'[activeBuffers'[1]] = Len(applied')
    BY <1>0, <1>8, <1>9 DEF Stretches
  <2>2. monPc' = "flush" =>
          /\ start'[monBuf'] + buf'[monBuf'].pos = Len(applied')
          /\ start'[activeBuffers'[1]] = start'[monBuf'] + buf'[monBuf'].len
    BY <1>0, <1>8, <1>10 DEF Stretches
  <2>3. QED
    BY <1>2, <1>5, <1>6, <1>7, <2>1, <2>2 DEF Stretches
<1>12. ASSUME NEW i \in (Len(applied') + 1)..Len(acked')
       PROVE  \E b \in BufIds : InLog(b)' /\ i - start'[b] \in 1..buf'[b].len
  <2>1. CASE i <= Len(acked)
    <3>1. PICK b \in BufIds : InLog(b) /\ i - start[b] \in 1..buf[b].len
      BY <1>0, <2>1, LogFacts DEF Covered
    <3>2. b # h
      BY <3>1 DEF InLog
    <3>3. InLog(b)' /\ i - start'[b] \in 1..buf'[b].len
      BY <1>1, <3>1, <3>2 DEF InLog
    <3>4. QED BY <3>3
  <2>2. CASE i > Len(acked)
    <3>1. InLog(h)' /\ i - start'[h] \in 1..buf'[h].len
      BY <1>1, <2>2, LogFacts DEF InLog
    <3>2. QED BY <3>1
  <2>3. QED BY <2>1, <2>2, LogFacts
<1>13. Covered'
  BY <1>12 DEF Covered
<1>14. QED BY <1>11, <1>13

(* The monitor thread is done with its buffer, which leaves the log.       *)
LEMMA RetireStretch ==
  ASSUME IndInv, monPc = "flush", monPc' # "flush", Eof(buf[monBuf]),
         NEW o, o \notin {"active", "monitor"},
         owner' = [owner EXCEPT ![monBuf] = o],
         UNCHANGED <<activeBuffers, start, acked, applied>>,
         \A b \in BufIds : b # monBuf => buf'[b] = buf[b]
  PROVE  Stretches' /\ Covered'
<1>0. Stretches /\ Covered
  BY DEF IndInv
<1>t. owner \in [BufIds -> Owners]
  BY DEF IndInv, TypeOK, HistType
<1>1. monBuf \in BufIds /\ owner[monBuf] = "monitor"
  BY LogFacts
<1>2. \A b \in BufIds : InLog(b)' <=> (InLog(b) /\ b # monBuf)
  BY <1>t, <1>1 DEF InLog
<1>3. start[monBuf] + buf[monBuf].len = Len(applied)
  BY <1>0, <1>1, LogFacts DEF Stretches, Eof
<1>4. \A i \in 1..Len(activeBuffers) :
        /\ activeBuffers[i] # monBuf /\ activeBuffers[i] \in BufIds
        /\ buf'[activeBuffers[i]] = buf[activeBuffers[i]]
  BY <1>1, LogFacts
<1>5. activeBuffers # <<>> /\ start[activeBuffers[1]] = Len(applied)
  BY <1>0, <1>3 DEF Stretches
<1>6. \A b \in BufIds : InLog(b)' => start'[b] + buf'[b].len <= Len(acked')
  BY <1>0, <1>2 DEF Stretches
<1>7. \A i \in 1..Len(activeBuffers) - 1 :
        start'[activeBuffers'[i + 1]] =
          start'[activeBuffers'[i]] + buf'[activeBuffers'[i]].len
  <2>1. \A i \in 1..Len(activeBuffers) - 1 : i \in 1..Len(activeBuffers)
    BY LogFacts
  <2>2. QED BY <1>0, <1>4, <2>1 DEF Stretches
<1>8. start'[Last(activeBuffers')] + buf'[Last(activeBuffers')].len = Len(acked')
  BY <1>0, <1>4, <1>5, LogFacts DEF Stretches
<1>9. Stretches'
  BY <1>5, <1>6, <1>7, <1>8 DEF Stretches
<1>10. ASSUME NEW i \in (Len(applied') + 1)..Len(acked')
       PROVE  \E b \in BufIds : InLog(b)' /\ i - start'[b] \in 1..buf'[b].len
  <2>1. PICK b \in BufIds : InLog(b) /\ i - start[b] \in 1..buf[b].len
    BY <1>0 DEF Covered
  <2>2. b # monBuf
    BY <1>3, <2>1, LogFacts
  <2>3. InLog(b)' /\ i - start'[b] \in 1..buf'[b].len
    BY <1>2, <2>1, <2>2
  <2>4. QED BY <2>3
<1>11. QED BY <1>9, <1>10 DEF Covered

----------------------------------------------------------------------------
(* The buffers cover what is not applied yet, each with its own stretch.   *)
LEMMA OrderStep == IndInv /\ [Next]_vars => Stretches' /\ Covered'
<1> SUFFICES ASSUME IndInv, [Next]_vars PROVE Stretches' /\ Covered' OBVIOUS
<1>0. TypeOK /\ Containers /\ Control /\ Cursors /\ Stretches /\ Covered
  BY DEF IndInv
<1>t. /\ activeBuffers \in Seq(BufIds) /\ reusableBuffers \in Seq(BufIds)
      /\ netAdd \in Seq(BufIds) /\ txBuffers \in [Tx -> Seq(BufIds)]
      /\ owner \in [BufIds -> Owners] /\ buf \in [BufIds -> BufferRec]
      /\ netBuf \in BufIds \cup {0} /\ monBuf \in BufIds \cup {0}
      /\ 0 \notin BufIds
  BY <1>0 DEF TypeOK, MgrType, NetType, TxType, ObjType, HistType, MonType, BufIds
<1>1. CASE UNCHANGED vars
  BY <1>1, OrderFrame DEF InLog, vars, mgrVars, monVars, histVars, objVars
<1>2. CASE \/ RequestWrite \/ GetBufferTail \/ AddBufferNotify \/ AddBuffersLock
           \/ AddBuffersUnlock \/ FinishCommit
  BY <1>2, OrderFrame DEF RequestWrite, GetBufferTail, AddBufferNotify,
     AddBuffersLock, AddBuffersUnlock, FinishCommit, InLog, mgrVars, monVars,
     histVars, objVars
<1>4. CASE GetBufferReuse
  <2> DEFINE h == Head(reusableBuffers)
  <2>1. h \in BufIds /\ owner[h] = "reusable"
    BY <1>0, <1>t, <1>4 DEF GetBufferReuse, Containers, Holds
  <2>2. /\ owner'[h] = "writer"
        /\ \A b \in BufIds : b # h => buf'[b] = buf[b] /\ owner'[b] = owner[b]
    BY <1>t, <1>4, <2>1 DEF GetBufferReuse
  <2>3. UNCHANGED <<activeBuffers, start, acked, applied, monPc, monBuf>>
    BY <1>4 DEF GetBufferReuse, monVars
  <2> HIDE DEF h
  <2>4. QED BY <2>1, <2>2, <2>3, OrderFrame DEF InLog
<1>5. CASE GetBufferCreate
  <2> DEFINE n == created + 1
  <2>1. n \in BufIds /\ owner[n] = "free"
    BY <1>0, <1>5, BoundsAssumption
    DEF GetBufferCreate, Containers, BufIds, TypeOK, ObjType
  <2>2. /\ owner'[n] = "writer"
        /\ \A b \in BufIds : b # n => buf'[b] = buf[b] /\ owner'[b] = owner[b]
    BY <1>t, <1>5, <2>1 DEF GetBufferCreate
  <2>3. UNCHANGED <<activeBuffers, start, acked, applied, monPc, monBuf>>
    BY <1>5 DEF GetBufferCreate, mgrVars, monVars
  <2> HIDE DEF n
  <2>4. QED BY <2>1, <2>2, <2>3, OrderFrame DEF InLog
<1>6. CASE AddBuffer
  <2>1. netBuf \in BufIds /\ owner[netBuf] = "writer" /\ buf[netBuf].len = 0
    BY <1>0, <1>t, <1>6 DEF AddBuffer, Control, Cursors
  <2>2. PICK h \in BufIds : h = netBuf
    BY <2>1
  <2>3. /\ activeBuffers' = Append(activeBuffers, h)
        /\ owner' = [owner EXCEPT ![h] = "active"]
        /\ start' = [start EXCEPT ![h] = Len(acked)]
        /\ UNCHANGED <<acked, buf, applied, monPc, monBuf>>
    BY <1>6, <2>2 DEF AddBuffer, objVars, monVars
  <2>4. Len(acked') = Len(acked) + buf[h].len /\ owner[h] = "writer"
    BY <2>1, <2>2, <2>3, LogFacts
  <2>5. QED BY <2>3, <2>4, AppendStretch
<1>8. CASE Register
  <2>1. netBuf \in BufIds /\ buf[netBuf].len = 0
    BY <1>0, <1>t, <1>8 DEF Register, Control, Cursors
  <2>2. buf[netBuf].pos = 0
    BY <2>1, LogFacts
  <2>3. buf'[netBuf].pos = 0 /\ buf'[netBuf].len = 0
    BY <1>t, <1>8, <2>1, <2>2, ResetLemma DEF Register, BufferRec
  <2>4. /\ \A b \in BufIds : b # netBuf => buf'[b] = buf[b]
        /\ UNCHANGED <<activeBuffers, owner, start, acked, applied, monPc, monBuf>>
    BY <1>t, <1>8 DEF Register, mgrVars, monVars, histVars
  <2>5. QED BY <2>1, <2>2, <2>3, <2>4, OrderFrame DEF InLog
<1>9. CASE WriteOperation
  <2>0. activeBuffers # <<>> /\ netBuf = Last(activeBuffers)
    BY <1>0, <1>9 DEF WriteOperation, Control
  <2>1. netBuf \in BufIds /\ owner[netBuf] = "active"
    BY <2>0, LogFacts
  <2>2. /\ buf'[netBuf].len = buf[netBuf].len + 1
        /\ \A b \in BufIds : b # netBuf => buf'[b] = buf[b]
    <3>1. buf[netBuf].pos = buf[netBuf].len
      BY <1>0, <2>1 DEF Cursors, Live
    <3>2. QED BY <1>t, <1>9, <2>1, <3>1 DEF WriteOperation, Written, BufferRec
  <2>3. UNCHANGED <<activeBuffers, owner, start, applied, monPc, monBuf>>
    BY <1>9 DEF WriteOperation, mgrVars, monVars
  <2>4. Len(acked') = Len(acked) + 1
    BY <1>9, LogFacts DEF WriteOperation
  <2>5. start[netBuf] + buf[netBuf].len = Len(acked)
    BY <1>0, <2>0 DEF Stretches
  <2>6. \A b \in BufIds : InLog(b)' => start'[b] + buf'[b].len <= Len(acked')
    <3>1. \A b \in BufIds : InLog(b) => start[b] + buf[b].len <= Len(acked)
      BY <1>0 DEF Stretches
    <3>2. \A b \in BufIds : InLog(b)' <=> InLog(b)
      BY <2>3 DEF InLog
    <3>n. /\ \A b \in BufIds : start[b] \in Nat /\ buf[b].len \in Nat
          /\ Len(acked) \in Nat
      BY LogFacts
    <3>3. ASSUME NEW b \in BufIds, InLog(b)
          PROVE  start[b] + buf'[b].len <= Len(acked) + 1
      <4>1. CASE b = netBuf
        BY <2>2, <2>5, <3>n, <4>1
      <4>2. CASE b # netBuf
        BY <2>2, <3>1, <3>3, <3>n, <4>2
      <4>3. QED BY <4>1, <4>2
    <3>4. QED BY <2>3, <2>4, <3>2, <3>3
  <2>7. ASSUME NEW i \in 1..Len(activeBuffers) - 1
        PROVE  start'[activeBuffers'[i + 1]] =
                 start'[activeBuffers'[i]] + buf'[activeBuffers'[i]].len
    <3>1. i \in 1..Len(activeBuffers) /\ i # Len(activeBuffers)
      BY LogFacts
    <3>2. activeBuffers[i] # netBuf
      BY <1>0, <2>0, <3>1, LogFacts DEF Containers, Holds
    <3>3. QED BY <1>0, <2>2, <2>3, <3>1, <3>2, LogFacts DEF Stretches
  <2>8. start'[Last(activeBuffers')] + buf'[Last(activeBuffers')].len = Len(acked')
    <3>1. Last(activeBuffers') = netBuf /\ start' = start
      BY <2>0, <2>3
    <3>n. start[netBuf] \in Nat /\ buf[netBuf].len \in Nat
      BY <2>1, LogFacts
    <3>2. QED BY <2>2, <2>4, <2>5, <3>1, <3>n
  <2>9. monPc = "flush" => monBuf # netBuf /\ buf'[monBuf] = buf[monBuf]
    BY <2>1, <2>2, LogFacts
  <2>10. Stretches'
    <3>1. monPc' # "flush" => start'[activeBuffers'[1]] = Len(applied')
      BY <1>0, <2>0, <2>3 DEF Stretches
    <3>2. monPc' = "flush" =>
            /\ start'[monBuf'] + buf'[monBuf'].pos = Len(applied')
            /\ start'[activeBuffers'[1]] = start'[monBuf'] + buf'[monBuf'].len
      BY <1>0, <2>3, <2>9 DEF Stretches
    <3>3. QED BY <2>0, <2>3, <2>6, <2>7, <2>8, <3>1, <3>2 DEF Stretches
  <2>11. ASSUME NEW i \in (Len(applied') + 1)..Len(acked')
         PROVE  \E b \in BufIds : InLog(b)' /\ i - start'[b] \in 1..buf'[b].len
    <3>1. CASE i <= Len(acked)
      <4>1. PICK b \in BufIds : InLog(b) /\ i - start[b] \in 1..buf[b].len
        BY <1>0, <2>3, <3>1, LogFacts DEF Covered
      <4>2. InLog(b)' /\ i - start'[b] \in 1..buf'[b].len
        BY <2>1, <2>2, <2>3, <4>1, LogFacts DEF InLog
      <4>3. QED BY <4>2
    <3>2. CASE i = Len(acked) + 1
      <4>1. PICK b \in BufIds : b = netBuf
        BY <2>1
      <4>2. InLog(b)'
        BY <2>1, <2>3, <4>1 DEF InLog
      <4>3. start[b] \in Nat /\ buf[b].len \in Nat
        BY <4>1, LogFacts
      <4>4. start'[b] = start[b] /\ buf'[b].len = buf[b].len + 1
        BY <2>2, <2>3, <4>1
      <4>5. start[b] + buf[b].len = Len(acked)
        BY <2>5, <4>1
      <4>6. i - start'[b] = buf'[b].len /\ buf'[b].len \in 1..buf'[b].len
        BY <3>2, <4>3, <4>4, <4>5
      <4>7. QED BY <4>2, <4>6
    <3>3. QED BY <2>3, <2>4, <3>1, <3>2, LogFacts
  <2>12. QED BY <2>10, <2>11 DEF Covered
<1>10. ASSUME NEW t \in Tx, TxWrite(t) PROVE Stretches' /\ Covered'
  <2> DEFINE b == Last(txBuffers[t])
  <2>1. b \in BufIds /\ owner[b] = "tx"
    <3>1. txBuffers[t] \in Seq(BufIds) /\ txBuffers[t] # <<>> /\ Holds(txBuffers[t], "tx")
      BY <1>0, <1>t, <1>10 DEF TxWrite, HasRoom, Containers
    <3>2. QED BY <3>1 DEF Last, Holds
  <2>2. /\ \A c \in BufIds : c # b => buf'[c] = buf[c]
        /\ UNCHANGED <<activeBuffers, owner, start, acked, applied, monPc, monBuf>>
    BY <1>t, <1>10 DEF TxWrite, mgrVars, monVars, histVars
  <2> HIDE DEF b
  <2>3. QED BY <2>1, <2>2, OrderFrame DEF InLog
<1>11. ASSUME NEW t \in Tx, TxWriteNewBuffer(t) PROVE Stretches' /\ Covered'
  <2> DEFINE n == created + 1
  <2>1. n \in BufIds /\ owner[n] = "free"
    BY <1>0, <1>11, BoundsAssumption
    DEF TxWriteNewBuffer, Containers, BufIds, TypeOK, ObjType
  <2>2. /\ owner'[n] = "tx"
        /\ \A b \in BufIds : b # n => buf'[b] = buf[b] /\ owner'[b] = owner[b]
    BY <1>t, <1>11, <2>1 DEF TxWriteNewBuffer
  <2>3. UNCHANGED <<activeBuffers, start, acked, applied, monPc, monBuf>>
    BY <1>11 DEF TxWriteNewBuffer, mgrVars, monVars
  <2> HIDE DEF n
  <2>4. QED BY <2>1, <2>2, <2>3, OrderFrame DEF InLog
<1>12. ASSUME NEW t \in Tx
       PROVE  \A b \in ToSet(txBuffers[t]) : owner[b] = "tx"
  BY <1>0, <1>t DEF Containers, Holds, ToSet
<1>13. ASSUME NEW t \in Tx, Rollback(t) PROVE Stretches' /\ Covered'
  <2>1. \A b \in BufIds : owner'[b] = IF b \in ToSet(txBuffers[t]) THEN "deleted"
                                      ELSE owner[b]
    BY <1>13 DEF Rollback
  <2>2. \A b \in BufIds : InLog(b)' <=> InLog(b)
    BY <1>12, <2>1 DEF InLog
  <2>3. QED BY <1>13, <2>2, OrderFrame DEF Rollback, mgrVars, monVars
<1>14. ASSUME NEW t \in Tx, Commit(t) PROVE Stretches' /\ Covered'
  <2>1. \A b \in BufIds : owner'[b] = IF b \in ToSet(txBuffers[t]) THEN "writer"
                                      ELSE owner[b]
    BY <1>14 DEF Commit
  <2>2. \A b \in BufIds : InLog(b)' <=> InLog(b)
    BY <1>12, <2>1 DEF InLog
  <2>3. QED BY <1>14, <2>2, OrderFrame DEF Commit, mgrVars, monVars, objVars
<1>16. CASE AddBuffersNext
  <2>0. netAdd # <<>>
    BY <1>16 DEF AddBuffersNext
  <2>1. Head(netAdd) \in BufIds /\ owner[Head(netAdd)] = "writer"
    BY <1>0, <1>t, <2>0 DEF Containers, Holds
  <2>2. PICK h \in BufIds : h = Head(netAdd)
    BY <2>1
  <2>3. /\ activeBuffers' = Append(activeBuffers, h)
        /\ buf' = [buf EXCEPT ![h].ctl = Len(control.recs) + 1]
        /\ owner' = [owner EXCEPT ![h] = "active"]
        /\ start' = [start EXCEPT ![h] = Len(acked)]
        /\ acked' = acked \o Contents(h)
        /\ UNCHANGED <<applied, monPc, monBuf>>
    BY <1>16, <2>2 DEF AddBuffersNext, monVars
  <2>4. \A b \in BufIds : buf'[b].pos = buf[b].pos /\ buf'[b].len = buf[b].len
    BY <1>t, <2>3 DEF BufferRec
  <2>5. Len(acked') = Len(acked) + buf[h].len
    <3>1. /\ Contents(h) \in Seq(Op \cup {None}) /\ Len(Contents(h)) = buf[h].len
          /\ acked \in Seq(Op \cup {None})
      BY <1>0, LogFacts, ContentsLemma DEF TypeOK
    <3>2. QED BY <2>3, <3>1, ConcatProperties
  <2>6. QED BY <2>1, <2>2, <2>3, <2>4, <2>5, AppendStretch
<1>19. CASE FlushWake
  BY <1>19, OrderFrame DEF FlushWake, InLog, mgrVars, histVars, objVars
<1>20. CASE FlushPop
  <2> DEFINE h == Head(activeBuffers)
  <2>0. Len(activeBuffers) > 1 /\ activeBuffers # <<>>
    BY <1>0, <1>20 DEF FlushPop, Control
  <2>1. h = activeBuffers[1] /\ h \in BufIds /\ owner[h] = "active"
    BY <1>t, <2>0, LogFacts
  <2>2. /\ buf' = [buf EXCEPT ![h].pos = 0] /\ activeBuffers' = Tail(activeBuffers)
        /\ owner' = [owner EXCEPT ![h] = "monitor"]
        /\ monPc = "pop" /\ monPc' = "flush" /\ monBuf' = h
        /\ UNCHANGED <<start, acked, applied>>
    BY <1>20 DEF FlushPop
  <2> HIDE DEF h
  <2>3. /\ buf'[h].pos = 0 /\ \A b \in BufIds : buf'[b].len = buf[b].len
        /\ \A b \in BufIds : InLog(b)' <=> InLog(b)
    BY <1>t, <2>1, <2>2 DEF BufferRec, InLog
  <2>4. /\ Len(activeBuffers') = Len(activeBuffers) - 1 /\ activeBuffers' # <<>>
        /\ Last(activeBuffers') = Last(activeBuffers)
        /\ activeBuffers'[1] = activeBuffers[2]
        /\ \A i \in 1..Len(activeBuffers') : activeBuffers'[i] = activeBuffers[i + 1]
    BY <1>t, <2>0, <2>2, TailLast
  <2>5. start[h] = Len(applied)
    BY <1>0, <2>0, <2>1, <2>2 DEF Stretches
  <2>6. start[activeBuffers[2]] = start[h] + buf[h].len
    <3>1. 1 \in 1..Len(activeBuffers) - 1 /\ 1 + 1 = 2
      BY <2>0, LogFacts
    <3>2. QED BY <1>0, <2>1, <3>1 DEF Stretches
  <2>7. ASSUME NEW i \in 1..Len(activeBuffers') - 1
        PROVE  start'[activeBuffers'[i + 1]] =
                 start'[activeBuffers'[i]] + buf'[activeBuffers'[i]].len
    <3>1. /\ i \in 1..Len(activeBuffers') /\ i + 1 \in 1..Len(activeBuffers')
          /\ i + 1 \in 1..Len(activeBuffers) - 1 /\ i + 1 \in 1..Len(activeBuffers)
      BY <2>4, LogFacts
    <3>2. /\ activeBuffers'[i] = activeBuffers[i + 1]
          /\ activeBuffers'[i + 1] = activeBuffers[(i + 1) + 1]
          /\ activeBuffers[i + 1] \in BufIds
      BY <2>4, <3>1, LogFacts
    <3>3. QED BY <1>0, <2>2, <2>3, <3>1, <3>2 DEF Stretches
  <2>8. Last(activeBuffers) \in BufIds
    BY <2>0, LogFacts
  <2>9. Stretches'
    <3>1. \A b \in BufIds : InLog(b)' => start'[b] + buf'[b].len <= Len(acked')
      BY <1>0, <2>2, <2>3 DEF Stretches
    <3>2. start'[Last(activeBuffers')] + buf'[Last(activeBuffers')].len = Len(acked')
      BY <1>0, <2>0, <2>2, <2>3, <2>4, <2>8 DEF Stretches
    <3>3. /\ start'[monBuf'] + buf'[monBuf'].pos = Len(applied')
          /\ start'[activeBuffers'[1]] = start'[monBuf'] + buf'[monBuf'].len
      BY <2>1, <2>2, <2>3, <2>4, <2>5, <2>6, LogFacts
    <3>4. QED BY <2>2, <2>4, <2>7, <3>1, <3>2, <3>3 DEF Stretches
  <2>10. Covered'
    BY <1>0, <2>2, <2>3 DEF Covered
  <2>11. QED BY <2>9, <2>10
<1>21. CASE FlushApply
  <2>1. monBuf \in BufIds /\ owner[monBuf] = "monitor" /\ monPc = "flush"
    BY <1>0, <1>t, <1>21 DEF FlushApply, Control
  <2>2. /\ buf'[monBuf].pos = buf[monBuf].pos + 1
        /\ \A b \in BufIds : buf'[b].len = buf[b].len
    BY <1>t, <1>21, <2>1 DEF FlushApply, BufferRec
  <2>3. UNCHANGED <<activeBuffers, owner, start, acked, monPc, monBuf>>
    BY <1>21 DEF FlushApply, mgrVars, monVars
  <2>4. Len(applied') = Len(applied) + 1
    BY <1>21, LogFacts DEF FlushApply
  <2>5. \A b \in BufIds : InLog(b)' <=> InLog(b)
    BY <2>3 DEF InLog
  <2>6. activeBuffers # <<>>
    BY <1>0, <2>1 DEF Stretches
  <2>7. \A i \in 1..Len(activeBuffers) - 1 :
          start'[activeBuffers'[i + 1]] =
            start'[activeBuffers'[i]] + buf'[activeBuffers'[i]].len
    <3>1. \A i \in 1..Len(activeBuffers) - 1 : i \in 1..Len(activeBuffers)
      BY LogFacts
    <3>2. QED BY <1>0, <2>2, <2>3, <3>1, LogFacts DEF Stretches
  <2>8. Stretches'
    <3>1. \A b \in BufIds : InLog(b)' => start'[b] + buf'[b].len <= Len(acked')
      BY <1>0, <2>2, <2>3, <2>5 DEF Stretches
    <3>2. start'[Last(activeBuffers')] + buf'[Last(activeBuffers')].len = Len(acked')
      BY <1>0, <2>2, <2>3, <2>6, LogFacts DEF Stretches
    <3>3. /\ start'[monBuf'] + buf'[monBuf'].pos = Len(applied')
          /\ start'[activeBuffers'[1]] = start'[monBuf'] + buf'[monBuf'].len
      <4>1. /\ start[monBuf] + buf[monBuf].pos = Len(applied)
            /\ start[activeBuffers[1]] = start[monBuf] + buf[monBuf].len
        BY <1>0, <2>1 DEF Stretches
      <4>n. start[monBuf] \in Nat /\ buf[monBuf].pos \in Nat
        BY <2>1, LogFacts
      <4>2. /\ monBuf' = monBuf /\ start' = start /\ activeBuffers' = activeBuffers
            /\ buf'[monBuf].pos = buf[monBuf].pos + 1
            /\ buf'[monBuf].len = buf[monBuf].len
        BY <2>1, <2>2, <2>3
      <4>3. start[monBuf] + (buf[monBuf].pos + 1) = Len(applied) + 1
        BY <4>1, <4>n
      <4>4. QED BY <2>4, <4>1, <4>2, <4>3
    <3>4. QED BY <2>1, <2>3, <2>6, <2>7, <3>1, <3>2, <3>3 DEF Stretches
  <2>9. Covered'
    <3>1. \A i \in (Len(applied') + 1)..Len(acked') :
            i \in (Len(applied) + 1)..Len(acked)
      BY <2>3, <2>4, LogFacts
    <3>2. QED BY <1>0, <2>2, <2>3, <2>5, <3>1 DEF Covered
  <2>10. QED BY <2>8, <2>9
<1>22. CASE FlushRecycle
  <2>1. /\ monPc = "flush" /\ monPc' # "flush" /\ Eof(buf[monBuf])
        /\ owner' = [owner EXCEPT ![monBuf] = "reusable"]
        /\ UNCHANGED <<activeBuffers, start, acked, applied>>
    BY <1>22 DEF FlushRecycle
  <2>2. \A b \in BufIds : b # monBuf => buf'[b] = buf[b]
    BY <1>t, <1>22 DEF FlushRecycle
  <2>3. QED BY <2>1, <2>2, RetireStretch
<1>23. CASE FlushRegister
  <2>1. monBuf \in BufIds /\ buf[monBuf].len = 0
    BY <1>0, <1>t, <1>23 DEF FlushRegister, Control, Cursors
  <2>2. buf[monBuf].pos = 0
    BY <2>1, LogFacts
  <2>3. /\ buf'[monBuf].pos = 0 /\ buf'[monBuf].len = 0
        /\ \A b \in BufIds : b # monBuf => buf'[b] = buf[b]
    BY <1>t, <1>23, <2>1, ResetLemma DEF FlushRegister
  <2>4. /\ UNCHANGED <<activeBuffers, owner, start, acked, applied>>
        /\ monPc = "register" /\ monPc' = "wait"
    BY <1>23 DEF FlushRegister, mgrVars, histVars
  <2>5. QED BY <2>1, <2>2, <2>3, <2>4, OrderFrame DEF InLog
<1>24. CASE FlushDrop
  <2>1. /\ monPc = "flush" /\ monPc' # "flush" /\ Eof(buf[monBuf])
        /\ owner' = [owner EXCEPT ![monBuf] = "deleted"]
        /\ UNCHANGED <<activeBuffers, start, acked, applied, buf>>
    BY <1>24 DEF FlushDrop, mgrVars
  <2>2. QED BY <2>1, RetireStretch
<1> QED
  BY <1>1, <1>2, <1>4, <1>5, <1>6, <1>8, <1>9, <1>10, <1>11, <1>13, <1>14,
     <1>16, <1>19, <1>20, <1>21, <1>22, <1>23, <1>24
  DEF Next, Request, NetStep, MonStep

=============================================================================
