--------------------------- MODULE TxLogTheorems ---------------------------
(***************************************************************************)
(* The contents of the buffers, where every buffer is, which log file it   *)
(* maps and what may reach the controller; and the theorems about the      *)
(* write-ahead log for every number of transactions, buffer size and       *)
(* number of operations.                                                   *)
(***************************************************************************)
EXTENDS TxBufferManagerProofs, FiniteSetTheorems

(* Steps that write nothing into a mapped file.                            *)
LEMMA IntactFrame ==
  ASSUME Intact, UNCHANGED <<clash, disk, acked, applied>>,
         \A b \in BufIds :
           /\ Live(b)' => /\ Live(b)
                          /\ buf'[b].file = buf[b].file
                          /\ buf'[b].slot = buf[b].slot
           /\ InLog(b)' => \/ buf'[b].len = 0
                           \/ /\ InLog(b) /\ buf'[b].len = buf[b].len
                              /\ start'[b] = start[b]
  PROVE  Intact'
<1> SUFFICES ASSUME ~clash' PROVE
      /\ \A b, c \in BufIds :
           Live(b)' /\ Live(c)' /\ SameRegion(b, buf[c].file, buf[c].slot)' => b = c
      /\ \A b \in BufIds : InLog(b)' =>
           \A j \in 1..buf'[b].len :
             disk'[buf'[b].file][buf'[b].slot][j] = acked'[start'[b] + j]
      /\ \A i \in 1..Len(applied') : applied'[i] = acked'[i]
  BY DEF Intact
<1>1. \A b, c \in BufIds :
        Live(b)' /\ Live(c)' /\ SameRegion(b, buf[c].file, buf[c].slot)' => b = c
  BY DEF Intact, SameRegion
<1>2. ASSUME NEW b \in BufIds, InLog(b)', NEW j \in 1..buf'[b].len
      PROVE  disk'[buf'[b].file][buf'[b].slot][j] = acked'[start'[b] + j]
  <2>1. Live(b)'
    BY <1>2 DEF InLog, Live
  <2>2. CASE buf'[b].len = 0
    BY <2>2
  <2>3. CASE InLog(b) /\ buf'[b].len = buf[b].len /\ start'[b] = start[b]
    BY <2>1, <2>3 DEF Intact
  <2>4. QED BY <1>2, <2>2, <2>3
<1>3. QED BY <1>1, <1>2 DEF Intact

(* A buffer that no other live one overlaps joins, or a live one is        *)
(* written at its cursor: the rest of the log keeps its contents.          *)
LEMMA IntactStep == IndInv /\ [Next]_vars => Intact'
<1> SUFFICES ASSUME IndInv, [Next]_vars PROVE Intact' OBVIOUS
<1>0. TypeOK /\ Containers /\ Control /\ Cursors /\ Stretches /\ Intact
  BY DEF IndInv
<1>t. /\ activeBuffers \in Seq(BufIds) /\ reusableBuffers \in Seq(BufIds)
      /\ netAdd \in Seq(BufIds) /\ txBuffers \in [Tx -> Seq(BufIds)]
      /\ owner \in [BufIds -> Owners] /\ buf \in [BufIds -> BufferRec]
      /\ netBuf \in BufIds \cup {0} /\ monBuf \in BufIds \cup {0}
      /\ 0 \notin BufIds /\ start \in [BufIds -> Nat]
  BY <1>0 DEF TypeOK, MgrType, NetType, TxType, ObjType, HistType, MonType, BufIds
<1>b. \A b \in BufIds : /\ buf[b].file \in File /\ buf[b].slot \in Slots
                        /\ buf[b].len \in 0..BufCap
  BY <1>t DEF BufferRec
<1>1. CASE UNCHANGED vars
  BY <1>0, <1>1, IntactFrame DEF InLog, Live, vars, histVars, objVars
<1>2. CASE \/ RequestWrite \/ GetBufferTail \/ AddBufferNotify \/ AddBuffersLock
           \/ AddBuffersUnlock \/ FinishCommit \/ FlushWake
  BY <1>0, <1>2, IntactFrame DEF RequestWrite, GetBufferTail, AddBufferNotify,
     AddBuffersLock, AddBuffersUnlock, FinishCommit, FlushWake, InLog, Live,
     histVars, objVars
<1>4. CASE GetBufferReuse
  <2> DEFINE h == Head(reusableBuffers)
  <2>1. h \in BufIds /\ owner[h] = "reusable"
    BY <1>0, <1>t, <1>4 DEF GetBufferReuse, Containers, Holds
  <2>2. /\ owner'[h] = "writer"
        /\ buf'[h].file = buf[h].file /\ buf'[h].slot = buf[h].slot
        /\ \A b \in BufIds : b # h => buf'[b] = buf[b] /\ owner'[b] = owner[b]
    BY <1>t, <1>4, <2>1, ResetLemma DEF GetBufferReuse
  <2>3. UNCHANGED <<disk, clash, start, acked, applied>>
    BY <1>4 DEF GetBufferReuse
  <2> HIDE DEF h
  <2>4. QED BY <1>0, <2>1, <2>2, <2>3, IntactFrame DEF InLog, Live
<1>6. CASE AddBuffer
  <2>1. netBuf \in BufIds /\ owner[netBuf] = "writer" /\ buf[netBuf].len = 0
    BY <1>0, <1>t, <1>6 DEF AddBuffer, Control, Cursors
  <2>2. \A b \in BufIds : b # netBuf => owner'[b] = owner[b] /\ start'[b] = start[b]
    BY <1>t, <1>6 DEF AddBuffer
  <2>3. UNCHANGED <<disk, buf, clash, acked, applied>>
    BY <1>6 DEF AddBuffer, objVars
  <2>4. QED BY <1>0, <2>1, <2>2, <2>3, IntactFrame DEF InLog, Live
<1>8. CASE Register
  <2>1. netBuf \in BufIds /\ buf[netBuf].len = 0
    BY <1>0, <1>t, <1>8 DEF Register, Control, Cursors
  <2>2. /\ buf'[netBuf].len = 0
        /\ buf'[netBuf].file = buf[netBuf].file
        /\ buf'[netBuf].slot = buf[netBuf].slot
    BY <1>t, <1>8, <2>1, ResetLemma DEF Register, BufferRec
  <2>3. /\ \A b \in BufIds : b # netBuf => buf'[b] = buf[b]
        /\ UNCHANGED <<disk, clash, owner, start, acked, applied>>
    BY <1>t, <1>8 DEF Register, histVars
  <2>4. QED BY <1>0, <2>1, <2>2, <2>3, IntactFrame DEF InLog, Live
<1>12. ASSUME NEW t \in Tx
       PROVE  \A b \in ToSet(txBuffers[t]) : owner[b] = "tx"
  BY <1>0, <1>t DEF Containers, Holds, ToSet
<1>13. ASSUME NEW t \in Tx, Rollback(t) PROVE Intact'
  <2>1. \A b \in BufIds : owner'[b] = IF b \in ToSet(txBuffers[t]) THEN "deleted"
                                      ELSE owner[b]
    BY <1>13 DEF Rollback
  <2>2. \A b \in BufIds : (Live(b)' => Live(b)) /\ (InLog(b)' => InLog(b))
    BY <2>1 DEF InLog, Live
  <2>3. QED BY <1>0, <1>13, <2>2, IntactFrame DEF Rollback
<1>14. ASSUME NEW t \in Tx, Commit(t) PROVE Intact'
  <2>1. \A b \in BufIds : owner'[b] = IF b \in ToSet(txBuffers[t]) THEN "writer"
                                      ELSE owner[b]
    BY <1>14 DEF Commit
  <2>2. \A b \in BufIds : (Live(b)' => Live(b)) /\ (InLog(b)' => InLog(b))
    BY <1>12, <2>1 DEF InLog, Live
  <2>3. QED BY <1>0, <1>14, <2>2, IntactFrame DEF Commit, objVars
<1>20. CASE FlushPop
  <2> DEFINE h == Head(activeBuffers)
  <2>0. activeBuffers # <<>>
    BY <1>0, <1>20 DEF FlushPop, Control
  <2>1. h \in BufIds /\ owner[h] = "active"
    BY <1>0, <1>t, <2>0 DEF Containers, Holds
  <2>2. /\ buf' = [buf EXCEPT ![h].pos = 0]
        /\ owner' = [owner EXCEPT ![h] = "monitor"]
        /\ UNCHANGED <<disk, clash, start, acked, applied>>
    BY <1>20 DEF FlushPop
  <2> HIDE DEF h
  <2>3. \A b \in BufIds :
          /\ buf'[b].len = buf[b].len /\ buf'[b].file = buf[b].file
          /\ buf'[b].slot = buf[b].slot
          /\ Live(b)' <=> Live(b)
          /\ InLog(b)' <=> InLog(b)
    BY <1>t, <2>1, <2>2 DEF BufferRec, InLog, Live
  <2>4. QED BY <1>0, <2>2, <2>3, IntactFrame
<1>22. CASE FlushRecycle
  <2>1. monBuf \in BufIds /\ owner[monBuf] = "monitor"
    BY <1>0, <1>t, <1>22 DEF FlushRecycle, Control
  <2>2. /\ buf'[monBuf].file = buf[monBuf].file
        /\ buf'[monBuf].slot = buf[monBuf].slot
        /\ owner'[monBuf] = "reusable"
        /\ \A b \in BufIds : b # monBuf => buf'[b] = buf[b] /\ owner'[b] = owner[b]
    BY <1>t, <1>22, <2>1, ResetLemma DEF FlushRecycle
  <2>3. UNCHANGED <<disk, clash, start, acked, applied>>
    BY <1>22 DEF FlushRecycle
  <2>4. QED BY <1>0, <2>1, <2>2, <2>3, IntactFrame DEF InLog, Live
<1>23. CASE FlushRegister
  <2>1. monBuf \in BufIds
    BY <1>0, <1>t, <1>23 DEF FlushRegister, Control
  <2>2. /\ buf'[monBuf].file = buf[monBuf].file
        /\ buf'[monBuf].slot = buf[monBuf].slot /\ buf'[monBuf].len = 0
        /\ \A b \in BufIds : b # monBuf => buf'[b] = buf[b]
    BY <1>t, <1>23, <2>1, ResetLemma DEF FlushRegister
  <2>3. UNCHANGED <<disk, clash, owner, start, acked, applied>>
    BY <1>23 DEF FlushRegister, histVars
  <2>4. QED BY <1>0, <2>1, <2>2, <2>3, IntactFrame DEF InLog, Live
<1>24. CASE FlushDrop
  <2>1. monBuf \in BufIds /\ owner[monBuf] = "monitor"
    BY <1>0, <1>t, <1>24 DEF FlushDrop, Control
  <2>2. /\ owner'[monBuf] = "deleted"
        /\ \A b \in BufIds : b # monBuf => owner'[b] = owner[b]
    BY <1>t, <1>24, <2>1 DEF FlushDrop
  <2>3. UNCHANGED <<disk, buf, clash, start, acked, applied>>
    BY <1>24 DEF FlushDrop
  <2>4. QED BY <1>0, <2>1, <2>2, <2>3, IntactFrame DEF InLog, Live
<1>5. CASE GetBufferCreate
  <2> DEFINE n == created + 1
  <2> SUFFICES ASSUME ~clash' PROVE Intact' BY DEF Intact
  <2>1. n \in BufIds /\ owner[n] = "free"
    BY <1>0, <1>5, BoundsAssumption
    DEF GetBufferCreate, Containers, BufIds, TypeOK, ObjType
  <2>2. /\ owner'[n] = "writer"
        /\ buf'[n].file = Main /\ buf'[n].slot = NewSlot
        /\ \A b \in BufIds : b # n => buf'[b] = buf[b] /\ owner'[b] = owner[b]
    BY <1>t, <1>5, <2>1 DEF GetBufferCreate, NewBuffer
  <2>3. ~clash /\ \A b \in BufIds : Live(b) => ~SameRegion(b, Main, NewSlot)
    BY <1>5 DEF GetBufferCreate
  <2>4. UNCHANGED <<disk, start, acked, applied>>
    BY <1>5 DEF GetBufferCreate
  <2> HIDE DEF n
  <2>5. \A b, c \in BufIds :
          Live(b)' /\ Live(c)' /\ SameRegion(b, buf[c].file, buf[c].slot)' => b = c
    BY <1>0, <2>1, <2>2, <2>3 DEF Intact, Live, SameRegion
  <2>6. \A b \in BufIds : InLog(b)' =>
          \A j \in 1..buf'[b].len :
            disk'[buf'[b].file][buf'[b].slot][j] = acked'[start'[b] + j]
    BY <1>0, <2>1, <2>2, <2>3, <2>4 DEF Intact, InLog
  <2>7. QED BY <1>0, <2>3, <2>4, <2>5, <2>6 DEF Intact
<1>w. ASSUME ~clash, NEW r \in BufferRec, r.pos < BufCap, NEW op \in Op \cup {None},
             disk' = WrittenDisk(r, op),
             NEW b \in BufIds, InLog(b), ~SameRegion(b, r.file, r.slot),
             NEW j \in 1..buf[b].len
      PROVE  disk'[buf[b].file][buf[b].slot][j] = acked[start[b] + j]
  <2>1. j \in 1..BufCap
    BY <1>b, BufCapAssumption
  <2>2. disk'[buf[b].file][buf[b].slot][j] = disk[buf[b].file][buf[b].slot][j]
    BY <1>0, <1>b, <1>w, <2>1, WrittenDiskLemma DEF SameRegion, TypeOK
  <2>3. QED BY <1>0, <1>w, <2>2 DEF Intact
<1>9. CASE WriteOperation
  <2> SUFFICES ASSUME ~clash' PROVE Intact' BY DEF Intact
  <2>0. activeBuffers # <<>> /\ netBuf = Last(activeBuffers)
    BY <1>0, <1>9 DEF WriteOperation, Control
  <2>1. netBuf \in BufIds /\ owner[netBuf] = "active" /\ buf[netBuf] \in BufferRec
    BY <1>t, <2>0, LogFacts
  <2>2. /\ buf[netBuf].pos = buf[netBuf].len /\ buf[netBuf].len < BufCap
        /\ buf[netBuf].len \in Nat
    BY <1>0, <1>9, <2>1, LogFacts DEF WriteOperation, Cursors, Live
  <2>3. /\ buf'[netBuf].len = buf[netBuf].len + 1
        /\ \A b \in BufIds : /\ buf'[b].file = buf[b].file
                             /\ buf'[b].slot = buf[b].slot
                             /\ b # netBuf => buf'[b].len = buf[b].len
    BY <1>t, <1>9, <2>1, <2>2 DEF WriteOperation, Written, BufferRec
  <2>4. /\ netOp \in Op \cup {None} /\ disk' = WrittenDisk(buf[netBuf], netOp)
        /\ acked' = Append(acked, netOp)
        /\ UNCHANGED <<owner, start, applied, clash>>
    BY <1>0, <1>9 DEF WriteOperation, TypeOK, NetType
  <2>5. \A i \in 1..Len(acked) : acked'[i] = acked[i]
    BY <2>4, LogFacts
  <2>6. acked'[Len(acked) + 1] = netOp
    BY <2>4, LogFacts
  <2>7. \A b, c \in BufIds :
          Live(b)' /\ Live(c)' /\ SameRegion(b, buf[c].file, buf[c].slot)' => b = c
    BY <1>0, <2>3, <2>4 DEF Intact, Live, SameRegion
  <2>8. ASSUME NEW b \in BufIds, InLog(b)', NEW j \in 1..buf'[b].len
        PROVE  disk'[buf'[b].file][buf'[b].slot][j] = acked'[start'[b] + j]
    <3>0. InLog(b) /\ start[b] \in Nat /\ buf[b].len \in Nat /\ Len(acked) \in Nat
          /\ start[b] + buf[b].len <= Len(acked)
      BY <1>0, <2>4, <2>8, LogFacts DEF InLog, Stretches
    <3>1. CASE b # netBuf
      <4>1. ~SameRegion(b, buf[netBuf].file, buf[netBuf].slot)
        BY <1>0, <2>1, <2>4, <3>0, <3>1 DEF Intact, InLog, Live
      <4>2. j \in 1..buf[b].len
        BY <2>3, <3>1
      <4>3. disk'[buf[b].file][buf[b].slot][j] = acked[start[b] + j]
        BY <1>w, <2>1, <2>2, <2>4, <3>0, <4>1, <4>2
      <4>4. start[b] + j \in 1..Len(acked)
        BY <3>0, <4>2
      <4>5. QED BY <2>3, <2>4, <2>5, <4>3, <4>4
    <3>2. CASE b = netBuf /\ j = buf[netBuf].len + 1
      <4>1. start[b] + j = Len(acked) + 1
        <5>1. start[netBuf] + buf[netBuf].len = Len(acked)
          BY <1>0, <2>0 DEF Stretches
        <5>2. QED BY <3>0, <3>2, <5>1
      <4>2. disk'[buf[b].file][buf[b].slot][j] = netOp
        BY <1>0, <2>1, <2>2, <2>4, <3>2, WrittenDiskLemma DEF TypeOK
      <4>3. QED BY <2>3, <2>4, <2>6, <4>1, <4>2
    <3>3. CASE b = netBuf /\ j # buf[netBuf].len + 1
      <4>1. j \in 1..buf[b].len /\ j \in 1..BufCap
        BY <2>2, <2>3, <3>3, BufCapAssumption
      <4>2. disk'[buf[b].file][buf[b].slot][j] = disk[buf[b].file][buf[b].slot][j]
        BY <1>0, <1>b, <2>1, <2>2, <2>4, <3>3, <4>1, WrittenDiskLemma DEF TypeOK
      <4>3. disk[buf[b].file][buf[b].slot][j] = acked[start[b] + j]
        BY <1>0, <2>4, <3>0, <4>1 DEF Intact
      <4>4. start[b] + j \in 1..Len(acked)
        BY <3>0, <4>1
      <4>5. QED BY <2>3, <2>4, <2>5, <4>2, <4>3, <4>4
    <3>4. QED BY <3>1, <3>2, <3>3
  <2>9. \A i \in 1..Len(applied') : applied'[i] = acked'[i]
    <3>1. \A i \in 1..Len(applied) : i \in 1..Len(acked)
      BY LogFacts, AppliedBound
    <3>2. QED BY <1>0, <2>4, <2>5, <3>1 DEF Intact
  <2>10. QED BY <2>7, <2>8, <2>9 DEF Intact
<1>10. ASSUME NEW t \in Tx, TxWrite(t) PROVE Intact'
  <2> DEFINE m == Last(txBuffers[t])
             op == [n |-> issued + 1, tx |-> t]
  <2> SUFFICES ASSUME ~clash' PROVE Intact' BY DEF Intact
  <2>1. m \in BufIds /\ owner[m] = "tx" /\ buf[m] \in BufferRec
    <3>1. txBuffers[t] \in Seq(BufIds) /\ txBuffers[t] # <<>> /\ Holds(txBuffers[t], "tx")
      BY <1>0, <1>t, <1>10 DEF TxWrite, HasRoom, Containers
    <3>2. QED BY <1>t, <3>1 DEF Last, Holds
  <2>2. buf[m].pos < BufCap
    BY <1>10, <2>1, BufCapAssumption DEF TxWrite, HasRoom, BufferRec
  <2>3. op \in Op
    BY <1>0, <1>10, BoundsAssumption DEF TxWrite, Op, File, TypeOK
  <2>4. /\ disk' = WrittenDisk(buf[m], op)
        /\ buf' = [buf EXCEPT ![m] = Written(@)]
        /\ UNCHANGED <<owner, start, acked, applied, clash>>
    BY <1>10 DEF TxWrite, histVars
  <2> HIDE DEF m, op
  <2>5. \A b \in BufIds : /\ buf'[b].file = buf[b].file
                          /\ buf'[b].slot = buf[b].slot
                          /\ b # m => buf'[b].len = buf[b].len
    BY <1>t, <2>1, <2>4 DEF Written, BufferRec
  <2>6. \A b, c \in BufIds :
          Live(b)' /\ Live(c)' /\ SameRegion(b, buf[c].file, buf[c].slot)' => b = c
    BY <1>0, <2>4, <2>5 DEF Intact, Live, SameRegion
  <2>7. ASSUME NEW b \in BufIds, InLog(b)', NEW j \in 1..buf'[b].len
        PROVE  disk'[buf'[b].file][buf'[b].slot][j] = acked'[start'[b] + j]
    <3>1. InLog(b) /\ b # m
      BY <2>1, <2>4, <2>7 DEF InLog
    <3>2. ~SameRegion(b, buf[m].file, buf[m].slot)
      BY <1>0, <2>1, <2>4, <3>1 DEF Intact, InLog, Live
    <3>3. disk'[buf[b].file][buf[b].slot][j] = acked[start[b] + j]
      BY <1>w, <2>1, <2>2, <2>3, <2>4, <2>5, <3>1, <3>2
    <3>4. QED BY <2>4, <2>5, <3>3
  <2>8. QED BY <1>0, <2>4, <2>6, <2>7 DEF Intact
<1>11. ASSUME NEW t \in Tx, TxWriteNewBuffer(t) PROVE Intact'
  <2> DEFINE n == created + 1
             r == NewBuffer(t, Len(txBuffers[t]))
             op == [n |-> issued + 1, tx |-> t]
  <2> SUFFICES ASSUME ~clash' PROVE Intact' BY DEF Intact
  <2>1. n \in BufIds /\ owner[n] = "free"
    BY <1>0, <1>11, BoundsAssumption
    DEF TxWriteNewBuffer, Containers, BufIds, TypeOK, ObjType
  <2>2. r \in BufferRec /\ r.pos < BufCap
    BY <1>11, BufCapAssumption DEF TxWriteNewBuffer, NewBuffer, BufferRec, File
  <2>3. op \in Op
    BY <1>0, <1>11, BoundsAssumption DEF TxWriteNewBuffer, Op, File, TypeOK
  <2>4. /\ disk' = WrittenDisk(r, op)
        /\ buf' = [buf EXCEPT ![n] = Written(r)]
        /\ owner' = [owner EXCEPT ![n] = "tx"]
        /\ UNCHANGED <<start, acked, applied>>
    BY <1>11 DEF TxWriteNewBuffer
  <2>5. ~clash /\ \A b \in BufIds : Live(b) => ~SameRegion(b, r.file, r.slot)
    BY <1>11 DEF TxWriteNewBuffer, NewBuffer
  <2> HIDE DEF n, r, op
  <2>6. /\ owner'[n] = "tx" /\ buf'[n].file = r.file /\ buf'[n].slot = r.slot
        /\ \A b \in BufIds : b # n => buf'[b] = buf[b] /\ owner'[b] = owner[b]
    BY <1>t, <2>1, <2>2, <2>4 DEF Written, BufferRec
  <2>7. \A b, c \in BufIds :
          Live(b)' /\ Live(c)' /\ SameRegion(b, buf[c].file, buf[c].slot)' => b = c
    BY <1>0, <2>1, <2>5, <2>6 DEF Intact, Live, SameRegion
  <2>8. ASSUME NEW b \in BufIds, InLog(b)', NEW j \in 1..buf'[b].len
        PROVE  disk'[buf'[b].file][buf'[b].slot][j] = acked'[start'[b] + j]
    <3>1. InLog(b) /\ b # n /\ Live(b)
      BY <2>1, <2>6, <2>8 DEF InLog, Live
    <3>2. disk'[buf[b].file][buf[b].slot][j] = acked[start[b] + j]
      BY <1>w, <2>2, <2>3, <2>4, <2>5, <2>6, <3>1
    <3>3. QED BY <2>4, <2>6, <3>1, <3>2
  <2>9. QED BY <1>0, <2>4, <2>5, <2>7, <2>8 DEF Intact
<1>16. CASE AddBuffersNext
  <2> SUFFICES ASSUME ~clash' PROVE Intact' BY DEF Intact
  <2>0. netAdd # <<>>
    BY <1>16 DEF AddBuffersNext
  <2>1. Head(netAdd) \in BufIds /\ owner[Head(netAdd)] = "writer"
    BY <1>0, <1>t, <2>0 DEF Containers, Holds
  <2>2. PICK h \in BufIds : h = Head(netAdd)
    BY <2>1
  <2>3. /\ buf' = [buf EXCEPT ![h].ctl = Len(control.recs) + 1]
        /\ owner' = [owner EXCEPT ![h] = "active"]
        /\ start' = [start EXCEPT ![h] = Len(acked)]
        /\ acked' = acked \o Contents(h)
        /\ UNCHANGED <<disk, applied, clash>>
    BY <1>16, <2>2 DEF AddBuffersNext
  <2>4. \A b \in BufIds : /\ buf'[b].len = buf[b].len /\ buf'[b].file = buf[b].file
                          /\ buf'[b].slot = buf[b].slot
    BY <1>t, <2>3 DEF BufferRec
  <2>5. /\ owner[h] = "writer" /\ start'[h] = Len(acked)
        /\ \A b \in BufIds : b # h => owner'[b] = owner[b] /\ start'[b] = start[b]
    BY <1>t, <2>1, <2>2, <2>3
  <2>6. /\ Contents(h) \in Seq(Op \cup {None}) /\ Len(Contents(h)) = buf[h].len
        /\ \A j \in 1..buf[h].len :
             Contents(h)[j] = disk[buf[h].file][buf[h].slot][j]
    BY <1>0, ContentsLemma DEF TypeOK
  <2>7. /\ \A i \in 1..Len(acked) : acked'[i] = acked[i]
        /\ \A j \in 1..buf[h].len : acked'[Len(acked) + j] = Contents(h)[j]
    <3>1. acked \in Seq(Op \cup {None}) /\ Len(acked) \in Nat /\ buf[h].len \in Nat
      BY LogFacts
    <3>2. \A i \in 1..Len(acked) + Len(Contents(h)) :
            acked'[i] = IF i <= Len(acked) THEN acked[i]
                        ELSE Contents(h)[i - Len(acked)]
      BY <2>3, <2>6, <3>1, ConcatProperties
    <3>3. \A i \in 1..Len(acked) : acked'[i] = acked[i]
      BY <2>6, <3>1, <3>2
    <3>4. ASSUME NEW j \in 1..buf[h].len
          PROVE  acked'[Len(acked) + j] = Contents(h)[j]
      <4>1. /\ Len(acked) + j \in 1..Len(acked) + Len(Contents(h))
            /\ ~(Len(acked) + j <= Len(acked)) /\ (Len(acked) + j) - Len(acked) = j
        BY <2>6, <3>1
      <4>2. QED BY <3>2, <4>1
    <3>5. QED BY <3>3, <3>4
  <2>8. \A b, c \in BufIds :
          Live(b)' /\ Live(c)' /\ SameRegion(b, buf[c].file, buf[c].slot)' => b = c
    <3>1. \A b \in BufIds : Live(b)' => Live(b)
      BY <2>5 DEF Live
    <3>2. QED BY <1>0, <2>3, <2>4, <3>1 DEF Intact, SameRegion
  <2>9. ASSUME NEW b \in BufIds, InLog(b)', NEW j \in 1..buf'[b].len
        PROVE  disk'[buf'[b].file][buf'[b].slot][j] = acked'[start'[b] + j]
    <3>1. CASE b = h
      BY <2>3, <2>4, <2>5, <2>6, <2>7, <3>1
    <3>2. CASE b # h
      <4>1. InLog(b) /\ j \in 1..buf[b].len /\ start'[b] = start[b]
        BY <2>4, <2>5, <2>9, <3>2 DEF InLog
      <4>2. start[b] + j \in 1..Len(acked)
        <5>1. start[b] + buf[b].len <= Len(acked)
          BY <1>0, <4>1 DEF Stretches
        <5>2. start[b] \in Nat /\ buf[b].len \in Nat /\ Len(acked) \in Nat
          BY LogFacts
        <5>3. QED BY <4>1, <5>1, <5>2
      <4>3. disk[buf[b].file][buf[b].slot][j] = acked[start[b] + j]
        BY <1>0, <2>3, <4>1 DEF Intact
      <4>4. QED BY <2>3, <2>4, <2>7, <4>1, <4>2, <4>3
    <3>3. QED BY <3>1, <3>2
  <2>10. \A i \in 1..Len(applied') : applied'[i] = acked'[i]
    <3>1. \A i \in 1..Len(applied) : i \in 1..Len(acked)
      BY LogFacts, AppliedBound
    <3>2. QED BY <1>0, <2>3, <2>7, <3>1 DEF Intact
  <2>11. QED BY <2>8, <2>9, <2>10 DEF Intact
<1>21. CASE FlushApply
  <2> SUFFICES ASSUME ~clash' PROVE Intact' BY DEF Intact
  <2>1. monBuf \in BufIds /\ owner[monBuf] = "monitor" /\ monPc = "flush"
    BY <1>0, <1>t, <1>21 DEF FlushApply, Control
  <2>2. \A b \in BufIds : /\ buf'[b].len = buf[b].len /\ buf'[b].file = buf[b].file
                          /\ buf'[b].slot = buf[b].slot
    BY <1>t, <1>21, <2>1 DEF FlushApply, BufferRec
  <2>3. UNCHANGED <<disk, clash, owner, start, acked>>
    BY <1>21 DEF FlushApply
  <2> DEFINE op == disk[buf[monBuf].file][buf[monBuf].slot][buf[monBuf].pos + 1]
  <2>4. applied' = Append(applied, op) /\ ~(buf[monBuf].len <= buf[monBuf].pos)
    BY <1>21 DEF FlushApply, Eof
  <2>5. op = acked[Len(applied) + 1]
    <3>1. start[monBuf] + buf[monBuf].pos = Len(applied)
      BY <1>0, <2>1 DEF Stretches
    <3>2. /\ buf[monBuf].pos \in Nat /\ buf[monBuf].len \in Nat
          /\ start[monBuf] \in Nat
      BY <2>1, LogFacts
    <3>3. /\ buf[monBuf].pos + 1 \in 1..buf[monBuf].len
          /\ start[monBuf] + (buf[monBuf].pos + 1) = Len(applied) + 1
      BY <2>4, <3>1, <3>2
    <3>4. op = acked[start[monBuf] + (buf[monBuf].pos + 1)]
      BY <1>0, <2>1, <2>3, <3>3 DEF Intact, InLog
    <3>5. QED BY <3>3, <3>4
  <2> HIDE DEF op
  <2>6. \A i \in 1..Len(applied') : applied'[i] = acked'[i]
    <3>1. /\ Len(applied') = Len(applied) + 1 /\ applied'[Len(applied) + 1] = op
          /\ \A i \in 1..Len(applied) : applied'[i] = applied[i]
          /\ Len(applied) \in Nat
      BY <2>4, LogFacts
    <3>2. \A i \in 1..Len(applied') : i \in 1..Len(applied) \/ i = Len(applied) + 1
      BY <3>1
    <3>3. QED BY <1>0, <2>3, <2>5, <3>1, <3>2 DEF Intact
  <2>7. \A b, c \in BufIds :
          Live(b)' /\ Live(c)' /\ SameRegion(b, buf[c].file, buf[c].slot)' => b = c
    BY <1>0, <2>2, <2>3 DEF Intact, Live, SameRegion
  <2>8. \A b \in BufIds : InLog(b)' =>
          \A j \in 1..buf'[b].len :
            disk'[buf'[b].file][buf'[b].slot][j] = acked'[start'[b] + j]
    BY <1>0, <2>2, <2>3 DEF Intact, InLog
  <2>9. QED BY <2>6, <2>7, <2>8 DEF Intact
<1> QED
  BY <1>1, <1>2, <1>4, <1>5, <1>6, <1>8, <1>9, <1>10, <1>11, <1>13, <1>14,
     <1>16, <1>20, <1>21, <1>22, <1>23, <1>24
  DEF Next, Request, NetStep, MonStep

----------------------------------------------------------------------------
(* The inductive invariant holds in every reachable state.                 *)
THEOREM Invariance == Spec => []IndInv
<1>1. Init => IndInv
  BY InitInv
<1>2. IndInv /\ [Next]_vars => IndInv'
  BY BaseOfInd, TypeStep, ContainersStep, ControlStep, CursorsStep, OrderStep, IntactStep
  DEF IndInv
<1>3. QED BY <1>1, <1>2, PTL DEF Spec

(* Every variable keeps its type; in particular no cursor of a TxBuffer    *)
(* passes the end of its buffer and _buffersCount never becomes negative.  *)
THEOREM TypeCorrect == Spec => []TypeOK
<1>1. IndInv => TypeOK
  BY DEF IndInv
<1>2. QED BY <1>1, Invariance, PTL

(* writeOperationToRegister appends to the last buffer of the queue, which *)
(* has room and which flushBuffer neither reads nor is about to reset.     *)
THEOREM WriterExclusive == Spec => []WriterOwnsTail
<1>1. IndInv => WriterOwnsTail
  <2> SUFFICES ASSUME IndInv, netPc = "write" PROVE WriterOwnsTail
    BY DEF WriterOwnsTail
  <2>1. Control /\ Cursors /\ TypeOK
    BY DEF IndInv
  <2>2. activeBuffers # <<>> /\ netBuf = Last(activeBuffers) /\ netBuf # 0
    BY <2>1 DEF Control
  <2>3. netBuf \in BufIds /\ owner[netBuf] = "active"
    BY <2>2, LogFacts
  <2>4. netBuf # monBuf
    BY <2>1, <2>2, <2>3 DEF Control
  <2>5. buf[netBuf].pos = buf[netBuf].len /\ buf[netBuf].len < BufCap
    BY <2>1, <2>3 DEF Cursors, Live
  <2>6. QED BY <2>2, <2>4, <2>5 DEF WriterOwnsTail
<1>2. QED BY <1>1, Invariance, PTL

(* flushBuffer gives the controller the accepted operations in their       *)
(* order, none skipped and none twice, while createNewBuffer has not       *)
(* mapped a buffer over a live one.                                        *)
THEOREM Order == Spec => []AppliedInOrder
<1>1. IndInv => AppliedInOrder
  BY AppliedBound DEF IndInv, Intact, AppliedInOrder
<1>2. QED BY <1>1, Invariance, PTL

(* What was accepted and not applied can still be read from the log.       *)
THEOREM Durable == Spec => []NothingLost
<1>1. IndInv => NothingLost
  <2> SUFFICES ASSUME IndInv, ~clash, NEW i \in (Len(applied) + 1)..Len(acked)
               PROVE  \E b \in BufIds :
                        /\ owner[b] \in {"active", "monitor"}
                        /\ i - start[b] \in 1..buf[b].len
                        /\ disk[buf[b].file][buf[b].slot][i - start[b]] = acked[i]
    BY DEF NothingLost
  <2>1. Covered /\ Intact
    BY DEF IndInv
  <2>2. PICK b \in BufIds : InLog(b) /\ i - start[b] \in 1..buf[b].len
    BY <2>1 DEF Covered
  <2>3. disk[buf[b].file][buf[b].slot][i - start[b]] = acked[start[b] + (i - start[b])]
    BY <2>1, <2>2 DEF Intact
  <2>4. start[b] + (i - start[b]) = i
    BY LogFacts
  <2>5. QED BY <2>2, <2>3, <2>4 DEF InLog
<1>2. QED BY <1>1, Invariance, PTL

(* flushBuffer, getBuffer and dropBuffer empty, reuse or delete a buffer   *)
(* of the log only when all of it has been applied.                        *)
THEOREM Truncation == Spec => TruncatedOnlyWhenApplied
<1> DEFINE Done(b) == InLog(b) /\ (buf'[b].len < buf[b].len \/ ~InLog(b)')
                        => start[b] + buf[b].len <= Len(applied)
<1>1. ASSUME IndInv, [Next]_vars, NEW b \in BufIds PROVE Done(b)
  <2>0. TypeOK /\ Containers /\ Control /\ Cursors /\ Stretches
    BY <1>1 DEF IndInv
  <2>t. /\ owner \in [BufIds -> Owners] /\ buf \in [BufIds -> BufferRec]
        /\ reusableBuffers \in Seq(BufIds) /\ netAdd \in Seq(BufIds)
        /\ txBuffers \in [Tx -> Seq(BufIds)]
        /\ netBuf \in BufIds \cup {0} /\ 0 \notin BufIds
        /\ buf[b].len \in Nat
    BY <1>1, <2>0, LogFacts DEF TypeOK, ObjType, HistType, MgrType, NetType,
       TxType, BufIds
  <2> SUFFICES ASSUME InLog(b), ~(start[b] + buf[b].len <= Len(applied))
               PROVE  InLog(b)' /\ ~(buf'[b].len < buf[b].len)
    OBVIOUS
  <2>1. ASSUME UNCHANGED <<buf, owner>> PROVE InLog(b)' /\ ~(buf'[b].len < buf[b].len)
    BY <2>1, <2>t DEF InLog
  <2>2. CASE UNCHANGED vars
    BY <2>1, <2>2 DEF vars, objVars, histVars
  <2>3. CASE \/ RequestWrite \/ GetBufferTail \/ AddBufferNotify
             \/ AddBuffersLock \/ AddBuffersUnlock \/ FinishCommit \/ FlushWake
    BY <2>1, <2>3 DEF RequestWrite, GetBufferTail, AddBufferNotify, AddBuffersLock,
       AddBuffersUnlock, FinishCommit, FlushWake, objVars, histVars
  <2>4. CASE GetBufferReuse
    <3>1. owner[Head(reusableBuffers)] = "reusable"
      BY <2>0, <2>t, <2>4 DEF GetBufferReuse, Containers, Holds
    <3>2. buf'[b] = buf[b] /\ owner'[b] = owner[b]
      BY <2>t, <2>4, <3>1 DEF GetBufferReuse, InLog
    <3>3. QED BY <2>t, <3>2 DEF InLog
  <2>5. CASE GetBufferCreate
    <3>1. owner[created + 1] = "free"
      BY <2>0, <2>5, BoundsAssumption
      DEF GetBufferCreate, Containers, BufIds, TypeOK, ObjType
    <3>2. buf'[b] = buf[b] /\ owner'[b] = owner[b]
      BY <2>t, <2>5, <3>1 DEF GetBufferCreate, InLog
    <3>3. QED BY <2>t, <3>2 DEF InLog
  <2>6. CASE AddBuffer
    BY <2>t, <2>6 DEF AddBuffer, objVars, InLog
  <2>7. CASE Register
    <3>1. netBuf \in BufIds /\ buf[netBuf].len = 0
      BY <2>0, <2>t, <2>7 DEF Register, Control, Cursors
    <3>2. buf'[netBuf].len = 0
      BY <2>t, <2>7, <3>1, ResetLemma DEF Register, BufferRec
    <3>3. owner' = owner /\ (b # netBuf => buf'[b] = buf[b])
      BY <2>t, <2>7 DEF Register, histVars
    <3>4. QED BY <2>t, <3>1, <3>2, <3>3 DEF InLog
  <2>8. CASE WriteOperation
    <3>1. netBuf \in BufIds
      BY <2>0, <2>t, <2>8 DEF WriteOperation, Control
    <3>2. buf[b].pos = buf[b].len \/ b # netBuf
      <4>1. activeBuffers # <<>> /\ netBuf = Last(activeBuffers)
        BY <2>0, <2>8 DEF WriteOperation, Control
      <4>2. owner[netBuf] = "active"
        BY <1>1, <4>1, LogFacts
      <4>3. QED BY <2>0, <4>2 DEF Cursors, Live
    <3>3. buf'[b].len = buf[b].pos + 1 \/ (b # netBuf /\ buf'[b] = buf[b])
      BY <2>t, <2>8, <3>1 DEF WriteOperation, Written, BufferRec
    <3>4. owner' = owner /\ (b # netBuf => buf'[b] = buf[b])
      BY <2>t, <2>8 DEF WriteOperation
    <3>5. QED BY <2>t, <3>2, <3>3, <3>4 DEF InLog
  <2>9. ASSUME NEW t \in Tx, TxWrite(t) PROVE InLog(b)' /\ ~(buf'[b].len < buf[b].len)
    <3>1. owner[Last(txBuffers[t])] = "tx"
      <4>1. /\ txBuffers[t] \in Seq(BufIds) /\ txBuffers[t] # <<>>
            /\ Holds(txBuffers[t], "tx")
        BY <2>0, <2>t, <2>9 DEF TxWrite, HasRoom, Containers
      <4>2. QED BY <4>1 DEF Last, Holds
    <3>2. b # Last(txBuffers[t])
      BY <3>1 DEF InLog
    <3>3. buf'[b] = buf[b] /\ owner'[b] = owner[b]
      BY <2>t, <2>9, <3>2 DEF TxWrite, histVars
    <3>4. QED BY <2>t, <3>3 DEF InLog
  <2>10. ASSUME NEW t \in Tx, TxWriteNewBuffer(t)
         PROVE  InLog(b)' /\ ~(buf'[b].len < buf[b].len)
    <3>1. owner[created + 1] = "free"
      BY <2>0, <2>10, BoundsAssumption
      DEF TxWriteNewBuffer, Containers, BufIds, TypeOK, ObjType
    <3>2. buf'[b] = buf[b] /\ owner'[b] = owner[b]
      BY <2>t, <2>10, <3>1 DEF TxWriteNewBuffer, InLog
    <3>3. QED BY <2>t, <3>2 DEF InLog
  <2>11. ASSUME NEW t \in Tx, Rollback(t) \/ Commit(t)
         PROVE  InLog(b)' /\ ~(buf'[b].len < buf[b].len)
    <3>1. b \notin ToSet(txBuffers[t])
      BY <2>0, <2>t DEF Containers, Holds, ToSet, InLog
    <3>2. buf' = buf /\ owner'[b] = owner[b]
      BY <2>11, <3>1 DEF Rollback, Commit, objVars
    <3>3. QED BY <2>t, <3>2 DEF InLog
  <2>12. CASE AddBuffersNext
    <3>1. owner[Head(netAdd)] = "writer"
      <4>1. netAdd # <<>>
        BY <2>12 DEF AddBuffersNext
      <4>2. QED BY <2>0, <2>t, <4>1 DEF Containers, Holds
    <3>2. b # Head(netAdd)
      BY <3>1 DEF InLog
    <3>3. buf'[b] = buf[b] /\ owner'[b] = owner[b]
      BY <2>t, <2>12, <3>2 DEF AddBuffersNext
    <3>4. QED BY <2>t, <3>3 DEF InLog
  <2>13. CASE FlushPop
    BY <2>t, <2>13 DEF FlushPop, InLog, BufferRec
  <2>14. CASE FlushApply
    BY <2>t, <2>14 DEF FlushApply, InLog, BufferRec
  <2>15. CASE FlushRecycle \/ FlushDrop
    <3>1. monPc = "flush" /\ Eof(buf[monBuf])
      BY <2>15 DEF FlushRecycle, FlushDrop
    <3>2. /\ start[monBuf] + buf[monBuf].pos = Len(applied)
          /\ monBuf \in BufIds
      BY <1>1, <2>0, <3>1, LogFacts DEF Stretches
    <3>3. start[monBuf] + buf[monBuf].len <= Len(applied)
      <4>1. /\ start[monBuf] \in Nat /\ buf[monBuf].pos \in Nat
            /\ buf[monBuf].len \in Nat
        BY <1>1, <3>2, LogFacts
      <4>2. QED BY <3>1, <3>2, <4>1 DEF Eof
    <3>4. b # monBuf
      BY <3>3
    <3>5. buf'[b] = buf[b] /\ owner'[b] = owner[b]
      BY <2>t, <2>15, <3>4 DEF FlushRecycle, FlushDrop
    <3>6. QED BY <2>t, <3>5 DEF InLog
  <2>16. CASE FlushRegister
    <3>1. monBuf \in BufIds /\ buf[monBuf].len = 0
      BY <1>1, <2>0, <2>16 DEF FlushRegister, Control, Cursors, TypeOK, MonType
    <3>2. buf'[monBuf].len = 0
      BY <2>t, <2>16, <3>1, ResetLemma DEF FlushRegister
    <3>3. owner' = owner /\ (b # monBuf => buf'[b] = buf[b])
      BY <2>t, <2>16 DEF FlushRegister, histVars
    <3>4. QED BY <2>t, <3>1, <3>2, <3>3 DEF InLog
  <2>17. QED
    BY <1>1, <2>2, <2>3, <2>4, <2>5, <2>6, <2>7, <2>8, <2>9, <2>10, <2>11, <2>12,
       <2>13, <2>14, <2>15, <2>16
    DEF Next, Request, NetStep, MonStep
<1>2. IndInv /\ [Next]_vars => [\A b \in BufIds : Done(b)]_vars
  BY <1>1
<1>3. QED BY <1>2, Invariance, PTL DEF Spec, TruncatedOnlyWhenApplied

----------------------------------------------------------------------------
(* Where every buffer is, and the log files.                               *)

(* What a queue holds after a buffer was put at its end ...                *)
LEMMA ToSetAppend ==
  ASSUME NEW S, NEW s \in Seq(S), NEW e \in S
  PROVE  ToSet(Append(s, e)) = ToSet(s) \cup {e}
<1>1. Append(s, e) \in Seq(S) /\ Len(Append(s, e)) = Len(s) + 1 /\ Len(s) \in Nat
  OBVIOUS
<1>2. DOMAIN Append(s, e) = 1..(Len(s) + 1) /\ DOMAIN s = 1..Len(s)
  BY <1>1
<1>3. \A i \in 1..Len(s) : Append(s, e)[i] = s[i]
  OBVIOUS
<1>4. Append(s, e)[Len(s) + 1] = e
  OBVIOUS
<1>5. \A i \in 1..(Len(s) + 1) : i \in 1..Len(s) \/ i = Len(s) + 1
  BY <1>1
<1>6. 1..Len(s) \subseteq 1..(Len(s) + 1) /\ Len(s) + 1 \in 1..(Len(s) + 1)
  BY <1>1
<1>7. QED BY <1>2, <1>3, <1>4, <1>5, <1>6, Zenon DEF ToSet

(* ... and after its first one was taken.                                  *)
LEMMA ToSetTail ==
  ASSUME NEW S, NEW s \in Seq(S), s # <<>>
  PROVE  ToSet(s) = ToSet(Tail(s)) \cup {Head(s)} /\ Head(s) \in S
<1>1. Tail(s) \in Seq(S) /\ Len(Tail(s)) = Len(s) - 1 /\ Len(s) \in Nat /\ Len(s) # 0
  OBVIOUS
<1>2. DOMAIN Tail(s) = 1..(Len(s) - 1) /\ DOMAIN s = 1..Len(s)
  BY <1>1
<1>3. \A i \in 1..(Len(s) - 1) : Tail(s)[i] = s[i + 1]
  BY <1>1
<1>4. Head(s) = s[1] /\ Head(s) \in S
  BY <1>1
<1>5. ASSUME NEW x \in ToSet(s) PROVE x \in ToSet(Tail(s)) \cup {Head(s)}
  <2>1. PICK i \in 1..Len(s) : x = s[i]
    BY <1>2 DEF ToSet
  <2>2. CASE i = 1
    BY <2>1, <2>2, <1>4
  <2>3. CASE i # 1
    <3>1. i - 1 \in 1..(Len(s) - 1) /\ (i - 1) + 1 = i
      BY <1>1, <2>1, <2>3
    <3>2. Tail(s)[i - 1] = s[i]
      BY <1>3, <3>1
    <3>3. QED BY <3>1, <3>2, <2>1, <1>2 DEF ToSet
  <2>4. QED BY <2>2, <2>3
<1>6. ASSUME NEW x \in ToSet(Tail(s)) PROVE x \in ToSet(s)
  <2>1. PICK i \in 1..(Len(s) - 1) : x = Tail(s)[i]
    BY <1>2 DEF ToSet
  <2>2. i + 1 \in 1..Len(s)
    BY <1>1, <2>1
  <2>3. QED BY <2>1, <2>2, <1>2, <1>3 DEF ToSet
<1>7. Head(s) \in ToSet(s)
  <2>1. 1 \in 1..Len(s)
    BY <1>1
  <2>2. QED BY <2>1, <1>2, <1>4 DEF ToSet
<1>8. QED BY <1>4, <1>5, <1>6, <1>7

(* A buffer in a container has the container's owner.                      *)
LEMMA HoldsToSet ==
  ASSUME NEW s \in Seq(BufIds), NEW o, Holds(s, o)
  PROVE  \A b \in ToSet(s) : b \in BufIds /\ owner[b] = o
<1>1. DOMAIN s = 1..Len(s)
  OBVIOUS
<1>2. \A i \in 1..Len(s) : s[i] \in BufIds
  OBVIOUS
<1>3. QED BY <1>1, <1>2 DEF Holds, ToSet

(* What keeps transactions apart is part of the whole invariant.           *)
LEMMA IsolationOfLog == LogInv => IsolationInv
  BY BaseOfInd DEF LogInv, FileInv, IsolationInv

(* The types and the ownership of buffers, as the proofs below use them.   *)
LEMMA FileFacts ==
  ASSUME BaseInv \/ IndInv
  PROVE  /\ activeBuffers \in Seq(BufIds) /\ reusableBuffers \in Seq(BufIds)
         /\ netAdd \in Seq(BufIds) /\ txBuffers \in [Tx -> Seq(BufIds)]
         /\ owner \in [BufIds -> Owners] /\ buf \in [BufIds -> BufferRec]
         /\ netBuf \in BufIds \cup {0} /\ monBuf \in BufIds \cup {0}
         /\ txState \in [Tx -> TxStates]
         /\ \A b \in BufIds : buf[b].file \in File
         /\ \A b \in ToSet(activeBuffers) : b \in BufIds /\ owner[b] = "active"
         /\ \A b \in ToSet(reusableBuffers) : b \in BufIds /\ owner[b] = "reusable"
         /\ \A b \in ToSet(netAdd) : b \in BufIds /\ owner[b] = "writer"
         /\ \A t \in Tx : \A b \in ToSet(txBuffers[t]) :
              b \in BufIds /\ owner[b] = "tx" /\ buf[b].file = t
<1>0. TypeOK /\ Containers
  BY DEF IndInv, BaseInv
<1>1. /\ activeBuffers \in Seq(BufIds) /\ reusableBuffers \in Seq(BufIds)
      /\ netAdd \in Seq(BufIds) /\ txBuffers \in [Tx -> Seq(BufIds)]
      /\ owner \in [BufIds -> Owners] /\ buf \in [BufIds -> BufferRec]
      /\ netBuf \in BufIds \cup {0} /\ monBuf \in BufIds \cup {0}
      /\ txState \in [Tx -> TxStates]
  BY <1>0 DEF TypeOK, MgrType, NetType, TxType, ObjType, HistType, MonType
<1>2. \A b \in BufIds : buf[b].file \in File
  BY <1>1 DEF BufferRec
<1>3. \A b \in ToSet(activeBuffers) : b \in BufIds /\ owner[b] = "active"
  BY <1>0, <1>1, HoldsToSet DEF Containers
<1>4. \A b \in ToSet(reusableBuffers) : b \in BufIds /\ owner[b] = "reusable"
  BY <1>0, <1>1, HoldsToSet DEF Containers
<1>5. \A b \in ToSet(netAdd) : b \in BufIds /\ owner[b] = "writer"
  BY <1>0, <1>1, HoldsToSet DEF Containers
<1>6. ASSUME NEW t \in Tx, NEW b \in ToSet(txBuffers[t])
      PROVE  b \in BufIds /\ owner[b] = "tx" /\ buf[b].file = t
  <2>1. txBuffers[t] \in Seq(BufIds) /\ Holds(txBuffers[t], "tx")
    BY <1>0, <1>1 DEF Containers
  <2>2. b \in BufIds /\ owner[b] = "tx"
    BY <2>1, HoldsToSet
  <2>3. PICK i \in 1..Len(txBuffers[t]) : b = txBuffers[t][i]
    BY <2>1 DEF ToSet
  <2>4. QED BY <1>0, <2>2, <2>3 DEF Containers
<1>7. QED BY <1>1, <1>2, <1>3, <1>4, <1>5, <1>6

(* The buffer a thread is working on is a real one.                        *)
LEMMA WorkFacts ==
  ASSUME BaseInv \/ IndInv
  PROVE  /\ netPc \in {"addBuffer", "addBufferNotify", "register", "write"}
              => netBuf \in BufIds
         /\ netPc = "addBuffer" => owner[netBuf] = "writer"
         /\ netPc \in {"addBufferNotify", "register", "write"}
              => owner[netBuf] = "active"
         /\ monPc = "flush" => monBuf \in BufIds /\ owner[monBuf] = "monitor"
         /\ monPc = "register" => monBuf \in BufIds
         /\ monPc = "pop" => activeBuffers # <<>>
         /\ created < MaxBuffers
              => created + 1 \in BufIds /\ owner[created + 1] = "free"
<1>0. Control /\ Containers /\ TypeOK
  BY DEF IndInv, BaseInv
<1>1. netBuf \in BufIds \cup {0} /\ monBuf \in BufIds \cup {0} /\ created \in 0..MaxBuffers
  BY <1>0 DEF TypeOK, NetType, MonType, ObjType
<1>2. 0 \notin BufIds
  BY DEF BufIds
<1>3. /\ netPc \in {"addBuffer", "addBufferNotify", "register", "write"}
           => netBuf \in BufIds
      /\ netPc = "addBuffer" => owner[netBuf] = "writer"
  BY <1>0, <1>1 DEF Control
<1>4. /\ monPc = "flush" => monBuf \in BufIds /\ owner[monBuf] = "monitor"
      /\ monPc = "register" => monBuf \in BufIds
  BY <1>0, <1>1 DEF Control
<1>5. monPc = "pop" => activeBuffers # <<>>
  BY <1>0 DEF Control
<1>6. netPc \in {"addBufferNotify", "register", "write"} => owner[netBuf] = "active"
  BY <1>0, LogFacts DEF Control
<1>7. created < MaxBuffers => created + 1 \in BufIds /\ owner[created + 1] = "free"
  <2>1. created < MaxBuffers => created + 1 \in BufIds /\ created + 1 > created
    BY <1>1, BoundsAssumption DEF BufIds
  <2>2. QED BY <1>0, <2>1 DEF Containers
<1>8. QED BY <1>3, <1>4, <1>5, <1>6, <1>7

(* An object maps the same place of the same file as long as it exists.    *)
LEMMA FilesKept ==
  ASSUME BaseInv \/ IndInv, [Next]_vars, NEW b \in BufIds, owner[b] # "free"
  PROVE  buf'[b].file = buf[b].file /\ buf'[b].slot = buf[b].slot
<1>t. buf \in [BufIds -> BufferRec]
  BY FileFacts
<1>1. CASE UNCHANGED buf
  BY <1>1
<1>2. CASE \E h \in BufIds : buf' = [buf EXCEPT ![h] = Reset(buf[h])]
  BY <1>2, <1>t, ResetLemma
<1>3. CASE \E h \in BufIds : \E n : buf' = [buf EXCEPT ![h] = [@ EXCEPT !.ctl = n]]
  BY <1>3, <1>t DEF BufferRec
<1>4. CASE \E h \in BufIds : \E n : buf' = [buf EXCEPT ![h] = [@ EXCEPT !.pos = n]]
  BY <1>4, <1>t DEF BufferRec
<1>5. CASE \E h \in BufIds : buf' = [buf EXCEPT ![h] = Written(buf[h])]
  BY <1>5, <1>t DEF BufferRec, Written
<1>6. CASE \E h \in BufIds : \E r : owner[h] = "free" /\ buf' = [buf EXCEPT ![h] = r]
  BY <1>6, <1>t
<1>7. CASE \/ UNCHANGED vars \/ RequestWrite \/ GetBufferTail \/ AddBuffer \/ AddBufferNotify
           \/ AddBuffersLock \/ AddBuffersUnlock \/ FinishCommit \/ FlushWake \/ FlushDrop
           \/ \E t \in Tx : Rollback(t) \/ Commit(t)
  BY <1>1, <1>7 DEF vars, RequestWrite, GetBufferTail, AddBuffer, AddBufferNotify,
     AddBuffersLock, AddBuffersUnlock, FinishCommit, FlushWake, FlushDrop, Rollback, Commit,
     objVars
<1>8. CASE GetBufferReuse
  <2>1. Head(reusableBuffers) \in BufIds
    BY <1>8, FileFacts, ToSetTail DEF GetBufferReuse
  <2>2. QED BY <1>2, <1>8, <2>1 DEF GetBufferReuse
<1>9. CASE GetBufferCreate \/ \E t \in Tx : TxWriteNewBuffer(t)
  <2>1. created + 1 \in BufIds /\ owner[created + 1] = "free"
    BY <1>9, WorkFacts DEF GetBufferCreate, TxWriteNewBuffer
  <2>2. \E r : buf' = [buf EXCEPT ![created + 1] = r]
    BY <1>9, Zenon DEF GetBufferCreate, TxWriteNewBuffer
  <2>3. QED BY <1>6, <2>1, <2>2
<1>10. CASE Register
  <2>1. netBuf \in BufIds
    BY <1>10, WorkFacts DEF Register
  <2>2. CASE netNew
    <3>1. buf' = [buf EXCEPT ![netBuf] = [@ EXCEPT !.ctl = Len(control.recs) + 1]]
      BY <1>10, <2>2 DEF Register
    <3>2. QED BY <1>3, <2>1, <3>1
  <2>3. CASE ~netNew
    <3>1. buf' = [buf EXCEPT ![netBuf] = Reset(@)]
      BY <1>10, <2>3 DEF Register
    <3>2. QED BY <1>2, <2>1, <3>1
  <2>4. QED BY <2>2, <2>3
<1>11. CASE WriteOperation
  BY <1>5, <1>11, WorkFacts DEF WriteOperation
<1>12. CASE \E t \in Tx : TxWrite(t)
  <2>1. PICK t \in Tx : TxWrite(t)
    BY <1>12
  <2>2. txBuffers[t] \in Seq(BufIds) /\ txBuffers[t] # <<>>
    BY <2>1, FileFacts DEF TxWrite, HasRoom
  <2>3. Last(txBuffers[t]) \in BufIds
    BY <2>2 DEF Last
  <2>4. QED BY <1>5, <2>1, <2>3 DEF TxWrite
<1>13. CASE AddBuffersNext
  <2>1. Head(netAdd) \in BufIds
    BY <1>13, FileFacts, ToSetTail DEF AddBuffersNext
  <2>2. buf' = [buf EXCEPT ![Head(netAdd)] = [@ EXCEPT !.ctl = Len(control.recs) + 1]]
    BY <1>13 DEF AddBuffersNext
  <2>3. QED BY <1>3, <2>1, <2>2
<1>14. CASE FlushPop
  <2>1. Head(activeBuffers) \in BufIds
    BY <1>14, FileFacts, WorkFacts, ToSetTail DEF FlushPop
  <2>2. buf' = [buf EXCEPT ![Head(activeBuffers)] = [@ EXCEPT !.pos = 0]]
    BY <1>14 DEF FlushPop
  <2>3. QED BY <1>4, <2>1, <2>2
<1>15. CASE FlushApply
  <2>1. monBuf \in BufIds
    BY <1>15, WorkFacts DEF FlushApply
  <2>2. buf' = [buf EXCEPT ![monBuf] = [@ EXCEPT !.pos = buf[monBuf].pos + 1]]
    BY <1>15 DEF FlushApply
  <2>3. QED BY <1>4, <2>1, <2>2
<1>16. CASE FlushRecycle \/ FlushRegister
  BY <1>2, <1>16, WorkFacts DEF FlushRecycle, FlushRegister
<1>17. QED
  BY <1>7, <1>8, <1>9, <1>10, <1>11, <1>12, <1>13, <1>14, <1>15, <1>16
  DEF Next, Request, NetStep, MonStep

(* Steps that move no buffer and keep the places of both threads leave     *)
(* every buffer where it is.                                               *)
LEMMA PlacedFrame ==
  ASSUME Placed, UNCHANGED <<activeBuffers, reusableBuffers, owner, txBuffers>>,
         \A b \in BufIds : owner[b] # "free" => buf'[b].file = buf[b].file,
         monPc = "flush" => monPc' = "flush" /\ monBuf' = monBuf,
         netPc = "addBuffer" => netPc' = "addBuffer" /\ netBuf' = netBuf,
         netPc \in {"addBuffers", "addBuffersLoop"} =>
           \/ netPc' \in {"addBuffers", "addBuffersLoop"} /\ netTx' = netTx /\ netAdd' = netAdd
           \/ netAdd = <<>>
  PROVE  Placed'
<1>1. ToSet(<< >>) = {}
  BY DEF ToSet
<1> SUFFICES ASSUME NEW b \in BufIds PROVE PlacedAt(b)' BY DEF Placed
<1>2. PlacedAt(b) BY DEF Placed
<1>3. QED BY <1>1, <1>2 DEF PlacedAt

(* Every action leaves each buffer within reach of its owner.              *)
LEMMA PlacedStep == IsolationInv /\ [Next]_vars => Placed'
<1> SUFFICES ASSUME IsolationInv, [Next]_vars PROVE Placed' OBVIOUS
<1>0. BaseInv /\ Placed /\ HandedOver /\ Control
  BY DEF IsolationInv, BaseInv
<1>t. /\ activeBuffers \in Seq(BufIds) /\ reusableBuffers \in Seq(BufIds)
      /\ netAdd \in Seq(BufIds) /\ txBuffers \in [Tx -> Seq(BufIds)]
      /\ owner \in [BufIds -> Owners] /\ buf \in [BufIds -> BufferRec]
  BY <1>0, FileFacts
<1>f. \A b \in BufIds : owner[b] # "free" => buf'[b].file = buf[b].file
  BY <1>0, FilesKept
<1>1. CASE UNCHANGED vars
  BY <1>0, <1>f, <1>1, PlacedFrame DEF vars, mgrVars, objVars, netVars, monVars, txVars, histVars
<1>2. CASE \/ RequestWrite \/ GetBufferTail \/ AddBufferNotify \/ AddBuffersLock
           \/ AddBuffersUnlock \/ FinishCommit \/ FlushWake
  BY <1>0, <1>f, <1>2, PlacedFrame DEF RequestWrite, GetBufferTail, AddBufferNotify,
     AddBuffersLock, AddBuffersUnlock, FinishCommit, FlushWake, mgrVars, objVars, netVars,
     monVars, txVars, histVars
<1>3. CASE GetBufferReuse
  <2> DEFINE h == Head(reusableBuffers)
  <2>1. ToSet(reusableBuffers) = ToSet(Tail(reusableBuffers)) \cup {h} /\ h \in BufIds
    BY <1>3, <1>t, ToSetTail DEF GetBufferReuse
  <2>2. owner[h] = "reusable" /\ buf[h].file = Main
    BY <2>1, <1>0, FileFacts DEF Placed, PlacedAt
  <2>3. /\ owner' = [owner EXCEPT ![h] = "writer"] /\ netBuf' = h /\ netPc' = "addBuffer"
        /\ buf' = [buf EXCEPT ![h] = Reset(buf[h])]
        /\ reusableBuffers' = Tail(reusableBuffers) /\ netPc = "getBuffer"
        /\ UNCHANGED <<activeBuffers, monPc, monBuf, txBuffers>>
    BY <1>3 DEF GetBufferReuse, monVars, txVars
  <2>4. \A b \in BufIds : buf'[b].file = buf[b].file
    BY <2>1, <2>3, <1>t, ResetLemma
  <2> HIDE DEF h
  <2> SUFFICES ASSUME NEW b \in BufIds PROVE PlacedAt(b)' BY DEF Placed
  <2>5. PlacedAt(b) BY <1>0 DEF Placed
  <2>6. CASE b = h
    BY <2>1, <2>2, <2>3, <2>4, <2>6, <1>t DEF PlacedAt
  <2>7. CASE b # h
    BY <2>1, <2>3, <2>4, <2>5, <2>7, <1>t DEF PlacedAt
  <2>8. QED BY <2>6, <2>7
<1>4. CASE GetBufferCreate
  <2> DEFINE h == created + 1
  <2>1. h \in BufIds /\ owner[h] = "free"
    BY <1>0, <1>4, WorkFacts DEF GetBufferCreate
  <2>3. /\ owner' = [owner EXCEPT ![h] = "writer"] /\ netBuf' = h /\ netPc' = "addBuffer"
        /\ buf' = [buf EXCEPT ![h] = NewBuffer(Main, NewSlot)] /\ netPc = "getBuffer"
        /\ UNCHANGED <<activeBuffers, reusableBuffers, monPc, monBuf, txBuffers>>
    BY <1>4 DEF GetBufferCreate, monVars, txVars, mgrVars
  <2>4. NewBuffer(Main, NewSlot).file = Main
    BY DEF NewBuffer
  <2> HIDE DEF h
  <2> SUFFICES ASSUME NEW b \in BufIds PROVE PlacedAt(b)' BY DEF Placed
  <2>5. PlacedAt(b) BY <1>0 DEF Placed
  <2>6. CASE b = h
    BY <2>1, <2>3, <2>4, <2>6, <1>t DEF PlacedAt
  <2>7. CASE b # h
    BY <2>1, <2>3, <2>5, <2>7, <1>t DEF PlacedAt
  <2>8. QED BY <2>6, <2>7
<1>5. CASE AddBuffer
  <2>1. PICK h \in BufIds : h = netBuf
    BY <1>0, <1>5, WorkFacts DEF AddBuffer
  <2>2. ToSet(activeBuffers') = ToSet(activeBuffers) \cup {h}
    BY <1>5, <1>t, <2>1, ToSetAppend DEF AddBuffer
  <2>3. /\ owner' = [owner EXCEPT ![h] = "active"] /\ netPc = "addBuffer"
        /\ UNCHANGED <<buf, reusableBuffers, monPc, monBuf, txBuffers>>
    BY <1>5, <2>1 DEF AddBuffer, monVars, txVars, objVars
  <2> SUFFICES ASSUME NEW b \in BufIds PROVE PlacedAt(b)' BY DEF Placed
  <2>5. PlacedAt(b) BY <1>0 DEF Placed
  <2>6. QED BY <2>1, <2>2, <2>3, <2>5, <1>t DEF PlacedAt
<1>6. CASE Register \/ WriteOperation
  BY <1>0, <1>f, <1>6, PlacedFrame DEF Register, WriteOperation, mgrVars, monVars, txVars,
     histVars
<1>7. ASSUME NEW t \in Tx, TxWrite(t) PROVE Placed'
  BY <1>0, <1>f, <1>7, PlacedFrame DEF TxWrite, mgrVars, monVars, netVars, histVars
<1>8. ASSUME NEW t \in Tx, TxWriteNewBuffer(t) PROVE Placed'
  <2> DEFINE h == created + 1
             r == NewBuffer(t, Len(txBuffers[t]))
  <2>1. h \in BufIds /\ owner[h] = "free"
    BY <1>0, <1>8, WorkFacts DEF TxWriteNewBuffer
  <2>2. Written(r).file = t
    BY DEF Written, NewBuffer
  <2>3. /\ owner' = [owner EXCEPT ![h] = "tx"]
        /\ buf' = [buf EXCEPT ![h] = Written(r)]
        /\ txBuffers' = [txBuffers EXCEPT ![t] = Append(@, h)]
        /\ netPc = "idle"
        /\ UNCHANGED <<activeBuffers, reusableBuffers, monPc, monBuf, netPc>>
    BY <1>8 DEF TxWriteNewBuffer, monVars, netVars, mgrVars
  <2> HIDE DEF h, r
  <2>4. /\ ToSet(txBuffers'[t]) = ToSet(txBuffers[t]) \cup {h}
        /\ \A u \in Tx : u # t => txBuffers'[u] = txBuffers[u]
    <3>1. txBuffers[t] \in Seq(BufIds)
      BY <1>t
    <3>2. txBuffers'[t] = Append(txBuffers[t], h)
      BY <2>3, <1>t
    <3>3. QED BY <3>1, <3>2, <2>1, <2>3, <1>t, ToSetAppend
  <2> SUFFICES ASSUME NEW b \in BufIds PROVE PlacedAt(b)' BY DEF Placed
  <2>5. PlacedAt(b) BY <1>0 DEF Placed
  <2>6. CASE b = h
    BY <2>1, <2>2, <2>3, <2>4, <2>6, <1>t DEF PlacedAt
  <2>7. CASE b # h
    <3>1. owner'[b] = owner[b] /\ buf'[b] = buf[b]
      BY <2>3, <2>7, <1>t
    <3>2. \A u \in Tx : ToSet(txBuffers[u]) \subseteq ToSet(txBuffers'[u])
      BY <2>4
    <3>3. QED BY <2>3, <2>5, <3>1, <3>2 DEF PlacedAt
  <2>8. QED BY <2>6, <2>7
<1>9. ASSUME NEW t \in Tx, Rollback(t) \/ Commit(t) PROVE Placed'
  <2>1. \A b \in BufIds : b \in ToSet(txBuffers[t]) => owner[b] = "tx" /\ buf[b].file = t
    BY <1>0, FileFacts
  <2>2. /\ netPc = "idle" /\ Unfinished(t)
        /\ txBuffers' = [txBuffers EXCEPT ![t] = <<>>]
        /\ \A b \in BufIds : b \notin ToSet(txBuffers[t]) => owner'[b] = owner[b]
        /\ UNCHANGED <<activeBuffers, reusableBuffers, monPc, monBuf, buf>>
    BY <1>9 DEF Rollback, Commit, monVars, mgrVars, objVars
  <2>3. /\ Rollback(t) => \A b \in ToSet(txBuffers[t]) : b \in BufIds => owner'[b] = "deleted"
        /\ Commit(t) => /\ \A b \in ToSet(txBuffers[t]) : b \in BufIds => owner'[b] = "writer"
                        /\ netPc' = "addBuffers" /\ netTx' = t /\ netAdd' = txBuffers[t]
    BY DEF Rollback, Commit
  <2>4. \A u \in Tx : u # t => txBuffers'[u] = txBuffers[u]
    BY <2>2, <1>t
  <2> SUFFICES ASSUME NEW b \in BufIds PROVE PlacedAt(b)' BY DEF Placed
  <2>5. PlacedAt(b) BY <1>0 DEF Placed
  <2>6. CASE b \in ToSet(txBuffers[t])
    BY <1>9, <2>1, <2>2, <2>3, <2>6 DEF PlacedAt
  <2>7. CASE b \notin ToSet(txBuffers[t])
    <3>1. owner'[b] = owner[b] /\ buf'[b] = buf[b] /\ owner[b] # "writer"
      BY <2>2, <2>5, <2>7 DEF PlacedAt
    <3>2. owner[b] = "tx" => buf[b].file # t
      BY <2>5, <2>7 DEF PlacedAt
    <3>3. QED BY <2>2, <2>4, <2>5, <3>1, <3>2 DEF PlacedAt
  <2>8. QED BY <2>6, <2>7
<1>10. CASE AddBuffersNext
  <2> DEFINE h == Head(netAdd)
  <2>1. ToSet(netAdd) = ToSet(Tail(netAdd)) \cup {h} /\ h \in BufIds
    BY <1>10, <1>t, ToSetTail DEF AddBuffersNext
  <2>2. /\ owner' = [owner EXCEPT ![h] = "active"] /\ netPc = "addBuffersLoop"
        /\ buf' = [buf EXCEPT ![h].ctl = Len(control.recs) + 1]
        /\ activeBuffers' = Append(activeBuffers, h) /\ netAdd' = Tail(netAdd)
        /\ UNCHANGED <<reusableBuffers, monPc, monBuf, txBuffers, netPc, netTx>>
    BY <1>10 DEF AddBuffersNext, monVars, txVars
  <2> HIDE DEF h
  <2>3. ToSet(activeBuffers') = ToSet(activeBuffers) \cup {h}
    BY <1>t, <2>1, <2>2, ToSetAppend
  <2>4. \A b \in BufIds : buf'[b].file = buf[b].file
    BY <2>1, <2>2, <1>t DEF BufferRec
  <2> SUFFICES ASSUME NEW b \in BufIds PROVE PlacedAt(b)' BY DEF Placed
  <2>5. PlacedAt(b) BY <1>0 DEF Placed
  <2>6. CASE b = h
    BY <2>1, <2>2, <2>3, <2>6, <1>t DEF PlacedAt
  <2>7. CASE b # h
    BY <2>1, <2>2, <2>3, <2>4, <2>5, <2>7, <1>t DEF PlacedAt
  <2>8. QED BY <2>6, <2>7
<1>11. CASE FlushPop
  <2> DEFINE h == Head(activeBuffers)
  <2>1. ToSet(activeBuffers) = ToSet(Tail(activeBuffers)) \cup {h} /\ h \in BufIds
    BY <1>0, <1>11, <1>t, ToSetTail, WorkFacts DEF FlushPop
  <2>2. /\ owner' = [owner EXCEPT ![h] = "monitor"] /\ monPc = "pop"
        /\ buf' = [buf EXCEPT ![h].pos = 0]
        /\ activeBuffers' = Tail(activeBuffers) /\ monBuf' = h /\ monPc' = "flush"
        /\ UNCHANGED <<reusableBuffers, txBuffers, netPc, netTx, netBuf, netAdd>>
    BY <1>11 DEF FlushPop, netVars, txVars
  <2> HIDE DEF h
  <2>4. \A b \in BufIds : buf'[b].file = buf[b].file
    BY <2>1, <2>2, <1>t DEF BufferRec
  <2> SUFFICES ASSUME NEW b \in BufIds PROVE PlacedAt(b)' BY DEF Placed
  <2>5. PlacedAt(b) BY <1>0 DEF Placed
  <2>6. CASE b = h
    BY <2>1, <2>2, <2>6, <1>t DEF PlacedAt
  <2>7. CASE b # h
    BY <2>1, <2>2, <2>4, <2>5, <2>7, <1>t DEF PlacedAt
  <2>8. QED BY <2>6, <2>7
<1>12. CASE FlushApply \/ FlushRegister
  BY <1>0, <1>f, <1>12, PlacedFrame DEF FlushApply, FlushRegister, mgrVars, monVars, txVars,
     histVars, netVars
<1>13. CASE FlushRecycle
  <2>1. PICK h \in BufIds : h = monBuf
    BY <1>0, <1>13, WorkFacts DEF FlushRecycle
  <2>2. /\ owner' = [owner EXCEPT ![h] = "reusable"] /\ monPc = "flush"
        /\ buf' = [buf EXCEPT ![h] = Reset(@)] /\ buf[h].file = Main
        /\ reusableBuffers' = Append(reusableBuffers, h)
        /\ UNCHANGED <<activeBuffers, txBuffers, netPc, netTx, netBuf, netAdd>>
    BY <1>13, <2>1 DEF FlushRecycle, netVars, txVars
  <2>3. ToSet(reusableBuffers') = ToSet(reusableBuffers) \cup {h}
    BY <1>t, <2>1, <2>2, ToSetAppend
  <2>4. \A b \in BufIds : buf'[b].file = buf[b].file
    BY <2>1, <2>2, <1>t, ResetLemma
  <2> SUFFICES ASSUME NEW b \in BufIds PROVE PlacedAt(b)' BY DEF Placed
  <2>5. PlacedAt(b) BY <1>0 DEF Placed
  <2>6. CASE b = h
    BY <2>1, <2>2, <2>3, <2>4, <2>6, <1>t DEF PlacedAt
  <2>7. CASE b # h
    BY <2>1, <2>2, <2>3, <2>4, <2>5, <2>7, <1>t DEF PlacedAt
  <2>8. QED BY <2>6, <2>7
<1>14. CASE FlushDrop
  <2>1. PICK h \in BufIds : h = monBuf
    BY <1>0, <1>14, WorkFacts DEF FlushDrop
  <2>2. /\ owner' = [owner EXCEPT ![h] = "deleted"] /\ monPc = "flush"
        /\ UNCHANGED <<activeBuffers, reusableBuffers, txBuffers, buf, netPc, netTx, netBuf,
                       netAdd>>
    BY <1>14, <2>1 DEF FlushDrop, netVars, txVars, mgrVars
  <2> SUFFICES ASSUME NEW b \in BufIds PROVE PlacedAt(b)' BY DEF Placed
  <2>5. PlacedAt(b) BY <1>0 DEF Placed
  <2>6. QED BY <2>1, <2>2, <2>5, <1>t DEF PlacedAt
<1>15. QED
  BY <1>1, <1>2, <1>3, <1>4, <1>5, <1>6, <1>7, <1>8, <1>9, <1>10, <1>11, <1>12, <1>13, <1>14
  DEF Next, Request, NetStep, MonStep

(* A transaction that was asked to commit is never open or rolled back     *)
(* again.                                                                  *)
LEMMA HandedKept ==
  ASSUME BaseInv \/ IndInv, [Next]_vars, NEW t \in Tx, Handed(t)
  PROVE  Handed(t)'
<1>t. txState \in [Tx -> TxStates]
  BY FileFacts
<1>1. CASE UNCHANGED txState
  BY <1>1 DEF Handed
<1>2. CASE \E u \in Tx : TxWrite(u) \/ TxWriteNewBuffer(u) \/ Rollback(u) \/ Commit(u)
  <2>1. PICK u \in Tx : /\ Unfinished(u)
                        /\ \E x : txState' = [txState EXCEPT ![u] = x]
    BY <1>2, Zenon DEF TxWrite, TxWriteNewBuffer, Rollback, Commit
  <2>2. u # t
    BY <2>1 DEF Handed, Unfinished
  <2>3. QED BY <2>1, <2>2, <1>t DEF Handed
<1>3. CASE FinishCommit
  BY <1>3, <1>t DEF FinishCommit, Handed
<1>4. QED
  BY <1>1, <1>2, <1>3 DEF Next, Request, NetStep, MonStep, vars, txVars, RequestWrite,
     GetBufferTail, GetBufferReuse, GetBufferCreate, AddBuffer, AddBufferNotify, Register,
     WriteOperation, AddBuffersLock, AddBuffersNext, AddBuffersUnlock, FlushWake, FlushPop,
     FlushApply, FlushRecycle, FlushRegister, FlushDrop

(* Every step that takes no buffer from the transactions or the reusable   *)
(* ones leaves each log file with those who may map it.                    *)
LEMMA HandedFrame ==
  ASSUME IsolationInv, [Next]_vars, NEW b \in BufIds,
         owner'[b] \in {owner[b], "reusable", "deleted"},
         netPc' \in {"addBuffers", "addBuffersLoop"} =>
           /\ netPc \in {"addBuffers", "addBuffersLoop"} /\ netTx' = netTx
           /\ netPc' = "addBuffers" => netPc = "addBuffers",
         owner[b] = "tx" /\ Unfinished(buf[b].file) => Unfinished(buf[b].file)'
  PROVE  HandedAt(b)'
<1>0. BaseInv /\ HandedAt(b) /\ PlacedAt(b)
  BY DEF IsolationInv, HandedOver, Placed
<1> SUFFICES ASSUME owner[b] # "free" PROVE HandedAt(b)'
  BY DEF HandedAt
<1>1. buf'[b].file = buf[b].file
  BY <1>0, FilesKept
<1>2. \A t \in Tx : Handed(t) => Handed(t)'
  BY <1>0, HandedKept
<1>3. buf[b].file \in Tx \cup {Main}
  BY <1>0, FileFacts DEF File
<1>4. owner'[b] = "tx" => Unfinished(buf[b].file)'
  BY <1>0, <1>1 DEF HandedAt, Unfinished
<1>5. owner'[b] \in {"active", "monitor", "writer"}
        => buf'[b].file = Main \/ Handed(buf[b].file)'
  BY <1>0, <1>1, <1>2, <1>3 DEF HandedAt, Handed
<1>6. QED BY <1>0, <1>1, <1>4, <1>5 DEF HandedAt

(* The transaction that addBuffers and what follows it work for was asked  *)
(* to commit.                                                              *)
LEMMA FinishingStep ==
  ASSUME IsolationInv, [Next]_vars, netTx' \in Tx
  PROVE  Handed(netTx)'
<1>0. BaseInv /\ (netTx \in Tx => Handed(netTx)) /\ txState \in [Tx -> TxStates]
  BY FileFacts DEF IsolationInv, HandedOver
<1>1. CASE UNCHANGED netTx
  BY <1>0, <1>1, HandedKept DEF Handed
<1>2. CASE \E t \in Tx : Commit(t)
  BY <1>0, <1>2 DEF Commit, Handed
<1>3. CASE FinishCommit
  BY <1>3, TxAssumption DEF FinishCommit
<1>4. QED
  BY <1>1, <1>2, <1>3 DEF Next, Request, NetStep, MonStep, vars, netVars, RequestWrite,
     GetBufferTail, GetBufferReuse, GetBufferCreate, AddBuffer, AddBufferNotify, Register,
     WriteOperation, AddBuffersLock, AddBuffersNext, AddBuffersUnlock, TxWrite,
     TxWriteNewBuffer, Rollback, FlushWake, FlushPop, FlushApply, FlushRecycle,
     FlushRegister, FlushDrop

(* Every action keeps the log files with those who may map them.           *)
LEMMA HandedStep == IsolationInv /\ [Next]_vars => HandedOver'
<1> SUFFICES ASSUME IsolationInv, [Next]_vars, NEW b \in BufIds PROVE HandedAt(b)'
  BY FinishingStep DEF HandedOver
<1>0. BaseInv /\ PlacedAt(b) /\ HandedAt(b) /\ Control /\ (netTx \in Tx => Handed(netTx))
  BY DEF IsolationInv, BaseInv, Placed, HandedOver
<1>t. /\ owner \in [BufIds -> Owners] /\ buf \in [BufIds -> BufferRec]
      /\ txState \in [Tx -> TxStates] /\ txBuffers \in [Tx -> Seq(BufIds)]
  BY <1>0, FileFacts
<1>f. owner[b] # "free" => buf'[b].file = buf[b].file
  BY <1>0, FilesKept
<1>h. \A t \in Tx : Handed(t) => Handed(t)'
  BY <1>0, HandedKept
<1>m. buf[b].file \in Tx \cup {Main}
  BY <1>0, FileFacts DEF File
<1>1. CASE \/ UNCHANGED vars \/ RequestWrite \/ GetBufferTail \/ AddBufferNotify
           \/ Register \/ WriteOperation \/ AddBuffersLock \/ AddBuffersUnlock \/ FlushWake
           \/ FlushApply \/ FlushRegister
  <2>1. UNCHANGED <<owner, txState>>
    BY <1>1 DEF vars, txVars, histVars, RequestWrite, GetBufferTail, AddBufferNotify,
       Register, WriteOperation, AddBuffersLock, AddBuffersUnlock, FlushWake, FlushApply,
       FlushRegister
  <2>2. netPc' \in {"addBuffers", "addBuffersLoop"} =>
          /\ netPc \in {"addBuffers", "addBuffersLoop"} /\ netTx' = netTx
          /\ netPc' = "addBuffers" => netPc = "addBuffers"
    BY <1>1 DEF vars, netVars, RequestWrite, GetBufferTail, AddBufferNotify,
       Register, WriteOperation, AddBuffersLock, AddBuffersUnlock, FlushWake, FlushApply,
       FlushRegister
  <2>3. owner[b] = "tx" /\ Unfinished(buf[b].file) => Unfinished(buf[b].file)'
    BY <2>1, <1>f DEF Unfinished
  <2>4. QED BY <2>1, <2>2, <2>3, HandedFrame
<1>2. CASE FlushRecycle \/ FlushDrop
  <2>1. monBuf \in BufIds /\ UNCHANGED <<txState, netPc, netTx>>
    BY <1>0, <1>2, WorkFacts DEF FlushRecycle, FlushDrop, txVars, netVars
  <2>2. owner'[b] \in {owner[b], "reusable", "deleted"}
    BY <1>2, <1>t, <2>1 DEF FlushRecycle, FlushDrop
  <2>3. owner[b] = "tx" /\ Unfinished(buf[b].file) => Unfinished(buf[b].file)'
    BY <2>1, <1>f DEF Unfinished
  <2>4. QED BY <2>1, <2>2, <2>3, HandedFrame
<1>3. CASE FinishCommit
  <2>1. UNCHANGED owner /\ netPc' = "idle"
    BY <1>3 DEF FinishCommit, histVars
  <2>2. owner[b] = "tx" /\ Unfinished(buf[b].file) => Unfinished(buf[b].file)'
    <3>1. netPc = "finishCommit" /\ txState' = [txState EXCEPT ![netTx] = "committed"]
      BY <1>3 DEF FinishCommit
    <3>2. owner[b] = "tx" => buf[b].file \in Tx
      BY <1>0 DEF PlacedAt
    <3>3. \A u \in Tx : Unfinished(u) => u # netTx
      BY <1>0 DEF Handed, Unfinished
    <3>4. QED BY <1>f, <1>t, <3>1, <3>2, <3>3 DEF Unfinished
  <2>3. QED BY <2>1, <2>2, HandedFrame
<1>4. CASE GetBufferReuse
  <2>1. Head(reusableBuffers) \in ToSet(reusableBuffers)
    BY <1>0, <1>4, FileFacts, ToSetTail DEF GetBufferReuse
  <2>2. CASE b = Head(reusableBuffers)
    <3>1. owner[b] = "reusable"
      BY <1>0, <2>1, <2>2, FileFacts
    <3>2. buf'[b].file = Main /\ owner'[b] = "writer"
      BY <1>0, <1>4, <1>f, <1>t, <2>2, <3>1 DEF PlacedAt, GetBufferReuse
    <3>3. QED BY <3>2 DEF HandedAt
  <2>3. CASE b # Head(reusableBuffers)
    <3>1. owner'[b] = owner[b] /\ UNCHANGED txState /\ netPc' = "addBuffer"
      BY <1>4, <1>t, <2>3 DEF GetBufferReuse, txVars
    <3>2. owner[b] = "tx" /\ Unfinished(buf[b].file) => Unfinished(buf[b].file)'
      BY <3>1, <1>f DEF Unfinished
    <3>3. QED BY <3>1, <3>2, HandedFrame
  <2>4. QED BY <2>2, <2>3
<1>5. CASE GetBufferCreate
  <2>1. CASE b = created + 1
    <3>1. buf'[b].file = Main /\ owner'[b] = "writer"
      BY <1>5, <1>t, <2>1 DEF GetBufferCreate, NewBuffer
    <3>2. QED BY <3>1 DEF HandedAt
  <2>2. CASE b # created + 1
    <3>1. owner'[b] = owner[b] /\ UNCHANGED txState /\ netPc' = "addBuffer"
      BY <1>5, <1>t, <2>2 DEF GetBufferCreate, txVars
    <3>2. owner[b] = "tx" /\ Unfinished(buf[b].file) => Unfinished(buf[b].file)'
      BY <3>1, <1>f DEF Unfinished
    <3>3. QED BY <3>1, <3>2, HandedFrame
  <2>3. QED BY <2>1, <2>2
<1>6. CASE AddBuffer
  <2>1. CASE b = netBuf
    <3>1. owner[b] = "writer" /\ owner'[b] = "active" /\ netPc' = "addBufferNotify"
      BY <1>0, <1>6, <1>t, <2>1, WorkFacts DEF AddBuffer
    <3>2. buf'[b].file = Main \/ Handed(buf[b].file)'
      BY <1>0, <1>f, <1>h, <1>m, <3>1 DEF HandedAt, Handed
    <3>3. QED BY <3>1, <3>2 DEF HandedAt
  <2>2. CASE b # netBuf
    <3>1. owner'[b] = owner[b] /\ UNCHANGED txState /\ netPc' = "addBufferNotify"
      BY <1>6, <1>t, <2>2 DEF AddBuffer, txVars
    <3>2. owner[b] = "tx" /\ Unfinished(buf[b].file) => Unfinished(buf[b].file)'
      BY <3>1, <1>f DEF Unfinished
    <3>3. QED BY <3>1, <3>2, HandedFrame
  <2>3. QED BY <2>1, <2>2
<1>7. CASE AddBuffersNext
  <2>1. Head(netAdd) \in ToSet(netAdd)
    BY <1>0, <1>7, FileFacts, ToSetTail DEF AddBuffersNext
  <2>2. CASE b = Head(netAdd)
    <3>1. owner[b] = "writer" /\ owner'[b] = "active" /\ netPc' = "addBuffersLoop"
      BY <1>0, <1>7, <1>t, <2>1, <2>2, FileFacts DEF AddBuffersNext
    <3>2. buf'[b].file = Main \/ Handed(buf[b].file)'
      BY <1>0, <1>f, <1>h, <1>m, <3>1 DEF HandedAt, Handed
    <3>3. QED BY <3>1, <3>2 DEF HandedAt
  <2>3. CASE b # Head(netAdd)
    <3>1. /\ owner'[b] = owner[b] /\ UNCHANGED <<txState, netTx>>
          /\ netPc' = "addBuffersLoop" /\ netPc = "addBuffersLoop"
      BY <1>7, <1>t, <2>3 DEF AddBuffersNext, txVars
    <3>2. owner[b] = "tx" /\ Unfinished(buf[b].file) => Unfinished(buf[b].file)'
      BY <3>1, <1>f DEF Unfinished
    <3>3. QED BY <3>1, <3>2, HandedFrame
  <2>4. QED BY <2>2, <2>3
<1>8. CASE FlushPop
  <2>1. Head(activeBuffers) \in ToSet(activeBuffers)
    BY <1>0, <1>8, FileFacts, WorkFacts, ToSetTail DEF FlushPop
  <2>2. netPc # "addBuffersLoop" /\ UNCHANGED <<netPc, netTx, txState>>
    BY <1>0, <1>8, ThreadAssumption DEF FlushPop, netVars, txVars, Control
  <2>3. CASE b = Head(activeBuffers)
    <3>1. owner[b] = "active" /\ owner'[b] = "monitor"
      BY <1>0, <1>8, <1>t, <2>1, <2>3, FileFacts DEF FlushPop
    <3>2. buf'[b].file = Main \/ Handed(buf[b].file)'
      BY <1>0, <1>f, <1>h, <1>m, <3>1 DEF HandedAt, Handed
    <3>3. buf'[b].file = buf[b].file
      BY <1>f, <3>1
    <3>4. QED BY <1>0, <2>2, <3>1, <3>2, <3>3 DEF HandedAt
  <2>4. CASE b # Head(activeBuffers)
    <3>1. owner'[b] = owner[b]
      BY <1>8, <1>t, <2>4 DEF FlushPop
    <3>2. owner[b] = "tx" /\ Unfinished(buf[b].file) => Unfinished(buf[b].file)'
      BY <2>2, <1>f DEF Unfinished
    <3>3. QED BY <2>2, <3>1, <3>2, HandedFrame
  <2>5. QED BY <2>3, <2>4
<1>9. ASSUME NEW t \in Tx, TxWrite(t) \/ TxWriteNewBuffer(t) PROVE HandedAt(b)'
  <2>1. /\ txState' = [txState EXCEPT ![t] = "open"] /\ netPc = "idle"
        /\ UNCHANGED netPc
    BY <1>9 DEF TxWrite, TxWriteNewBuffer, netVars
  <2>2. \A u \in Tx : Unfinished(u) => txState'[u] \in {"new", "open"}
    BY <2>1, <1>t DEF Unfinished
  <2>3. CASE owner'[b] = owner[b]
    <3>1. owner[b] = "tx" => buf[b].file \in Tx
      BY <1>0 DEF PlacedAt
    <3>2. owner[b] = "tx" /\ Unfinished(buf[b].file) => Unfinished(buf[b].file)'
      BY <2>2, <3>1, <1>f DEF Unfinished
    <3>3. QED BY <2>1, <2>3, <3>2, HandedFrame
  <2>4. CASE owner'[b] # owner[b]
    <3>1. TxWriteNewBuffer(t)
      BY <1>9, <2>4 DEF TxWrite, histVars
    <3>2. b = created + 1
      BY <2>4, <3>1, <1>t DEF TxWriteNewBuffer
    <3>3. owner'[b] = "tx" /\ buf'[b].file = t
      BY <3>1, <3>2, <1>t DEF TxWriteNewBuffer, Written, NewBuffer
    <3>4. txState'[t] = "open"
      BY <2>1, <1>t
    <3>5. QED BY <2>1, <3>3, <3>4 DEF HandedAt, Unfinished
  <2>5. QED BY <2>3, <2>4
<1>10. ASSUME NEW t \in Tx, Rollback(t) PROVE HandedAt(b)'
  <2>1. /\ txState' = [txState EXCEPT ![t] = "rolledback"] /\ netPc = "idle"
        /\ UNCHANGED netPc
    BY <1>10 DEF Rollback, netVars
  <2>2. owner'[b] = IF b \in ToSet(txBuffers[t]) THEN "deleted" ELSE owner[b]
    BY <1>10 DEF Rollback
  <2>3. owner'[b] = "tx" => buf[b].file # t /\ buf[b].file \in Tx
    BY <1>0, <2>2, FileFacts DEF PlacedAt
  <2>4. owner'[b] = "tx" => Unfinished(buf[b].file)'
    BY <1>0, <1>f, <1>t, <2>1, <2>2, <2>3 DEF HandedAt, Unfinished
  <2>5. CASE b \in ToSet(txBuffers[t])
    BY <2>2, <2>5 DEF HandedAt
  <2>6. CASE b \notin ToSet(txBuffers[t])
    BY <2>1, <2>2, <2>4, <2>6, HandedFrame
  <2>7. QED BY <2>5, <2>6
<1>11. ASSUME NEW t \in Tx, Commit(t) PROVE HandedAt(b)'
  <2>1. /\ txState' = [txState EXCEPT ![t] = "committing"] /\ netPc = "idle"
        /\ netPc' = "addBuffers" /\ netTx' = t /\ UNCHANGED buf /\ Unfinished(t)
    BY <1>11 DEF Commit, objVars
  <2>2. owner'[b] = IF b \in ToSet(txBuffers[t]) THEN "writer" ELSE owner[b]
    BY <1>11 DEF Commit
  <2>3. CASE b \in ToSet(txBuffers[t])
    <3>1. owner'[b] = "writer" /\ buf'[b].file = t
      BY <1>0, <2>1, <2>2, <2>3, FileFacts
    <3>2. txState'[t] = "committing"
      BY <2>1, <1>t
    <3>3. QED BY <3>1, <3>2 DEF HandedAt, Handed
  <2>4. CASE b \notin ToSet(txBuffers[t])
    <3>1. owner'[b] = "tx" => buf[b].file # t /\ buf[b].file \in Tx
      BY <1>0, <2>2, <2>4 DEF PlacedAt
    <3>2. owner'[b] = "tx" => Unfinished(buf[b].file)'
      BY <1>0, <1>t, <2>1, <2>2, <2>4, <3>1 DEF HandedAt, Unfinished
    <3>3. owner'[b] \in {"active", "monitor", "writer"}
            => buf'[b].file = Main \/ Handed(buf[b].file)'
      BY <1>0, <1>h, <1>m, <2>1, <2>2, <2>4 DEF HandedAt, Handed
    <3>4. owner'[b] \in {"active", "monitor"} => buf[b].file # t
      <4>1. t # Main /\ ~Handed(t)
        BY <2>1, TxAssumption DEF Handed, Unfinished
      <4>2. QED BY <1>0, <2>2, <2>4, <4>1 DEF HandedAt
    <3>5. QED BY <2>1, <3>2, <3>3, <3>4 DEF HandedAt
  <2>5. QED BY <2>3, <2>4
<1>12. QED
  BY <1>1, <1>2, <1>3, <1>4, <1>5, <1>6, <1>7, <1>8, <1>9, <1>10, <1>11
  DEF Next, Request, NetStep, MonStep

(* A finite set of buffers and its size.                                   *)
LEMMA QueuedFinite ==
  ASSUME NEW t \in Tx
  PROVE  /\ IsFiniteSet(QueuedOf(t)) /\ Cardinality(QueuedOf(t)) \in Nat
         /\ Cardinality(QueuedOf(t)) = 0 <=> QueuedOf(t) = {}
<1>1. IsFiniteSet(BufIds)
  BY FS_Interval, BoundsAssumption DEF BufIds
<1>2. QueuedOf(t) \in SUBSET BufIds
  BY DEF QueuedOf
<1>3. IsFiniteSet(QueuedOf(t))
  BY <1>1, <1>2, FS_Subset
<1>4. QED BY <1>3, FS_CardinalityType, FS_EmptySet

(* _buffersByLog stays the count of the queued buffers of each log file.   *)
LEMMA CountedStep == LogInv /\ [Next]_vars => Counted'
<1> SUFFICES ASSUME LogInv, [Next]_vars, NEW t \in Tx
             PROVE  (buffersByLog[t] = Cardinality(QueuedOf(t)))'
  BY DEF Counted
<1>0. IndInv /\ Placed /\ buffersByLog[t] = Cardinality(QueuedOf(t))
  BY DEF LogInv, FileInv, Counted
<1>t. /\ owner \in [BufIds -> Owners] /\ buf \in [BufIds -> BufferRec]
      /\ buffersByLog \in [Tx -> Int]
  BY <1>0, FileFacts DEF IndInv, TypeOK, MgrType
<1>m. t # Main
  BY TxAssumption
<1>f. \A b \in BufIds : owner[b] # "free" => buf'[b].file = buf[b].file
  BY <1>0, FilesKept
<1>1. CASE /\ buffersByLog'[t] = buffersByLog[t]
           /\ \A b \in BufIds :
                owner'[b] = "active" /\ buf'[b].file = t
                  <=> owner[b] = "active" /\ buf[b].file = t
  <2>1. QueuedOf(t)' = QueuedOf(t)
    BY <1>1 DEF QueuedOf
  <2>2. QED BY <1>0, <1>1, <2>1
<1>2. CASE /\ UNCHANGED buffersByLog
           /\ \A b \in BufIds : owner'[b] = "active" <=> owner[b] = "active"
  BY <1>1, <1>2, <1>f
<1>3. CASE \/ UNCHANGED vars \/ RequestWrite \/ GetBufferTail \/ AddBufferNotify
           \/ Register \/ WriteOperation \/ AddBuffersLock \/ AddBuffersUnlock
           \/ FinishCommit \/ FlushWake \/ FlushApply \/ FlushRegister
           \/ \E u \in Tx : TxWrite(u)
  BY <1>2, <1>3 DEF vars, mgrVars, histVars, RequestWrite, GetBufferTail, AddBufferNotify,
     Register, WriteOperation, AddBuffersLock, AddBuffersUnlock, FinishCommit, FlushWake,
     FlushApply, FlushRegister, TxWrite
<1>4. CASE GetBufferReuse
  <2>1. Head(reusableBuffers) \in BufIds /\ owner[Head(reusableBuffers)] = "reusable"
    BY <1>0, <1>4, FileFacts, ToSetTail DEF GetBufferReuse
  <2>2. QED BY <1>2, <1>4, <1>t, <2>1 DEF GetBufferReuse
<1>5. CASE GetBufferCreate \/ \E u \in Tx : TxWriteNewBuffer(u)
  <2>1. created + 1 \in BufIds /\ owner[created + 1] = "free"
    BY <1>0, <1>5, WorkFacts DEF GetBufferCreate, TxWriteNewBuffer
  <2>2. \/ owner' = [owner EXCEPT ![created + 1] = "writer"]
        \/ owner' = [owner EXCEPT ![created + 1] = "tx"]
    BY <1>5 DEF GetBufferCreate, TxWriteNewBuffer
  <2>3. UNCHANGED buffersByLog
    BY <1>5 DEF GetBufferCreate, TxWriteNewBuffer, mgrVars
  <2>4. QED BY <1>2, <1>t, <2>1, <2>2, <2>3
<1>6. CASE \E u \in Tx : Rollback(u) \/ Commit(u)
  <2>1. PICK u \in Tx : Rollback(u) \/ Commit(u)
    BY <1>6
  <2>2. UNCHANGED buffersByLog
    BY <2>1 DEF Rollback, Commit, mgrVars
  <2>3. \A b \in BufIds : \/ owner'[b] = owner[b]
                          \/ b \in ToSet(txBuffers[u]) /\ owner'[b] \in {"deleted", "writer"}
    BY <2>1 DEF Rollback, Commit
  <2>4. \A b \in ToSet(txBuffers[u]) : owner[b] = "tx"
    BY <1>0, FileFacts
  <2>5. QED BY <1>2, <2>2, <2>3, <2>4
<1>7. CASE AddBuffer
  <2>1. PICK h \in BufIds : h = netBuf
    BY <1>0, <1>7, WorkFacts DEF AddBuffer
  <2>2. owner[h] = "writer" /\ buf[h].file = Main
    BY <1>0, <1>7, <2>1, WorkFacts DEF AddBuffer, Placed, PlacedAt
  <2>3. owner' = [owner EXCEPT ![h] = "active"] /\ UNCHANGED <<buf, buffersByLog>>
    BY <1>7, <2>1 DEF AddBuffer, objVars
  <2>4. QED BY <1>1, <1>m, <1>t, <2>2, <2>3
<1>8. CASE AddBuffersNext
  <2> DEFINE h == Head(netAdd)
  <2>1. h \in BufIds /\ owner[h] = "writer"
    BY <1>0, <1>8, FileFacts, ToSetTail DEF AddBuffersNext
  <2>2. /\ owner' = [owner EXCEPT ![h] = "active"]
        /\ buffersByLog' = [buffersByLog EXCEPT ![buf[h].file] = @ + 1]
    BY <1>8 DEF AddBuffersNext
  <2> HIDE DEF h
  <2>3. CASE buf[h].file # t
    <3>1. buffersByLog'[t] = buffersByLog[t]
      BY <1>t, <2>2, <2>3
    <3>2. QED BY <1>1, <1>f, <1>t, <2>1, <2>2, <2>3, <3>1
  <2>4. CASE buf[h].file = t
    <3>1. buffersByLog'[t] = buffersByLog[t] + 1
      BY <1>t, <2>2, <2>4
    <3>2. QueuedOf(t)' = QueuedOf(t) \cup {h}
      BY <1>f, <1>t, <2>1, <2>2, <2>4 DEF QueuedOf
    <3>3. h \notin QueuedOf(t)
      BY <2>1 DEF QueuedOf
    <3>4. Cardinality(QueuedOf(t) \cup {h}) = Cardinality(QueuedOf(t)) + 1
      BY <3>3, QueuedFinite, FS_AddElement
    <3>5. QED BY <1>0, <3>1, <3>2, <3>4
  <2>5. QED BY <2>3, <2>4
<1>9. CASE FlushPop
  <2> DEFINE h == Head(activeBuffers)
  <2>1. h \in BufIds /\ owner[h] = "active"
    BY <1>0, <1>9, FileFacts, WorkFacts, ToSetTail DEF FlushPop
  <2>2. /\ owner' = [owner EXCEPT ![h] = "monitor"]
        /\ buffersByLog'[t] = IF t = buf[h].file THEN buffersByLog[t] - 1 ELSE buffersByLog[t]
    BY <1>9 DEF FlushPop
  <2> HIDE DEF h
  <2>3. CASE buf[h].file # t
    BY <1>1, <1>f, <1>t, <2>1, <2>2, <2>3
  <2>4. CASE buf[h].file = t
    <3>1. buffersByLog'[t] = buffersByLog[t] - 1
      BY <2>2, <2>4
    <3>2. QueuedOf(t)' = QueuedOf(t) \ {h}
      BY <1>f, <1>t, <2>1, <2>2, <2>4 DEF QueuedOf
    <3>3. h \in QueuedOf(t)
      BY <2>1, <2>4 DEF QueuedOf
    <3>4. Cardinality(QueuedOf(t) \ {h}) = Cardinality(QueuedOf(t)) - 1
      BY <3>3, QueuedFinite, FS_RemoveElement
    <3>5. QED BY <1>0, <3>1, <3>2, <3>4
  <2>5. QED BY <2>3, <2>4
<1>10. CASE FlushRecycle \/ FlushDrop
  <2>1. PICK h \in BufIds : h = monBuf
    BY <1>0, <1>10, WorkFacts DEF FlushRecycle, FlushDrop
  <2>2. owner[h] = "monitor"
    BY <1>0, <1>10, <2>1, WorkFacts DEF FlushRecycle, FlushDrop
  <2>3. \/ owner' = [owner EXCEPT ![h] = "reusable"]
        \/ owner' = [owner EXCEPT ![h] = "deleted"]
    BY <1>10, <2>1 DEF FlushRecycle, FlushDrop
  <2>4. UNCHANGED buffersByLog
    BY <1>10 DEF FlushRecycle, FlushDrop, mgrVars
  <2>5. QED BY <1>2, <1>t, <2>2, <2>3, <2>4
<1>11. QED
  BY <1>3, <1>4, <1>5, <1>6, <1>7, <1>8, <1>9, <1>10 DEF Next, Request, NetStep, MonStep

(* Every write into a log file is of the file's transaction or of none.    *)
LEMMA OwnOperationsStep == IsolationInv /\ [Next]_vars => OwnOperations'
<1> SUFFICES ASSUME IsolationInv, [Next]_vars PROVE OwnOperations' OBVIOUS
<1>0. BaseInv /\ Placed /\ OwnOperations /\ TypeOK /\ CursorBounds /\ ObjType
  BY DEF IsolationInv, BaseInv, TypeOK
<1>t. /\ buf \in [BufIds -> BufferRec] /\ txBuffers \in [Tx -> Seq(BufIds)]
      /\ netOp \in Op \cup {None} /\ issued \in 0..MaxOps
  BY <1>0, FileFacts DEF TypeOK, NetType
<1> DEFINE Own(d) == \A f \in File, s \in Slots, i \in 1..BufCap :
                       d[f][s][i] = None \/ d[f][s][i].tx \in {f, Main}
<1>w. ASSUME NEW r \in BufferRec, NEW op \in Op \cup {None}, r.pos < BufCap,
             op = None \/ op.tx \in {r.file, Main}, disk' = WrittenDisk(r, op)
      PROVE  Own(disk')
  <2> SUFFICES ASSUME NEW f \in File, NEW s \in Slots, NEW i \in 1..BufCap
               PROVE  disk'[f][s][i] = None \/ disk'[f][s][i].tx \in {f, Main}
    OBVIOUS
  <2>1. CASE f = r.file /\ s = r.slot /\ i = r.pos + 1
    BY <1>0, <1>w, <2>1, WrittenDiskLemma
  <2>2. CASE ~(f = r.file /\ s = r.slot /\ i = r.pos + 1)
    <3>1. disk'[f][s][i] = disk[f][s][i]
      BY <1>0, <1>w, <2>2, WrittenDiskLemma
    <3>2. QED BY <1>0, <3>1 DEF OwnOperations
  <2>3. QED BY <2>1, <2>2
<1>q. OwnOperations' <=> (netOp' = None \/ netOp'.tx = Main) /\ Own(disk')
  BY DEF OwnOperations
<1>o. Own(disk) /\ (netOp = None \/ netOp.tx = Main)
  BY <1>0 DEF OwnOperations
<1> HIDE DEF Own
<1>1. CASE UNCHANGED <<disk, netOp>>
  BY <1>1, <1>o, <1>q
<1>2. CASE RequestWrite
  BY <1>2, <1>o, <1>q DEF RequestWrite, objVars
<1>3. CASE WriteOperation
  <2>1. netBuf \in BufIds
    BY <1>0, <1>3, WorkFacts DEF WriteOperation
  <2>2. buf[netBuf].pos < BufCap
    BY <1>0, <1>3, <2>1 DEF CursorBounds, WriteOperation
  <2>3. buf[netBuf] \in BufferRec /\ buf[netBuf].pos < BufCap
    BY <1>t, <2>1, <2>2, BufCapAssumption DEF BufferRec
  <2>4. disk' = WrittenDisk(buf[netBuf], netOp) /\ netOp' = None
    BY <1>3 DEF WriteOperation
  <2>5. Own(disk')
    BY <1>t, <1>o, <1>w, <2>3, <2>4
  <2>6. QED BY <1>q, <2>4, <2>5
<1>4. CASE \E t \in Tx : TxWrite(t)
  <2>1. PICK t \in Tx : TxWrite(t)
    BY <1>4
  <2>2. txBuffers[t] \in Seq(BufIds) /\ txBuffers[t] # <<>>
    BY <1>t, <2>1 DEF TxWrite, HasRoom
  <2>3. PICK b \in BufIds : b = Last(txBuffers[t]) /\ b \in ToSet(txBuffers[t])
    BY <2>2 DEF Last, ToSet
  <2>4. buf[b].file = t
    BY <1>0, <2>3, FileFacts
  <2>5. buf[b] \in BufferRec /\ buf[b].pos < BufCap
    BY <1>t, <2>1, <2>3, BufCapAssumption DEF TxWrite, HasRoom, BufferRec
  <2> DEFINE op == [n |-> issued + 1, tx |-> t]
  <2>6. op \in Op /\ op.tx = t
    BY <1>t, <2>1, BoundsAssumption DEF TxWrite, Op, File
  <2>7. disk' = WrittenDisk(buf[b], op) /\ UNCHANGED netOp
    BY <2>1, <2>3 DEF TxWrite, netVars
  <2> HIDE DEF op
  <2>8. Own(disk')
    BY <1>w, <2>4, <2>5, <2>6, <2>7
  <2>9. QED BY <1>o, <1>q, <2>7, <2>8
<1>5. CASE \E t \in Tx : TxWriteNewBuffer(t)
  <2>1. PICK t \in Tx : TxWriteNewBuffer(t)
    BY <1>5
  <2> DEFINE op == [n |-> issued + 1, tx |-> t]
             r == NewBuffer(t, Len(txBuffers[t]))
  <2>2. op \in Op /\ op.tx = t
    BY <1>t, <2>1, BoundsAssumption DEF TxWriteNewBuffer, Op, File
  <2>3. r \in BufferRec /\ r.pos < BufCap /\ r.file = t
    BY <1>t, <2>1, BufCapAssumption DEF TxWriteNewBuffer, BufferRec, NewBuffer, File
  <2>4. disk' = WrittenDisk(r, op) /\ UNCHANGED netOp
    BY <2>1 DEF TxWriteNewBuffer, netVars
  <2> HIDE DEF op, r
  <2>5. Own(disk')
    BY <1>w, <2>2, <2>3, <2>4
  <2>6. QED BY <1>o, <1>q, <2>4, <2>5
<1>6. QED
  BY <1>1, <1>2, <1>3, <1>4, <1>5 DEF Next, Request, NetStep, MonStep, vars, netVars, objVars,
     GetBufferTail, GetBufferReuse, GetBufferCreate, AddBuffer, AddBufferNotify, Register,
     AddBuffersLock, AddBuffersNext, AddBuffersUnlock, FinishCommit, Rollback, Commit,
     FlushWake, FlushPop, FlushApply, FlushRecycle, FlushRegister, FlushDrop

(* The monitor hands on operations of committing transactions only.        *)
LEMMA CommittedStep == IsolationInv /\ [Next]_vars => OnlyCommittedApplied'
<1> SUFFICES ASSUME IsolationInv, [Next]_vars PROVE OnlyCommittedApplied' OBVIOUS
<1>0. BaseInv /\ HandedOver /\ OwnOperations /\ OnlyCommittedApplied /\ TypeOK
  BY DEF IsolationInv, BaseInv
<1>t. applied \in Seq(Op \cup {None}) /\ buf \in [BufIds -> BufferRec]
  BY <1>0, FileFacts DEF TypeOK, HistType
<1> DEFINE Ok(op) == op # None /\ op.tx # Main => txState'[op.tx] \in {"committing", "committed"}
<1>q. OnlyCommittedApplied' <=> \A i \in 1..Len(applied') : Ok(applied'[i])
  BY DEF OnlyCommittedApplied
<1>1. \A i \in 1..Len(applied) : Ok(applied[i])
  <2> SUFFICES ASSUME NEW i \in 1..Len(applied), applied[i] # None, applied[i].tx # Main
               PROVE  txState'[applied[i].tx] \in {"committing", "committed"}
    OBVIOUS
  <2>1. applied[i].tx \in Tx
    BY <1>t DEF Op, File
  <2>2. Handed(applied[i].tx)
    BY <1>0 DEF OnlyCommittedApplied, Handed
  <2>3. QED BY <1>0, <2>1, <2>2, HandedKept DEF Handed
<1>2. CASE UNCHANGED applied
  BY <1>1, <1>2, <1>q
<1>3. CASE FlushApply
  <2>1. PICK h \in BufIds : h = monBuf /\ owner[h] = "monitor"
    BY <1>0, <1>3, WorkFacts DEF FlushApply
  <2> DEFINE op == disk[buf[h].file][buf[h].slot][buf[h].pos + 1]
  <2>2. applied' = Append(applied, op) /\ ~Eof(buf[h])
    BY <1>3, <2>1 DEF FlushApply
  <2>3. /\ buf[h].file \in File /\ buf[h].slot \in Slots
        /\ buf[h].pos \in 0..BufCap /\ buf[h].len \in 0..BufCap
    BY <1>t, <2>1 DEF BufferRec
  <2>4. buf[h].pos + 1 \in 1..BufCap
    BY <2>2, <2>3, BufCapAssumption DEF Eof
  <2>5. op = None \/ op.tx \in {buf[h].file, Main}
    BY <1>0, <2>3, <2>4 DEF OwnOperations
  <2>6. buf[h].file # Main => Handed(buf[h].file)
    BY <1>0, <2>1 DEF HandedOver, HandedAt
  <2>7. buf[h].file # Main => Handed(buf[h].file) /\ txState' = txState
    BY <2>6, <1>3 DEF FlushApply, txVars
  <2>8. Ok(op)
    BY <2>5, <2>7 DEF Handed
  <2>9. op \in Op \cup {None}
    <3>1. disk \in [File -> [Slots -> [1..BufCap -> Op \cup {None}]]]
      BY <1>0 DEF TypeOK, ObjType
    <3>2. disk[buf[h].file][buf[h].slot] \in [1..BufCap -> Op \cup {None}]
      BY <2>3, <3>1
    <3>3. QED BY <2>4, <3>2
  <2> HIDE DEF op, Ok
  <2>10. /\ Len(applied') = Len(applied) + 1 /\ applied'[Len(applied) + 1] = op
         /\ \A i \in 1..Len(applied) : applied'[i] = applied[i]
         /\ Len(applied) \in Nat
    BY <1>t, <2>2, <2>9
  <2>11. QED BY <1>1, <1>q, <2>8, <2>10
<1>4. QED
  BY <1>2, <1>3 DEF Next, Request, NetStep, MonStep, vars, histVars, RequestWrite,
     GetBufferTail, GetBufferReuse, GetBufferCreate, AddBuffer, AddBufferNotify, Register,
     WriteOperation, AddBuffersLock, AddBuffersNext, AddBuffersUnlock, FinishCommit, TxWrite,
     TxWriteNewBuffer, Rollback, Commit, FlushWake, FlushPop, FlushRecycle, FlushRegister,
     FlushDrop

(* A file is created with its first buffer and removed with its last one.  *)
LEMMA LifetimeStep == LogInv /\ [Next]_vars => LogFileLifetime'
<1> SUFFICES ASSUME LogInv, [Next]_vars, NEW t \in Tx
             PROVE  t \in logFiles' <=> \E b \in BufIds : Live(b)' /\ buf'[b].file = t
  BY DEF LogFileLifetime
<1>0. /\ IndInv /\ Placed /\ HandedOver /\ Counted
      /\ t \in logFiles <=> \E b \in BufIds : Live(b) /\ buf[b].file = t
  BY DEF LogInv, FileInv, LogFileLifetime
<1>t. /\ owner \in [BufIds -> Owners] /\ buf \in [BufIds -> BufferRec]
  BY <1>0, FileFacts
<1>m. t # Main
  BY TxAssumption
<1>f. \A b \in BufIds : Live(b) => buf'[b].file = buf[b].file
  BY <1>0, FilesKept DEF Live
<1>1. CASE UNCHANGED logFiles /\ \A b \in BufIds : Live(b)' <=> Live(b)
  BY <1>0, <1>1, <1>f
<1>2. CASE \/ UNCHANGED vars \/ RequestWrite \/ GetBufferTail \/ AddBufferNotify
           \/ Register \/ WriteOperation \/ AddBuffersLock \/ AddBuffersUnlock
           \/ FinishCommit \/ FlushWake \/ FlushApply \/ FlushRegister
           \/ \E u \in Tx : TxWrite(u)
  BY <1>1, <1>2 DEF Live, vars, objVars, histVars, RequestWrite, GetBufferTail,
     AddBufferNotify, Register, WriteOperation, AddBuffersLock, AddBuffersUnlock,
     FinishCommit, FlushWake, FlushApply, FlushRegister, TxWrite
<1>3. CASE \E h \in BufIds : \E o \in Owners \ {"free", "deleted"} :
             owner' = [owner EXCEPT ![h] = o] /\ Live(h) /\ UNCHANGED logFiles
  BY <1>1, <1>3, <1>t DEF Live
<1>4. CASE GetBufferReuse
  <2>1. Head(reusableBuffers) \in BufIds /\ Live(Head(reusableBuffers))
    <3>1. reusableBuffers \in Seq(BufIds) /\ reusableBuffers # <<>>
      BY <1>0, <1>4, FileFacts DEF GetBufferReuse
    <3>2. Head(reusableBuffers) \in ToSet(reusableBuffers)
      BY <3>1, ToSetTail
    <3>3. QED BY <1>0, <3>2, FileFacts DEF Live
  <2>2. QED BY <1>3, <1>4, <2>1 DEF GetBufferReuse, Owners
<1>5. CASE AddBuffer
  <2>1. netBuf \in BufIds /\ Live(netBuf)
    BY <1>0, <1>5, WorkFacts DEF AddBuffer, Live
  <2>2. QED BY <1>3, <1>5, <2>1 DEF AddBuffer, Owners, objVars
<1>6. CASE AddBuffersNext
  <2>1. Head(netAdd) \in BufIds /\ Live(Head(netAdd))
    <3>1. netAdd \in Seq(BufIds) /\ netAdd # <<>>
      BY <1>0, <1>6, FileFacts DEF AddBuffersNext
    <3>2. Head(netAdd) \in ToSet(netAdd)
      BY <3>1, ToSetTail
    <3>3. QED BY <1>0, <3>2, FileFacts DEF Live
  <2>2. owner' = [owner EXCEPT ![Head(netAdd)] = "active"] /\ UNCHANGED logFiles
    BY <1>6 DEF AddBuffersNext
  <2>3. QED BY <1>3, <2>1, <2>2 DEF Owners
<1>7. CASE FlushPop
  <2>1. Head(activeBuffers) \in BufIds /\ Live(Head(activeBuffers))
    <3>1. activeBuffers \in Seq(BufIds) /\ activeBuffers # <<>>
      BY <1>0, <1>7, FileFacts, WorkFacts DEF FlushPop
    <3>2. Head(activeBuffers) \in ToSet(activeBuffers)
      BY <3>1, ToSetTail
    <3>3. QED BY <1>0, <3>2, FileFacts DEF Live
  <2>2. owner' = [owner EXCEPT ![Head(activeBuffers)] = "monitor"] /\ UNCHANGED logFiles
    BY <1>7 DEF FlushPop
  <2>3. QED BY <1>3, <2>1, <2>2 DEF Owners
<1>8. CASE FlushRecycle
  <2>1. monBuf \in BufIds /\ Live(monBuf)
    BY <1>0, <1>8, WorkFacts DEF FlushRecycle, Live
  <2>2. QED BY <1>3, <1>8, <2>1 DEF FlushRecycle, Owners
<1>9. CASE GetBufferCreate
  <2>1. /\ created + 1 \in BufIds /\ owner' = [owner EXCEPT ![created + 1] = "writer"]
        /\ buf'[created + 1].file = Main /\ UNCHANGED logFiles
    BY <1>0, <1>9, <1>t, WorkFacts DEF GetBufferCreate, NewBuffer
  <2>2. ~Live(created + 1)
    BY <1>0, <1>9, WorkFacts DEF GetBufferCreate, Live
  <2>3. \A b \in BufIds : b # created + 1 => (Live(b)' <=> Live(b))
    BY <1>t, <2>1 DEF Live
  <2>4. QED BY <1>0, <1>f, <1>m, <2>1, <2>2, <2>3
<1>10. ASSUME NEW u \in Tx, TxWriteNewBuffer(u)
       PROVE  t \in logFiles' <=> \E b \in BufIds : Live(b)' /\ buf'[b].file = t
  <2>0. PICK h \in BufIds : h = created + 1
    BY <1>0, <1>10, WorkFacts DEF TxWriteNewBuffer
  <2>1. /\ owner' = [owner EXCEPT ![h] = "tx"]
        /\ buf'[h].file = u /\ logFiles' = logFiles \cup {u}
    BY <1>10, <1>t, <2>0 DEF TxWriteNewBuffer, NewBuffer, Written
  <2>2. ~Live(h)
    BY <1>0, <1>10, <2>0, WorkFacts DEF TxWriteNewBuffer, Live
  <2>3. (\A b \in BufIds : b # h => (Live(b)' <=> Live(b))) /\ Live(h)'
    BY <1>t, <2>1 DEF Live
  <2>4. QED BY <1>0, <1>f, <1>m, <2>1, <2>2, <2>3
<1>11. ASSUME NEW u \in Tx, Commit(u)
       PROVE  t \in logFiles' <=> \E b \in BufIds : Live(b)' /\ buf'[b].file = t
  <2>1. \A b \in BufIds : owner'[b] = IF b \in ToSet(txBuffers[u]) THEN "writer" ELSE owner[b]
    BY <1>11 DEF Commit
  <2>2. \A b \in ToSet(txBuffers[u]) : owner[b] = "tx"
    BY <1>0, FileFacts
  <2>3. QED BY <1>1, <1>11, <2>1, <2>2 DEF Live, Commit, objVars
<1>12. ASSUME NEW u \in Tx, Rollback(u)
       PROVE  t \in logFiles' <=> \E b \in BufIds : Live(b)' /\ buf'[b].file = t
  <2>1. /\ \A b \in BufIds :
             owner'[b] = IF b \in ToSet(txBuffers[u]) THEN "deleted" ELSE owner[b]
        /\ logFiles' = logFiles \ {u} /\ Unfinished(u) /\ buf' = buf
    BY <1>12 DEF Rollback
  <2>2. \A b \in ToSet(txBuffers[u]) : owner[b] = "tx" /\ buf[b].file = u
    BY <1>0, FileFacts
  <2>3. CASE t # u
    BY <1>0, <2>1, <2>2, <2>3 DEF Live
  <2>4. CASE t = u
    <3> SUFFICES ASSUME NEW b \in BufIds, Live(b)', buf[b].file = t PROVE FALSE
      BY <2>1, <2>4
    <3>1. b \notin ToSet(txBuffers[u]) /\ owner'[b] = owner[b] /\ Live(b)
      BY <2>1 DEF Live
    <3>2. PlacedAt(b) /\ HandedAt(b)
      BY <1>0 DEF Placed, HandedOver
    <3>3. ~Handed(t)
      BY <2>1, <2>4 DEF Handed, Unfinished
    <3>4. owner[b] \notin {"active", "monitor", "writer", "reusable", "tx"}
      BY <1>m, <2>4, <3>1, <3>2, <3>3 DEF PlacedAt, HandedAt
    <3>5. QED BY <1>t, <3>1, <3>4 DEF Live, Owners
  <2>5. QED BY <2>3, <2>4
<1>13. CASE FlushDrop
  <2>1. PICK h \in BufIds : h = monBuf /\ owner[h] = "monitor"
    BY <1>0, <1>13, WorkFacts DEF FlushDrop
  <2>2. /\ owner' = [owner EXCEPT ![h] = "deleted"] /\ buf' = buf /\ buf[h].file # Main
        /\ logFiles' = IF DropFile(buf[h].file) THEN logFiles \ {buf[h].file} ELSE logFiles
    BY <1>13, <2>1 DEF FlushDrop
  <2>3. ~Live(h)' /\ Live(h) /\ \A b \in BufIds : b # h => (Live(b)' <=> Live(b))
    BY <1>t, <2>1, <2>2 DEF Live
  <2>4. CASE t # buf[h].file
    BY <1>0, <2>2, <2>3, <2>4
  <2>5. CASE t = buf[h].file
    <3>1. t \in logFiles
      BY <1>0, <2>3, <2>5
    <3>2. DropFile(t) <=> QueuedOf(t) = {}
      BY <1>0, QueuedFinite DEF DropFile, Counted
    <3>3. CASE QueuedOf(t) # {}
      <4>1. PICK b \in BufIds : owner[b] = "active" /\ buf[b].file = t
        BY <3>3 DEF QueuedOf
      <4>2. b # h /\ Live(b)
        BY <2>1, <4>1 DEF Live
      <4>3. QED BY <2>2, <2>3, <2>5, <3>1, <3>2, <3>3, <4>1, <4>2
    <3>4. CASE QueuedOf(t) = {}
      <4> SUFFICES ASSUME NEW b \in BufIds, Live(b)', buf[b].file = t PROVE FALSE
        BY <2>2, <2>5, <3>2, <3>4
      <4>1. b # h /\ Live(b)
        BY <2>3
      <4>2. PlacedAt(b) /\ HandedAt(b) /\ HandedAt(h)
        BY <1>0 DEF Placed, HandedOver
      <4>3. Handed(t)
        BY <1>m, <2>1, <2>5, <4>2 DEF HandedAt
      <4>4. owner[b] # "active"
        BY <3>4 DEF QueuedOf
      <4>5. owner[b] # "tx"
        BY <4>2, <4>3 DEF HandedAt, Handed, Unfinished
      <4>6. owner[b] # "monitor"
        BY <2>1, <4>1, <4>2 DEF PlacedAt
      <4>7. owner[b] # "reusable"
        BY <1>m, <4>2 DEF PlacedAt
      <4>8. owner[b] # "writer"
        BY <1>m, <2>1, <2>5, <4>2 DEF PlacedAt, HandedAt
      <4>9. QED BY <1>t, <4>1, <4>4, <4>5, <4>6, <4>7, <4>8 DEF Live, Owners
    <3>5. QED BY <3>3, <3>4
  <2>6. QED BY <2>4, <2>5
<1>14. QED
  BY <1>2, <1>4, <1>5, <1>6, <1>7, <1>8, <1>9, <1>10, <1>11, <1>12, <1>13
  DEF Next, Request, NetStep, MonStep

(* The empty log has no log files and owes nothing to a transaction.       *)
LEMMA InitFileInv == Init => FileInv
<1> SUFFICES ASSUME Init PROVE FileInv OBVIOUS
<1>1. \A b \in BufIds : owner[b] = "free"
  BY DEF Init
<1>2. Placed
  BY <1>1 DEF Placed, PlacedAt
<1>3. HandedOver
  BY <1>1, TxAssumption DEF HandedOver, HandedAt, Init
<1>4. Counted
  <2> SUFFICES ASSUME NEW t \in Tx PROVE buffersByLog[t] = Cardinality(QueuedOf(t))
    BY DEF Counted
  <2>1. QueuedOf(t) = {}
    BY <1>1 DEF QueuedOf
  <2>2. QED BY <2>1, FS_EmptySet DEF Init
<1>5. OwnOperations
  BY DEF OwnOperations, Init
<1>6. OnlyCommittedApplied
  BY DEF OnlyCommittedApplied, Init
<1>7. LogFileLifetime
  BY <1>1 DEF LogFileLifetime, Live, Init
<1>8. QED BY <1>2, <1>3, <1>4, <1>5, <1>6, <1>7 DEF FileInv

----------------------------------------------------------------------------
(* In every behaviour of the log, whatever the clients do and however the  *)
(* threads interleave, the log is in order and its files are those of the  *)
(* buffers that map them.                                                  *)
THEOREM LogInvariance == Spec => []LogInv
<1>1. Init => LogInv
  BY InitInv, InitFileInv DEF LogInv
<1>2. LogInv /\ [Next]_vars => LogInv'
  <2> SUFFICES ASSUME LogInv, [Next]_vars PROVE LogInv' OBVIOUS
  <2>1. IndInv'
    BY BaseOfInd, TypeStep, ContainersStep, ControlStep, CursorsStep, OrderStep, IntactStep
    DEF LogInv, IndInv
  <2>2. FileInv'
    BY IsolationOfLog, PlacedStep, HandedStep, CountedStep, OwnOperationsStep, CommittedStep,
       LifetimeStep DEF FileInv
  <2>3. QED BY <2>1, <2>2 DEF LogInv
<1>3. QED BY <1>1, <1>2, PTL DEF Spec

(* No TxBuffer is lost between the threads: getBuffer, addBuffers,         *)
(* flushBuffer and dropBuffer leave each one with exactly one owner, who   *)
(* can reach it.                                                           *)
THEOREM NoLeak == Spec => []NoBufferLeaked
<1>1. LogInv => NoBufferLeaked
  BY DEF LogInv, FileInv, IndInv, NoBufferLeaked, Placed, PlacedAt
<1>2. QED BY LogInvariance, <1>1, PTL

(* The controller sees no operation of a transaction that the client did   *)
(* not commit, even when createNewBuffer mapped two buffers over each      *)
(* other.                                                                  *)
THEOREM Isolation == Spec => []OnlyCommittedApplied
<1>1. LogInv => OnlyCommittedApplied
  BY DEF LogInv, FileInv
<1>2. QED BY LogInvariance, <1>1, PTL

(* dropBuffer removes a transaction's log file with the last buffer that   *)
(* maps it, never earlier and never later.                                 *)
THEOREM FileLifetime == Spec => []LogFileLifetime
<1>1. LogInv => LogFileLifetime
  BY DEF LogInv, FileInv
<1>2. QED BY LogInvariance, <1>1, PTL

=============================================================================
