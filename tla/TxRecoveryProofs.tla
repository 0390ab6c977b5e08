-------------------------- MODULE TxRecoveryProofs --------------------------
(***************************************************************************)
(* Proofs about the write-ahead log with restarts: what the constructor    *)
(* rebuilds from the control file is a well-formed log again, transactions *)
(* stay isolated, nothing that was accepted and has a record is lost, and  *)
(* no run of the server applies an operation twice.                        *)
(***************************************************************************)
EXTENDS TxRecovery, TxLogTheorems

(* Cursors stay where they are when no cursor moves.                       *)
LEMMA BoundsFrame ==
  ASSUME CursorBounds, UNCHANGED <<netPc, netBuf, monPc, monBuf>>,
         TypeOK, Control,
         \A b \in BufIds : /\ buf'[b].pos = buf[b].pos /\ buf'[b].len = buf[b].len
                           /\ owner'[b] = "reusable" => owner[b] = "reusable"
  PROVE  CursorBounds'
  BY DEF CursorBounds, Control, TypeOK, NetType, MonType, Live

(* Every action keeps cursors behind lengths, room where the network       *)
(* thread is about to write, and reusable buffers empty.                   *)
LEMMA BoundsStep == BaseInv /\ [Next]_vars => CursorBounds'
<1> SUFFICES ASSUME BaseInv, [Next]_vars PROVE CursorBounds' OBVIOUS
<1>0. TypeOK /\ Containers /\ Control /\ CursorBounds
  BY DEF BaseInv
<1>t. /\ activeBuffers \in Seq(BufIds) /\ reusableBuffers \in Seq(BufIds)
      /\ netAdd \in Seq(BufIds) /\ txBuffers \in [Tx -> Seq(BufIds)]
      /\ owner \in [BufIds -> Owners] /\ buf \in [BufIds -> BufferRec]
      /\ netBuf \in BufIds \cup {0} /\ monBuf \in BufIds \cup {0}
      /\ 0 \notin BufIds
  BY <1>0 DEF TypeOK, MgrType, NetType, TxType, ObjType, HistType, MonType, BufIds
<1>n. \A b \in BufIds : /\ buf[b].pos \in Nat /\ buf[b].len \in Nat
                        /\ buf[b].pos <= BufCap /\ buf[b].len <= BufCap
  BY <1>t, BufCapAssumption DEF BufferRec
<1>c. /\ netPc \in {"addBuffer", "addBufferNotify", "register", "write"}
           => netBuf \in BufIds
      /\ monPc = "register" => monBuf \in BufIds
  BY <1>0, <1>t DEF Control
<1>w. /\ netPc = "write" => owner[netBuf] = "active"
      /\ monPc = "flush" => owner[monBuf] = "monitor"
  BY WorkFacts
<1>1. CASE UNCHANGED vars
  BY <1>0, <1>1 DEF CursorBounds, Live, vars, netVars, histVars, objVars, monVars
<1>2. CASE \/ RequestWrite \/ AddBufferNotify \/ AddBuffersLock
           \/ AddBuffersUnlock \/ FinishCommit
  BY <1>0, <1>2 DEF RequestWrite, AddBufferNotify, AddBuffersLock,
     AddBuffersUnlock, FinishCommit, CursorBounds, Live, netVars, histVars, objVars,
     monVars
<1>3. CASE GetBufferTail
  <2>1. /\ Last(activeBuffers) \in BufIds /\ owner[Last(activeBuffers)] = "active"
        /\ BufCap - buf[Last(activeBuffers)].pos >= 1
    BY <1>0, <1>t, <1>3 DEF GetBufferTail, TailFits, HasRoom, Last, Containers, Holds
  <2>2. buf[Last(activeBuffers)].pos < BufCap
    BY <1>n, <2>1, BufCapAssumption
  <2>3. QED
    BY <1>0, <1>3, <2>2 DEF GetBufferTail, CursorBounds, Live, objVars, histVars, monVars
<1>4. CASE GetBufferReuse
  <2> DEFINE h == Head(reusableBuffers)
  <2>1. h \in BufIds /\ owner[h] = "reusable"
    BY <1>0, <1>t, <1>4 DEF GetBufferReuse, Containers, Holds
  <2>2. /\ netPc' = "addBuffer" /\ netBuf' = h
        /\ owner' = [owner EXCEPT ![h] = "writer"]
        /\ buf' = [buf EXCEPT ![h] = Reset(buf[h])]
        /\ UNCHANGED <<monPc, monBuf>>
    BY <1>4 DEF GetBufferReuse, monVars
  <2> HIDE DEF h
  <2>3. /\ buf'[h].pos = 0 /\ buf'[h].len = 0 /\ owner'[h] = "writer"
        /\ \A b \in BufIds : b # h => buf'[b] = buf[b] /\ owner'[b] = owner[b]
    BY <1>t, <2>1, <2>2, ResetLemma
  <2>4. QED
    BY <1>0, <1>t, <1>n, <1>c, <2>1, <2>2, <2>3 DEF CursorBounds, Live
<1>5. CASE GetBufferCreate
  <2> DEFINE n == created + 1
  <2>1. n \in BufIds
    BY <1>0, <1>5, BoundsAssumption
    DEF GetBufferCreate, Containers, BufIds, TypeOK, ObjType
  <2>2. /\ netPc' = "addBuffer" /\ netBuf' = n
        /\ owner' = [owner EXCEPT ![n] = "writer"]
        /\ buf' = [buf EXCEPT ![n] = NewBuffer(Main, NewSlot)]
        /\ UNCHANGED <<monPc, monBuf>>
    BY <1>5 DEF GetBufferCreate, monVars
  <2> HIDE DEF n
  <2>3. /\ buf'[n].pos = 0 /\ buf'[n].len = 0 /\ owner'[n] = "writer"
        /\ \A b \in BufIds : b # n => buf'[b] = buf[b] /\ owner'[b] = owner[b]
    BY <1>t, <2>1, <2>2 DEF NewBuffer
  <2>4. QED
    BY <1>0, <1>t, <1>n, <1>c, <2>1, <2>2, <2>3 DEF CursorBounds, Live
<1>6. CASE AddBuffer
  <2>1. netBuf \in BufIds /\ owner[netBuf] = "writer"
    BY <1>0, <1>t, <1>6 DEF AddBuffer, Control
  <2>2. owner'[netBuf] = "active" /\ \A b \in BufIds : b # netBuf => owner'[b] = owner[b]
    BY <1>t, <1>6, <2>1 DEF AddBuffer
  <2>3. /\ netPc = "addBuffer" /\ netPc' = "addBufferNotify"
        /\ UNCHANGED <<buf, netBuf, monPc, monBuf>>
    BY <1>6 DEF AddBuffer, objVars, monVars
  <2>4. QED
    BY <1>0, <1>t, <1>n, <1>c, <2>1, <2>2, <2>3 DEF CursorBounds, Live
<1>8. CASE Register
  <2>1. netBuf \in BufIds /\ buf[netBuf].len = 0
    BY <1>0, <1>t, <1>8 DEF Register, Control, CursorBounds
  <2>2. buf[netBuf].pos = 0
    BY <1>0, <1>n, <2>1 DEF CursorBounds
  <2>3. buf'[netBuf].pos = 0 /\ buf'[netBuf].len = 0
    BY <1>t, <1>8, <2>1, <2>2, ResetLemma DEF Register, BufferRec
  <2>4. /\ netPc' \in {"finishCommit", "write"}
        /\ \A b \in BufIds : b # netBuf => buf'[b] = buf[b]
        /\ UNCHANGED <<owner, netBuf, monPc, monBuf>>
    BY <1>t, <1>8 DEF Register, monVars, histVars
  <2>5. QED
    <3>1. ASSUME NEW b \in BufIds
          PROVE  /\ buf'[b].pos <= buf'[b].len
                 /\ owner'[b] = "reusable" => buf'[b].len = 0
      BY <1>0, <1>n, <2>1, <2>2, <2>3, <2>4 DEF CursorBounds, Live
    <3>2. /\ netPc' \in {"addBuffer", "addBufferNotify", "register"}
               => buf'[netBuf'].len = 0
          /\ netPc' = "write" => buf'[netBuf'].pos < BufCap
          /\ monPc' = "register" => buf'[monBuf'].len = 0
      BY <1>0, <1>n, <1>c, <2>1, <2>2, <2>3, <2>4, BufCapAssumption DEF CursorBounds
    <3>3. QED BY <3>1, <3>2 DEF CursorBounds
<1>9. CASE WriteOperation
  <2>1. netBuf \in BufIds /\ owner[netBuf] = "active"
    <3>1. activeBuffers # <<>> /\ netBuf = Last(activeBuffers)
      BY <1>0, <1>9 DEF WriteOperation, Control
    <3>2. QED BY <1>0, <1>t, <3>1 DEF Last, Containers, Holds
  <2>2. monPc = "register" => owner[monBuf] = "reusable"
    BY <1>0, <1>9 DEF WriteOperation, Control
  <2>3. /\ buf'[netBuf].pos = buf[netBuf].pos + 1
        /\ buf'[netBuf].len = buf[netBuf].pos + 1
        /\ \A b \in BufIds : b # netBuf => buf'[b] = buf[b]
    BY <1>t, <1>9, <2>1 DEF WriteOperation, Written, BufferRec
  <2>4. netPc' = "idle" /\ UNCHANGED <<owner, monPc, monBuf>>
    BY <1>9 DEF WriteOperation, monVars
  <2>5. QED
    <3>1. ASSUME NEW b \in BufIds
          PROVE  /\ buf'[b].pos <= buf'[b].len
                 /\ owner'[b] = "reusable" => buf'[b].len = 0
      BY <1>0, <1>n, <2>1, <2>2, <2>3, <2>4 DEF CursorBounds, Live
    <3>2. /\ netPc' \in {"addBuffer", "addBufferNotify", "register"}
               => buf'[netBuf'].len = 0
          /\ netPc' = "write" => buf'[netBuf'].pos < BufCap
          /\ monPc' = "register" => buf'[monBuf'].len = 0
      BY <1>0, <1>n, <1>c, <2>1, <2>2, <2>3, <2>4, BufCapAssumption DEF CursorBounds
    <3>3. QED BY <3>1, <3>2 DEF CursorBounds
<1>10. ASSUME NEW t \in Tx, TxWrite(t) PROVE CursorBounds'
  <2> DEFINE b == Last(txBuffers[t])
  <2>1. b \in BufIds /\ owner[b] = "tx"
    <3>1. txBuffers[t] \in Seq(BufIds) /\ txBuffers[t] # <<>> /\ Holds(txBuffers[t], "tx")
      BY <1>0, <1>t, <1>10 DEF TxWrite, HasRoom, Containers
    <3>2. QED BY <3>1 DEF Last, Holds
  <2>2. monPc = "register" => owner[monBuf] = "reusable"
    BY <1>0, <1>10 DEF TxWrite, Control
  <2>3. buf' = [buf EXCEPT ![b] = Written(@)]
        /\ netPc' = "idle" /\ UNCHANGED <<owner, monPc, monBuf>>
    BY <1>10 DEF TxWrite, netVars, monVars, histVars
  <2> HIDE DEF b
  <2>4. /\ buf'[b].pos = buf[b].pos + 1 /\ buf'[b].len = buf[b].pos + 1
        /\ \A c \in BufIds : c # b => buf'[c] = buf[c]
    BY <1>t, <2>1, <2>3 DEF Written, BufferRec
  <2>5. QED
    BY <1>0, <1>t, <1>n, <1>c, <2>1, <2>2, <2>3, <2>4 DEF CursorBounds, Live
<1>11. ASSUME NEW t \in Tx, TxWriteNewBuffer(t) PROVE CursorBounds'
  <2> DEFINE n == created + 1
  <2>1. n \in BufIds /\ owner[n] = "free"
    BY <1>0, <1>11, BoundsAssumption
    DEF TxWriteNewBuffer, Containers, BufIds, TypeOK, ObjType
  <2>2. monPc = "register" => owner[monBuf] = "reusable"
    BY <1>0, <1>11 DEF TxWriteNewBuffer, Control
  <2>3. netPc' = "idle" /\ UNCHANGED <<monPc, monBuf>>
    BY <1>11 DEF TxWriteNewBuffer, netVars, monVars
  <2>4. /\ buf'[n].pos = 1 /\ buf'[n].len = 1 /\ owner'[n] = "tx"
        /\ \A b \in BufIds : b # n => buf'[b] = buf[b] /\ owner'[b] = owner[b]
    BY <1>t, <1>11, <2>1 DEF TxWriteNewBuffer, NewBuffer, Written
  <2> HIDE DEF n
  <2>5. QED
    <3>1. ASSUME NEW b \in BufIds
          PROVE  /\ buf'[b].pos <= buf'[b].len
                 /\ owner'[b] = "reusable" => buf'[b].len = 0
      BY <1>0, <1>n, <2>1, <2>2, <2>3, <2>4 DEF CursorBounds, Live
    <3>2. /\ netPc' \in {"addBuffer", "addBufferNotify", "register"}
               => buf'[netBuf'].len = 0
          /\ netPc' = "write" => buf'[netBuf'].pos < BufCap
          /\ monPc' = "register" => buf'[monBuf'].len = 0
      BY <1>0, <1>n, <1>c, <2>1, <2>2, <2>3, <2>4, BufCapAssumption DEF CursorBounds
    <3>3. QED BY <3>1, <3>2 DEF CursorBounds
<1>12. ASSUME NEW t \in Tx
       PROVE  \A b \in ToSet(txBuffers[t]) : owner[b] = "tx"
  BY <1>0, <1>t DEF Containers, Holds, ToSet
<1>13. ASSUME NEW t \in Tx, Rollback(t) PROVE CursorBounds'
  <2>1. \A b \in BufIds : owner'[b] = owner[b]
                          \/ (owner[b] = "tx" /\ owner'[b] = "deleted")
    <3>1. \A b \in BufIds : owner'[b] = IF b \in ToSet(txBuffers[t]) THEN "deleted"
                                        ELSE owner[b]
      BY <1>13 DEF Rollback
    <3>2. \A b \in ToSet(txBuffers[t]) : owner[b] = "tx"
      BY <1>12
    <3>3. QED BY <3>1, <3>2
  <2>2. QED
    BY <1>0, <1>13, <2>1, BoundsFrame DEF Rollback, netVars, monVars, Live
<1>14. ASSUME NEW t \in Tx, Commit(t) PROVE CursorBounds'
  <2>1. \A b \in BufIds : owner'[b] = owner[b]
                          \/ (owner[b] = "tx" /\ owner'[b] = "writer")
    <3>1. \A b \in BufIds : owner'[b] = IF b \in ToSet(txBuffers[t]) THEN "writer"
                                        ELSE owner[b]
      BY <1>14 DEF Commit
    <3>2. \A b \in ToSet(txBuffers[t]) : owner[b] = "tx"
      BY <1>12
    <3>3. QED BY <3>1, <3>2
  <2>2. netPc' = "addBuffers" /\ UNCHANGED <<buf, netBuf, monPc, monBuf>>
    BY <1>14 DEF Commit, objVars, monVars
  <2>3. QED
    BY <1>0, <1>t, <2>1, <2>2 DEF CursorBounds, Live
<1>16. CASE AddBuffersNext
  <2> DEFINE h == Head(netAdd)
  <2>0. netAdd # <<>>
    BY <1>16 DEF AddBuffersNext
  <2>1. h \in BufIds /\ owner[h] = "writer"
    BY <1>0, <1>t, <2>0 DEF Containers, Holds
  <2>2. /\ buf' = [buf EXCEPT ![h].ctl = Len(control.recs) + 1]
        /\ owner' = [owner EXCEPT ![h] = "active"]
        /\ UNCHANGED <<netPc, netBuf, monPc, monBuf>>
    BY <1>16 DEF AddBuffersNext, monVars
  <2> HIDE DEF h
  <2>3. /\ owner'[h] = "active" /\ \A b \in BufIds : b # h => owner'[b] = owner[b]
        /\ \A b \in BufIds : buf'[b].pos = buf[b].pos /\ buf'[b].len = buf[b].len
    BY <1>t, <2>1, <2>2 DEF BufferRec
  <2>4. QED
    BY <1>0, <1>t, <1>n, <2>1, <2>2, <2>3, BoundsFrame DEF Live
<1>19. CASE FlushWake
  BY <1>0, <1>19 DEF FlushWake, CursorBounds, Live, netVars, histVars, objVars
<1>20. CASE FlushPop
  <2> DEFINE h == Head(activeBuffers)
  <2>0. activeBuffers # <<>>
    BY <1>0, <1>20 DEF FlushPop, Control
  <2>1. h \in BufIds /\ owner[h] = "active"
    BY <1>0, <1>t, <2>0 DEF Containers, Holds
  <2>2. /\ buf' = [buf EXCEPT ![h].pos = 0] /\ monPc' = "flush"
        /\ owner' = [owner EXCEPT ![h] = "monitor"]
        /\ UNCHANGED <<netPc, netBuf>>
    BY <1>20 DEF FlushPop, netVars
  <2> HIDE DEF h
  <2>3. /\ buf'[h].pos = 0 /\ buf'[h].len = buf[h].len /\ owner'[h] = "monitor"
        /\ \A b \in BufIds : b # h => buf'[b] = buf[b] /\ owner'[b] = owner[b]
    BY <1>t, <2>1, <2>2 DEF BufferRec
  <2>4. QED
    <3>1. ASSUME NEW b \in BufIds
          PROVE  /\ buf'[b].pos <= buf'[b].len
                 /\ owner'[b] = "reusable" => buf'[b].len = 0
      BY <1>0, <1>n, <2>1, <2>2, <2>3 DEF CursorBounds
    <3>2. netPc' = "write" => buf'[netBuf'].pos < BufCap
      BY <1>0, <1>n, <1>c, <2>1, <2>2, <2>3, BufCapAssumption DEF CursorBounds
    <3>3. netPc' \in {"addBuffer", "addBufferNotify", "register"}
               => buf'[netBuf'].len = 0
      BY <1>0, <1>n, <1>c, <2>1, <2>2, <2>3 DEF CursorBounds
    <3>4. QED BY <2>2, <3>1, <3>2, <3>3 DEF CursorBounds
<1>21. CASE FlushApply
  <2>1. monBuf \in BufIds /\ owner[monBuf] = "monitor" /\ monPc = "flush"
    BY <1>0, <1>t, <1>21 DEF FlushApply, Control
  <2>2. /\ buf'[monBuf].pos = buf[monBuf].pos + 1
        /\ buf'[monBuf].len = buf[monBuf].len
        /\ \A b \in BufIds : b # monBuf => buf'[b] = buf[b]
    BY <1>t, <1>21, <2>1 DEF FlushApply, BufferRec
  <2>3. UNCHANGED <<owner, netPc, netBuf, monPc, monBuf>>
        /\ ~(buf[monBuf].len <= buf[monBuf].pos)
    BY <1>21 DEF FlushApply, netVars, monVars, Eof
  <2>4. QED
    <3>1. ASSUME NEW b \in BufIds
          PROVE  /\ buf'[b].pos <= buf'[b].len
                 /\ owner'[b] = "reusable" => buf'[b].len = 0
      BY <1>0, <1>n, <2>1, <2>2, <2>3 DEF CursorBounds, Live
    <3>2. /\ netPc' \in {"addBuffer", "addBufferNotify", "register"}
               => buf'[netBuf'].len = 0
          /\ netPc' = "write" => buf'[netBuf'].pos < BufCap
          /\ monPc' = "register" => buf'[monBuf'].len = 0
      BY <1>0, <1>n, <1>c, <1>w, <2>1, <2>2, <2>3, BufCapAssumption DEF CursorBounds
    <3>3. QED BY <3>1, <3>2 DEF CursorBounds
<1>22. CASE FlushRecycle
  <2>1. monBuf \in BufIds /\ owner[monBuf] = "monitor"
    BY <1>0, <1>t, <1>22 DEF FlushRecycle, Control
  <2>2. /\ buf'[monBuf].pos = 0 /\ buf'[monBuf].len = 0
        /\ \A b \in BufIds : b # monBuf => buf'[b] = buf[b] /\ owner'[b] = owner[b]
    BY <1>t, <1>22, <2>1, ResetLemma DEF FlushRecycle
  <2>3. UNCHANGED <<netPc, netBuf, monBuf>>
    BY <1>22 DEF FlushRecycle, netVars
  <2>4. QED
    <3>1. ASSUME NEW b \in BufIds
          PROVE  /\ buf'[b].pos <= buf'[b].len
                 /\ owner'[b] = "reusable" => buf'[b].len = 0
      BY <1>0, <1>n, <2>1, <2>2, <2>3 DEF CursorBounds, Live
    <3>2. /\ netPc' \in {"addBuffer", "addBufferNotify", "register"}
               => buf'[netBuf'].len = 0
          /\ netPc' = "write" => buf'[netBuf'].pos < BufCap
          /\ monPc' = "register" => buf'[monBuf'].len = 0
      BY <1>0, <1>n, <1>c, <2>1, <2>2, <2>3, BufCapAssumption DEF CursorBounds
    <3>3. QED BY <3>1, <3>2 DEF CursorBounds
<1>23. CASE FlushRegister
  <2>1. monBuf \in BufIds
    BY <1>0, <1>t, <1>23 DEF FlushRegister, Control
  <2>2. /\ buf'[monBuf].pos = 0 /\ buf'[monBuf].len = 0
        /\ \A b \in BufIds : b # monBuf => buf'[b] = buf[b]
    BY <1>t, <1>23, <2>1, ResetLemma DEF FlushRegister
  <2>3. UNCHANGED <<netPc, netBuf, owner>> /\ monPc' = "wait"
    BY <1>23 DEF FlushRegister, netVars, histVars
  <2>4. QED
    <3>1. ASSUME NEW b \in BufIds
          PROVE  /\ buf'[b].pos <= buf'[b].len
                 /\ owner'[b] = "reusable" => buf'[b].len = 0
      BY <1>0, <1>n, <2>1, <2>2, <2>3 DEF CursorBounds, Live
    <3>2. /\ netPc' \in {"addBuffer", "addBufferNotify", "register"}
               => buf'[netBuf'].len = 0
          /\ netPc' = "write" => buf'[netBuf'].pos < BufCap
          /\ monPc' = "register" => buf'[monBuf'].len = 0
      BY <1>0, <1>n, <1>c, <2>1, <2>2, <2>3, BufCapAssumption DEF CursorBounds
    <3>3. QED BY <3>1, <3>2 DEF CursorBounds
<1>24. CASE FlushDrop
  <2>1. monBuf \in BufIds /\ owner[monBuf] = "monitor"
    BY <1>0, <1>t, <1>24 DEF FlushDrop, Control
  <2>2. owner'[monBuf] = "deleted"
        /\ \A b \in BufIds : b # monBuf => owner'[b] = owner[b]
    BY <1>t, <1>24, <2>1 DEF FlushDrop
  <2>3. UNCHANGED <<netPc, netBuf, buf>> /\ monPc' = "wait"
    BY <1>24 DEF FlushDrop, netVars
  <2>4. QED
    BY <1>0, <1>t, <2>1, <2>2, <2>3 DEF CursorBounds, Live
<1> QED
  BY <1>1, <1>2, <1>3, <1>4, <1>5, <1>6, <1>8, <1>9, <1>10, <1>11, <1>13, <1>14,
     <1>16, <1>19, <1>20, <1>21, <1>22, <1>23, <1>24
  DEF Next, Request, NetStep, MonStep

----------------------------------------------------------------------------
(* What a restart leaves.                                                  *)

\* The buffers loadBuffers creates
IsLoaded(b) == b \in created + 1..created + Loaded

(* A restart makes one active buffer per record read, at the place the     *)
(* record names; every other object is gone or was never created.          *)
LEMMA RestartFacts ==
  ASSUME BaseInv, OnRecord, Restart
  PROVE  /\ Loaded \in Nat /\ Loaded <= Len(control.recs)
         /\ created \in Nat /\ created + Loaded \in 0..MaxBuffers
         /\ \A i \in 1..Loaded : /\ i \in 1..Len(control.recs)
                                 /\ control.recs[i] \in ControlRec
                                 /\ created + i \in BufIds
                                 /\ IsLoaded(created + i)
                                 /\ buf'[created + i] = LoadedBuffer(i)
         /\ \A b \in BufIds : IsLoaded(b) =>
              /\ b - created \in 1..Loaded /\ b = created + (b - created)
              /\ buf'[b] = LoadedBuffer(b - created)
              /\ owner'[b] = "active"
         /\ \A b \in BufIds : ~IsLoaded(b) =>
              /\ owner'[b] \in {"free", "deleted", "tx"}
              /\ owner'[b] = "free" <=> owner[b] = "free"
              /\ owner'[b] = "tx" <=> owner[b] = "tx"
              /\ buf'[b] \in BufferRec /\ buf'[b].pos <= buf'[b].len
              /\ buf'[b].file = buf[b].file /\ buf'[b].slot = buf[b].slot
              /\ buf'[b].len = buf[b].len /\ buf'[b].ctl = buf[b].ctl
         /\ \A b \in BufIds : owner[b] = "tx" => ~IsLoaded(b)
<1>1. /\ control.count \in Nat /\ control.recs \in Seq(ControlRec)
      /\ created \in 0..MaxBuffers
  BY DEF BaseInv, TypeOK, ObjType
<1>2. control.count <= Len(control.recs) /\ created + Loaded <= MaxBuffers
  BY DEF OnRecord, Restart
<1>3. /\ Loaded \in Nat /\ Loaded <= Len(control.recs) /\ Len(control.recs) \in Nat
      /\ created \in Nat /\ created + Loaded \in 0..MaxBuffers
  BY <1>1, <1>2, BoundsAssumption DEF Loaded
<1>4. \A i \in 1..Loaded : i \in 1..Len(control.recs) /\ control.recs[i] \in ControlRec
  BY <1>1, <1>3
<1>5. \A i \in 1..Loaded : created + i \in BufIds /\ IsLoaded(created + i)
  BY <1>3, BoundsAssumption DEF BufIds, IsLoaded
<1>6. \A b \in BufIds : IsLoaded(b) =>
        b - created \in 1..Loaded /\ b = created + (b - created)
  BY <1>3 DEF BufIds, IsLoaded
<1>7. /\ buf' = [b \in BufIds |-> IF IsLoaded(b) THEN LoadedBuffer(b - created)
                                  ELSE IF TakenUp(b) THEN [buf[b] EXCEPT !.pos = 0]
                                  ELSE buf[b]]
      /\ owner' = [b \in BufIds |-> IF IsLoaded(b) THEN "active"
                                    ELSE IF owner[b] = "free" \/ TakenUp(b) THEN owner[b]
                                    ELSE "deleted"]
  BY DEF Restart, IsLoaded
<1>8. \A i \in 1..Loaded : buf'[created + i] = LoadedBuffer(i)
  <2> SUFFICES ASSUME NEW i \in 1..Loaded PROVE buf'[created + i] = LoadedBuffer(i)
    OBVIOUS
  <2>1. (created + i) - created = i
    BY <1>3
  <2>2. QED BY <1>5, <1>7, <2>1
<1>9. ASSUME NEW b \in BufIds, ~IsLoaded(b)
      PROVE  /\ owner'[b] \in {"free", "deleted", "tx"}
             /\ owner'[b] = "free" <=> owner[b] = "free"
             /\ owner'[b] = "tx" <=> owner[b] = "tx"
             /\ buf'[b] \in BufferRec /\ buf'[b].pos <= buf'[b].len
             /\ buf'[b].file = buf[b].file /\ buf'[b].slot = buf[b].slot
             /\ buf'[b].len = buf[b].len /\ buf'[b].ctl = buf[b].ctl
  <2>1. /\ owner'[b] \in {"free", "deleted", "tx"}
        /\ owner'[b] = "free" <=> owner[b] = "free"
        /\ owner'[b] = "tx" <=> owner[b] = "tx"
    BY <1>7, <1>9 DEF TakenUp
  <2>2. /\ buf[b] \in BufferRec /\ buf[b].pos <= buf[b].len
        /\ buf[b].len \in Nat
    BY FileFacts, BufCapAssumption DEF BaseInv, CursorBounds, BufferRec
  <2>3. CASE TakenUp(b)
    <3>1. buf'[b] = [buf[b] EXCEPT !.pos = 0]
      BY <1>7, <1>9, <2>3
    <3>2. QED BY <2>1, <2>2, <3>1, BufCapAssumption DEF BufferRec
  <2>4. CASE ~TakenUp(b)
    <3>1. buf'[b] = buf[b]
      BY <1>7, <1>9, <2>4
    <3>2. QED BY <2>1, <2>2, <3>1
  <2>5. QED BY <2>3, <2>4
<1>10. ASSUME NEW b \in BufIds, owner[b] = "tx" PROVE ~IsLoaded(b)
  <2>1. owner[b] = "free" <=> b > created
    BY DEF BaseInv, Containers
  <2>2. QED BY <1>3, <1>10, <2>1 DEF IsLoaded, BufIds
<1>11. \A b \in BufIds : IsLoaded(b) =>
         buf'[b] = LoadedBuffer(b - created) /\ owner'[b] = "active"
  BY <1>7
<1>12. QED BY <1>3, <1>4, <1>5, <1>6, <1>8, <1>9, <1>10, <1>11

(* The other variables, the way the constructors leave them.               *)
LEMMA RestartPlain ==
  ASSUME BaseInv, Restart
  PROVE  /\ activeBuffers' = [i \in 1..Loaded |-> created + i]
         /\ buffersCount' = Loaded /\ created' = created + Loaded
         /\ reusableBuffers' = <<>> /\ netAdd' = <<>>
         /\ lockActiveBuffers' = None /\ lockWait' = None
         /\ netPc' = "idle" /\ netBuf' = 0 /\ netNew' = FALSE
         /\ netOp' = None /\ netTx' = None
         /\ monPc' = "wait" /\ monBuf' = 0
         /\ \A t \in Tx : Handed(t)' <=> Handed(t)
         /\ \A f \in File : disk'[f] = disk[f] \/ disk'[f] = Blank
         /\ UNCHANGED <<control, txState, txBuffers, issued, acked, applied>>
         /\ appliedBefore' = Len(applied)
<1>1. UNCHANGED <<txState, txBuffers>>
  BY DEF Restart, txVars
<1>2. \A t \in Tx : Handed(t)' <=> Handed(t)
  BY <1>1 DEF Handed
<1>3. \A f \in File : disk'[f] = disk[f] \/ disk'[f] = Blank
  BY DEF Restart
<1>4. QED BY <1>1, <1>2, <1>3 DEF Restart

(* A log file created anew holds nothing.                                  *)
LEMMA BlankFile ==
  /\ Blank \in [Slots -> [1..BufCap -> Op \cup {None}]]
  /\ \A s \in Slots, i \in 1..BufCap : Blank[s][i] = None
  BY DEF Blank

(* loadBuffers leaves values of the right types.                           *)
LEMMA RestartType ==
  ASSUME BaseInv, OnRecord, HandedRecords, Restart
  PROVE  TypeOK'
<1>0. TypeOK
  BY DEF BaseInv
<1>1. activeBuffers' \in Seq(BufIds)
  <2>1. \A i \in 1..Loaded : created + i \in BufIds
    BY RestartFacts
  <2>2. Loaded \in Nat
    BY RestartFacts
  <2>3. activeBuffers' = [i \in 1..Loaded |-> created + i]
    BY RestartPlain
  <2>4. [i \in 1..Loaded |-> created + i] \in [1..Loaded -> BufIds]
    BY <2>1
  <2>5. QED BY <2>2, <2>3, <2>4
<1>2. MgrType'
  <2>1. buffersByLog' \in [Tx -> Int]
    BY DEF Restart
  <2>2. reusableBuffers' \in Seq(BufIds) /\ buffersCount' \in Nat
    BY RestartFacts, RestartPlain
  <2>3. QED BY <1>1, <2>1, <2>2 DEF MgrType
<1>3. buf' \in [BufIds -> BufferRec]
  <2>1. \A b \in BufIds : buf'[b] \in BufferRec
    <3> SUFFICES ASSUME NEW b \in BufIds PROVE buf'[b] \in BufferRec OBVIOUS
    <3>1. CASE IsLoaded(b)
      <4>1. PICK i \in 1..Loaded : buf'[b] = LoadedBuffer(i)
        BY <3>1, RestartFacts
      <4>2. control.recs[i] \in ControlRec /\ i \in Nat
        BY RestartFacts
      <4>3. QED BY <4>1, <4>2, BufCapAssumption DEF LoadedBuffer, BufferRec, ControlRec
    <3>2. CASE ~IsLoaded(b)
      BY <3>2, RestartFacts, FileFacts
    <3>3. QED BY <3>1, <3>2
  <2>2. \E g : buf' = [b \in BufIds |-> g[b]]
    <3>1. buf' = [b \in BufIds |-> buf'[b]]
      BY DEF Restart
    <3>2. QED BY <3>1, Zenon
  <2>3. QED BY <2>1, <2>2
<1>4. disk' \in [File -> [Slots -> [1..BufCap -> Op \cup {None}]]]
  <2>1. disk' = [f \in File |-> IF f = Main \/ f \in logFiles THEN disk[f] ELSE Blank]
    BY DEF Restart
  <2>2. disk \in [File -> [Slots -> [1..BufCap -> Op \cup {None}]]]
    BY <1>0 DEF TypeOK, ObjType
  <2>3. QED BY <2>1, <2>2, BlankFile
<1>5. logFiles' \subseteq Tx
  <2>1. \A i \in 1..Loaded : control.recs[i].file \in Tx \cup {Main}
    BY RestartFacts DEF ControlRec, File
  <2>2. logFiles' = logFiles \cup ({control.recs[i].file : i \in 1..Loaded} \ {Main})
    BY DEF Restart
  <2>3. QED BY <1>0, <2>1, <2>2 DEF TypeOK, ObjType
<1>6. ObjType'
  <2>1. created' \in 0..MaxBuffers
    BY RestartFacts, RestartPlain
  <2>2. control' \in [count : Nat, recs : Seq(ControlRec)]
    BY <1>0, RestartPlain DEF TypeOK, ObjType
  <2>3. QED BY <1>3, <1>4, <1>5, <2>1, <2>2 DEF ObjType
<1>7. LockType' /\ NetType' /\ MonType'
  BY RestartPlain DEF LockType, NetType, MonType, NetPcs, MonPcs
<1>8. TxType'
  BY <1>0, RestartPlain DEF TypeOK, TxType
<1>9. HistType'
  <2>1. owner' \in [BufIds -> Owners]
    <3>1. \A b \in BufIds : owner'[b] \in Owners
      BY RestartFacts DEF Owners
    <3>2. \E g : owner' = [b \in BufIds |-> g[b]]
      <4>1. owner' = [b \in BufIds |-> owner'[b]]
        BY DEF Restart
      <4>2. QED BY <4>1, Zenon
    <3>3. QED BY <3>1, <3>2
  <2>2. start' \in [BufIds -> Nat]
    BY DEF Restart
  <2>3. clash' \in BOOLEAN
    BY DEF Restart
  <2>4. QED BY <1>0, <2>1, <2>2, <2>3, RestartPlain DEF TypeOK, HistType
<1>10. issued' \in 0..MaxOps
  BY <1>0, RestartPlain DEF TypeOK
<1>11. QED BY <1>2, <1>6, <1>7, <1>8, <1>9, <1>10 DEF TypeOK

(* The queue that loadBuffers builds is well formed and nobody works on    *)
(* it.                                                                     *)
LEMMA RestartBase ==
  ASSUME BaseInv, OnRecord, HandedRecords, Restart
  PROVE  BaseInv'
<1>0. Containers /\ CursorBounds
  BY DEF BaseInv
<1>1. Containers'
  <2>1. /\ Len(activeBuffers') = Loaded /\ buffersCount' = Len(activeBuffers')
        /\ \A i \in 1..Loaded : activeBuffers'[i] = created + i
    BY RestartPlain, RestartFacts
  <2>2. Holds(activeBuffers, "active")'
    <3>1. \A i \in 1..Loaded : owner'[created + i] = "active"
      BY RestartFacts
    <3>2. \A i, j \in 1..Loaded : created + i = created + j => i = j
      BY RestartFacts
    <3>3. QED BY <2>1, <3>1, <3>2 DEF Holds
  <2>3. Holds(reusableBuffers, "reusable")' /\ Holds(netAdd, "writer")'
    BY RestartPlain DEF Holds
  <2>4. ASSUME NEW t \in Tx
        PROVE  (/\ Holds(txBuffers[t], "tx")
                /\ \A i \in 1..Len(txBuffers[t]) : buf[txBuffers[t][i]].file = t)'
    <3>1. /\ Holds(txBuffers[t], "tx") /\ txBuffers'[t] = txBuffers[t]
          /\ \A i \in 1..Len(txBuffers[t]) : buf[txBuffers[t][i]].file = t
      BY <1>0, RestartPlain DEF Containers
    <3>2. ASSUME NEW i \in 1..Len(txBuffers[t])
          PROVE  /\ owner'[txBuffers[t][i]] = "tx" /\ buf'[txBuffers[t][i]].file = t
      <4>1. txBuffers[t] \in Seq(BufIds)
        BY DEF BaseInv, TypeOK, TxType
      <4>2. PICK b \in BufIds : b = txBuffers[t][i]
        BY <4>1
      <4>3. owner[b] = "tx" /\ buf[b].file = t
        BY <3>1, <4>2 DEF Holds
      <4>4. ~IsLoaded(b)
        BY <4>3, RestartFacts
      <4>5. owner'[b] = "tx" /\ buf'[b].file = t
        BY <4>3, <4>4, RestartFacts
      <4>6. QED BY <4>2, <4>5
    <3>3. QED BY <3>1, <3>2 DEF Holds
  <2>5. ASSUME NEW b \in BufIds PROVE owner'[b] = "free" <=> b > created'
    <3>1. owner[b] = "free" <=> b > created
      BY <1>0 DEF Containers
    <3>2. /\ created' = created + Loaded /\ created \in Nat /\ Loaded \in Nat
          /\ b \in Nat
      BY RestartFacts, RestartPlain DEF BufIds
    <3>3. CASE IsLoaded(b)
      BY <3>2, <3>3, RestartFacts DEF IsLoaded
    <3>4. CASE ~IsLoaded(b)
      <4>1. owner'[b] = "free" <=> owner[b] = "free"
        BY <3>4, RestartFacts
      <4>2. b > created <=> b > created + Loaded
        BY <3>2, <3>4 DEF IsLoaded
      <4>3. QED BY <3>1, <3>2, <4>1, <4>2
    <3>5. QED BY <3>3, <3>4
  <2>6. QED BY <2>1, <2>2, <2>3, <2>4, <2>5 DEF Containers
<1>2. Control'
  BY RestartPlain, ThreadAssumption DEF Control
<1>3. CursorBounds'
  <2>1. ASSUME NEW b \in BufIds
        PROVE  buf'[b].pos <= buf'[b].len /\ owner'[b] # "reusable"
    <3>1. CASE IsLoaded(b)
      <4>1. PICK i \in 1..Loaded : buf'[b] = LoadedBuffer(i) /\ control.recs[i] \in ControlRec
        BY <3>1, RestartFacts
      <4>2. buf'[b].pos = 0 /\ buf'[b].len \in Nat
        BY <4>1, BufCapAssumption DEF LoadedBuffer, ControlRec
      <4>3. QED BY <3>1, <4>2, RestartFacts
    <3>2. CASE ~IsLoaded(b)
      BY <3>2, RestartFacts
    <3>3. QED BY <3>1, <3>2
  <2>2. QED BY <2>1, RestartPlain DEF CursorBounds
<1>4. QED BY <1>1, <1>2, <1>3, RestartType DEF BaseInv

(* A restart gives no transaction's operations to the main log unless the  *)
(* transaction was asked to commit.                                        *)
LEMMA RestartIsolation ==
  ASSUME IsolationInv, OnRecord, HandedRecords, Restart
  PROVE  IsolationInv'
<1>0. BaseInv /\ OwnOperations /\ OnlyCommittedApplied
  BY DEF IsolationInv
<1>1. Placed'
  <2> SUFFICES ASSUME NEW b \in BufIds PROVE PlacedAt(b)' BY DEF Placed
  <2>1. CASE IsLoaded(b)
    <3>1. owner'[b] = "active" /\ b - created \in 1..Loaded /\ b = created + (b - created)
      BY <1>0, <2>1, RestartFacts
    <3>2. b \in ToSet(activeBuffers')
      BY <1>0, <3>1, RestartPlain DEF ToSet
    <3>3. QED BY <3>1, <3>2 DEF PlacedAt
  <2>2. CASE ~IsLoaded(b)
    <3>1. /\ owner'[b] \in {"free", "deleted", "tx"} /\ buf'[b].file = buf[b].file
          /\ owner'[b] = "tx" <=> owner[b] = "tx"
      BY <1>0, <2>2, RestartFacts
    <3>2. owner[b] = "tx" => buf[b].file \in Tx /\ b \in ToSet(txBuffers[buf[b].file])
      BY DEF IsolationInv, Placed, PlacedAt
    <3>3. txBuffers' = txBuffers
      BY <1>0, RestartPlain
    <3>4. QED BY <3>1, <3>2, <3>3 DEF PlacedAt
  <2>3. QED BY <2>1, <2>2
<1>2. HandedOver'
  <2>1. ASSUME NEW b \in BufIds PROVE HandedAt(b)'
    <3>1. netPc' = "idle"
      BY <1>0, RestartPlain
    <3>2. CASE IsLoaded(b)
      <4>1. PICK i \in 1..Loaded : /\ buf'[b] = LoadedBuffer(i)
                                   /\ i \in 1..Len(control.recs)
                                   /\ control.recs[i] \in ControlRec
        BY <1>0, <3>2, RestartFacts
      <4>2. buf'[b].file = control.recs[i].file /\ buf'[b].file \in Tx \cup {Main}
        BY <4>1 DEF LoadedBuffer, ControlRec, File
      <4>3. buf'[b].file = Main \/ Handed(control.recs[i].file)
        BY <4>1, <4>2 DEF HandedRecords
      <4>4. ASSUME NEW t \in Tx, buf'[b].file = t, Handed(t) PROVE Handed(buf[b].file)'
        <5>1. txState'[t] \in {"committing", "committed"}
          BY <1>0, <4>4, RestartPlain DEF Handed
        <5>2. QED BY <4>4, <5>1 DEF Handed
      <4>5. buf'[b].file = Main \/ Handed(buf[b].file)'
        BY <4>2, <4>3, <4>4
      <4>6. owner'[b] = "active"
        BY <1>0, <3>2, RestartFacts
      <4>7. QED BY <3>1, <4>5, <4>6 DEF HandedAt
    <3>3. CASE ~IsLoaded(b)
      <4>1. /\ owner'[b] \in {"free", "deleted", "tx"} /\ buf'[b].file = buf[b].file
            /\ owner'[b] = "tx" <=> owner[b] = "tx"
        BY <1>0, <3>3, RestartFacts
      <4>2. owner[b] = "tx" => Unfinished(buf[b].file)
        BY DEF IsolationInv, HandedOver, HandedAt
      <4>3. Unfinished(buf[b].file)' <=> Unfinished(buf[b].file)
        BY <1>0, <4>1, RestartPlain DEF Unfinished
      <4>4. QED BY <3>1, <4>1, <4>2, <4>3 DEF HandedAt
    <3>4. QED BY <3>2, <3>3
  <2>2. netTx' \notin Tx
    BY <1>0, RestartPlain, TxAssumption
  <2>3. QED BY <2>1, <2>2 DEF HandedOver
<1>3. OwnOperations'
  <2>1. netOp' = None
    BY <1>0, RestartPlain
  <2>2. ASSUME NEW f \in File, NEW s \in Slots, NEW i \in 1..BufCap
        PROVE  disk'[f][s][i] = None \/ disk'[f][s][i].tx \in {f, Main}
    <3>1. disk'[f] = disk[f] \/ disk'[f] = Blank
      BY <1>0, RestartPlain
    <3>2. QED BY <1>0, <3>1, BlankFile DEF OwnOperations
  <2>3. QED BY <2>1, <2>2 DEF OwnOperations
<1>4. OnlyCommittedApplied'
  <2>1. applied' = applied /\ applied \in Seq(Op \cup {None})
    BY <1>0, RestartPlain DEF BaseInv, TypeOK, HistType
  <2> SUFFICES ASSUME NEW i \in 1..Len(applied), applied[i] # None, applied[i].tx # Main
               PROVE  txState'[applied[i].tx] \in {"committing", "committed"}
    BY <2>1 DEF OnlyCommittedApplied
  <2>2. PICK t \in Tx : t = applied[i].tx
    BY <2>1 DEF Op, File
  <2>3. Handed(t)
    BY <1>0, <2>2 DEF OnlyCommittedApplied, Handed
  <2>4. QED BY <1>0, <2>2, <2>3, RestartPlain DEF Handed
<1>5. QED BY <1>0, <1>1, <1>2, <1>3, <1>4, RestartBase DEF IsolationInv

(* A restart leaves every loaded buffer with the record it came from.      *)
LEMMA RestartRecords ==
  ASSUME BaseInv, OnRecord, HandedRecords, Restart
  PROVE  OnRecord' /\ HandedRecords'
<1>1. control' = control /\ netPc' = "idle" /\ monPc' = "wait"
  BY RestartPlain
<1>2. ASSUME NEW b \in BufIds, IsLoaded(b)
      PROVE  buf'[b].ctl = b - created /\ RecordOf(b)'
  <2>2. PICK i \in 1..Loaded : /\ i = b - created /\ buf'[b] = LoadedBuffer(i)
                               /\ i \in 1..Len(control.recs)
                               /\ control.recs[i] \in ControlRec
    BY <1>2, RestartFacts
  <2>3. ~Unregistered(b)'
    BY <1>1, <1>2, RestartFacts DEF Unregistered
  <2>4. RecordOf(b)'
    BY <1>1, <2>2, <2>3, BufCapAssumption DEF RecordOf, LoadedBuffer, ControlRec
  <2>5. QED BY <2>2, <2>4 DEF LoadedBuffer
<1>r. ASSUME NEW b \in BufIds, Live(b)', ~IsLoaded(b)
      PROVE  buf'[b].ctl = 0 /\ RecordOf(b)'
  <2>1. owner[b] = "tx" /\ owner'[b] = "tx" /\ buf'[b].ctl = buf[b].ctl
    BY <1>r, RestartFacts DEF Live
  <2>2. Unregistered(b) /\ Unregistered(b)' /\ Live(b)
    BY <2>1 DEF Unregistered, Live
  <2>3. buf[b].ctl = 0
    BY <2>2 DEF OnRecord, RecordOf
  <2>4. QED BY <2>1, <2>2, <2>3 DEF RecordOf
<1>3. ASSUME NEW b \in BufIds, NEW c \in BufIds, Live(b)', Live(c)',
             buf'[b].ctl = buf'[c].ctl, buf'[b].ctl # 0
      PROVE  b = c
  <2>1. b - created = c - created /\ created \in Nat
    BY <1>2, <1>r, <1>3, RestartFacts
  <2>2. QED BY <2>1 DEF BufIds
<1>c. \A b \in BufIds : Live(b)' => RecordOf(b)'
  BY <1>2, <1>r
<1>4. OnRecord'
  BY <1>1, <1>3, <1>c DEF OnRecord
<1>5. HandedRecords'
  <2> SUFFICES ASSUME NEW i \in 1..Len(control.recs), control.recs[i].file # Main
               PROVE  Handed(control.recs[i].file)'
    BY <1>1 DEF HandedRecords
  <2>1. control.recs[i] \in ControlRec
    BY DEF BaseInv, TypeOK, ObjType
  <2>2. PICK t \in Tx : t = control.recs[i].file
    BY <2>1 DEF ControlRec, File
  <2>3. Handed(t)
    BY <2>2 DEF HandedRecords
  <2>4. Handed(t)'
    BY <2>3, RestartPlain
  <2>5. QED BY <1>1, <2>2, <2>4 DEF Handed
<1>6. QED BY <1>4, <1>5

----------------------------------------------------------------------------
(* The control file: every buffer that is registered has a record of its   *)
(* own.                                                                    *)

(* As many different records as buffers.                                   *)
LEMMA Pigeonhole ==
  ASSUME NEW m \in Nat, NEW n \in Nat, NEW f \in [1..m -> 1..n],
         \A i, j \in 1..m : f[i] = f[j] => i = j
  PROVE  m <= n
<1>1. f \in Injection(1..m, 1..n)
  BY DEF Injection, IsInjective
<1>2. IsFiniteSet(1..n) /\ Cardinality(1..n) = n
  BY FS_Interval
<1>3. Cardinality(1..m) = m
  BY FS_Interval
<1>4. Cardinality(1..m) <= Cardinality(1..n)
  BY <1>1, <1>2, FS_Injection
<1>5. QED BY <1>2, <1>3, <1>4

\* The buffer exists and has a record
Recorded(b) == Live(b) /\ ~Unregistered(b)

(* A recorded buffer's record is in the file and names the buffer's place. *)
LEMMA RecordFacts ==
  ASSUME BaseInv, OnRecord
  PROVE  /\ control.recs \in Seq(ControlRec) /\ Len(control.recs) \in Nat
         /\ control.count \in Nat /\ control.count <= Len(control.recs)
         /\ \A b \in BufIds : Live(b) /\ Unregistered(b) => buf[b].ctl = 0
         /\ \A b \in BufIds : Recorded(b) =>
              /\ buf[b].ctl \in 1..Len(control.recs) /\ buf[b].ctl # 0
              /\ control.recs[buf[b].ctl] \in ControlRec
              /\ control.recs[buf[b].ctl].file = buf[b].file
              /\ control.recs[buf[b].ctl].slot = buf[b].slot
              /\ buf[b].file = Main => buf[b].len <= control.recs[buf[b].ctl].len
         /\ \A b, c \in BufIds :
              Recorded(b) /\ Recorded(c) /\ buf[b].ctl = buf[c].ctl => b = c
<1>1. control.recs \in Seq(ControlRec) /\ control.count \in Nat
  BY DEF BaseInv, TypeOK, ObjType
<1>2. Len(control.recs) \in Nat /\ control.count <= Len(control.recs)
  BY <1>1 DEF OnRecord
<1>3. \A b \in BufIds : Live(b) /\ Unregistered(b) => buf[b].ctl = 0
  BY DEF OnRecord, RecordOf
<1>4. ASSUME NEW b \in BufIds, Recorded(b)
      PROVE  /\ buf[b].ctl \in 1..Len(control.recs)
             /\ control.recs[buf[b].ctl].file = buf[b].file
             /\ control.recs[buf[b].ctl].slot = buf[b].slot
             /\ buf[b].file = Main => buf[b].len <= control.recs[buf[b].ctl].len
  BY <1>4 DEF OnRecord, RecordOf, Recorded
<1>5. \A b \in BufIds : Recorded(b) =>
        buf[b].ctl # 0 /\ control.recs[buf[b].ctl] \in ControlRec
  BY <1>1, <1>2, <1>4
<1>6. \A b, c \in BufIds :
        Recorded(b) /\ Recorded(c) /\ buf[b].ctl = buf[c].ctl => b = c
  BY <1>5 DEF OnRecord, Recorded
<1>7. QED BY <1>1, <1>2, <1>3, <1>4, <1>5, <1>6

(* There are no more recorded buffers than records.                        *)
LEMMA RecordCount ==
  ASSUME BaseInv, OnRecord, NEW k \in Nat, NEW g \in [1..k -> BufIds],
         \A i \in 1..k : Recorded(g[i]),
         \A i, j \in 1..k : g[i] = g[j] => i = j
  PROVE  k <= Len(control.recs)
<1> DEFINE f == [i \in 1..k |-> buf[g[i]].ctl]
<1>1. f \in [1..k -> 1..Len(control.recs)]
  BY RecordFacts
<1>2. ASSUME NEW i \in 1..k, NEW j \in 1..k, f[i] = f[j] PROVE i = j
  <2>1. buf[g[i]].ctl = buf[g[j]].ctl /\ Recorded(g[i]) /\ Recorded(g[j])
    BY <1>2
  <2>2. g[i] = g[j]
    BY <2>1, RecordFacts
  <2>3. QED BY <2>2
<1> HIDE DEF f
<1>3. QED BY <1>1, <1>2, RecordFacts, Pigeonhole

(* Of the queued buffers only the one getBuffer has just created may be    *)
(* without a record, and it is the last one.                               *)
LEMMA QueueRecorded ==
  ASSUME BaseInv, NEW i \in 1..Len(activeBuffers)
  PROVE  /\ activeBuffers[i] \in BufIds /\ Live(activeBuffers[i])
         /\ \/ Recorded(activeBuffers[i])
            \/ /\ netNew /\ netPc \in {"addBufferNotify", "register"}
               /\ activeBuffers[i] = netBuf /\ i = Len(activeBuffers)
<1>1. activeBuffers[i] \in BufIds /\ owner[activeBuffers[i]] = "active"
  BY LogFacts
<1>2. ASSUME Unregistered(activeBuffers[i])
      PROVE  /\ netNew /\ netPc \in {"addBufferNotify", "register"}
             /\ activeBuffers[i] = netBuf
  <2>1. netNew /\ activeBuffers[i] = netBuf /\ netPc \in {"addBuffer", "addBufferNotify", "register"}
    BY <1>1, <1>2 DEF Unregistered
  <2>2. netPc # "addBuffer"
    BY <1>1, <2>1, WorkFacts
  <2>3. QED BY <2>1, <2>2
<1>3. ASSUME Unregistered(activeBuffers[i]) PROVE i = Len(activeBuffers)
  <2>1. activeBuffers # <<>> /\ netBuf = Last(activeBuffers)
    BY <1>2, <1>3 DEF BaseInv, Control
  <2>2. activeBuffers[i] = activeBuffers[Len(activeBuffers)]
        /\ Len(activeBuffers) \in 1..Len(activeBuffers)
    BY <1>2, <1>3, <2>1, LogFacts
  <2>3. QED BY <2>2 DEF BaseInv, Containers, Holds
<1>4. QED BY <1>1, <1>2, <1>3 DEF Recorded, Live

(* The queue fits in the control file: registerBufferControlFile never     *)
(* writes a count beyond the records there will be.                        *)
LEMMA CountFits ==
  ASSUME BaseInv, OnRecord
  PROVE  /\ ~(netNew /\ netPc \in {"addBufferNotify", "register"})
              => Len(activeBuffers) <= Len(control.recs)
         /\ Len(activeBuffers) <= Len(control.recs) + 1
         /\ \A m \in BufIds : Recorded(m) /\ owner[m] # "active"
              => Len(activeBuffers) <= Len(control.recs)
<1>1. activeBuffers \in Seq(BufIds) /\ Len(activeBuffers) \in Nat
  BY LogFacts
<1>2. \A i, j \in 1..Len(activeBuffers) : activeBuffers[i] = activeBuffers[j] => i = j
  BY DEF BaseInv, Containers, Holds
<1>3. \A i \in 1..Len(activeBuffers) : owner[activeBuffers[i]] = "active"
  BY LogFacts
<1>n. PICK n \in Nat : n = Len(activeBuffers)
  BY <1>1
<1>4. ASSUME ~(netNew /\ netPc \in {"addBufferNotify", "register"})
      PROVE  Len(activeBuffers) <= Len(control.recs)
  <2>1. activeBuffers \in [1..n -> BufIds]
    BY <1>1, <1>n
  <2>2. \A i \in 1..n : Recorded(activeBuffers[i])
    BY <1>4, <1>n, QueueRecorded
  <2>3. QED BY <1>2, <1>n, <2>1, <2>2, RecordCount
<1>5. Len(activeBuffers) <= Len(control.recs) + 1
  <2>1. CASE n = 0
    BY <1>n, <2>1, RecordFacts
  <2>2. CASE n # 0
    <3> DEFINE g == [i \in 1..n - 1 |-> activeBuffers[i]]
    <3>1. n - 1 \in Nat /\ \A i \in 1..n - 1 : i \in 1..n /\ i # n
      BY <2>2
    <3>2. g \in [1..n - 1 -> BufIds]
      BY <1>1, <1>n, <3>1
    <3>3. \A i \in 1..n - 1 : Recorded(activeBuffers[i])
      BY <1>n, <3>1, QueueRecorded
    <3>4. \A i \in 1..n - 1 : Recorded(g[i])
      BY <3>3
    <3>5. \A i, j \in 1..n - 1 : g[i] = g[j] => i = j
      BY <1>2, <1>n, <3>1
    <3> HIDE DEF g
    <3>6. n - 1 <= Len(control.recs)
      BY <3>1, <3>2, <3>4, <3>5, RecordCount
    <3>7. QED BY <1>n, <3>6, RecordFacts
  <2>3. QED BY <2>1, <2>2
<1>6. ASSUME NEW m \in BufIds, Recorded(m), owner[m] # "active"
      PROVE  Len(activeBuffers) <= Len(control.recs)
  <2> DEFINE g == [i \in 1..n |-> IF i = n THEN m ELSE activeBuffers[i]]
  <2>1. g \in [1..n -> BufIds]
    BY <1>1, <1>n
  <2>2. \A i \in 1..n : i # n => Recorded(activeBuffers[i])
    BY <1>n, QueueRecorded
  <2>3. \A i \in 1..n : Recorded(g[i])
    BY <1>6, <2>2
  <2>4. \A i, j \in 1..n : g[i] = g[j] => i = j
    BY <1>2, <1>3, <1>6, <1>n
  <2> HIDE DEF g
  <2>5. QED BY <1>n, <2>1, <2>3, <2>4, RecordCount
<1>7. QED BY <1>4, <1>5, <1>6

\* The step leaves the buffer with the record it had, if it had one
SameRecord(b) ==
  Live(b)' =>
    /\ Live(b) /\ (Unregistered(b)' <=> Unregistered(b))
    /\ buf'[b].ctl = buf[b].ctl
    /\ buf'[b].file = buf[b].file /\ buf'[b].slot = buf[b].slot
    /\ Unregistered(b) \/ buf'[b].len <= buf[b].len

(* Steps that leave the control file and the registered buffers alone.     *)
LEMMA RecordFrame ==
  ASSUME BaseInv, OnRecord, ObjType', control' = control,
         \A b \in BufIds : SameRecord(b),
         monPc' = "register" => buf'[monBuf'].ctl # 0
  PROVE  OnRecord'
<1>n. \A b \in BufIds : buf[b].len \in Nat /\ buf'[b].len \in Nat
  BY LogFacts, BufCapAssumption DEF ObjType, BufferRec
<1>1. ASSUME NEW b \in BufIds, Live(b)' PROVE RecordOf(b)'
  <2>1. Live(b) /\ SameRecord(b)
    BY <1>1 DEF SameRecord
  <2>2. CASE Unregistered(b)
    <3>1. buf[b].ctl = 0
      BY <2>1, <2>2, RecordFacts
    <3>2. QED BY <1>1, <2>1, <2>2, <3>1 DEF SameRecord, RecordOf
  <2>3. CASE ~Unregistered(b)
    <3>1. /\ buf[b].ctl \in 1..Len(control.recs)
          /\ control.recs[buf[b].ctl] \in ControlRec
          /\ control.recs[buf[b].ctl].file = buf[b].file
          /\ control.recs[buf[b].ctl].slot = buf[b].slot
          /\ buf[b].file = Main => buf[b].len <= control.recs[buf[b].ctl].len
      BY <2>1, <2>3, RecordFacts DEF Recorded
    <3>2. /\ ~Unregistered(b)' /\ buf'[b].ctl = buf[b].ctl
          /\ buf'[b].file = buf[b].file /\ buf'[b].slot = buf[b].slot
          /\ buf'[b].len <= buf[b].len
      BY <1>1, <2>1, <2>3 DEF SameRecord
    <3>3. control.recs[buf[b].ctl].len \in Nat
      BY <3>1, BufCapAssumption DEF ControlRec
    <3>4. buf'[b].file = Main => buf'[b].len <= control.recs[buf[b].ctl].len
      BY <1>n, <3>1, <3>2, <3>3
    <3>5. QED BY <3>1, <3>2, <3>4 DEF RecordOf
  <2>4. QED BY <2>2, <2>3
<1>2. ASSUME NEW b \in BufIds, NEW c \in BufIds, Live(b)', Live(c)',
             buf'[b].ctl = buf'[c].ctl, buf'[b].ctl # 0
      PROVE  b = c
  <2>1. Live(b) /\ Live(c) /\ buf'[b].ctl = buf[b].ctl /\ buf'[c].ctl = buf[c].ctl
    BY <1>2 DEF SameRecord
  <2>2. QED BY <1>2, <2>1 DEF OnRecord
<1>3. QED BY <1>1, <1>2, RecordFacts DEF OnRecord

\* A record for the place of buffer r
RecordFor(r, n) == [file |-> r.file, slot |-> r.slot, len |-> n]

(* A record is appended for a buffer that had none.                        *)
LEMMA RecordAppended ==
  ASSUME BaseInv, OnRecord, ObjType', NEW h \in BufIds,
         control'.recs = Append(control.recs, RecordFor(buf[h], 0)),
         control'.count <= Len(control.recs) + 1,
         \A b \in BufIds : b # h => SameRecord(b),
         ~Unregistered(h)', buf'[h].ctl = Len(control.recs) + 1,
         buf'[h].file = buf[h].file, buf'[h].slot = buf[h].slot,
         buf[h].file = Main => buf'[h].len = 0,
         monPc' = "register" => buf'[monBuf'].ctl # 0
  PROVE  OnRecord'
<1>f. control.recs \in Seq(ControlRec) /\ Len(control.recs) \in Nat
  BY RecordFacts
<1>n. PICK n \in Nat : n = Len(control.recs)
  BY <1>f
<1>b. \A b \in BufIds : buf[b].len \in Nat /\ buf'[b].len \in Nat
  BY LogFacts, BufCapAssumption DEF ObjType, BufferRec
<1>1. RecordFor(buf[h], 0) \in ControlRec
  BY FileFacts, BufCapAssumption DEF BufferRec, ControlRec, RecordFor
<1>2. /\ Len(control'.recs) = n + 1
      /\ control'.recs[n + 1] = RecordFor(buf[h], 0)
      /\ \A i \in 1..n : control'.recs[i] = control.recs[i]
  BY <1>f, <1>n, <1>1
<1>3. ASSUME NEW b \in BufIds, Live(b)', b # h PROVE RecordOf(b)'
  <2>1. Live(b) /\ SameRecord(b)
    BY <1>3 DEF SameRecord
  <2>2. CASE Unregistered(b)
    <3>1. buf[b].ctl = 0
      BY <2>1, <2>2, RecordFacts
    <3>2. QED BY <1>3, <2>1, <2>2, <3>1 DEF SameRecord, RecordOf
  <2>3. CASE ~Unregistered(b)
    <3>1. /\ buf[b].ctl \in 1..n
          /\ control.recs[buf[b].ctl] \in ControlRec
          /\ control.recs[buf[b].ctl].file = buf[b].file
          /\ control.recs[buf[b].ctl].slot = buf[b].slot
          /\ buf[b].file = Main => buf[b].len <= control.recs[buf[b].ctl].len
      BY <1>n, <2>1, <2>3, RecordFacts DEF Recorded
    <3>2. /\ ~Unregistered(b)' /\ buf'[b].ctl = buf[b].ctl
          /\ buf'[b].file = buf[b].file /\ buf'[b].slot = buf[b].slot
          /\ buf'[b].len <= buf[b].len
      BY <1>3, <2>1, <2>3 DEF SameRecord
    <3>3. control.recs[buf[b].ctl].len \in Nat /\ control'.recs[buf[b].ctl] = control.recs[buf[b].ctl]
      BY <1>2, <3>1, BufCapAssumption DEF ControlRec
    <3>4. buf'[b].file = Main => buf'[b].len <= control.recs[buf[b].ctl].len
      BY <1>b, <3>1, <3>2, <3>3
    <3>5. buf[b].ctl \in 1..Len(control'.recs)
      BY <1>2, <3>1
    <3>6. QED BY <3>1, <3>2, <3>3, <3>4, <3>5 DEF RecordOf
  <2>4. QED BY <2>2, <2>3
<1>4. RecordOf(h)'
  <2>1. buf'[h].ctl \in 1..Len(control'.recs)
    BY <1>n, <1>2
  <2>2. control'.recs[buf'[h].ctl] = RecordFor(buf[h], 0)
    BY <1>n, <1>2
  <2>3. QED BY <2>1, <2>2 DEF RecordOf, RecordFor
<1>5. ASSUME NEW b \in BufIds, Live(b)', b # h
      PROVE  Live(b) /\ buf'[b].ctl = buf[b].ctl /\ buf[b].ctl \in 0..n
  <2>1. Live(b) /\ buf'[b].ctl = buf[b].ctl
    BY <1>5 DEF SameRecord
  <2>2. buf[b].ctl = 0 \/ buf[b].ctl \in 1..n
    BY <1>n, <2>1, RecordFacts DEF Recorded
  <2>3. QED BY <2>1, <2>2
<1>6. ASSUME NEW b \in BufIds, NEW c \in BufIds, Live(b)', Live(c)',
             buf'[b].ctl = buf'[c].ctl, buf'[b].ctl # 0
      PROVE  b = c
  <2>1. CASE b # h /\ c # h
    BY <1>5, <1>6, <2>1 DEF OnRecord
  <2>2. CASE b # h /\ c = h
    BY <1>5, <1>6, <1>n, <2>2
  <2>3. CASE b = h /\ c # h
    BY <1>5, <1>6, <1>n, <2>3
  <2>4. QED BY <2>1, <2>2, <2>3
<1>7. control'.count <= Len(control'.recs)
  BY <1>n, <1>2
<1>8. QED BY <1>3, <1>4, <1>6, <1>7 DEF OnRecord

(* A buffer's record is written again.                                     *)
LEMMA RecordOverwritten ==
  ASSUME BaseInv, OnRecord, ObjType', NEW h \in BufIds, Recorded(h), NEW k \in 0..BufCap,
         control'.recs = [control.recs EXCEPT ![buf[h].ctl] = RecordFor(buf[h], k)],
         control'.count <= Len(control.recs),
         \A b \in BufIds : b # h => SameRecord(b),
         ~Unregistered(h)', buf'[h].ctl = buf[h].ctl,
         buf'[h].file = buf[h].file, buf'[h].slot = buf[h].slot, buf'[h].len <= k,
         monPc' = "register" => buf'[monBuf'].ctl # 0
  PROVE  OnRecord'
<1>f. control.recs \in Seq(ControlRec) /\ Len(control.recs) \in Nat
  BY RecordFacts
<1>n. PICK n \in Nat : n = Len(control.recs)
  BY <1>f
<1>b. \A b \in BufIds : buf[b].len \in Nat /\ buf'[b].len \in Nat
  BY LogFacts, BufCapAssumption DEF ObjType, BufferRec
<1>h. buf[h].ctl \in 1..n /\ buf[h].ctl # 0
  BY <1>n, RecordFacts
<1>1. RecordFor(buf[h], k) \in ControlRec
  BY FileFacts, BufCapAssumption DEF BufferRec, ControlRec, RecordFor
<1>2. /\ Len(control'.recs) = n
      /\ control'.recs[buf[h].ctl] = RecordFor(buf[h], k)
      /\ \A i \in 1..n : i # buf[h].ctl => control'.recs[i] = control.recs[i]
  BY <1>f, <1>n, <1>h, <1>1
<1>3. ASSUME NEW b \in BufIds, Live(b)', b # h PROVE RecordOf(b)'
  <2>1. Live(b) /\ SameRecord(b)
    BY <1>3 DEF SameRecord
  <2>2. CASE Unregistered(b)
    <3>1. buf[b].ctl = 0
      BY <2>1, <2>2, RecordFacts
    <3>2. QED BY <1>3, <2>1, <2>2, <3>1 DEF SameRecord, RecordOf
  <2>3. CASE ~Unregistered(b)
    <3>1. /\ buf[b].ctl \in 1..n
          /\ control.recs[buf[b].ctl] \in ControlRec
          /\ control.recs[buf[b].ctl].file = buf[b].file
          /\ control.recs[buf[b].ctl].slot = buf[b].slot
          /\ buf[b].file = Main => buf[b].len <= control.recs[buf[b].ctl].len
      BY <1>n, <2>1, <2>3, RecordFacts DEF Recorded
    <3>2. /\ ~Unregistered(b)' /\ buf'[b].ctl = buf[b].ctl
          /\ buf'[b].file = buf[b].file /\ buf'[b].slot = buf[b].slot
          /\ buf'[b].len <= buf[b].len
      BY <1>3, <2>1, <2>3 DEF SameRecord
    <3>3. buf[b].ctl # buf[h].ctl
      BY <1>3, <2>1, <2>3, RecordFacts DEF Recorded
    <3>4. control.recs[buf[b].ctl].len \in Nat /\ control'.recs[buf[b].ctl] = control.recs[buf[b].ctl]
      BY <1>2, <3>1, <3>3, BufCapAssumption DEF ControlRec
    <3>5. buf'[b].file = Main => buf'[b].len <= control.recs[buf[b].ctl].len
      BY <1>b, <3>1, <3>2, <3>4
    <3>6. QED BY <1>2, <3>1, <3>2, <3>4, <3>5 DEF RecordOf
  <2>4. QED BY <2>2, <2>3
<1>4. RecordOf(h)'
  BY <1>h, <1>2 DEF RecordOf, RecordFor
<1>5. ASSUME NEW b \in BufIds, Live(b)' PROVE Live(b) /\ buf'[b].ctl = buf[b].ctl
  BY <1>5 DEF SameRecord, Recorded
<1>6. ASSUME NEW b \in BufIds, NEW c \in BufIds, Live(b)', Live(c)',
             buf'[b].ctl = buf'[c].ctl, buf'[b].ctl # 0
      PROVE  b = c
  BY <1>5, <1>6 DEF OnRecord
<1>7. control'.count <= Len(control'.recs)
  BY <1>n, <1>2
<1>8. QED BY <1>3, <1>4, <1>6, <1>7 DEF OnRecord

(* A new buffer has no record.                                             *)
LEMMA RecordCreated ==
  ASSUME BaseInv, OnRecord, ObjType', control' = control, NEW h \in BufIds,
         \A b \in BufIds : b # h => SameRecord(b),
         Unregistered(h)', buf'[h].ctl = 0,
         monPc' = "register" => buf'[monBuf'].ctl # 0
  PROVE  OnRecord'
<1>n. \A b \in BufIds : buf[b].len \in Nat /\ buf'[b].len \in Nat
  BY LogFacts, BufCapAssumption DEF ObjType, BufferRec
<1>1. ASSUME NEW b \in BufIds, Live(b)' PROVE RecordOf(b)'
  <2>1. CASE b = h
    BY <2>1 DEF RecordOf
  <2>2. CASE b # h /\ Unregistered(b)
    <3>1. Live(b) /\ SameRecord(b)
      BY <1>1, <2>2 DEF SameRecord
    <3>2. buf[b].ctl = 0
      BY <2>2, <3>1, RecordFacts
    <3>3. QED BY <1>1, <2>2, <3>1, <3>2 DEF SameRecord, RecordOf
  <2>3. CASE b # h /\ ~Unregistered(b)
    <3>0. Live(b) /\ SameRecord(b)
      BY <1>1, <2>3 DEF SameRecord
    <3>1. /\ buf[b].ctl \in 1..Len(control.recs)
          /\ control.recs[buf[b].ctl] \in ControlRec
          /\ control.recs[buf[b].ctl].file = buf[b].file
          /\ control.recs[buf[b].ctl].slot = buf[b].slot
          /\ buf[b].file = Main => buf[b].len <= control.recs[buf[b].ctl].len
      BY <2>3, <3>0, RecordFacts DEF Recorded
    <3>2. /\ ~Unregistered(b)' /\ buf'[b].ctl = buf[b].ctl
          /\ buf'[b].file = buf[b].file /\ buf'[b].slot = buf[b].slot
          /\ buf'[b].len <= buf[b].len
      BY <1>1, <2>3, <3>0 DEF SameRecord
    <3>3. control.recs[buf[b].ctl].len \in Nat
      BY <3>1, BufCapAssumption DEF ControlRec
    <3>4. buf'[b].file = Main => buf'[b].len <= control.recs[buf[b].ctl].len
      BY <1>n, <3>1, <3>2, <3>3
    <3>5. QED BY <3>1, <3>2, <3>4 DEF RecordOf
  <2>4. QED BY <2>1, <2>2, <2>3
<1>2. ASSUME NEW b \in BufIds, NEW c \in BufIds, Live(b)', Live(c)',
             buf'[b].ctl = buf'[c].ctl, buf'[b].ctl # 0
      PROVE  b = c
  <2>1. b # h /\ c # h
    BY <1>2
  <2>2. Live(b) /\ Live(c) /\ buf'[b].ctl = buf[b].ctl /\ buf'[c].ctl = buf[c].ctl
    BY <1>2, <2>1 DEF SameRecord
  <2>3. QED BY <1>2, <2>2 DEF OnRecord
<1>3. QED BY <1>1, <1>2, RecordFacts DEF OnRecord

(* Every action keeps the control file in step with the buffers.           *)
LEMMA OnRecordStep == RecoveryInv /\ [Next]_vars => OnRecord'
<1> SUFFICES ASSUME RecoveryInv, [Next]_vars PROVE OnRecord' OBVIOUS
<1>0. BaseInv /\ OnRecord /\ Placed /\ Control /\ Containers /\ CursorBounds
  BY DEF RecoveryInv, IsolationInv, BaseInv
<1>o. ObjType'
  BY <1>0, TypeStep DEF TypeOK
<1>t. /\ activeBuffers \in Seq(BufIds) /\ reusableBuffers \in Seq(BufIds)
      /\ netAdd \in Seq(BufIds) /\ txBuffers \in [Tx -> Seq(BufIds)]
      /\ owner \in [BufIds -> Owners] /\ buf \in [BufIds -> BufferRec]
      /\ netBuf \in BufIds \cup {0} /\ monBuf \in BufIds \cup {0}
  BY <1>0, FileFacts
<1>n. \A b \in BufIds : buf[b].len \in Nat /\ buf[b].pos \in Nat
  BY <1>0, LogFacts
<1>w. \A b \in BufIds : owner[b] = "writer" =>
        \/ netPc = "addBuffer" /\ b = netBuf
        \/ netPc \in {"addBuffers", "addBuffersLoop"} /\ b \in ToSet(netAdd)
  BY <1>0 DEF Placed, PlacedAt
<1>m. monPc = "register" => monBuf \in BufIds /\ Live(monBuf) /\ buf[monBuf].ctl # 0
  <2>1. monPc = "register" => owner[monBuf] \in {"reusable", "writer", "active"}
    BY <1>0, WorkFacts DEF Control
  <2>2. QED BY <1>0, <2>1, WorkFacts DEF OnRecord, Live
<1>c. buffersCount = Len(activeBuffers)
  BY <1>0 DEF Containers
<1>1. CASE \/ UNCHANGED vars \/ RequestWrite \/ GetBufferTail \/ AddBufferNotify
           \/ AddBuffersLock \/ AddBuffersUnlock \/ FinishCommit \/ FlushWake
  <2>1. UNCHANGED <<buf, control, owner>>
        /\ (monPc' = "register" => monPc = "register" /\ monBuf' = monBuf)
    BY <1>1 DEF vars, objVars, monVars, histVars, RequestWrite, GetBufferTail,
       AddBufferNotify, AddBuffersLock, AddBuffersUnlock, FinishCommit, FlushWake
  <2>2. CASE ~AddBuffersUnlock
    <3>1. \A b \in BufIds : Unregistered(b)' <=> Unregistered(b)
      BY <1>1, <2>1, <2>2 DEF Unregistered, vars, netVars, RequestWrite, GetBufferTail,
         AddBufferNotify, AddBuffersLock, FinishCommit, FlushWake
    <3>2. \A b \in BufIds : SameRecord(b)
      BY <1>n, <2>1, <3>1 DEF SameRecord, Live
    <3>3. QED BY <1>0, <1>o, <1>m, <2>1, <3>2, RecordFrame
  <2>3. CASE AddBuffersUnlock
    <3>1. ToSet(netAdd) = {} /\ netPc = "addBuffersLoop" /\ netPc' = "getBuffer"
      BY <2>3 DEF AddBuffersUnlock, ToSet
    <3>2. \A b \in BufIds : Unregistered(b)' <=> Unregistered(b)
      BY <1>w, <2>1, <3>1 DEF Unregistered
    <3>3. \A b \in BufIds : SameRecord(b)
      BY <1>n, <2>1, <3>2 DEF SameRecord, Live
    <3>4. QED BY <1>0, <1>o, <1>m, <2>1, <3>3, RecordFrame
  <2>4. QED BY <2>2, <2>3
<1>2. CASE GetBufferReuse
  <2>1. PICK h \in BufIds : h = Head(reusableBuffers) /\ owner[h] = "reusable"
    BY <1>0, <1>t, <1>2, FileFacts, ToSetTail DEF GetBufferReuse
  <2>2. /\ buf' = [buf EXCEPT ![h] = Reset(buf[h])] /\ owner' = [owner EXCEPT ![h] = "writer"]
        /\ netNew' = FALSE /\ netPc = "getBuffer" /\ netPc' = "addBuffer"
        /\ UNCHANGED <<control, monPc, monBuf>>
    BY <1>2, <2>1 DEF GetBufferReuse, monVars
  <2>3. \A b \in BufIds : /\ buf'[b].ctl = buf[b].ctl /\ buf'[b].file = buf[b].file
                          /\ buf'[b].slot = buf[b].slot /\ buf'[b].len <= buf[b].len
    <3>1. Reset(buf[h]).ctl = buf[h].ctl
      BY <1>t, <2>1 DEF Reset, BufferRec
    <3>2. QED BY <1>t, <1>n, <2>1, <2>2, <3>1, ResetLemma
  <2>4. \A b \in BufIds : Unregistered(b)' <=> Unregistered(b)
    BY <1>t, <2>1, <2>2 DEF Unregistered
  <2>5. \A b \in BufIds : Live(b)' => Live(b)
    BY <1>t, <2>1, <2>2 DEF Live
  <2>6. \A b \in BufIds : SameRecord(b)
    BY <2>3, <2>4, <2>5 DEF SameRecord
  <2>7. QED BY <1>0, <1>o, <1>m, <2>2, <2>3, <2>6, RecordFrame
<1>3. CASE GetBufferCreate
  <2>1. PICK h \in BufIds : h = created + 1 /\ owner[h] = "free"
    BY <1>0, <1>3, WorkFacts DEF GetBufferCreate
  <2>2. /\ buf' = [buf EXCEPT ![h] = NewBuffer(Main, NewSlot)]
        /\ owner' = [owner EXCEPT ![h] = "writer"]
        /\ netNew' = TRUE /\ netPc = "getBuffer" /\ netPc' = "addBuffer" /\ netBuf' = h
        /\ UNCHANGED <<control, monPc, monBuf>>
    BY <1>3, <2>1 DEF GetBufferCreate, monVars
  <2>3. Unregistered(h)' /\ buf'[h].ctl = 0
    BY <1>t, <2>1, <2>2 DEF Unregistered, NewBuffer
  <2>4. \A b \in BufIds : b # h => (Unregistered(b)' <=> Unregistered(b))
    BY <1>t, <2>2 DEF Unregistered
  <2>5. \A b \in BufIds : b # h => SameRecord(b)
    BY <1>t, <1>n, <2>2, <2>4 DEF SameRecord, Live
  <2>6. monPc' = "register" => buf'[monBuf'].ctl # 0
    BY <1>t, <1>m, <2>1, <2>2 DEF Live
  <2>7. QED BY <1>0, <1>o, <2>2, <2>3, <2>5, <2>6, RecordCreated
<1>4. CASE AddBuffer
  <2>1. PICK h \in BufIds : h = netBuf /\ owner[h] = "writer"
    BY <1>0, <1>4, WorkFacts DEF AddBuffer
  <2>2. /\ owner' = [owner EXCEPT ![h] = "active"]
        /\ netPc = "addBuffer" /\ netPc' = "addBufferNotify"
        /\ UNCHANGED <<buf, control, monPc, monBuf, netBuf, netNew>>
    BY <1>4, <2>1 DEF AddBuffer, monVars, objVars
  <2>3. \A b \in BufIds : Unregistered(b)' <=> Unregistered(b)
    BY <1>t, <2>1, <2>2 DEF Unregistered
  <2>4. \A b \in BufIds : Live(b)' => Live(b)
    BY <1>t, <2>1, <2>2 DEF Live
  <2>5. \A b \in BufIds : SameRecord(b)
    BY <1>n, <2>2, <2>3, <2>4 DEF SameRecord
  <2>6. QED BY <1>0, <1>o, <1>m, <2>2, <2>5, RecordFrame
<1>5. CASE Register
  <2>1. PICK h \in BufIds : h = netBuf /\ owner[h] = "active" /\ buf[h].len = 0
    BY <1>0, <1>5, WorkFacts DEF Register, CursorBounds
  <2>2. /\ netPc = "register" /\ netPc' \in {"write", "finishCommit"}
        /\ control' = Registered(control, buffersCount, buf[h], netNew)
        /\ UNCHANGED <<owner, netBuf, netNew, monPc, monBuf>>
    BY <1>5, <2>1 DEF Register, monVars, histVars
  <2>3. monPc = "register" => monBuf # h
    BY <1>0, <2>1, <2>2 DEF Control
  <2>4. \A b \in BufIds : b # h => buf'[b] = buf[b]
    BY <1>t, <1>5, <2>1 DEF Register
  <2>5. \A b \in BufIds : b # h => (Unregistered(b)' <=> Unregistered(b))
    BY <2>1, <2>2 DEF Unregistered
  <2>6. ~Unregistered(h)' /\ Live(h)
    BY <2>1, <2>2 DEF Unregistered, Live
  <2>7. \A b \in BufIds : b # h => SameRecord(b)
    BY <1>n, <2>2, <2>4, <2>5 DEF SameRecord, Live
  <2>8. monPc' = "register" => buf'[monBuf'].ctl # 0
    BY <1>m, <2>2, <2>3, <2>4
  <2>9. CASE netNew
    <3>1. /\ control'.recs = Append(control.recs, RecordFor(buf[h], 0))
          /\ control'.count = Len(activeBuffers)
      BY <1>c, <2>2, <2>9 DEF Registered, RecordFor
    <3>2. buf'[h] = [buf[h] EXCEPT !.ctl = Len(control.recs) + 1]
      BY <1>t, <1>5, <2>1, <2>9 DEF Register
    <3>3. /\ buf'[h].ctl = Len(control.recs) + 1 /\ buf'[h].file = buf[h].file
          /\ buf'[h].slot = buf[h].slot /\ buf'[h].len = buf[h].len
      BY <1>t, <3>2 DEF BufferRec
    <3>4. control'.count <= Len(control.recs) + 1
      BY <1>0, <3>1, CountFits
    <3>5. QED BY <1>0, <1>o, <2>1, <2>6, <2>7, <2>8, <3>1, <3>3, <3>4, RecordAppended
  <2>10. CASE ~netNew
    <3>1. /\ control'.recs = [control.recs EXCEPT ![buf[h].ctl] = RecordFor(buf[h], 0)]
          /\ control'.count = Len(activeBuffers)
      BY <1>c, <2>2, <2>10 DEF Registered, RecordFor
    <3>2. buf'[h] = Reset(buf[h])
      BY <1>t, <1>5, <2>1, <2>10 DEF Register
    <3>3. /\ buf'[h].ctl = buf[h].ctl /\ buf'[h].file = buf[h].file
          /\ buf'[h].slot = buf[h].slot /\ buf'[h].len <= 0
      BY <1>t, <3>2 DEF BufferRec, Reset
    <3>4. control'.count <= Len(control.recs)
      BY <1>0, <2>10, <3>1, CountFits
    <3>5. Recorded(h)
      BY <2>1, <2>2, <2>10 DEF Recorded, Unregistered, Live
    <3>6. 0 \in 0..BufCap
      BY BufCapAssumption
    <3>7. QED
      BY <1>0, <1>o, <2>6, <2>7, <2>8, <3>1, <3>3, <3>4, <3>5, <3>6, RecordOverwritten
  <2>11. QED BY <2>9, <2>10
<1>6. CASE WriteOperation
  <2>1. PICK h \in BufIds : h = netBuf /\ owner[h] = "active" /\ buf[h].pos < BufCap
    BY <1>0, <1>6, WorkFacts DEF WriteOperation, CursorBounds
  <2>2. /\ netPc = "write" /\ netPc' = "idle"
        /\ control' = [control EXCEPT !.recs[buf[h].ctl].len = buf[h].pos + 1]
        /\ buf' = [buf EXCEPT ![h] = Written(buf[h])]
        /\ UNCHANGED <<owner, netNew, monPc, monBuf>>
    BY <1>6, <2>1 DEF WriteOperation, monVars
  <2>3. monPc = "register" => monBuf # h
    BY <1>0, <2>1, <2>2 DEF Control
  <2>4. \A b \in BufIds : b # h => buf'[b] = buf[b]
    BY <1>t, <2>1, <2>2
  <2>5. \A b \in BufIds : Unregistered(b)' <=> Unregistered(b)
    BY <2>1, <2>2 DEF Unregistered
  <2>6. Recorded(h) /\ ~Unregistered(h)'
    BY <2>1, <2>2 DEF Recorded, Unregistered, Live
  <2>7. \A b \in BufIds : b # h => SameRecord(b)
    BY <1>n, <2>2, <2>4, <2>5 DEF SameRecord, Live
  <2>8. monPc' = "register" => buf'[monBuf'].ctl # 0
    BY <1>m, <2>2, <2>3, <2>4
  <2>9. PICK k \in 0..BufCap : k = buf[h].pos + 1
    BY <1>n, <2>1, BufCapAssumption
  <2>10. /\ buf'[h].ctl = buf[h].ctl /\ buf'[h].file = buf[h].file
         /\ buf'[h].slot = buf[h].slot /\ buf'[h].len = k
    BY <1>t, <2>1, <2>2, <2>9 DEF Written, BufferRec
  <2>11. /\ control.recs[buf[h].ctl] \in ControlRec
         /\ control.recs[buf[h].ctl].file = buf[h].file
         /\ control.recs[buf[h].ctl].slot = buf[h].slot
         /\ control \in [count : Nat, recs : Seq(ControlRec)]
    BY <1>0, <2>6, RecordFacts DEF BaseInv, TypeOK, ObjType
  <2>12. [control.recs[buf[h].ctl] EXCEPT !.len = k] = RecordFor(buf[h], k)
    BY <2>11 DEF RecordFor, ControlRec
  <2>13. /\ control'.recs = [control.recs EXCEPT ![buf[h].ctl] = RecordFor(buf[h], k)]
         /\ control'.count = control.count
    BY <2>2, <2>9, <2>11, <2>12
  <2>14. control'.count <= Len(control.recs) /\ buf'[h].len <= k
    BY <1>0, <2>9, <2>10, <2>13, RecordFacts, BufCapAssumption
  <2>15. QED
    BY <1>0, <1>o, <2>6, <2>7, <2>8, <2>10, <2>13, <2>14, RecordOverwritten
<1>7. ASSUME NEW t \in Tx, TxWrite(t) PROVE OnRecord'
  <2>1. txBuffers[t] \in Seq(BufIds) /\ txBuffers[t] # <<>>
    BY <1>t, <1>7 DEF TxWrite, HasRoom
  <2>2. PICK h \in BufIds : h = Last(txBuffers[t]) /\ h \in ToSet(txBuffers[t])
    BY <2>1 DEF Last, ToSet
  <2>3. owner[h] = "tx"
    BY <1>0, <2>2, FileFacts
  <2>4. /\ buf' = [buf EXCEPT ![h] = Written(buf[h])]
        /\ UNCHANGED <<owner, control, netPc, netBuf, netNew, monPc, monBuf>>
    BY <1>7, <2>2 DEF TxWrite, netVars, monVars, histVars
  <2>5. \A b \in BufIds : /\ buf'[b].ctl = buf[b].ctl /\ buf'[b].file = buf[b].file
                          /\ buf'[b].slot = buf[b].slot
                          /\ b = h \/ buf'[b].len <= buf[b].len
    BY <1>t, <1>n, <2>4 DEF Written, BufferRec
  <2>6. Unregistered(h) /\ \A b \in BufIds : Unregistered(b)' <=> Unregistered(b)
    BY <2>3, <2>4 DEF Unregistered
  <2>7. \A b \in BufIds : SameRecord(b)
    BY <2>4, <2>5, <2>6 DEF SameRecord, Live
  <2>8. QED BY <1>0, <1>o, <1>m, <2>4, <2>5, <2>7, RecordFrame
<1>8. ASSUME NEW t \in Tx, TxWriteNewBuffer(t) PROVE OnRecord'
  <2>1. PICK h \in BufIds : h = created + 1 /\ owner[h] = "free"
    BY <1>0, <1>8, WorkFacts DEF TxWriteNewBuffer
  <2>2. PICK r : r = NewBuffer(t, Len(txBuffers[t]))
    OBVIOUS
  <2>3. /\ buf' = [buf EXCEPT ![h] = Written(r)]
        /\ owner' = [owner EXCEPT ![h] = "tx"]
        /\ UNCHANGED <<control, netPc, netBuf, netNew, monPc, monBuf>>
    BY <1>8, <2>1, <2>2 DEF TxWriteNewBuffer, netVars, monVars
  <2>4. Written(r).ctl = 0
    BY <2>2 DEF Written, NewBuffer
  <2>5. Unregistered(h)'
    BY <1>t, <2>1, <2>3 DEF Unregistered
  <2>6. \A b \in BufIds : b # h => (Unregistered(b)' <=> Unregistered(b))
    BY <1>t, <2>3 DEF Unregistered
  <2>7. \A b \in BufIds : b # h => SameRecord(b)
    BY <1>t, <1>n, <2>3, <2>6 DEF SameRecord, Live
  <2>8. buf'[h].ctl = 0
    BY <1>t, <2>3, <2>4
  <2>9. monPc' = "register" => buf'[monBuf'].ctl # 0
    BY <1>t, <1>m, <2>1, <2>3 DEF Live
  <2>10. QED BY <1>0, <1>o, <2>3, <2>5, <2>7, <2>8, <2>9, RecordCreated
<1>9. ASSUME NEW t \in Tx, Rollback(t) \/ Commit(t) PROVE OnRecord'
  <2>1. \A b \in BufIds : b \in ToSet(txBuffers[t]) => owner[b] = "tx"
    BY <1>0, FileFacts
  <2>2. /\ netPc = "idle" /\ UNCHANGED <<buf, control, monPc, monBuf>>
        /\ \A b \in BufIds : b \notin ToSet(txBuffers[t]) => owner'[b] = owner[b]
        /\ netPc' \in {"idle", "addBuffers"}
    BY <1>9 DEF Rollback, Commit, monVars, objVars, netVars
  <2>3. \A b \in BufIds : b \in ToSet(txBuffers[t]) =>
          \/ owner'[b] = "deleted"
          \/ owner'[b] = "writer" /\ netPc' = "addBuffers"
    BY <1>9 DEF Rollback, Commit
  <2>4. \A b \in BufIds : Live(b)' => Live(b)
    BY <2>1, <2>2 DEF Live
  <2>5. \A b \in BufIds : Live(b)' => (Unregistered(b)' <=> Unregistered(b))
    <3> SUFFICES ASSUME NEW b \in BufIds, Live(b)' PROVE Unregistered(b)' <=> Unregistered(b)
      OBVIOUS
    <3>1. CASE b \in ToSet(txBuffers[t])
      BY <2>1, <2>3, <3>1 DEF Unregistered, Live
    <3>2. CASE b \notin ToSet(txBuffers[t])
      BY <1>w, <2>2, <3>2 DEF Unregistered
    <3>3. QED BY <3>1, <3>2
  <2>6. \A b \in BufIds : SameRecord(b)
    BY <1>n, <2>2, <2>4, <2>5 DEF SameRecord
  <2>7. QED BY <1>0, <1>o, <1>m, <2>2, <2>6, RecordFrame
<1>10. CASE AddBuffersNext
  <2>1. PICK h \in BufIds : h = Head(netAdd) /\ owner[h] = "writer"
    BY <1>0, <1>t, <1>10, FileFacts, ToSetTail DEF AddBuffersNext
  <2>2. /\ netPc = "addBuffersLoop" /\ buf' = [buf EXCEPT ![h].ctl = Len(control.recs) + 1]
        /\ owner' = [owner EXCEPT ![h] = "active"]
        /\ control' = Registered(control, buffersCount + 1, buf[h], TRUE)
        /\ UNCHANGED <<netPc, netBuf, netNew, monPc, monBuf>>
    BY <1>10, <2>1 DEF AddBuffersNext, monVars
  <2>3. /\ control'.recs = Append(control.recs, RecordFor(buf[h], 0))
        /\ control'.count = Len(activeBuffers) + 1
    BY <1>c, <2>2 DEF Registered, RecordFor
  <2>4. control'.count <= Len(control.recs) + 1
    <3>1. Len(activeBuffers) <= Len(control.recs)
      BY <1>0, <2>2, CountFits
    <3>2. Len(activeBuffers) \in Nat /\ Len(control.recs) \in Nat
      BY <1>0, LogFacts, RecordFacts
    <3>3. QED BY <2>3, <3>1, <3>2
  <2>5. /\ buf'[h].ctl = Len(control.recs) + 1 /\ buf'[h].file = buf[h].file
        /\ buf'[h].slot = buf[h].slot
        /\ \A b \in BufIds : b # h => buf'[b] = buf[b] /\ owner'[b] = owner[b]
    BY <1>t, <2>2 DEF BufferRec
  <2>6. ~Unregistered(h)'
    BY <1>t, <2>1, <2>2 DEF Unregistered
  <2>7. \A b \in BufIds : b # h => SameRecord(b)
    BY <1>n, <2>2, <2>5 DEF SameRecord, Unregistered, Live
  <2>8. buf[h].file # Main
    BY <1>0, <2>1, <2>2, TxAssumption DEF Placed, PlacedAt
  <2>9. monPc' = "register" => buf'[monBuf'].ctl # 0
    BY <1>0, <1>m, <2>2, <2>5, RecordFacts
  <2>10. QED
    BY <1>0, <1>o, <2>3, <2>4, <2>5, <2>6, <2>7, <2>8, <2>9, RecordAppended
<1>11. CASE FlushPop
  <2>1. PICK h \in BufIds : h = Head(activeBuffers) /\ owner[h] = "active"
    BY <1>0, <1>t, <1>11, FileFacts, WorkFacts, ToSetTail DEF FlushPop
  <2>2. /\ buf' = [buf EXCEPT ![h].pos = 0] /\ owner' = [owner EXCEPT ![h] = "monitor"]
        /\ monPc' = "flush" /\ UNCHANGED <<control, netPc, netBuf, netNew>>
    BY <1>11, <2>1 DEF FlushPop, netVars
  <2>3. \A b \in BufIds : /\ buf'[b].ctl = buf[b].ctl /\ buf'[b].file = buf[b].file
                          /\ buf'[b].slot = buf[b].slot /\ buf'[b].len <= buf[b].len
    BY <1>t, <1>n, <2>2 DEF BufferRec
  <2>4. \A b \in BufIds : (Unregistered(b)' <=> Unregistered(b)) /\ (Live(b)' => Live(b))
    BY <1>t, <2>1, <2>2 DEF Unregistered, Live
  <2>5. \A b \in BufIds : SameRecord(b)
    BY <2>3, <2>4 DEF SameRecord
  <2>6. QED BY <1>0, <1>o, <2>2, <2>5, RecordFrame
<1>12. CASE FlushApply
  <2>1. /\ buf' = [buf EXCEPT ![monBuf].pos = buf[monBuf].pos + 1] /\ monPc = "flush"
        /\ UNCHANGED <<control, owner, netPc, netBuf, netNew, monPc, monBuf>>
    BY <1>12 DEF FlushApply, netVars, monVars
  <2>2. \A b \in BufIds : /\ buf'[b].ctl = buf[b].ctl /\ buf'[b].file = buf[b].file
                          /\ buf'[b].slot = buf[b].slot /\ buf'[b].len <= buf[b].len
    BY <1>t, <1>n, <2>1 DEF BufferRec
  <2>3. \A b \in BufIds : SameRecord(b)
    BY <2>1, <2>2 DEF SameRecord, Unregistered, Live
  <2>4. QED BY <1>0, <1>o, <2>1, <2>3, RecordFrame
<1>13. CASE FlushRecycle
  <2>1. PICK h \in BufIds : h = monBuf /\ owner[h] = "monitor"
    BY <1>0, <1>13, WorkFacts DEF FlushRecycle
  <2>2. /\ buf' = [buf EXCEPT ![h] = Reset(buf[h])]
        /\ owner' = [owner EXCEPT ![h] = "reusable"]
        /\ UNCHANGED <<control, netPc, netBuf, netNew, monBuf>>
    BY <1>13, <2>1 DEF FlushRecycle, netVars
  <2>3. \A b \in BufIds : /\ buf'[b].ctl = buf[b].ctl /\ buf'[b].file = buf[b].file
                          /\ buf'[b].slot = buf[b].slot /\ buf'[b].len <= buf[b].len
    <3>1. Reset(buf[h]).ctl = buf[h].ctl
      BY <1>t, <2>1 DEF Reset, BufferRec
    <3>2. QED BY <1>t, <1>n, <2>1, <2>2, <3>1, ResetLemma
  <2>4. \A b \in BufIds : (Unregistered(b)' <=> Unregistered(b)) /\ (Live(b)' => Live(b))
    BY <1>t, <2>1, <2>2 DEF Unregistered, Live
  <2>5. \A b \in BufIds : SameRecord(b)
    BY <2>3, <2>4 DEF SameRecord
  <2>6. Recorded(h)
    BY <1>0, <2>1, WorkFacts DEF Recorded, Unregistered, Live
  <2>7. buf[h].ctl # 0
    BY <1>0, <2>6, RecordFacts
  <2>8. QED BY <1>0, <1>o, <2>1, <2>2, <2>3, <2>5, <2>7, RecordFrame
<1>14. CASE FlushRegister
  <2>1. PICK h \in BufIds : h = monBuf /\ Live(h) /\ buf[h].ctl # 0
    BY <1>m, <1>14 DEF FlushRegister
  <2>2. /\ buf' = [buf EXCEPT ![h] = Reset(buf[h])] /\ monPc = "register" /\ monPc' = "wait"
        /\ control' = Registered(control, buffersCount, buf[h], FALSE)
        /\ UNCHANGED <<owner, netPc, netBuf, netNew>>
    BY <1>14, <2>1 DEF FlushRegister, netVars, histVars
  <2>3. Recorded(h)
    BY <1>0, <2>1, RecordFacts DEF Recorded
  <2>4. /\ control'.recs = [control.recs EXCEPT ![buf[h].ctl] = RecordFor(buf[h], 0)]
        /\ control'.count = Len(activeBuffers)
    BY <1>c, <2>2 DEF Registered, RecordFor
  <2>5. control'.count <= Len(control.recs)
    <3>1. CASE owner[h] # "active"
      BY <1>0, <2>3, <2>4, <3>1, CountFits
    <3>2. CASE owner[h] = "active"
      <4>1. netBuf = h /\ netPc \in {"addBuffer", "addBufferNotify"}
        BY <1>0, <2>1, <2>2, <3>2 DEF Control
      <4>2. ~netNew
        BY <2>3, <4>1 DEF Recorded, Unregistered
      <4>3. QED BY <1>0, <2>4, <4>2, CountFits
    <3>3. QED BY <3>1, <3>2
  <2>6. /\ buf'[h].ctl = buf[h].ctl /\ buf'[h].file = buf[h].file
        /\ buf'[h].slot = buf[h].slot /\ buf'[h].len <= 0
        /\ \A b \in BufIds : b # h => buf'[b] = buf[b]
    BY <1>t, <2>2 DEF BufferRec, Reset
  <2>7. \A b \in BufIds : Unregistered(b)' <=> Unregistered(b)
    BY <2>2 DEF Unregistered
  <2>8. \A b \in BufIds : b # h => SameRecord(b)
    BY <1>n, <2>2, <2>6, <2>7 DEF SameRecord, Live
  <2>9. 0 \in 0..BufCap /\ ~Unregistered(h)'
    BY <2>3, <2>7, BufCapAssumption DEF Recorded
  <2>10. QED
    BY <1>0, <1>o, <2>2, <2>3, <2>4, <2>5, <2>6, <2>8, <2>9, RecordOverwritten
<1>15. CASE FlushDrop
  <2>1. PICK h \in BufIds : h = monBuf /\ owner[h] = "monitor"
    BY <1>0, <1>15, WorkFacts DEF FlushDrop
  <2>2. /\ owner' = [owner EXCEPT ![h] = "deleted"] /\ monPc' = "wait"
        /\ UNCHANGED <<buf, control, netPc, netBuf, netNew>>
    BY <1>15, <2>1 DEF FlushDrop, netVars
  <2>3. \A b \in BufIds : (Unregistered(b)' <=> Unregistered(b)) /\ (Live(b)' => Live(b))
    BY <1>t, <2>1, <2>2 DEF Unregistered, Live
  <2>4. \A b \in BufIds : SameRecord(b)
    BY <1>n, <2>2, <2>3 DEF SameRecord
  <2>5. QED BY <1>0, <1>o, <2>2, <2>4, RecordFrame
<1>16. QED
  BY <1>1, <1>2, <1>3, <1>4, <1>5, <1>6, <1>7, <1>8, <1>9, <1>10, <1>11, <1>12, <1>13,
     <1>14, <1>15 DEF Next, Request, NetStep, MonStep

(* The step leaves the records that are there with their files.            *)
LEMMA RecordFiles ==
  ASSUME BaseInv, OnRecord, NEW h \in BufIds, NEW n \in 0..BufCap,
         \/ control' = control
         \/ control'.recs = Append(control.recs, RecordFor(buf[h], n))
         \/ /\ Recorded(h)
            /\ control'.recs = [control.recs EXCEPT ![buf[h].ctl] = RecordFor(buf[h], n)],
         NEW i \in 1..Len(control'.recs)
  PROVE  \/ i \in 1..Len(control.recs) /\ control'.recs[i].file = control.recs[i].file
         \/ /\ control'.recs = Append(control.recs, RecordFor(buf[h], n))
            /\ control'.recs[i].file = buf[h].file
<1>f. control.recs \in Seq(ControlRec)
  BY RecordFacts
<1>1. RecordFor(buf[h], n) \in ControlRec /\ RecordFor(buf[h], n).file = buf[h].file
  BY FileFacts DEF BufferRec, ControlRec, RecordFor
<1>2. CASE control' = control
  BY <1>2
<1>3. CASE control'.recs = Append(control.recs, RecordFor(buf[h], n))
  <2>1. PICK k \in Nat : k = Len(control.recs)
    BY <1>f
  <2>2. /\ Len(control'.recs) = k + 1 /\ control'.recs[k + 1] = RecordFor(buf[h], n)
        /\ \A j \in 1..k : control'.recs[j] = control.recs[j]
    BY <1>f, <1>1, <1>3, <2>1
  <2>3. i \in 1..k \/ i = k + 1
    BY <2>2
  <2>4. QED BY <1>1, <1>3, <2>1, <2>2, <2>3
<1>4. CASE /\ Recorded(h)
           /\ control'.recs = [control.recs EXCEPT ![buf[h].ctl] = RecordFor(buf[h], n)]
  <2>1. buf[h].ctl \in 1..Len(control.recs) /\ control.recs[buf[h].ctl].file = buf[h].file
    BY <1>4, RecordFacts
  <2>2. /\ Len(control'.recs) = Len(control.recs)
        /\ control'.recs[buf[h].ctl] = RecordFor(buf[h], n)
        /\ \A j \in 1..Len(control.recs) : j # buf[h].ctl => control'.recs[j] = control.recs[j]
    BY <1>f, <1>1, <1>4, <2>1
  <2>3. QED BY <1>1, <2>1, <2>2
<1>5. QED BY <1>2, <1>3, <1>4

(* No action writes a record for a log file whose transaction was not      *)
(* asked to commit.                                                        *)
LEMMA HandedRecordsStep == RecoveryInv /\ [Next]_vars => HandedRecords'
<1> SUFFICES ASSUME RecoveryInv, [Next]_vars, NEW i \in 1..Len(control'.recs)
             PROVE  control'.recs[i].file = Main \/ Handed(control.recs[i].file)'
  BY DEF HandedRecords
<1>0. BaseInv /\ OnRecord /\ HandedRecords /\ HandedOver /\ Control
  BY DEF RecoveryInv, IsolationInv, BaseInv
<1>t. /\ owner \in [BufIds -> Owners] /\ buf \in [BufIds -> BufferRec]
      /\ netAdd \in Seq(BufIds) /\ 0 \in 0..BufCap
  BY <1>0, FileFacts, BufCapAssumption
<1>k. \A t \in Tx : Handed(t) => Handed(t)'
  BY <1>0, HandedKept
<1>o. ASSUME i \in 1..Len(control.recs), control'.recs[i].file = control.recs[i].file
      PROVE  control'.recs[i].file = Main \/ Handed(control.recs[i].file)'
  <2>1. control.recs[i] \in ControlRec
    BY <1>0, <1>o, RecordFacts
  <2>2. control.recs[i].file = Main \/ control.recs[i].file \in Tx
    BY <2>1 DEF ControlRec, File
  <2>3. control.recs[i].file = Main \/ Handed(control.recs[i].file)
    BY <1>0, <1>o DEF HandedRecords
  <2>4. ASSUME NEW t \in Tx, control.recs[i].file = t, Handed(t)
        PROVE  Handed(control.recs[i].file)'
    BY <1>k, <1>o, <2>4 DEF Handed
  <2>5. QED BY <1>o, <2>2, <2>3, <2>4
<1>n. ASSUME NEW h \in BufIds, owner[h] \in {"active", "writer"},
             control'.recs[i].file = buf[h].file
      PROVE  control'.recs[i].file = Main \/ Handed(control.recs[i].file)'
  <2>1. buf[h].file = Main \/ Handed(buf[h].file)
    BY <1>0, <1>n DEF HandedOver, HandedAt
  <2>2. buf[h].file = Main \/ buf[h].file \in Tx
    BY <1>0, FileFacts DEF File
  <2>3. ASSUME NEW t \in Tx, buf[h].file = t, Handed(t) PROVE Handed(control.recs[i].file)'
    BY <1>k, <1>n, <2>3 DEF Handed
  <2>4. QED BY <1>n, <2>1, <2>2, <2>3
<1>1. CASE UNCHANGED control
  BY <1>1, <1>o
<1>2. CASE Register
  <2>1. PICK h \in BufIds : h = netBuf /\ owner[h] = "active"
    BY <1>0, <1>2, WorkFacts DEF Register
  <2>2. \/ netNew /\ control'.recs = Append(control.recs, RecordFor(buf[h], 0))
        \/ ~netNew /\ control'.recs = [control.recs EXCEPT ![buf[h].ctl] = RecordFor(buf[h], 0)]
    BY <1>2, <2>1 DEF Register, Registered, RecordFor
  <2>3. ~netNew => Recorded(h)
    BY <1>2, <2>1 DEF Register, Recorded, Unregistered, Live
  <2>4. QED BY <1>0, <1>t, <1>o, <1>n, <2>1, <2>2, <2>3, RecordFiles
<1>3. CASE WriteOperation
  <2>1. PICK h \in BufIds : h = netBuf /\ owner[h] = "active" /\ netPc = "write"
    BY <1>0, <1>3, WorkFacts DEF WriteOperation
  <2>2. Recorded(h)
    BY <2>1 DEF Recorded, Unregistered, Live
  <2>3. /\ control \in [count : Nat, recs : Seq(ControlRec)]
        /\ buf[h].ctl \in 1..Len(control.recs)
    BY <1>0, <2>2, RecordFacts DEF BaseInv, TypeOK, ObjType
  <2>4. control' = [control EXCEPT !.recs[buf[h].ctl].len = buf[h].pos + 1]
    BY <1>3, <2>1 DEF WriteOperation
  <2>5. control'.recs = [control.recs EXCEPT ![buf[h].ctl] =
                           [control.recs[buf[h].ctl] EXCEPT !.len = buf[h].pos + 1]]
    BY <2>3, <2>4
  <2>6. \A j \in 1..Len(control.recs) : control.recs[j] \in ControlRec
    BY <2>3
  <2>7. Len(control'.recs) = Len(control.recs)
    BY <2>3, <2>5
  <2>8. control'.recs[i].file = control.recs[i].file
    BY <2>3, <2>5, <2>6, <2>7 DEF ControlRec
  <2>9. QED BY <1>o, <2>7, <2>8
<1>4. CASE AddBuffersNext
  <2>1. PICK h \in BufIds : h = Head(netAdd) /\ owner[h] = "writer"
    BY <1>0, <1>t, <1>4, FileFacts, ToSetTail DEF AddBuffersNext
  <2>2. control'.recs = Append(control.recs, RecordFor(buf[h], 0))
    BY <1>4, <2>1 DEF AddBuffersNext, Registered, RecordFor
  <2>3. QED BY <1>0, <1>t, <1>o, <1>n, <2>1, <2>2, RecordFiles
<1>5. CASE FlushRegister
  <2>1. PICK h \in BufIds : h = monBuf /\ buf[h].ctl # 0
    BY <1>0, <1>5, WorkFacts DEF FlushRegister, OnRecord
  <2>2. owner[h] \in {"reusable", "writer", "active"}
    BY <1>0, <1>5, <2>1, WorkFacts DEF FlushRegister, Control
  <2>3. Recorded(h)
    BY <1>0, <2>1, <2>2, RecordFacts DEF Recorded, Live
  <2>4. control'.recs = [control.recs EXCEPT ![buf[h].ctl] = RecordFor(buf[h], 0)]
    BY <1>5, <2>1 DEF FlushRegister, Registered, RecordFor
  <2>5. PICK k \in Nat : k = Len(control.recs) /\ Len(control'.recs) = k
    BY <1>0, <2>4, RecordFacts
  <2>6. control'.recs # Append(control.recs, RecordFor(buf[h], 0))
    <3>1. RecordFor(buf[h], 0) \in ControlRec
      BY <1>t DEF BufferRec, ControlRec, RecordFor
    <3>2. Len(Append(control.recs, RecordFor(buf[h], 0))) = k + 1
      BY <1>0, <2>5, <3>1, RecordFacts
    <3>3. QED BY <2>5, <3>2
  <2>7. QED BY <1>0, <1>t, <1>o, <2>3, <2>4, <2>6, RecordFiles
<1>6. QED
  BY <1>1, <1>2, <1>3, <1>4, <1>5 DEF Next, Request, NetStep, MonStep, vars, objVars,
     RequestWrite, GetBufferTail, GetBufferReuse, GetBufferCreate, AddBuffer,
     AddBufferNotify, AddBuffersLock, AddBuffersUnlock, FinishCommit, TxWrite,
     TxWriteNewBuffer, Rollback, Commit, FlushWake, FlushPop, FlushApply, FlushRecycle,
     FlushDrop

----------------------------------------------------------------------------
(* The empty log is in step with the empty control file.                   *)
LEMMA InitRecovery == RInit => RecoveryInv
<1> SUFFICES ASSUME Init PROVE RecoveryInv
  BY DEF RInit
<1>1. IsolationInv
  BY InitInv, InitFileInv, IsolationOfLog DEF LogInv
<1>2. \A b \in BufIds : ~Live(b)
  BY DEF Init, Live
<1>3. control = [count |-> 0, recs |-> <<>>] /\ monPc = "wait"
  BY DEF Init
<1>4. OnRecord
  BY <1>2, <1>3 DEF OnRecord
<1>5. HandedRecords
  BY <1>3 DEF HandedRecords
<1>6. QED BY <1>1, <1>4, <1>5 DEF RecoveryInv

(* Every step of the two threads keeps the control file usable and the     *)
(* transactions apart.                                                     *)
LEMMA RecoveryStep == RecoveryInv /\ [Next]_vars => RecoveryInv'
<1> SUFFICES ASSUME RecoveryInv, [Next]_vars PROVE RecoveryInv' OBVIOUS
<1>1. IsolationInv /\ BaseInv
  BY DEF RecoveryInv, IsolationInv
<1>2. BaseInv'
  BY <1>1, TypeStep, ContainersStep, ControlStep, BoundsStep DEF BaseInv
<1>3. IsolationInv'
  BY <1>1, <1>2, PlacedStep, HandedStep, OwnOperationsStep, CommittedStep DEF IsolationInv
<1>4. QED BY <1>3, OnRecordStep, HandedRecordsStep DEF RecoveryInv

(* So does a restart, at whatever point of a write or a flush the process  *)
(* was killed.                                                             *)
LEMMA RestartStep == RecoveryInv /\ Restart => RecoveryInv'
<1> SUFFICES ASSUME RecoveryInv, Restart PROVE RecoveryInv' OBVIOUS
<1>1. IsolationInv /\ BaseInv /\ OnRecord /\ HandedRecords
  BY DEF RecoveryInv, IsolationInv
<1>2. QED BY <1>1, RestartIsolation, RestartRecords DEF RecoveryInv

(* In every behaviour with any number of restarts, main.trc and the        *)
(* buffers agree: each registered buffer has its own record, and the       *)
(* header never promises more records than there are.                      *)
THEOREM RecoveryInvariance == RSpec => []RecoveryInv
<1>1. RInit => RecoveryInv
  BY InitRecovery
<1>2. RecoveryInv /\ [RNext]_recVars => RecoveryInv'
  <2> SUFFICES ASSUME RecoveryInv, [RNext]_recVars PROVE RecoveryInv' OBVIOUS
  <2>1. CASE Restart
    BY <2>1, RestartStep
  <2>2. CASE RStep \/ UNCHANGED recVars
    <3>1. [Next]_vars
      BY <2>2 DEF RStep, recVars
    <3>2. QED BY <3>1, RecoveryStep
  <2>3. QED BY <2>1, <2>2 DEF RNext
<1>3. QED BY <1>1, <1>2, PTL DEF RSpec

(* The controller never sees an operation of a transaction that was not    *)
(* asked to commit, however often the process is killed and whatever       *)
(* loadBuffers finds in the control file.                                  *)
THEOREM RecoveryIsolation == RSpec => []OnlyCommittedApplied
<1>1. RecoveryInv => OnlyCommittedApplied
  BY DEF RecoveryInv, IsolationInv
<1>2. QED BY <1>1, RecoveryInvariance, PTL

(* Everything that can be read from the queue before a restart can be read *)
(* from it afterwards.                                                     *)
LEMMA QueueReloaded ==
  ASSUME RecoveryInv, Restart, control.count = Len(control.recs),
         \A i \in 1..Len(control.recs) : control.recs[i].file = Main
  PROVE  Queued \subseteq Queued'
<1>0. BaseInv /\ OnRecord /\ CursorBounds
  BY DEF RecoveryInv, IsolationInv, BaseInv
<1>1. ASSUME NEW b \in BufIds, owner[b] \in {"active", "monitor"}, NEW j \in 1..buf[b].len
      PROVE  \E c \in BufIds : /\ owner'[c] = "active" /\ j \in 1..buf'[c].len
                               /\ disk'[buf'[c].file][buf'[c].slot][j] =
                                    disk[buf[b].file][buf[b].slot][j]
  <2>n. buf[b].len \in Nat /\ j \in Nat /\ 1 <= j /\ j <= buf[b].len
    BY <1>0, LogFacts
  <2>1. ~Unregistered(b)
    <3>1. ASSUME Unregistered(b) PROVE buf[b].len = 0
      <4>1. b = netBuf /\ netPc \in {"addBuffer", "addBufferNotify", "register"}
        BY <1>1, <3>1 DEF Unregistered
      <4>2. QED BY <1>0, <4>1 DEF CursorBounds
    <3>2. QED BY <2>n, <3>1
  <2>2. Recorded(b)
    BY <1>1, <2>1 DEF Recorded, Live
  <2>3. PICK i \in 1..Len(control.recs) :
          /\ i = buf[b].ctl /\ control.recs[i] \in ControlRec
          /\ control.recs[i].file = buf[b].file /\ control.recs[i].slot = buf[b].slot
          /\ buf[b].file = Main => buf[b].len <= control.recs[i].len
    BY <1>0, <2>2, RecordFacts
  <2>4. control.recs[i].file = Main
    OBVIOUS
  <2>5. i \in 1..Loaded
    BY DEF Loaded
  <2>6. PICK c \in BufIds : c = created + i /\ buf'[c] = LoadedBuffer(i) /\ owner'[c] = "active"
    BY <1>0, <2>5, RestartFacts
  <2>7. /\ buf'[c].file = Main /\ buf'[c].slot = buf[b].slot
        /\ buf'[c].len = control.recs[i].len
    BY <2>3, <2>4, <2>6 DEF LoadedBuffer
  <2>8. control.recs[i].len \in Nat
    BY <2>3, BufCapAssumption DEF ControlRec
  <2>9. j \in 1..buf'[c].len
    BY <2>n, <2>3, <2>4, <2>7, <2>8
  <2>10. disk'[Main] = disk[Main]
    BY DEF Restart, File
  <2>11. QED BY <2>3, <2>4, <2>6, <2>7, <2>9, <2>10
<1>2. ASSUME NEW v \in Queued PROVE v \in Queued'
  <2>1. PICK b \in BufIds : owner[b] \in {"active", "monitor"} /\ v \in ToSet(Contents(b))
    BY DEF Queued
  <2>2. PICK j \in 1..buf[b].len : v = disk[buf[b].file][buf[b].slot][j]
    BY <2>1 DEF ToSet, Contents
  <2>3. PICK c \in BufIds : /\ owner'[c] = "active" /\ j \in 1..buf'[c].len
                            /\ disk'[buf'[c].file][buf'[c].slot][j] = v
    BY <1>1, <2>1, <2>2
  <2>4. v \in ToSet(Contents(c)')
    BY <2>3 DEF ToSet, Contents
  <2>5. QED BY <2>3, <2>4 DEF Queued
<1>3. QED BY <1>2

(* A restart loses no accepted operation when the control file has a       *)
(* record for every queued buffer of the main log and no others, at        *)
(* whatever point of a write or of a flush the process was killed.         *)
THEOREM PendingSurvives == RSpec => RestartKeepsPending
<1> DEFINE Keeps == /\ crashes' # crashes
                    /\ ~clash /\ PendingKept
                    /\ control.count = Len(control.recs)
                    /\ \A i \in 1..Len(control.recs) : control.recs[i].file = Main
                    => PendingKept'
<1>1. RecoveryInv /\ [RNext]_recVars => [Keeps]_recVars
  <2> SUFFICES ASSUME RecoveryInv, [RNext]_recVars, crashes' # crashes, PendingKept,
                      control.count = Len(control.recs),
                      \A i \in 1..Len(control.recs) : control.recs[i].file = Main
               PROVE  PendingKept'
    OBVIOUS
  <2>1. Restart
    BY DEF RNext, RStep, recVars
  <2>2. BaseInv
    BY DEF RecoveryInv, IsolationInv
  <2>3. acked' = acked /\ applied' = applied
    BY <2>1, <2>2, RestartPlain
  <2>4. Queued \subseteq Queued'
    BY <2>1, QueueReloaded
  <2>5. QED BY <2>3, <2>4 DEF PendingKept
<1>2. RSpec => [][Keeps]_recVars
  BY <1>1, RecoveryInvariance, PTL DEF RSpec
<1>3. QED BY <1>2 DEF RestartKeepsPending, Keeps

----------------------------------------------------------------------------
(* No run of the server applies an operation twice.                        *)

(* Applying v adds v, and only v, to what this run has applied.            *)
LEMMA RunExtends ==
  ASSUME HistType, NEW v \in Op \cup {None}, applied' = Append(applied, v),
         appliedBefore \in Nat, UNCHANGED appliedBefore
  PROVE  /\ EachOnce /\ (v # None => NotYet(v)) => EachOnce'
         /\ \A op : NotYet(op) /\ op # v => NotYet(op)'
<1>1. applied \in Seq(Op \cup {None})
  BY DEF HistType
<1>2. PICK n \in Nat : n = Len(applied)
  BY <1>1
<1>3. /\ Len(applied') = n + 1 /\ applied'[n + 1] = v
      /\ \A i \in 1..n : applied'[i] = applied[i]
  BY <1>1, <1>2
<1>4. \A i \in ThisRun' : i = n + 1 \/ (i \in ThisRun /\ applied'[i] = applied[i])
  BY <1>2, <1>3 DEF ThisRun
<1>5. ASSUME EachOnce, v # None => NotYet(v) PROVE EachOnce'
  <2> SUFFICES ASSUME NEW i \in ThisRun', NEW j \in ThisRun',
                      applied'[i] = applied'[j], applied'[i] # None
               PROVE  i = j
    BY DEF EachOnce
  <2>1. CASE i = n + 1 /\ j # n + 1
    BY <1>3, <1>4, <1>5, <2>1 DEF NotYet
  <2>2. CASE j = n + 1 /\ i # n + 1
    BY <1>3, <1>4, <1>5, <2>2 DEF NotYet
  <2>3. CASE i # n + 1 /\ j # n + 1
    BY <1>4, <1>5, <2>3 DEF EachOnce
  <2>4. QED BY <2>1, <2>2, <2>3
<1>6. ASSUME NEW op, NotYet(op), op # v PROVE NotYet(op)'
  BY <1>3, <1>4, <1>6 DEF NotYet
<1>7. QED BY <1>5, <1>6

(* What was never applied was not applied by this run.                     *)
LEMMA NeverIsNotYet ==
  ASSUME appliedBefore \in Nat, NEW op, \A i \in 1..Len(applied) : applied[i] # op
  PROVE  NotYet(op)
  BY DEF NotYet, ThisRun

\* The step writes op at the cursor r of buffer h, and op is new.
Writes(h, r, op) ==
  /\ h \in BufIds /\ r \in BufferRec /\ r.pos < BufCap /\ op \in Op \cup {None}
  /\ disk' = WrittenDisk(r, op)
  /\ buf'[h].file = r.file /\ buf'[h].slot = r.slot /\ buf'[h].len = r.pos + 1
  /\ \A b \in BufIds : b # h => buf'[b] = buf[b] /\ owner'[b] = owner[b]
  /\ \/ r = buf[h] /\ Live(h) /\ owner[h] # "monitor" /\ owner'[h] = owner[h]
     \/ /\ r.pos = 0 /\ owner'[h] # "monitor"
        /\ ~clash' => \A b \in BufIds : Live(b) => ~SameRegion(b, r.file, r.slot)
  /\ op # None => /\ op.n <= issued'
                  /\ \A i \in 1..Len(applied) : applied[i] # op
                  /\ \A f \in File, s \in Slots, i \in 1..BufCap : disk[f][s][i] # op
  /\ netOp' = None \/ (netOp' = netOp /\ op # netOp)
  /\ issued <= issued' /\ applied' = applied /\ (clash => clash')

(* An operation with the next number was neither written nor applied.      *)
LEMMA NextIsNew ==
  ASSUME TypeOK, Numbered, NEW op \in Op, op.n = issued + 1
  PROVE  /\ op # None =>
              /\ \A i \in 1..Len(applied) : applied[i] # op
              /\ \A f \in File, s \in Slots, i \in 1..BufCap : disk[f][s][i] # op
         /\ netOp = None \/ op # netOp
<1>1. issued \in Nat
  BY BoundsAssumption DEF TypeOK
<1>2. ASSUME op # None, NEW i \in 1..Len(applied) PROVE applied[i] # op
  BY <1>1, <1>2 DEF Numbered
<1>3. ASSUME op # None, NEW f \in File, NEW s \in Slots, NEW i \in 1..BufCap
      PROVE  disk[f][s][i] # op
  BY <1>1, <1>3 DEF Numbered
<1>4. netOp = None \/ op # netOp
  BY <1>1 DEF Numbered
<1>5. QED BY <1>2, <1>3, <1>4

(* writeOperationToRegister and the writes of a transaction put a new      *)
(* operation at the cursor of one buffer.                                  *)
LEMMA WritesStep ==
  ASSUME BaseInv, Numbered, WriteOperation \/ \E t \in Tx : TxWrite(t) \/ TxWriteNewBuffer(t)
  PROVE  \E h, r, op : Writes(h, r, op)
<1>0. TypeOK /\ CursorBounds
  BY DEF BaseInv
<1>t. /\ owner \in [BufIds -> Owners] /\ buf \in [BufIds -> BufferRec]
      /\ txBuffers \in [Tx -> Seq(BufIds)] /\ netOp \in Op \cup {None}
      /\ issued \in Nat /\ issued \in 0..MaxOps
  BY <1>0, FileFacts, BoundsAssumption DEF TypeOK, NetType
<1>1. CASE WriteOperation
  <2>1. PICK h \in BufIds : h = netBuf /\ owner[h] = "active" /\ buf[h].pos < BufCap
    BY <1>0, <1>1, WorkFacts DEF WriteOperation, CursorBounds
  <2>2. PICK r \in BufferRec : r = buf[h]
    BY <1>t
  <2>3. /\ disk' = WrittenDisk(r, netOp) /\ buf' = [buf EXCEPT ![h] = Written(r)]
        /\ netOp' = None /\ UNCHANGED <<issued, owner, applied, clash>>
    BY <1>1, <2>1, <2>2 DEF WriteOperation
  <2>4. /\ buf'[h].file = r.file /\ buf'[h].slot = r.slot /\ buf'[h].len = r.pos + 1
        /\ \A b \in BufIds : b # h => buf'[b] = buf[b]
    BY <1>t, <2>3 DEF Written, BufferRec
  <2>5. netOp # None =>
          /\ netOp.n <= issued'
          /\ \A i \in 1..Len(applied) : applied[i] # netOp
          /\ \A f \in File, s \in Slots, i \in 1..BufCap : disk[f][s][i] # netOp
    BY <2>3 DEF Numbered
  <2>6. Live(h) /\ issued <= issued'
    BY <1>t, <2>1, <2>3 DEF Live
  <2>7. Writes(h, r, netOp)
    BY <1>t, <2>1, <2>2, <2>3, <2>4, <2>5, <2>6 DEF Writes
  <2>8. QED BY <2>7
<1>2. ASSUME NEW t \in Tx, TxWrite(t) PROVE \E h, r, op : Writes(h, r, op)
  <2>1. txBuffers[t] \in Seq(BufIds) /\ txBuffers[t] # <<>>
    BY <1>t, <1>2 DEF TxWrite, HasRoom
  <2>2. PICK h \in BufIds : h = Last(txBuffers[t]) /\ h \in ToSet(txBuffers[t])
    BY <2>1 DEF Last, ToSet
  <2>3. owner[h] = "tx"
    BY <2>2, FileFacts
  <2>4. PICK r \in BufferRec : r = buf[h]
    BY <1>t
  <2>5. r.pos < BufCap
    BY <1>2, <2>2, <2>4, BufCapAssumption DEF TxWrite, HasRoom, BufferRec
  <2>6. [n |-> issued + 1, tx |-> t] \in Op
    BY <1>t, <1>2, BoundsAssumption DEF TxWrite, Op, File
  <2>7. PICK op \in Op : op = [n |-> issued + 1, tx |-> t]
    BY <2>6
  <2>8. /\ disk' = WrittenDisk(r, op) /\ buf' = [buf EXCEPT ![h] = Written(r)]
        /\ issued' = issued + 1 /\ UNCHANGED <<netOp, owner, applied, clash>>
    BY <1>2, <2>2, <2>4, <2>7 DEF TxWrite, netVars, histVars
  <2>9. /\ buf'[h].file = r.file /\ buf'[h].slot = r.slot /\ buf'[h].len = r.pos + 1
        /\ \A b \in BufIds : b # h => buf'[b] = buf[b]
    BY <1>t, <2>8 DEF Written, BufferRec
  <2>10. op.n = issued + 1
    BY <2>7
  <2>11. /\ op # None =>
              /\ \A i \in 1..Len(applied) : applied[i] # op
              /\ \A f \in File, s \in Slots, i \in 1..BufCap : disk[f][s][i] # op
         /\ netOp = None \/ op # netOp
    BY <1>0, <2>10, NextIsNew
  <2>12. Live(h) /\ issued <= issued' /\ op.n <= issued'
    BY <1>t, <2>3, <2>8, <2>10 DEF Live
  <2>13. Writes(h, r, op)
    BY <2>3, <2>4, <2>5, <2>8, <2>9, <2>11, <2>12 DEF Writes
  <2>14. QED BY <2>13
<1>3. ASSUME NEW t \in Tx, TxWriteNewBuffer(t) PROVE \E h, r, op : Writes(h, r, op)
  <2>1. PICK h \in BufIds : h = created + 1 /\ owner[h] = "free"
    BY <1>3, WorkFacts DEF TxWriteNewBuffer
  <2>2. NewBuffer(t, Len(txBuffers[t])) \in BufferRec
    BY <1>3, BufCapAssumption DEF TxWriteNewBuffer, BufferRec, NewBuffer, File
  <2>3. PICK r \in BufferRec : r = NewBuffer(t, Len(txBuffers[t]))
    BY <2>2
  <2>4. r.pos < BufCap /\ r.pos = 0 /\ r.file = t
    BY <2>3, BufCapAssumption DEF NewBuffer
  <2>6. [n |-> issued + 1, tx |-> t] \in Op
    BY <1>t, <1>3, BoundsAssumption DEF TxWriteNewBuffer, Op, File
  <2>7. PICK op \in Op : op = [n |-> issued + 1, tx |-> t]
    BY <2>6
  <2>8. /\ disk' = WrittenDisk(r, op) /\ buf' = [buf EXCEPT ![h] = Written(r)]
        /\ owner' = [owner EXCEPT ![h] = "tx"]
        /\ issued' = issued + 1 /\ UNCHANGED <<netOp, applied>>
        /\ clash' = (clash \/ \E c \in BufIds : Live(c) /\ SameRegion(c, t, r.slot))
    BY <1>3, <2>1, <2>3, <2>7 DEF TxWriteNewBuffer, netVars
  <2>9. /\ buf'[h].file = r.file /\ buf'[h].slot = r.slot /\ buf'[h].len = r.pos + 1
        /\ \A b \in BufIds : b # h => buf'[b] = buf[b] /\ owner'[b] = owner[b]
        /\ owner'[h] # "monitor"
    BY <1>t, <2>8 DEF Written, BufferRec
  <2>10. op.n = issued + 1
    BY <2>7
  <2>11. /\ op # None =>
              /\ \A i \in 1..Len(applied) : applied[i] # op
              /\ \A f \in File, s \in Slots, i \in 1..BufCap : disk[f][s][i] # op
         /\ netOp = None \/ op # netOp
    BY <1>0, <2>10, NextIsNew
  <2>12. issued <= issued' /\ op.n <= issued'
    BY <1>t, <2>8, <2>10
  <2>13. ~clash' => \A b \in BufIds : Live(b) => ~SameRegion(b, r.file, r.slot)
    BY <2>4, <2>8
  <2>14. Writes(h, r, op)
    BY <2>4, <2>8, <2>9, <2>11, <2>12, <2>13 DEF Writes
  <2>15. QED BY <2>14
<1>4. QED BY <1>1, <1>2, <1>3

(* What a write leaves in the log files.                                   *)
LEMMA WrittenPlaces ==
  ASSUME ObjType, NEW h, NEW r, NEW op, Writes(h, r, op),
         NEW f \in File, NEW s \in Slots, NEW i \in 1..BufCap
  PROVE  IF f = r.file /\ s = r.slot /\ i = r.pos + 1
         THEN disk'[f][s][i] = op ELSE disk'[f][s][i] = disk[f][s][i]
<1>1. /\ r \in BufferRec /\ r.pos < BufCap /\ op \in Op \cup {None}
      /\ disk' = WrittenDisk(r, op)
  BY DEF Writes
<1>2. WrittenDisk(r, op)[r.file][r.slot][r.pos + 1] = op
  BY <1>1, WrittenDiskLemma
<1>3. f # r.file \/ s # r.slot \/ i # r.pos + 1
        => WrittenDisk(r, op)[f][s][i] = disk[f][s][i]
  BY <1>1, WrittenDiskLemma
<1>4. QED BY <1>1, <1>2, <1>3

(* Every place of the log files holds an operation or nothing.             *)
LEMMA DiskType ==
  ASSUME ObjType, NEW f \in File, NEW s \in Slots, NEW i \in 1..BufCap
  PROVE  disk[f][s][i] \in Op \cup {None}
<1>1. disk \in [File -> [Slots -> [1..BufCap -> Op \cup {None}]]]
  BY DEF ObjType
<1>2. disk[f][s] \in [1..BufCap -> Op \cup {None}]
  BY <1>1
<1>3. QED BY <1>2

(* What the monitor reads next is what the log file holds behind its       *)
(* cursor.                                                                 *)
LEMMA ApplyFacts ==
  ASSUME BaseInv, FlushApply
  PROVE  \E h \in BufIds, v \in Op \cup {None} :
           /\ owner[h] = "monitor" /\ buf[h].pos + 1 \in 1..BufCap
           /\ buf[h].pos + 1 <= buf[h].len
           /\ v = disk[buf[h].file][buf[h].slot][buf[h].pos + 1]
           /\ applied' = Append(applied, v)
           /\ buf' = [buf EXCEPT ![h].pos = buf[h].pos + 1]
           /\ UNCHANGED <<disk, owner, netOp, issued, clash>>
<1>1. PICK h \in BufIds : h = monBuf /\ owner[h] = "monitor"
  BY WorkFacts DEF FlushApply
<1>2. /\ buf[h].file \in File /\ buf[h].slot \in Slots
      /\ buf[h].pos \in 0..BufCap /\ buf[h].len \in 0..BufCap
  BY FileFacts DEF BufferRec
<1>3. buf[h].pos + 1 \in 1..BufCap /\ buf[h].pos + 1 <= buf[h].len
  BY <1>1, <1>2, BufCapAssumption DEF FlushApply, Eof
<1>4. disk[buf[h].file][buf[h].slot][buf[h].pos + 1] \in Op \cup {None}
  BY <1>2, <1>3, DiskType DEF BaseInv, TypeOK
<1>5. QED BY <1>1, <1>3, <1>4 DEF FlushApply, netVars

(* Every action keeps the numbering: what is about to be written is in no  *)
(* log file and was not applied.                                           *)
LEMMA NumberedStep == RunInv /\ [Next]_vars => Numbered'
<1> SUFFICES ASSUME RunInv, [Next]_vars PROVE Numbered' OBVIOUS
<1>0. BaseInv /\ TypeOK /\ Numbered /\ ObjType
  BY DEF RunInv, RecoveryInv, IsolationInv, BaseInv, TypeOK
<1>t. issued \in Nat /\ issued' \in Nat /\ applied \in Seq(Op \cup {None})
      /\ netOp \in Op \cup {None}
  <2>1. TypeOK'
    BY <1>0, TypeStep
  <2>2. QED BY <1>0, <2>1, BoundsAssumption DEF TypeOK, HistType, NetType
<1>n. /\ \A i \in 1..Len(applied) : applied[i] # None => applied[i].n \in Nat
      /\ \A f \in File, s \in Slots, i \in 1..BufCap :
           disk[f][s][i] # None => disk[f][s][i].n \in Nat
      /\ netOp # None => netOp.n \in Nat
  <2>1. \A op \in Op : op.n \in Nat
    BY DEF Op
  <2>2. \A f \in File, s \in Slots, i \in 1..BufCap : disk[f][s][i] \in Op \cup {None}
    BY <1>0, DiskType
  <2>3. QED BY <1>t, <2>1, <2>2
<1>1. CASE UNCHANGED <<disk, applied, netOp, issued>>
  BY <1>0, <1>1 DEF Numbered
<1>2. CASE RequestWrite
  <2>1. [n |-> issued + 1, tx |-> Main] \in Op
    BY <1>t, <1>0, <1>2, BoundsAssumption DEF RequestWrite, Op, File, TypeOK
  <2>2. PICK op \in Op : op = [n |-> issued + 1, tx |-> Main]
    BY <2>1
  <2>3. op.n = issued + 1
    BY <2>2
  <2>4. netOp' = op /\ issued' = issued + 1 /\ UNCHANGED <<disk, applied>>
    BY <1>2, <2>2 DEF RequestWrite, objVars, histVars
  <2>5. op # None =>
          /\ \A i \in 1..Len(applied) : applied[i] # op
          /\ \A f \in File, s \in Slots, i \in 1..BufCap : disk[f][s][i] # op
    BY <1>0, <2>3, NextIsNew
  <2>6. \A i \in 1..Len(applied) : applied[i] # None => applied[i].n <= issued'
    BY <1>0, <1>t, <1>n, <2>4 DEF Numbered
  <2>7. \A f \in File, s \in Slots, i \in 1..BufCap :
          disk[f][s][i] # None => disk[f][s][i].n <= issued'
    BY <1>0, <1>t, <1>n, <2>4 DEF Numbered
  <2>8. op.n <= issued'
    BY <1>t, <2>3, <2>4
  <2>9. QED BY <2>4, <2>5, <2>6, <2>7, <2>8 DEF Numbered
<1>3. CASE WriteOperation \/ \E t \in Tx : TxWrite(t) \/ TxWriteNewBuffer(t)
  <2>1. PICK h, r, op : Writes(h, r, op)
    BY <1>0, <1>3, WritesStep
  <2>2. /\ op # None => op.n <= issued'
        /\ netOp' = None \/ (netOp' = netOp /\ op # netOp)
        /\ issued <= issued' /\ applied' = applied
    BY <2>1 DEF Writes
  <2>3. \A i \in 1..Len(applied) : applied[i] # None => applied[i].n <= issued'
    BY <1>0, <1>t, <1>n, <2>2 DEF Numbered
  <2>4. ASSUME NEW f \in File, NEW s \in Slots, NEW i \in 1..BufCap
        PROVE  disk'[f][s][i] = op \/ disk'[f][s][i] = disk[f][s][i]
    BY <1>0, <2>1, WrittenPlaces
  <2>5. ASSUME NEW f \in File, NEW s \in Slots, NEW i \in 1..BufCap, disk[f][s][i] # None
        PROVE  disk[f][s][i].n <= issued'
    BY <1>0, <1>t, <1>n, <2>2, <2>5 DEF Numbered
  <2>6. ASSUME NEW f \in File, NEW s \in Slots, NEW i \in 1..BufCap
        PROVE  disk'[f][s][i] # None => disk'[f][s][i].n <= issued'
    BY <2>2, <2>4, <2>5
  <2>7. ASSUME netOp' # None
        PROVE  /\ netOp'.n <= issued'
               /\ \A i \in 1..Len(applied) : applied[i] # netOp'
               /\ \A f \in File, s \in Slots, i \in 1..BufCap : disk'[f][s][i] # netOp'
    <3>1. netOp' = netOp /\ op # netOp /\ netOp # None
      BY <2>2, <2>7
    <3>2. netOp.n <= issued'
      BY <1>0, <1>t, <1>n, <2>2, <3>1 DEF Numbered
    <3>3. /\ \A i \in 1..Len(applied) : applied[i] # netOp
          /\ \A f \in File, s \in Slots, i \in 1..BufCap : disk[f][s][i] # netOp
      BY <1>0, <3>1 DEF Numbered
    <3>4. QED BY <2>4, <3>1, <3>2, <3>3
  <2>8. QED BY <2>2, <2>3, <2>6, <2>7 DEF Numbered
<1>4. CASE FlushApply
  <2>1. PICK h \in BufIds, v \in Op \cup {None} :
          /\ buf[h].pos + 1 \in 1..BufCap
          /\ v = disk[buf[h].file][buf[h].slot][buf[h].pos + 1]
          /\ applied' = Append(applied, v)
          /\ UNCHANGED <<disk, netOp, issued>>
    BY <1>0, <1>4, ApplyFacts
  <2>2. buf[h].file \in File /\ buf[h].slot \in Slots
    BY <1>0, FileFacts DEF BufferRec
  <2>3. /\ v # None => v.n <= issued
        /\ netOp # None => v # netOp
    BY <1>0, <2>1, <2>2 DEF Numbered
  <2>4. \A i \in 1..Len(applied') :
          applied'[i] = v \/ (i \in 1..Len(applied) /\ applied'[i] = applied[i])
    BY <1>t, <2>1
  <2>5. QED BY <1>0, <2>1, <2>3, <2>4 DEF Numbered
<1>5. CASE netOp' = None /\ UNCHANGED <<disk, applied, issued>>
  BY <1>0, <1>5 DEF Numbered
<1>6. QED
  BY <1>1, <1>2, <1>3, <1>4, <1>5 DEF Next, Request, NetStep, MonStep, vars, objVars,
     netVars, histVars, GetBufferTail, GetBufferReuse, GetBufferCreate, AddBuffer,
     AddBufferNotify, Register, AddBuffersLock, AddBuffersNext, AddBuffersUnlock,
     FinishCommit, Rollback, Commit, FlushWake, FlushPop, FlushRecycle, FlushRegister,
     FlushDrop

(* Every action keeps each operation in one place of the log files.        *)
LEMMA OnePlaceStep == RunInv /\ [Next]_vars => OnePlace'
<1> SUFFICES ASSUME RunInv, [Next]_vars PROVE OnePlace' OBVIOUS
<1>0. BaseInv /\ Numbered /\ OnePlace /\ ObjType
  BY DEF RunInv, RecoveryInv, IsolationInv, BaseInv, TypeOK
<1>1. CASE UNCHANGED disk
  BY <1>0, <1>1 DEF OnePlace
<1>2. CASE WriteOperation \/ \E t \in Tx : TxWrite(t) \/ TxWriteNewBuffer(t)
  <2>1. PICK h, r, op : Writes(h, r, op)
    BY <1>0, <1>2, WritesStep
  <2>2. op # None =>
          \A f \in File, s \in Slots, i \in 1..BufCap : disk[f][s][i] # op
    BY <2>1 DEF Writes
  <2>3. \A f \in File, s \in Slots, i \in 1..BufCap :
          IF f = r.file /\ s = r.slot /\ i = r.pos + 1
          THEN disk'[f][s][i] = op ELSE disk'[f][s][i] = disk[f][s][i]
    BY <1>0, <2>1, WrittenPlaces
  <2> SUFFICES ASSUME NEW f \in File, NEW g \in File, NEW s \in Slots, NEW t \in Slots,
                      NEW i \in 1..BufCap, NEW j \in 1..BufCap,
                      disk'[f][s][i] # None, disk'[f][s][i] = disk'[g][t][j]
               PROVE  f = g /\ s = t /\ i = j
    BY DEF OnePlace
  <2>4. CASE disk'[f][s][i] = disk[f][s][i] /\ disk'[g][t][j] = disk[g][t][j]
    <3>1. disk[f][s][i] # None /\ disk[f][s][i] = disk[g][t][j]
      BY <2>4
    <3>2. QED BY <1>0, <3>1 DEF OnePlace
  <2>5. ASSUME NEW a \in File, NEW u \in Slots, NEW k \in 1..BufCap,
               disk'[a][u][k] = op, op # None
        PROVE  a = r.file /\ u = r.slot /\ k = r.pos + 1
    BY <2>2, <2>3, <2>5
  <2>6. CASE disk'[f][s][i] = op
    <3>1. op # None /\ disk'[g][t][j] = op
      BY <2>6
    <3>2. f = r.file /\ s = r.slot /\ i = r.pos + 1
      BY <2>5, <2>6, <3>1
    <3>3. g = r.file /\ t = r.slot /\ j = r.pos + 1
      BY <2>5, <3>1
    <3>4. QED BY <3>2, <3>3
  <2>7. CASE disk'[f][s][i] # op
    BY <2>3, <2>4, <2>7
  <2>8. QED BY <2>6, <2>7
<1>3. QED
  BY <1>1, <1>2 DEF Next, Request, NetStep, MonStep, vars, objVars, RequestWrite,
     GetBufferTail, GetBufferReuse, GetBufferCreate, AddBuffer, AddBufferNotify, Register,
     AddBuffersLock, AddBuffersNext, AddBuffersUnlock, FinishCommit, Rollback, Commit,
     FlushWake, FlushPop, FlushApply, FlushRecycle, FlushRegister, FlushDrop

\* The step brings no new buffer and nothing new to read of an old one.
Quiet(b) ==
  Live(b)' =>
    /\ Live(b) /\ buf'[b].file = buf[b].file /\ buf'[b].slot = buf[b].slot
    /\ \/ buf'[b].len = 0
       \/ /\ buf'[b].len = buf[b].len
          /\ owner[b] = "monitor" => owner'[b] = "monitor" /\ buf'[b].pos = buf[b].pos
QuietBuffers == \A b \in BufIds : Quiet(b)

(* What can be read of a quiet buffer could be read before.                *)
LEMMA QuietUnread ==
  ASSUME ObjType, ObjType', NEW b \in BufIds, Quiet(b), Live(b)'
  PROVE  Unread(b)' \subseteq Unread(b)
<1>1. /\ buf[b].len \in Nat /\ buf[b].pos \in Nat
      /\ buf'[b].len \in Nat /\ buf'[b].pos \in Nat
  BY BufCapAssumption DEF ObjType, BufferRec
<1>2. CASE buf'[b].len = 0
  BY <1>1, <1>2 DEF Unread
<1>3. CASE buf'[b].len # 0
  <2>1. buf'[b].len = buf[b].len
    BY <1>3 DEF Quiet
  <2>2. CASE owner[b] = "monitor"
    <3>1. owner'[b] = "monitor" /\ buf'[b].pos = buf[b].pos
      BY <1>3, <2>2 DEF Quiet
    <3>2. QED BY <2>1, <2>2, <3>1 DEF Unread
  <2>3. CASE owner[b] # "monitor"
    BY <1>1, <2>1, <2>3 DEF Unread
  <2>4. QED BY <2>2, <2>3
<1>4. QED BY <1>2, <1>3

(* A step that leaves the log files and the controller alone keeps what is *)
(* readable unapplied.                                                     *)
LEMMA QuietStep ==
  ASSUME OncePerRun, ObjType, ObjType', QuietBuffers, clash => clash',
         UNCHANGED <<disk, applied, appliedBefore>>
  PROVE  OncePerRun'
<1> SUFFICES ASSUME ~clash' PROVE OncePerRun'
  BY DEF OncePerRun
<1>1. /\ \A b, c \in BufIds :
           Live(b) /\ Live(c) /\ SameRegion(b, buf[c].file, buf[c].slot) => b = c
      /\ EachOnce
      /\ \A b \in BufIds : Live(b) => UnreadAt(b)
  BY DEF OncePerRun
<1>2. ASSUME NEW b \in BufIds, NEW c \in BufIds, Live(b)', Live(c)',
             SameRegion(b, buf[c].file, buf[c].slot)'
      PROVE  b = c
  BY <1>1, <1>2 DEF QuietBuffers, Quiet, SameRegion
<1>3. ASSUME NEW op PROVE NotYet(op)' <=> NotYet(op)
  BY DEF NotYet, ThisRun
<1>4. EachOnce'
  BY <1>1 DEF EachOnce, ThisRun
<1>5. ASSUME NEW b \in BufIds, Live(b)' PROVE UnreadAt(b)'
  <2>1. Live(b) /\ buf'[b].file = buf[b].file /\ buf'[b].slot = buf[b].slot /\ Quiet(b)
    BY <1>5 DEF QuietBuffers, Quiet
  <2>2. Unread(b)' \subseteq Unread(b)
    BY <1>5, <2>1, QuietUnread
  <2>3. UnreadAt(b)
    BY <1>1, <2>1
  <2>4. QED BY <1>3, <2>1, <2>2, <2>3 DEF UnreadAt
<1>6. QED BY <1>2, <1>4, <1>5 DEF OncePerRun

(* createNewBuffer maps an empty buffer, where no other is.                *)
LEMMA OnceCreated ==
  ASSUME OncePerRun, BaseInv, GetBufferCreate, UNCHANGED appliedBefore
  PROVE  OncePerRun'
<1> SUFFICES ASSUME ~clash' PROVE OncePerRun'
  BY DEF OncePerRun
<1>t. owner \in [BufIds -> Owners] /\ buf \in [BufIds -> BufferRec]
  BY FileFacts
<1>0. PICK h \in BufIds : h = created + 1
  BY WorkFacts DEF GetBufferCreate
<1>1. /\ ~clash /\ \A b \in BufIds : Live(b) => ~SameRegion(b, Main, NewSlot)
      /\ UNCHANGED <<disk, applied, appliedBefore>>
      /\ buf' = [buf EXCEPT ![h] = NewBuffer(Main, NewSlot)]
      /\ owner' = [owner EXCEPT ![h] = "writer"]
  BY <1>0 DEF GetBufferCreate
<1>2. /\ \A b, c \in BufIds :
           Live(b) /\ Live(c) /\ SameRegion(b, buf[c].file, buf[c].slot) => b = c
      /\ EachOnce
      /\ \A b \in BufIds : Live(b) => UnreadAt(b)
  BY <1>1 DEF OncePerRun
<1>3. /\ buf'[h].file = Main /\ buf'[h].slot = NewSlot /\ buf'[h].len = 0
      /\ owner'[h] = "writer"
      /\ \A b \in BufIds \ {h} : buf'[b] = buf[b] /\ owner'[b] = owner[b]
  BY <1>t, <1>1 DEF NewBuffer
<1>4. ASSUME NEW b \in BufIds, NEW c \in BufIds, Live(b)', Live(c)',
             SameRegion(b, buf[c].file, buf[c].slot)'
      PROVE  b = c
  <2>1. buf'[b].file = buf'[c].file /\ buf'[b].slot = buf'[c].slot
    BY <1>4 DEF SameRegion
  <2>2. CASE b # h /\ c # h
    BY <1>2, <1>3, <1>4, <2>1, <2>2 DEF Live, SameRegion
  <2>3. CASE b = h /\ c # h
    BY <1>1, <1>3, <1>4, <2>1, <2>3 DEF Live, SameRegion
  <2>4. CASE c = h /\ b # h
    BY <1>1, <1>3, <1>4, <2>1, <2>4 DEF Live, SameRegion
  <2>5. QED BY <2>2, <2>3, <2>4
<1>5. ASSUME NEW op PROVE NotYet(op)' <=> NotYet(op)
  BY <1>1 DEF NotYet, ThisRun
<1>6. EachOnce'
  BY <1>1, <1>2 DEF EachOnce, ThisRun
<1>7. ASSUME NEW b \in BufIds, Live(b)' PROVE UnreadAt(b)'
  <2>1. CASE b = h
    <3>1. Unread(b)' = {}
      BY <1>3, <2>1 DEF Unread
    <3>2. QED BY <3>1 DEF UnreadAt
  <2>2. CASE b # h
    <3>1. UnreadAt(b) /\ Unread(b)' = Unread(b)
      BY <1>2, <1>3, <1>7, <2>2 DEF Live, Unread
    <3>2. QED BY <1>1, <1>3, <1>5, <2>2, <3>1 DEF UnreadAt
  <2>3. QED BY <2>1, <2>2
<1>8. QED BY <1>4, <1>6, <1>7 DEF OncePerRun

(* What a write puts into the log was not applied, and it overwrites       *)
(* nothing another buffer can read.                                        *)
LEMMA OnceWritten ==
  ASSUME OncePerRun, BaseInv, appliedBefore \in Nat, UNCHANGED appliedBefore,
         NEW h, NEW r, NEW op, Writes(h, r, op)
  PROVE  OncePerRun'
<1> SUFFICES ASSUME ~clash' PROVE OncePerRun'
  BY DEF OncePerRun
<1>0. /\ h \in BufIds /\ r \in BufferRec /\ r.pos < BufCap /\ ~clash
      /\ buf'[h].file = r.file /\ buf'[h].slot = r.slot /\ buf'[h].len = r.pos + 1
      /\ \A b \in BufIds : b # h => buf'[b] = buf[b] /\ owner'[b] = owner[b]
      /\ op # None => \A i \in 1..Len(applied) : applied[i] # op
      /\ applied' = applied
  BY DEF Writes
<1>t. /\ ObjType /\ HistType /\ r.pos \in Nat
      /\ \A b \in BufIds : /\ buf[b].pos \in Nat /\ buf[b].len \in Nat
                           /\ buf[b].pos <= buf[b].len /\ buf[b].len <= BufCap
                           /\ buf[b].file \in File /\ buf[b].slot \in Slots
  BY <1>0, LogFacts, FileFacts, BufCapAssumption DEF BaseInv, TypeOK, BufferRec
<1>1. /\ \A b, c \in BufIds :
           Live(b) /\ Live(c) /\ SameRegion(b, buf[c].file, buf[c].slot) => b = c
      /\ EachOnce
      /\ \A b \in BufIds : Live(b) => UnreadAt(b)
  BY <1>0 DEF OncePerRun
<1>2. \A b \in BufIds : b # h /\ Live(b) => buf[b].file # r.file \/ buf[b].slot # r.slot
  <2>1. CASE r = buf[h] /\ Live(h)
    BY <1>0, <1>1, <2>1 DEF SameRegion
  <2>2. CASE \A b \in BufIds : Live(b) => ~SameRegion(b, r.file, r.slot)
    BY <2>2 DEF SameRegion
  <2>3. QED BY <2>1, <2>2 DEF Writes
<1>3. ASSUME NEW b \in BufIds, NEW c \in BufIds, Live(b)', Live(c)',
             SameRegion(b, buf[c].file, buf[c].slot)'
      PROVE  b = c
  <2>1. buf'[b].file = buf'[c].file /\ buf'[b].slot = buf'[c].slot
    BY <1>3 DEF SameRegion
  <2>2. CASE b # h /\ c # h
    BY <1>0, <1>1, <1>3, <2>1, <2>2 DEF Live, SameRegion
  <2>3. CASE b = h /\ c # h
    BY <1>0, <1>2, <1>3, <2>1, <2>3 DEF Live
  <2>4. CASE c = h /\ b # h
    BY <1>0, <1>2, <1>3, <2>1, <2>4 DEF Live
  <2>5. QED BY <2>2, <2>3, <2>4
<1>4. ASSUME NEW v PROVE NotYet(v)' <=> NotYet(v)
  BY <1>0 DEF NotYet, ThisRun
<1>5. EachOnce'
  BY <1>0, <1>1 DEF EachOnce, ThisRun
<1>6. op # None => NotYet(op)
  BY <1>0, NeverIsNotYet
<1>7. ASSUME NEW b \in BufIds, b # h, Live(b)', NEW j \in Unread(b)',
             NEW v \in Op \ {None}, disk'[buf'[b].file][buf'[b].slot][j] = v
      PROVE  NotYet(v)'
  <2>1. Live(b) /\ buf'[b] = buf[b] /\ j \in Unread(b)
    <3>1. buf'[b] = buf[b] /\ owner'[b] = owner[b]
      BY <1>0, <1>7
    <3>2. Live(b) /\ Unread(b)' = Unread(b)
      BY <1>7, <3>1 DEF Live, Unread
    <3>3. QED BY <1>7, <3>1, <3>2
  <2>2. j \in 1..BufCap
    <3>1. /\ buf[b].pos \in Nat /\ buf[b].len \in Nat /\ buf[b].len <= BufCap
          /\ BufCap \in Nat
      BY <1>t, BufCapAssumption
    <3>2. QED BY <2>1, <3>1 DEF Unread
  <2>3. buf[b].file # r.file \/ buf[b].slot # r.slot
    BY <1>2, <1>7, <2>1
  <2>4. buf[b].file \in File /\ buf[b].slot \in Slots
    BY <1>t
  <2>5. disk'[buf[b].file][buf[b].slot][j] = disk[buf[b].file][buf[b].slot][j]
    BY <1>t, <2>2, <2>3, <2>4, WrittenPlaces
  <2>6. UnreadAt(b) /\ disk[buf[b].file][buf[b].slot][j] = v
    BY <1>1, <1>7, <2>1, <2>5
  <2>7. NotYet(v)
    BY <2>1, <2>6 DEF UnreadAt
  <2>8. QED BY <1>4, <2>7
<1>8. ASSUME Live(h)', NEW j \in Unread(h)',
             NEW v \in Op \ {None}, disk'[buf'[h].file][buf'[h].slot][j] = v
      PROVE  NotYet(v)'
  <2>1. owner'[h] # "monitor"
    BY DEF Writes
  <2>2. j \in 1..r.pos + 1
    BY <1>0, <1>8, <2>1 DEF Unread
  <2>3. j \in 1..BufCap /\ r.file \in File /\ r.slot \in Slots
    BY <1>0, <1>t, <2>2, BufCapAssumption DEF BufferRec
  <2>4. disk'[r.file][r.slot][j] = v
    BY <1>0, <1>8
  <2>5. CASE j = r.pos + 1
    <3>1. v = op
      BY <1>t, <2>3, <2>4, <2>5, WrittenPlaces
    <3>2. QED BY <1>4, <1>6, <3>1
  <2>6. CASE j # r.pos + 1
    <3>1. disk'[r.file][r.slot][j] = disk[r.file][r.slot][j]
      BY <1>t, <2>3, <2>6, WrittenPlaces
    <3>2. r.pos # 0
      BY <1>t, <2>2, <2>6
    <3>3. r = buf[h] /\ Live(h) /\ owner[h] # "monitor"
      BY <3>2 DEF Writes
    <3>4. r.pos \in Nat /\ buf[h].len \in Nat /\ r.pos <= buf[h].len
      BY <1>0, <1>t, <3>3
    <3>5. j \in 1..buf[h].len
      BY <2>2, <2>6, <3>4
    <3>6. j \in Unread(h)
      BY <3>3, <3>5 DEF Unread
    <3>7. UnreadAt(h)
      BY <1>0, <1>1, <3>3
    <3>8. NotYet(v)
      BY <2>4, <3>1, <3>3, <3>6, <3>7 DEF UnreadAt
    <3>9. QED BY <1>4, <3>8
  <2>7. QED BY <2>5, <2>6
<1>9. ASSUME NEW b \in BufIds, Live(b)' PROVE UnreadAt(b)'
  <2>1. CASE b = h
    BY <1>8, <1>9, <2>1 DEF UnreadAt
  <2>2. CASE b # h
    BY <1>7, <1>9, <2>2 DEF UnreadAt
  <2>3. QED BY <2>1, <2>2
<1>10. QED BY <1>3, <1>5, <1>9 DEF OncePerRun

(* The monitor applies what it had not applied in this run, and cannot     *)
(* read it again.                                                          *)
LEMMA OnceApplied ==
  ASSUME OncePerRun, OnePlace, BaseInv, FlushApply,
         appliedBefore \in Nat, UNCHANGED appliedBefore
  PROVE  OncePerRun'
<1> SUFFICES ASSUME ~clash' PROVE OncePerRun'
  BY DEF OncePerRun
<1>0. PICK h \in BufIds, v \in Op \cup {None} :
        /\ owner[h] = "monitor" /\ buf[h].pos + 1 \in 1..BufCap
        /\ buf[h].pos + 1 <= buf[h].len
        /\ v = disk[buf[h].file][buf[h].slot][buf[h].pos + 1]
        /\ applied' = Append(applied, v)
        /\ buf' = [buf EXCEPT ![h].pos = buf[h].pos + 1]
        /\ UNCHANGED <<disk, owner, clash>>
  BY ApplyFacts
<1>t. /\ HistType /\ buf \in [BufIds -> BufferRec]
      /\ \A b \in BufIds : /\ buf[b].pos \in Nat /\ buf[b].len \in Nat
                           /\ buf[b].len <= BufCap
                           /\ buf[b].file \in File /\ buf[b].slot \in Slots
  BY LogFacts, FileFacts DEF BaseInv, TypeOK, BufferRec
<1>1. /\ \A b, c \in BufIds :
           Live(b) /\ Live(c) /\ SameRegion(b, buf[c].file, buf[c].slot) => b = c
      /\ EachOnce
      /\ \A b \in BufIds : Live(b) => UnreadAt(b)
  BY <1>0 DEF OncePerRun
<1>2. /\ buf'[h].pos = buf[h].pos + 1
      /\ \A b \in BufIds : /\ buf'[b].file = buf[b].file /\ buf'[b].slot = buf[b].slot
                           /\ buf'[b].len = buf[b].len /\ Live(b)' = Live(b)
                           /\ b # h => buf'[b] = buf[b]
  BY <1>0, <1>t DEF BufferRec, Live
<1>5. v # None => NotYet(v)
  <2>1. buf[h].pos + 1 \in Unread(h) /\ Live(h)
    BY <1>0, <1>t DEF Unread, Live
  <2>2. QED BY <1>0, <1>1, <2>1 DEF UnreadAt
<1>3. EachOnce /\ (v # None => NotYet(v)) => EachOnce'
  BY <1>0, <1>t, RunExtends
<1>4. \A op : NotYet(op) /\ op # v => NotYet(op)'
  BY <1>0, <1>t, RunExtends
<1>6. EachOnce'
  BY <1>1, <1>3, <1>5
<1>7. ASSUME NEW b \in BufIds, NEW c \in BufIds, Live(b)', Live(c)',
             SameRegion(b, buf[c].file, buf[c].slot)'
      PROVE  b = c
  BY <1>1, <1>2, <1>7 DEF SameRegion
<1>8. ASSUME NEW b \in BufIds, Live(b)', NEW j \in Unread(b)',
             NEW op \in Op \ {None}, disk'[buf'[b].file][buf'[b].slot][j] = op
      PROVE  NotYet(op)'
  <2>1. disk[buf[b].file][buf[b].slot][j] = op /\ Live(b)
    BY <1>0, <1>2, <1>8
  <2>2. j \in Unread(b) /\ (b = h => j # buf[h].pos + 1)
    <3>1. CASE b = h
      BY <1>0, <1>2, <1>t, <1>8, <3>1 DEF Unread
    <3>2. CASE b # h
      BY <1>0, <1>2, <1>8, <3>2 DEF Unread
    <3>3. QED BY <3>1, <3>2
  <2>3. NotYet(op)
    BY <1>1, <2>1, <2>2 DEF UnreadAt
  <2>4. op # v
    <3> SUFFICES ASSUME op = v PROVE FALSE
      OBVIOUS
    <3>1. j \in 1..BufCap /\ buf[h].pos + 1 \in 1..BufCap
      <4>1. /\ buf[b].pos \in Nat /\ buf[b].len \in Nat /\ buf[b].len <= BufCap
            /\ BufCap \in Nat
        BY <1>t, BufCapAssumption
      <4>2. j \in 1..BufCap
        BY <2>2, <4>1 DEF Unread
      <4>3. QED BY <1>0, <4>2
    <3>2. /\ buf[b].file \in File /\ buf[b].slot \in Slots
          /\ buf[h].file \in File /\ buf[h].slot \in Slots
      BY <1>t
    <3>3. /\ disk[buf[b].file][buf[b].slot][j] # None
          /\ disk[buf[b].file][buf[b].slot][j]
               = disk[buf[h].file][buf[h].slot][buf[h].pos + 1]
      BY <1>0, <2>1
    <3>4. buf[b].file = buf[h].file /\ buf[b].slot = buf[h].slot /\ j = buf[h].pos + 1
      <4>1. PICK f \in File, s \in Slots, g \in File, t \in Slots :
              /\ f = buf[b].file /\ s = buf[b].slot
              /\ g = buf[h].file /\ t = buf[h].slot
        BY <3>2
      <4>2. PICK i \in 1..BufCap, k \in 1..BufCap : i = j /\ k = buf[h].pos + 1
        BY <3>1
      <4>3. disk[f][s][i] # None /\ disk[g][t][k] = disk[f][s][i]
        BY <3>3, <4>1, <4>2
      <4>4. f = g /\ s = t /\ i = k
        BY <4>3 DEF OnePlace
      <4>5. QED BY <4>1, <4>2, <4>4
    <3>5. Live(h)
      BY <1>0 DEF Live
    <3>6. b = h
      BY <1>1, <2>1, <3>4, <3>5 DEF SameRegion
    <3>7. QED BY <2>2, <3>4, <3>6
  <2>5. QED BY <1>4, <2>3, <2>4
<1>9. ASSUME NEW b \in BufIds, Live(b)' PROVE UnreadAt(b)'
  BY <1>8, <1>9 DEF UnreadAt
<1>10. QED BY <1>6, <1>7, <1>9 DEF OncePerRun

(* The actions that neither write to a log file nor apply an operation nor *)
(* make a buffer are quiet.                                                *)
LEMMA QuietActions ==
  ASSUME BaseInv, [Next]_vars, UNCHANGED disk, UNCHANGED applied, ~GetBufferCreate,
         ~WriteOperation, \A t \in Tx : ~TxWrite(t) /\ ~TxWriteNewBuffer(t)
  PROVE  QuietBuffers /\ (clash => clash')
<1>t. owner \in [BufIds -> Owners] /\ buf \in [BufIds -> BufferRec]
  BY FileFacts
<1>1. CASE UNCHANGED <<buf, owner, clash>>
  BY <1>1 DEF QuietBuffers, Quiet, Live
<1>2. ASSUME NEW h \in BufIds, Live(h), NEW o, UNCHANGED clash,
             buf' = [buf EXCEPT ![h] = Reset(buf[h])],
             owner' = owner \/ owner' = [owner EXCEPT ![h] = o]
      PROVE  QuietBuffers /\ (clash => clash')
  <2>1. /\ buf'[h].file = buf[h].file /\ buf'[h].slot = buf[h].slot /\ buf'[h].len = 0
        /\ \A b \in BufIds : b # h => buf'[b] = buf[b] /\ owner'[b] = owner[b]
    BY <1>t, <1>2 DEF Reset, BufferRec
  <2>2. Quiet(h)
    BY <1>2, <2>1 DEF Quiet
  <2>3. ASSUME NEW b \in BufIds, b # h PROVE Quiet(b)
    BY <2>1, <2>3 DEF Quiet, Live
  <2>4. QED BY <1>2, <2>2, <2>3 DEF QuietBuffers
<1>3. CASE GetBufferReuse
  <2>1. PICK h \in BufIds : h = Head(reusableBuffers) /\ owner[h] = "reusable"
    BY <1>3, FileFacts DEF GetBufferReuse, ToSet
  <2>2. /\ buf' = [buf EXCEPT ![h] = Reset(buf[h])] /\ UNCHANGED clash
        /\ owner' = [owner EXCEPT ![h] = "writer"]
    BY <1>3, <2>1 DEF GetBufferReuse
  <2>3. Live(h)
    BY <2>1 DEF Live
  <2>4. QED BY <1>2, <2>2, <2>3
<1>4. CASE Register
  <2>1. PICK h \in BufIds : h = netBuf /\ owner[h] = "active"
    BY <1>4, WorkFacts DEF Register
  <2>2. Live(h) /\ UNCHANGED <<owner, clash>>
    BY <1>4, <2>1 DEF Live, Register, histVars
  <2>3. CASE netNew
    <3>1. buf' = [buf EXCEPT ![h].ctl = Len(control.recs) + 1]
      BY <1>4, <2>1, <2>3 DEF Register
    <3>2. \A b \in BufIds : /\ buf'[b].file = buf[b].file /\ buf'[b].slot = buf[b].slot
                            /\ buf'[b].len = buf[b].len /\ buf'[b].pos = buf[b].pos
      BY <1>t, <3>1 DEF BufferRec
    <3>3. QED BY <2>2, <3>2 DEF QuietBuffers, Quiet, Live
  <2>4. CASE ~netNew
    <3>1. buf' = [buf EXCEPT ![h] = Reset(buf[h])]
      BY <1>4, <2>1, <2>4 DEF Register
    <3>2. QED BY <1>2, <2>2, <3>1
  <2>5. QED BY <2>3, <2>4
<1>5. CASE AddBuffer
  <2>1. owner' = [owner EXCEPT ![netBuf] = "active"] /\ UNCHANGED <<buf, clash>>
    BY <1>5 DEF AddBuffer, objVars
  <2>2. PICK h \in BufIds : h = netBuf /\ owner[h] = "writer"
    BY <1>5, WorkFacts DEF AddBuffer
  <2>3. QED BY <1>t, <2>1, <2>2 DEF QuietBuffers, Quiet, Live
<1>6. CASE AddBuffersNext
  <2>1. PICK h \in BufIds : h = Head(netAdd) /\ owner[h] = "writer"
    BY <1>6, FileFacts DEF AddBuffersNext, ToSet
  <2>2. /\ buf' = [buf EXCEPT ![h].ctl = Len(control.recs) + 1] /\ UNCHANGED clash
        /\ owner' = [owner EXCEPT ![h] = "active"]
    BY <1>6, <2>1 DEF AddBuffersNext
  <2>3. \A b \in BufIds : /\ buf'[b].file = buf[b].file /\ buf'[b].slot = buf[b].slot
                          /\ buf'[b].len = buf[b].len /\ buf'[b].pos = buf[b].pos
    BY <1>t, <2>2 DEF BufferRec
  <2>4. QED BY <1>t, <2>1, <2>2, <2>3 DEF QuietBuffers, Quiet, Live
<1>7. ASSUME NEW t \in Tx, Rollback(t) \/ Commit(t)
      PROVE  QuietBuffers /\ (clash => clash')
  <2>1. \A b \in ToSet(txBuffers[t]) : owner[b] = "tx"
    BY FileFacts
  <2>2. /\ UNCHANGED <<buf, clash>>
        /\ \A b \in BufIds : \/ owner'[b] = owner[b]
                             \/ /\ b \in ToSet(txBuffers[t])
                                /\ owner'[b] \in {"deleted", "writer"}
    BY <1>7 DEF Rollback, Commit, objVars
  <2>3. QED BY <2>1, <2>2 DEF QuietBuffers, Quiet, Live
<1>8. CASE FlushPop
  <2>1. PICK h \in BufIds : h = Head(activeBuffers) /\ owner[h] = "active"
    BY <1>8, WorkFacts, FileFacts DEF FlushPop, ToSet
  <2>2. /\ buf' = [buf EXCEPT ![h].pos = 0] /\ UNCHANGED clash
        /\ owner' = [owner EXCEPT ![h] = "monitor"]
    BY <1>8, <2>1 DEF FlushPop
  <2>3. /\ \A b \in BufIds : /\ buf'[b].file = buf[b].file /\ buf'[b].slot = buf[b].slot
                             /\ buf'[b].len = buf[b].len
        /\ \A b \in BufIds : b # h => buf'[b] = buf[b] /\ owner'[b] = owner[b]
    BY <1>t, <2>2 DEF BufferRec
  <2>4. QED BY <2>1, <2>2, <2>3 DEF QuietBuffers, Quiet, Live
<1>9. CASE FlushRecycle
  <2>1. PICK h \in BufIds : h = monBuf /\ owner[h] = "monitor"
    BY <1>9, WorkFacts DEF FlushRecycle
  <2>2. /\ buf' = [buf EXCEPT ![h] = Reset(buf[h])] /\ UNCHANGED clash
        /\ owner' = [owner EXCEPT ![h] = "reusable"]
    BY <1>9, <2>1 DEF FlushRecycle
  <2>3. Live(h)
    BY <2>1 DEF Live
  <2>4. QED BY <1>2, <2>2, <2>3
<1>10. CASE FlushRegister
  <2>1. PICK h \in BufIds : h = monBuf
    BY <1>10, WorkFacts DEF FlushRegister
  <2>2. owner[h] \in {"reusable", "writer", "active"}
    BY <1>10, <2>1, WorkFacts DEF FlushRegister, BaseInv, Control
  <2>3. buf' = [buf EXCEPT ![h] = Reset(buf[h])] /\ UNCHANGED <<owner, clash>>
    BY <1>10, <2>1 DEF FlushRegister, histVars
  <2>4. Live(h)
    BY <2>2 DEF Live
  <2>5. QED BY <1>2, <2>3, <2>4
<1>11. CASE FlushDrop
  <2>1. owner' = [owner EXCEPT ![monBuf] = "deleted"] /\ UNCHANGED <<buf, clash>>
    BY <1>11 DEF FlushDrop
  <2>2. QED BY <1>t, <2>1 DEF QuietBuffers, Quiet, Live
<1>12. CASE FlushApply
  <2>1. PICK v \in Op \cup {None} : applied' = Append(applied, v)
    BY <1>12, ApplyFacts
  <2>2. applied \in Seq(Op \cup {None})
    BY DEF BaseInv, TypeOK, HistType
  <2>3. Len(applied') = Len(applied) + 1 /\ Len(applied) \in Nat
    BY <2>1, <2>2
  <2>4. QED BY <2>3
<1>13. QED
  BY <1>1, <1>3, <1>4, <1>5, <1>6, <1>7, <1>8, <1>9, <1>10, <1>11, <1>12
     DEF Next, Request, NetStep, MonStep, vars, objVars, histVars, RequestWrite,
     GetBufferTail, AddBufferNotify, AddBuffersLock, AddBuffersUnlock, FinishCommit,
     FlushWake

(* Every action keeps what can still be read unapplied.                    *)
LEMMA OncePerRunStep ==
  ASSUME RunInv, [Next]_vars, UNCHANGED appliedBefore PROVE OncePerRun'
<1>0. /\ RecoveryInv /\ BaseInv /\ appliedBefore \in Nat /\ Numbered /\ OnePlace /\ OncePerRun
      /\ TypeOK /\ ObjType
  BY DEF RunInv, RecoveryInv, IsolationInv, BaseInv, TypeOK
<1>1. ObjType'
  BY <1>0, TypeStep DEF TypeOK
<1>2. CASE WriteOperation \/ \E t \in Tx : TxWrite(t) \/ TxWriteNewBuffer(t)
  <2>1. PICK h, r, op : Writes(h, r, op)
    BY <1>0, <1>2, WritesStep
  <2>2. QED BY <1>0, <2>1, OnceWritten
<1>3. CASE GetBufferCreate
  BY <1>0, <1>3, OnceCreated
<1>4. CASE FlushApply
  BY <1>0, <1>4, OnceApplied
<1>5. CASE /\ ~WriteOperation /\ \A t \in Tx : ~TxWrite(t) /\ ~TxWriteNewBuffer(t)
           /\ ~GetBufferCreate /\ ~FlushApply
  <2>1. UNCHANGED <<disk, applied>>
    BY <1>5 DEF Next, Request, NetStep, MonStep, vars, objVars, histVars, RequestWrite,
       GetBufferTail, GetBufferReuse, AddBuffer, AddBufferNotify, Register,
       AddBuffersLock, AddBuffersNext, AddBuffersUnlock, FinishCommit, Rollback, Commit,
       FlushWake, FlushPop, FlushRecycle, FlushRegister, FlushDrop
  <2>2. QuietBuffers /\ (clash => clash')
    BY <1>0, <1>5, <2>1, QuietActions
  <2>3. QED BY <1>0, <1>1, <2>1, <2>2, QuietStep
<1>6. QED BY <1>2, <1>3, <1>4, <1>5

(* A restart takes nothing into the log files that was not there.          *)
LEMMA RestartDisk ==
  ASSUME BaseInv, Restart, NEW f \in File, NEW s \in Slots, NEW i \in 1..BufCap
  PROVE  disk'[f][s][i] = disk[f][s][i] \/ disk'[f][s][i] = None
<1>1. disk'[f] = disk[f] \/ disk'[f] = Blank
  BY RestartPlain
<1>2. Blank[s][i] = None
  BY BlankFile
<1>3. QED BY <1>1, <1>2

(* loadBuffers starts a new run: the buffers it makes map different places *)
(* unless the records clash, and nothing in them was applied by this run.  *)
LEMMA RestartRun ==
  ASSUME RunInv, Restart
  PROVE  appliedBefore' \in Nat /\ Numbered' /\ OnePlace' /\ OncePerRun'
<1>0. /\ RecoveryInv /\ BaseInv /\ OnRecord /\ HandedRecords /\ appliedBefore \in Nat
      /\ Numbered /\ OnePlace /\ OncePerRun /\ HistType /\ ObjType
  BY DEF RunInv, RecoveryInv, IsolationInv, BaseInv, TypeOK
<1>1. netOp' = None /\ UNCHANGED <<issued, applied>> /\ appliedBefore' = Len(applied)
  BY <1>0, RestartPlain
<1>a. appliedBefore' \in Nat
  <2>1. applied \in Seq(Op \cup {None})
    BY <1>0 DEF HistType
  <2>2. QED BY <1>1, <2>1
<1>2. \A f \in File, s \in Slots, i \in 1..BufCap :
        disk'[f][s][i] = disk[f][s][i] \/ disk'[f][s][i] = None
  BY <1>0, RestartDisk
<1>3. Numbered'
  BY <1>0, <1>1, <1>2 DEF Numbered
<1>4. OnePlace'
  <2> SUFFICES ASSUME NEW f \in File, NEW s \in Slots, NEW i \in 1..BufCap,
                      NEW g \in File, NEW t \in Slots, NEW j \in 1..BufCap,
                      disk'[f][s][i] # None, disk'[g][t][j] = disk'[f][s][i]
               PROVE  f = g /\ s = t /\ i = j
    BY DEF OnePlace
  <2>1. disk[f][s][i] # None /\ disk[g][t][j] = disk[f][s][i]
    BY <1>2
  <2>2. QED BY <1>0, <2>1 DEF OnePlace
<1>5. OncePerRun'
  <2> SUFFICES ASSUME ~clash' PROVE OncePerRun'
    BY DEF OncePerRun
  <2>1. /\ ~clash
        /\ \A i, j \in 1..Loaded :
             /\ control.recs[i].file = control.recs[j].file
             /\ control.recs[i].slot = control.recs[j].slot
             => i = j
    BY DEF Restart
  <2>2. ThisRun' = {}
    BY <1>1, <1>a DEF ThisRun
  <2>3. EachOnce' /\ \A op : NotYet(op)'
    BY <2>2 DEF EachOnce, NotYet
  <2>4. ASSUME NEW b \in BufIds, NEW c \in BufIds, Live(b)', Live(c)',
               SameRegion(b, buf[c].file, buf[c].slot)'
        PROVE  b = c
    <3>0. buf'[b].file = buf'[c].file /\ buf'[b].slot = buf'[c].slot
      BY <2>4 DEF SameRegion
    <3>1. CASE IsLoaded(b) /\ IsLoaded(c)
      <4>1. PICK i \in 1..Loaded : i = b - created /\ b = created + i /\ buf'[b] = LoadedBuffer(i)
        BY <1>0, <3>1, RestartFacts
      <4>2. PICK j \in 1..Loaded : j = c - created /\ c = created + j /\ buf'[c] = LoadedBuffer(j)
        BY <1>0, <3>1, RestartFacts
      <4>3. /\ LoadedBuffer(i).file = control.recs[i].file
            /\ LoadedBuffer(i).slot = control.recs[i].slot
            /\ LoadedBuffer(j).file = control.recs[j].file
            /\ LoadedBuffer(j).slot = control.recs[j].slot
        BY DEF LoadedBuffer
      <4>4. i = j
        BY <2>1, <3>0, <4>1, <4>2, <4>3
      <4>5. QED BY <4>1, <4>2, <4>4
    <3>2. CASE ~IsLoaded(b) /\ ~IsLoaded(c)
      <4>1. /\ Live(b) /\ buf'[b].file = buf[b].file /\ buf'[b].slot = buf[b].slot
            /\ Live(c) /\ buf'[c].file = buf[c].file /\ buf'[c].slot = buf[c].slot
        BY <1>0, <2>4, <3>2, RestartFacts DEF Live
      <4>2. SameRegion(b, buf[c].file, buf[c].slot)
        BY <3>0, <4>1 DEF SameRegion
      <4>3. QED BY <1>0, <2>1, <4>1, <4>2 DEF OncePerRun
    <3>3. ASSUME NEW x \in BufIds, NEW y \in BufIds, Live(y)', IsLoaded(x), ~IsLoaded(y)
          PROVE  buf'[x].file # buf'[y].file
      <4>1. PICK i \in 1..Len(control.recs) :
              buf'[x] = LoadedBuffer(i) /\ control.recs[i] \in ControlRec
        BY <1>0, <3>3, RestartFacts
      <4>2. buf'[x].file = Main \/ Handed(buf'[x].file)
        BY <1>0, <4>1 DEF LoadedBuffer, HandedRecords
      <4>3. owner[y] = "tx" /\ buf'[y].file = buf[y].file
        BY <1>0, <3>3, RestartFacts DEF Live
      <4>4. buf[y].file \in Tx /\ Unfinished(buf[y].file)
        BY <1>0, <4>3 DEF RecoveryInv, IsolationInv, Placed, PlacedAt, HandedOver, HandedAt
      <4>5. QED BY <4>2, <4>3, <4>4, TxAssumption DEF Handed, Unfinished
    <3>4. QED BY <2>4, <3>0, <3>1, <3>2, <3>3
  <2>5. ASSUME NEW b \in BufIds PROVE UnreadAt(b)'
    BY <2>3 DEF UnreadAt
  <2>6. QED BY <2>3, <2>4, <2>5 DEF OncePerRun
<1>6. QED BY <1>a, <1>3, <1>4, <1>5

(* Before the first request nothing was written or applied.                *)
LEMMA InitRun == RInit => RunInv
<1> SUFFICES ASSUME RInit PROVE RunInv OBVIOUS
<1>1. RecoveryInv
  BY InitRecovery
<1>2. /\ appliedBefore = 0 /\ applied = <<>> /\ netOp = None /\ Len(applied) = 0
      /\ owner = [b \in BufIds |-> "free"]
      /\ disk = [f \in File |-> [s \in Slots |-> [i \in 1..BufCap |-> None]]]
  BY DEF RInit, Init
<1>3. Numbered /\ OnePlace
  BY <1>2 DEF Numbered, OnePlace
<1>4. OncePerRun
  <2>1. \A b \in BufIds : ~Live(b)
    BY <1>2 DEF Live
  <2>2. EachOnce
    BY <1>2 DEF EachOnce, ThisRun
  <2>3. QED BY <2>1, <2>2 DEF OncePerRun
<1>5. QED BY <1>1, <1>2, <1>3, <1>4 DEF RunInv

(* RunInv holds in every state of every run, however often the server is   *)
(* killed and started again.                                               *)
THEOREM RunInvariance == RSpec => []RunInv
<1>1. RunInv /\ [RNext]_recVars => RunInv'
  <2> SUFFICES ASSUME RunInv, [RNext]_recVars PROVE RunInv' OBVIOUS
  <2>0. RecoveryInv /\ appliedBefore \in Nat
    BY DEF RunInv
  <2>1. CASE Restart
    <3>1. RecoveryInv'
      BY <2>0, <2>1, RestartStep
    <3>2. appliedBefore' \in Nat /\ Numbered' /\ OnePlace' /\ OncePerRun'
      BY <2>1, RestartRun
    <3>3. QED BY <3>1, <3>2 DEF RunInv
  <2>2. CASE [Next]_vars /\ UNCHANGED appliedBefore
    <3>1. RecoveryInv'
      BY <2>0, <2>2, RecoveryStep
    <3>2. Numbered' /\ OnePlace'
      BY <2>2, NumberedStep, OnePlaceStep
    <3>3. OncePerRun'
      BY <2>2, OncePerRunStep
    <3>4. QED BY <2>0, <2>2, <3>1, <3>2, <3>3 DEF RunInv
  <2>3. QED BY <2>1, <2>2 DEF RNext, RStep, recVars
<1>2. QED BY <1>1, InitRun, PTL DEF RSpec

(* No run of the server applies an operation twice, as long as no buffer   *)
(* was mapped over another: among what was applied since the last start    *)
(* every operation stands once.                                            *)
THEOREM AppliedOnce == RSpec => []AppliedOncePerRun
<1>1. RunInv => AppliedOncePerRun
  BY DEF RunInv, OncePerRun, AppliedOncePerRun
<1>2. QED BY <1>1, RunInvariance, PTL

=============================================================================
