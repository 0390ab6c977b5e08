----------------------------- MODULE TxRecovery -----------------------------
(***************************************************************************)
(* The server process is killed at any point and started again: what the   *)
(* constructor of TxBufferManager (initialize and loadBuffers) rebuilds    *)
(* from the control file main.trc and the mapped log files.                *)
(*                                                                         *)
(* Writes to the control file are unbuffered and the log files are mapped, *)
(* so both survive the process; so does what the controller has applied.   *)
(* A transaction that is named again after the start finds its own control *)
(* file and log as it left them.                                           *)
(***************************************************************************)
EXTENDS TxBufferManagerInv

CONSTANT MaxCrashes   \* bound: times the process is killed

VARIABLES
  crashes,        \* how many times the process was killed
  appliedBefore   \* history: how many operations the runs before this applied

recVars == <<vars, crashes, appliedBefore>>

RInit == Init /\ crashes = 0 /\ appliedBefore = 0
RStep == Next /\ UNCHANGED <<crashes, appliedBefore>>

\* Mutant: the last record is not read
LoadedShort == IF control.count = 0 THEN 0 ELSE control.count - 1

\* loadBuffers reads as many records as the header says, from the first one
\* on.  The flag of every record is 0x01, so every record becomes an active
\* buffer, in the order of the file.
Loaded == control.count
LoadedBuffer(i) ==
  [file |-> control.recs[i].file, slot |-> control.recs[i].slot,
   pos  |-> 0, len |-> control.recs[i].len, ctl |-> i]

\* A log file that is gone is created empty when a buffer maps it.
Blank == [s \in Slots |-> [i \in 1..BufCap |-> None]]

\* getTransaction makes a manager for a transaction it does not know, which
\* reads the transaction's own control file: the same buffers with the same
\* lengths, their cursors at the beginning.  Only requests of the transaction
\* touch its files, so it is the same whether they are read at the start or
\* when the transaction is named again, if ever.
TakenUp(b) == owner[b] = "tx"

Restart ==
  /\ crashes < MaxCrashes
  /\ created + Loaded <= MaxBuffers
  /\ crashes' = crashes + 1
  /\ appliedBefore' = Len(applied)
  /\ activeBuffers' = [i \in 1..Loaded |-> created + i]
  /\ buffersCount' = Loaded
  /\ reusableBuffers' = <<>>
  /\ buffersByLog' = [t \in Tx |-> 0]
  /\ created' = created + Loaded
  /\ buf' = [b \in BufIds |->
               IF b \in created + 1..created + Loaded
               THEN LoadedBuffer(b - created)
               ELSE IF TakenUp(b) THEN [buf[b] EXCEPT !.pos = 0] ELSE buf[b]]
  /\ owner' = [b \in BufIds |->
                 IF b \in created + 1..created + Loaded THEN "active"
                 ELSE IF owner[b] = "free" \/ TakenUp(b) THEN owner[b]
                 ELSE "deleted"]
  /\ start' = [b \in BufIds |-> 0]
  /\ clash' = (clash \/ \E i, j \in 1..Loaded :
                 /\ i # j
                 /\ control.recs[i].file = control.recs[j].file
                 /\ control.recs[i].slot = control.recs[j].slot)
  /\ disk' = [f \in File |->
                IF f = Main \/ f \in logFiles THEN disk[f] ELSE Blank]
  /\ logFiles' = logFiles \cup
                 ({control.recs[i].file : i \in 1..Loaded} \ {Main})
  /\ lockActiveBuffers' = None /\ lockWait' = None
  /\ netPc' = "idle" /\ netBuf' = 0 /\ netNew' = FALSE
  /\ netOp' = None /\ netTx' = None /\ netAdd' = <<>>
  /\ monPc' = "wait" /\ monBuf' = 0
  /\ UNCHANGED <<control, txVars, issued, acked, applied>>

RNext == RStep \/ Restart

RSpec == RInit /\ [][RNext]_recVars

----------------------------------------------------------------------------
(* Every operation that was accepted and not applied is in the queue or    *)
(* with the monitor.                                                       *)
Queued == UNION {ToSet(Contents(b)) : b \in
                   {c \in BufIds : owner[c] \in {"active", "monitor"}}}
PendingKept == ToSet(acked) \ ToSet(applied) \subseteq Queued

(* Action property: a restart loses no accepted operation when the control *)
(* file has a record for every queued buffer and no others, and no         *)
(* transaction's buffer is among them; at whatever point of a write or of  *)
(* a flush the process was killed.                                         *)
RestartKeepsPending ==
  [][/\ crashes' # crashes
     /\ ~clash /\ PendingKept
     /\ control.count = Len(control.recs)
     /\ \A i \in 1..Len(control.recs) : control.recs[i].file = Main
     => PendingKept']_recVars

\* What this run of the server has given to the controller
ThisRun == (appliedBefore + 1)..Len(applied)
EachOnce ==
  \A i, j \in ThisRun : applied[i] = applied[j] /\ applied[i] # None => i = j
NotYet(op) == \A i \in ThisRun : applied[i] # op

(* No run of the server applies an operation twice: only a restart in the  *)
(* middle of a flush applies again what the run before it had applied.     *)
(* None is what the log file of a transaction has where it was deleted and *)
(* made again under a record that is left of it.                           *)
AppliedOncePerRun == ~clash => EachOnce

(* The operations of a transaction whose commit was answered are applied   *)
(* or still in the queue.  The code does not keep this: the control file   *)
(* says 0 for the length of every committed buffer.                        *)
CommittedKept ==
  ~clash => \A i \in DOMAIN acked :
    acked[i].tx # Main /\ txState[acked[i].tx] = "committed"
      => acked[i] \in ToSet(applied) \cup Queued

----------------------------------------------------------------------------
(* The inductive invariant behind these properties: besides IsolationInv,  *)
(* what the control file knows, and where an operation can be.             *)

\* The buffer has no record yet: a transaction's, one on its way from a
\* transaction into the queue, or a new one until the end of getBuffer.
Unregistered(b) ==
  \/ owner[b] = "tx"
  \/ owner[b] = "writer" /\ netPc \in {"addBuffers", "addBuffersLoop"}
  \/ netNew /\ b = netBuf /\ netPc \in {"addBuffer", "addBufferNotify", "register"}

\* The record of a buffer names its place, and has at least its length.
RecordOf(b) ==
  LET r == buf[b]
  IN  IF Unregistered(b) THEN r.ctl = 0
      ELSE /\ r.ctl \in 1..Len(control.recs)
           /\ control.recs[r.ctl].file = r.file /\ control.recs[r.ctl].slot = r.slot
           /\ r.file = Main => r.len <= control.recs[r.ctl].len

\* Every registered buffer has a record of its own, and the header never
\* promises more records than there are.
OnRecord ==
  /\ control.count <= Len(control.recs)
  /\ \A b \in BufIds : Live(b) => RecordOf(b)
  /\ \A b, c \in BufIds :
       Live(b) /\ Live(c) /\ buf[b].ctl = buf[c].ctl /\ buf[b].ctl # 0 => b = c
  /\ monPc = "register" => buf[monBuf].ctl # 0

\* Only buffers handed over have a record.
HandedRecords ==
  \A i \in 1..Len(control.recs) :
    control.recs[i].file = Main \/ Handed(control.recs[i].file)

RecoveryInv == IsolationInv /\ OnRecord /\ HandedRecords

\* Operations are numbered in the order of their requests; the one the
\* network thread is about to write was neither written nor applied.
Numbered ==
  /\ \A i \in 1..Len(applied) : applied[i] # None => applied[i].n <= issued
  /\ \A f \in File, s \in Slots, i \in 1..BufCap :
       disk[f][s][i] # None => disk[f][s][i].n <= issued
  /\ netOp # None =>
       /\ netOp.n <= issued
       /\ \A i \in 1..Len(applied) : applied[i] # netOp
       /\ \A f \in File, s \in Slots, i \in 1..BufCap : disk[f][s][i] # netOp

\* No operation is in two places of the log files.
OnePlace ==
  \A f \in File, s \in Slots, i \in 1..BufCap : disk[f][s][i] # None =>
    \A g \in File, t \in Slots, j \in 1..BufCap :
      disk[g][t][j] = disk[f][s][i] => f = g /\ s = t /\ i = j

\* What this run can still read of a buffer
Unread(b) ==
  (IF owner[b] = "monitor" THEN buf[b].pos + 1 ELSE 1)..buf[b].len

\* What can still be read was not applied by this run.
UnreadAt(b) ==
  \A j \in Unread(b), op \in Op \ {None} :
    disk[buf[b].file][buf[b].slot][j] = op => NotYet(op)

OncePerRun ==
  ~clash =>
    /\ \A b, c \in BufIds :
         Live(b) /\ Live(c) /\ SameRegion(b, buf[c].file, buf[c].slot) => b = c
    /\ EachOnce
    /\ \A b \in BufIds : Live(b) => UnreadAt(b)

(* Everything together is inductive.                                       *)
RunInv ==
  RecoveryInv /\ appliedBefore \in Nat /\ Numbered /\ OnePlace /\ OncePerRun

=============================================================================
