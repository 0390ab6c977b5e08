--------------------------- MODULE SessionProofs ---------------------------
(***************************************************************************)
(* Proofs about a session: requests and answers stay in step on every      *)
(* connection, a transaction has one user and one end, and a find answers  *)
(* what its client may expect.                                             *)
(***************************************************************************)
EXTENDS SessionInv, SequenceTheorems, FiniteSetTheorems, WellFoundedInduction, TLAPS

\* The wire of a connection gets one more request.
Sends(c, cmd) ==
    /\ wire' \in [Conn -> Seq(Command)]
    /\ \A d \in Conn \ {c} : wire'[d] = wire[d]
    /\ Len(wire'[c]) = Len(wire[c]) + 1
    /\ \A i \in 1..Len(wire[c]) : wire'[c][i] = wire[c][i]
    /\ wire'[c][Len(wire[c]) + 1] = cmd

\* The first request of a connection is taken off its wire.
Takes(c) ==
    /\ wire' \in [Conn -> Seq(Command)]
    /\ \A d \in Conn \ {c} : wire'[d] = wire[d]
    /\ wire[c] # <<>> /\ Len(wire'[c]) = Len(wire[c]) - 1
    /\ \A i \in 1..Len(wire'[c]) : wire'[c][i] = wire[c][i + 1]

\* What the execution of a request does to the logs.
OpOf(cmd) == IF cmd.type = "insert" THEN cmd.value ELSE Drop
ToBase(cmd) ==
    /\ cmd.type \in {"insert", "dropnamespace"} /\ cmd.tx = None
    /\ UNCHANGED <<logs, transactions>>
    /\ Len(base') = Len(base) + 1 /\ base'[Len(base) + 1] = OpOf(cmd)
    /\ \A i \in 1..Len(base) : base'[i] = base[i]
ToLog(cmd) ==
    /\ cmd.type \in {"insert", "dropnamespace"} /\ cmd.tx \in Tx
    /\ base' = base /\ transactions' = transactions \union {cmd.tx}
    /\ \A t \in Tx \ {cmd.tx} : logs'[t] = logs[t]
    /\ Len(logs'[cmd.tx]) = Len(logs[cmd.tx]) + 1
    /\ logs'[cmd.tx][Len(logs[cmd.tx]) + 1] = OpOf(cmd)
    /\ \A i \in 1..Len(logs[cmd.tx]) : logs'[cmd.tx][i] = logs[cmd.tx][i]
Looks(cmd) ==
    /\ cmd.type = "find" /\ UNCHANGED <<base, logs>>
    /\ transactions' = Transaction(cmd.tx)
Merges(cmd) ==
    /\ cmd.type = "commit" /\ cmd.tx \in Tx
    /\ transactions' = transactions \ {cmd.tx}
    /\ logs'[cmd.tx] = <<>> /\ \A t \in Tx \ {cmd.tx} : logs'[t] = logs[t]
    /\ Len(base') = Len(base) + Len(logs[cmd.tx])
    /\ \A i \in 1..Len(base) : base'[i] = base[i]
    /\ \A i \in 1..Len(logs[cmd.tx]) : base'[Len(base) + i] = logs[cmd.tx][i]
Forgets(cmd) ==
    /\ cmd.type = "rollback" /\ cmd.tx \in Tx
    /\ base' = base /\ transactions' = transactions \union {cmd.tx}
    /\ logs'[cmd.tx] = <<>> /\ \A t \in Tx \ {cmd.tx} : logs'[t] = logs[t]

\* A step that sends and executes nothing: at most a transaction is begun or
\* given up, an answer read, or the server ends.
Still ==
    /\ UNCHANGED <<wire, transactions, logs, base, requests, written, committed>>
    /\ \/ begun' = begun /\ \A c \in Conn : active'[c] \in {active[c], None}
       \/ \E c \in Conn : /\ begun' = begun + 1 /\ active'[c] = begun + 1
                          /\ \A d \in Conn \ {c} : active'[d] = active[d]
    /\ \A c \in Conn :
         \/ answers'[c] = <<>>
         \/ answers'[c] = answers[c] /\ waiting'[c] = waiting[c] /\ active'[c] = active[c]
    /\ \A c \in Conn : socket[c] = "closed" /\ procOf[c] \in gone =>
                         socket'[c] = "closed" /\ procOf'[c] \in gone'

\* A connection sends cmd.
Sending(c, cmd) ==
    /\ c \in Conn /\ cmd \in Command /\ WellFormed(cmd) /\ Sends(c, cmd)
    /\ cmd.tx = active[c] /\ (cmd.type = "insert" => cmd.value = requests + 1)
    /\ requests' = requests + 1 /\ requests' \in 1..MaxRequests
    /\ written' = IF cmd.type \in {"insert", "dropnamespace"}
                  THEN written \union {[n |-> requests + 1, op |-> cmd.type, conn |-> c, tx |-> active[c]]}
                  ELSE written
    /\ active'[c] = IF cmd.type \in {"commit", "rollback"} THEN None ELSE active[c]
    /\ committed' = IF cmd.type = "commit" THEN committed \union {active[c]} ELSE committed
    /\ \A d \in Conn \ {c} : active'[d] = active[d] /\ waiting'[d] = waiting[d]
    /\ answers[c] = <<>>
    /\ UNCHANGED <<procOf, socket, gone, answers, transactions, logs, base, up, begun>>

\* What FindConsistent says of one answer, element by element.
Visible(c) == {w \in written : w.tx \in committed \union {None, active[c]}}
Consistent(c, answer) ==
    /\ \A i \in 1..Len(answer) : \E w \in Visible(c) : w.n = answer[i]
    /\ (\A w \in Visible(c) : w.op # "dropnamespace") =>
         /\ \A w \in Visible(c) : w.op = "insert" /\ w.conn = c => In(w.n, answer)
         /\ \A t \in committed \ {active[c]} :
              \/ \A w \in written : w.op = "insert" /\ w.tx = t => ~In(w.n, answer)
              \/ \A w \in written : w.op = "insert" /\ w.tx = t => In(w.n, answer)
    /\ \A i, j \in 1..Len(answer) : \A v, w \in written :
         i < j /\ v.n = answer[i] /\ w.n = answer[j] /\ v.conn = w.conn /\ v.tx = w.tx => v.n < w.n

(* None is not a number, a transaction or an answer.                       *)
LEMMA NoneApart ==
    /\ MaxConn \in Nat /\ MaxAnswer \in Nat /\ MaxRequests \in Nat /\ MaxTx \in Nat
    /\ None \notin Nat /\ None # "array" /\ None # "int"
    /\ None \notin Conn /\ None \notin Tx
  BY SessionAssumption DEF Conn, Tx

(* A request on the wire is a command, and every field of it has its type. *)
LEMMA OnTheWire ==
    ASSUME Types, NEW c \in Conn
    PROVE  /\ wire[c] \in Seq(Command) /\ Len(wire[c]) \in Nat
           /\ wire[c] = <<>> <=> Len(wire[c]) = 0
           /\ \A i \in 1..Len(wire[c]) : wire[c][i] \in Command /\ WellFormed(wire[c][i])
<1>1. wire[c] \in Seq(Command)
  BY DEF Types
<1>2. QED BY <1>1, EmptySeq, LenProperties DEF Types

(* The fields of a command.                                                *)
LEMMA Fields ==
    ASSUME NEW cmd \in Command
    PROVE  /\ cmd.type \in Commands /\ cmd.tx \in Tx \union {None}
           /\ cmd.value \in 1..MaxRequests \union Tx \union {None}
  BY DEF Command

(* What a client sends is a well-formed command, and the last on its wire. *)
LEMMA Sent ==
    ASSUME Types, NEW c \in Conn, NEW type \in Commands, NEW value, SendCommand(c, type, value),
           \/ type = "insert" /\ value = requests + 1
           \/ type \in Asks /\ value = None
           \/ type \in {"commit", "rollback"} /\ value = active[c] /\ active[c] \in Tx
    PROVE  /\ Sends(c, WriteCommand(type, active[c], value))
           /\ WriteCommand(type, active[c], value) \in Command
           /\ WellFormed(WriteCommand(type, active[c], value))
           /\ requests' = requests + 1 /\ requests' \in 1..MaxRequests
           /\ \A d \in Conn : \A i \in 1..Len(wire'[d]) : WellFormed(wire'[d][i])
<1>c. PICK cmd : cmd = WriteCommand(type, active[c], value)
  OBVIOUS
<1>1. requests \in Nat /\ requests < MaxRequests /\ requests' = requests + 1 /\ MaxRequests \in Nat
  BY NoneApart DEF Types, SendCommand
<1>2. active[c] \in Tx \union {None}
  BY DEF Types, TypeOK
<1>3. cmd.type = type /\ cmd.tx = active[c] /\ cmd.value = value
      /\ cmd.fields = WrittenFields(type)
  BY <1>c DEF WriteCommand
<1>4. value \in 1..MaxRequests \union Tx \union {None}
  BY <1>1, <1>2
<1>5. cmd \in Command
  BY <1>c, <1>2, <1>4 DEF Command, WriteCommand
<1>6. WellFormed(cmd)
  BY <1>1, <1>3 DEF WellFormed, Asks
<1>7. wire[c] \in Seq(Command) /\ wire \in [Conn -> Seq(Command)]
  BY DEF Types
<1>8. PICK q : q = Append(wire[c], cmd)
  OBVIOUS
<1>9. /\ q \in Seq(Command) /\ Len(q) = Len(wire[c]) + 1 /\ q[Len(wire[c]) + 1] = cmd
      /\ \A i \in 1..Len(wire[c]) : q[i] = wire[c][i]
  BY <1>5, <1>7, <1>8, AppendProperties
<1>10. wire' = [wire EXCEPT ![c] = q]
  BY <1>c, <1>8 DEF SendCommand
<1>11. wire'[c] = q /\ wire' \in [Conn -> Seq(Command)] /\ \A d \in Conn \ {c} : wire'[d] = wire[d]
  BY <1>7, <1>9, <1>10
<1>12. Sends(c, cmd)
  BY <1>9, <1>11 DEF Sends
<1>13. \A d \in Conn : \A i \in 1..Len(wire'[d]) : WellFormed(wire'[d][i])
  <2> SUFFICES ASSUME NEW d \in Conn, NEW i \in 1..Len(wire'[d]) PROVE WellFormed(wire'[d][i])
    OBVIOUS
  <2>1. CASE d # c
    BY <2>1, <1>11, OnTheWire
  <2>2. CASE d = c /\ i = Len(wire[c]) + 1
    BY <2>2, <1>6, <1>9, <1>11
  <2>3. CASE d = c /\ i \in 1..Len(wire[c])
    BY <2>3, <1>9, <1>11, OnTheWire
  <2>4. Len(wire[c]) \in Nat
    BY OnTheWire
  <2>5. QED BY <2>1, <2>2, <2>3, <2>4, <1>9, <1>11
<1>14. QED BY <1>1, <1>5, <1>6, <1>12, <1>13, <1>c

(* A request is read as it was written.                                    *)
LEMMA ReadAsWritten ==
    ASSUME Types, NEW c \in Conn, wire[c] # <<>>
    PROVE  /\ Len(wire[c]) \in Nat \ {0} /\ wire[c][1] \in Command
           /\ ReadCommand(c).type = wire[c][1].type /\ ReadCommand(c).tx = wire[c][1].tx
           /\ ReadCommand(c).whole = TRUE
<1>1. wire[c] \in Seq(Command) /\ Len(wire[c]) \in Nat /\ Len(wire[c]) # 0
  BY OnTheWire
<1>2. wire[c][1] \in Command /\ WellFormed(wire[c][1])
  BY <1>1, OnTheWire
<1>3. Head(wire[c]) = wire[c][1]
  BY <1>1
<1>4. /\ ReadCommand(c).type = wire[c][1].type /\ ReadCommand(c).tx = wire[c][1].tx
      /\ ReadCommand(c).whole = (wire[c][1].fields = ReadFields(wire[c][1].type))
  BY <1>3 DEF ReadCommand
<1>5. wire[c][1].fields = ReadFields(wire[c][1].type)
  BY <1>2 DEF WellFormed, WrittenFields, ReadFields
<1>6. QED BY <1>1, <1>2, <1>4, <1>5

(* What the server takes off a wire is a well-formed command.              *)
LEMMA Taken ==
    ASSUME Types, NEW c \in Conn, Execute(c)
    PROVE  /\ Takes(c)
           /\ wire[c][1] \in Command /\ WellFormed(wire[c][1]) /\ Len(wire[c]) \in Nat \ {0}
           /\ ReadCommand(c).type = wire[c][1].type /\ ReadCommand(c).tx = wire[c][1].tx
           /\ ReadCommand(c).value = wire[c][1].value /\ ReadCommand(c).whole = TRUE
           /\ \A d \in Conn : \A i \in 1..Len(wire'[d]) : WellFormed(wire'[d][i])
<1>1. wire[c] \in Seq(Command) /\ wire \in [Conn -> Seq(Command)] /\ wire[c] # <<>>
  BY DEF Types, Execute
<1>2. PICK q : q = Tail(wire[c])
  OBVIOUS
<1>3. /\ q \in Seq(Command) /\ Len(q) = Len(wire[c]) - 1 /\ Len(wire[c]) \in Nat \ {0}
      /\ \A i \in 1..Len(q) : q[i] = wire[c][i + 1]
  BY <1>1, <1>2, HeadTailProperties, EmptySeq
<1>4. wire' = [wire EXCEPT ![c] = q]
  BY <1>2 DEF Execute
<1>5. wire'[c] = q /\ wire' \in [Conn -> Seq(Command)] /\ \A d \in Conn \ {c} : wire'[d] = wire[d]
  BY <1>1, <1>3, <1>4
<1>6. Takes(c)
  BY <1>1, <1>3, <1>5 DEF Takes
<1>7. wire[c][1] \in Command /\ WellFormed(wire[c][1])
  BY <1>3, OnTheWire
<1>8. Head(wire[c]) = wire[c][1]
  BY <1>1
<1>9. /\ ReadCommand(c).type = wire[c][1].type /\ ReadCommand(c).tx = wire[c][1].tx
      /\ ReadCommand(c).value = wire[c][1].value
      /\ ReadCommand(c).whole = (wire[c][1].fields = ReadFields(wire[c][1].type))
  BY <1>8 DEF ReadCommand
<1>10. wire[c][1].fields = ReadFields(wire[c][1].type)
  BY <1>7 DEF WellFormed, WrittenFields, ReadFields
<1>11. \A d \in Conn : \A i \in 1..Len(wire'[d]) : WellFormed(wire'[d][i])
  <2> SUFFICES ASSUME NEW d \in Conn, NEW i \in 1..Len(wire'[d]) PROVE WellFormed(wire'[d][i])
    OBVIOUS
  <2>1. CASE d # c
    BY <2>1, <1>5, OnTheWire
  <2>2. CASE d = c
    <3>1. i + 1 \in 1..Len(wire[c]) /\ wire'[d][i] = wire[c][i + 1]
      BY <2>2, <1>3, <1>5
    <3>2. QED BY <3>1, OnTheWire
  <2>3. QED BY <2>1, <2>2
<1>12. QED BY <1>3, <1>6, <1>7, <1>9, <1>10, <1>11

-----------------------------------------------------------------------------
(* The driver and the conversation of each connection.                      *)

(* Steps that leave the connections of the driver as they are.             *)
LEMMA DriverFrame ==
    ASSUME Driver, UNCHANGED <<procOf, made, registered, opened, socket, gone, closedBy, crashed>>,
           \A c \in Conn \ made : active'[c] = None /\ waiting'[c] = None,
           \A c \in Conn : socket[c] = "none" => wire'[c] = <<>>
    PROVE  Driver'
  BY DEF Driver, CloserOf

(* A connection of a process that waits for nothing is quiet.              *)
LEMMA ReadyQuiet ==
    ASSUME Types, Driver, Conversation, NEW c \in made, Ready(c)
    PROVE  /\ c \in Conn /\ procOf[c] \notin gone
           /\ \A d \in made : procOf[d] = procOf[c] => waiting[d] = None
           /\ waiting[c] = None /\ answers[c] = <<>> /\ NoAsk(wire[c])
<1>1. c \in Conn /\ procOf[c] \notin gone
      /\ \A d \in made : procOf[d] = procOf[c] => waiting[d] = None
  BY DEF Types, TypeOK, Ready, Runs
<1>2. waiting[c] = None
  BY <1>1
<1>3. ~Asked(c)
  BY <1>2, NoneApart DEF Asked, Kind
<1>4. ~Answered(c)
  <2> SUFFICES ASSUME Answered(c) PROVE FALSE OBVIOUS
  <2>1. answers[c] \in Seq(Answer) /\ Len(answers[c]) = 1 /\ answers[c][1][1] = None
    BY <1>1, <1>2 DEF Answered, Types
  <2>2. answers[c][1] \in Answer
    BY <2>1
  <2>3. answers[c][1][1] \in {"array", "int"}
    BY <2>2 DEF Answer
  <2>4. QED BY <2>1, <2>3, NoneApart
<1>5. QED BY <1>1, <1>2, <1>3, <1>4 DEF Conversation, Quiet

(* A new connection.                                                       *)
LEMMA GetConnectionStep ==
    ASSUME Types, Driver, Conversation, NEW c \in Conn, NEW p \in Proc, GetConnection(c, p)
    PROVE  Types' /\ Driver' /\ Conversation'
<1>1. PICK k \in 0..MaxConn : made = 1..k
  BY DEF Driver
<1>2. k \in Nat /\ Cardinality(made) = k
  BY <1>1, NoneApart, FS_Interval
<1>3. c = k + 1 /\ made' = 1..(k + 1) /\ k + 1 \in 0..MaxConn /\ c \notin made
  BY <1>1, <1>2, NoneApart DEF GetConnection, Maker, Conn
<1>4. /\ made' = made \union {c} /\ procOf' = [procOf EXCEPT ![c] = p] /\ p \notin gone
      /\ registered' = [registered EXCEPT ![p] = IF @ = None THEN c ELSE @]
      /\ UNCHANGED <<opened, socket, active, waiting, gone, wire, answers, transactions, logs,
           base, up, requests, begun, closedBy, written, committed, garbled, crashed>>
  BY DEF GetConnection, Maker, Runs, server, history
<1>5. procOf \in [Conn -> Proc \union {None}] /\ registered \in [Proc -> Conn \union {None}]
  BY DEF Types, TypeOK
<1>6. procOf'[c] = p /\ \A d \in Conn \ {c} : procOf'[d] = procOf[d]
  BY <1>4, <1>5
<1>7. \A d \in made : procOf'[d] = procOf[d] /\ d \in Conn
  BY <1>3, <1>6 DEF Types, TypeOK
<1>8. procOf' \in [Conn -> Proc \union {None}] /\ registered' \in [Proc -> Conn \union {None}]
  BY <1>4, <1>5
<1>9. Types'
  <2>1. TypeOK'
    BY <1>4, <1>8 DEF Types, TypeOK
  <2>2. QED BY <2>1, <1>4 DEF Types
<1>10. Driver'
  <2>1. \E k1 \in 0..MaxConn : made' = 1..k1
    BY <1>3
  <2>2. \A d \in made' : procOf'[d] \in Proc
    BY <1>4, <1>6, <1>7 DEF Driver
  <2>3. \A d \in Conn \ made' :
          socket'[d] = "none" /\ active'[d] = None /\ waiting'[d] = None /\ procOf'[d] = None
    BY <1>4, <1>6 DEF Driver
  <2>4. /\ \A d \in Conn : socket'[d] = "none" => wire'[d] = <<>>
        /\ \A d \in Conn : socket'[d] = "up" => d \in opened' \union closedBy'
        /\ \A d \in opened' : socket'[d] = "up"
    BY <1>4 DEF Driver
  <2>5. \A d \in Conn : socket'[d] = "up" => procOf'[d] \notin gone'
    BY <1>3, <1>4, <1>6 DEF Driver
  <2>6. \A q \in Proc : registered'[q] # None =>
          registered'[q] \in made' /\ procOf'[registered'[q]] = q
    BY <1>4, <1>5, <1>6, <1>7 DEF Driver
  <2>7. \A d \in made : CloserOf(d) => CloserOf(d)'
    BY <1>4, <1>7 DEF CloserOf, Types
  <2>8. \A d \in Conn : socket'[d] = "closed" => procOf'[d] \in gone' \/ CloserOf(d)'
    <3> SUFFICES ASSUME NEW d \in Conn, socket[d] = "closed"
                 PROVE  procOf'[d] \in gone' \/ CloserOf(d)'
      BY <1>4
    <3>1. d \in made
      BY DEF Driver
    <3>2. QED BY <3>1, <2>7, <1>4, <1>7 DEF Driver
  <2>9. \A d \in crashed' : procOf'[d] \in gone' /\ (socket'[d] = "none" \/ CloserOf(d)')
    BY <2>7, <1>4, <1>7 DEF Driver, Types
  <2>10. QED BY <2>1, <2>2, <2>3, <2>4, <2>5, <2>6, <2>8, <2>9 DEF Driver
<1>11. Conversation'
  <2> SUFFICES ASSUME NEW d \in Conn PROVE (Quiet(d) \/ Asked(d) \/ Answered(d))'
    BY DEF Conversation
  <2>1. CASE Quiet(d)
    <3>1. NoAsk(wire[d]) \/ (socket[d] = "closed" /\ d \in made /\ procOf[d] \in gone)
      BY <2>1 DEF Quiet, Driver
    <3>2. QED BY <2>1, <3>1, <1>4, <1>7 DEF Quiet, NoAsk
  <2>2. CASE Asked(d) \/ Answered(d)
    BY <2>2, <1>4 DEF Asked, Answered
  <2>3. QED BY <2>1, <2>2 DEF Conversation
<1>12. QED BY <1>9, <1>10, <1>11

(* open: the flag and the socket.                                          *)
LEMMA OpenStep ==
    ASSUME Types, Driver, Conversation, NEW c \in Conn, Open(c)
    PROVE  Types' /\ Driver' /\ Conversation'
<1>1. /\ c \in made /\ Ready(c) /\ socket[c] = "none" /\ opened' = opened \union {c}
      /\ socket' = [socket EXCEPT ![c] = "up"]
      /\ UNCHANGED <<procOf, made, registered, active, waiting, gone, wire, answers, transactions,
           logs, base, up, requests, begun, closedBy, written, committed, garbled, crashed>>
  BY DEF Open, server, history
<1>2. procOf[c] \notin gone /\ socket'[c] = "up" /\ \A d \in Conn \ {c} : socket'[d] = socket[d]
  BY <1>1, ReadyQuiet DEF Types, TypeOK
<1>3. Types'
  <2>1. TypeOK'
    BY <1>1 DEF Types, TypeOK
  <2>2. QED BY <2>1, <1>1 DEF Types
<1>4. Driver'
  <2>1. \A d \in Conn \ made' :
          socket'[d] = "none" /\ active'[d] = None /\ waiting'[d] = None /\ procOf'[d] = None
    BY <1>1, <1>2 DEF Driver
  <2>2. /\ \A d \in Conn : socket'[d] = "none" => wire'[d] = <<>>
        /\ \A d \in Conn : socket'[d] = "up" => d \in opened' \union closedBy'
        /\ \A d \in Conn : socket'[d] = "up" => procOf'[d] \notin gone'
    BY <1>1, <1>2 DEF Driver
  <2>3. \A d \in opened' : socket'[d] = "up"
    BY <1>1, <1>2 DEF Driver, Types, TypeOK
  <2>4. \A d : CloserOf(d)' = CloserOf(d)
    BY <1>1 DEF CloserOf
  <2>5. \A d \in Conn : socket'[d] = "closed" => procOf'[d] \in gone' \/ CloserOf(d)'
    BY <1>1, <1>2, <2>4 DEF Driver
  <2>6. \A d \in crashed' : procOf'[d] \in gone' /\ (socket'[d] = "none" \/ CloserOf(d)')
    BY <1>1, <1>2, <2>4 DEF Driver, Types, TypeOK
  <2>7. QED BY <1>1, <2>1, <2>2, <2>3, <2>5, <2>6 DEF Driver
<1>5. Conversation'
  <2> SUFFICES ASSUME NEW d \in Conn PROVE (Quiet(d) \/ Asked(d) \/ Answered(d))'
    BY DEF Conversation
  <2>1. CASE d = c
    <3>1. waiting[c] = None /\ answers[c] = <<>> /\ NoAsk(wire[c])
      BY <1>1, ReadyQuiet
    <3>2. QED BY <2>1, <3>1, <1>1 DEF Quiet, NoAsk
  <2>2. CASE d # c
    BY <2>2, <1>1, <1>2 DEF Conversation, Quiet, Asked, Answered, NoAsk
  <2>3. QED BY <2>1, <2>2
<1>6. QED BY <1>3, <1>4, <1>5

(* close: the entry of the process is closed, whichever connection it is.  *)
LEMMA CloseStep ==
    ASSUME Types, Driver, Conversation, NEW c \in Conn, Close(c)
    PROVE  Types' /\ Driver' /\ Conversation'
<1>e. PICK entry : entry = registered[procOf[c]]
  OBVIOUS
<1>1. /\ c \in made /\ Ready(c) /\ socket[c] # "none" /\ c \notin closedBy
      /\ socket' = IF entry = None THEN socket ELSE InternalClose(entry)
      /\ opened' = opened \ {c, entry}
      /\ registered' = [registered EXCEPT ![procOf[c]] = None]
      /\ closedBy' = closedBy \union {c}
      /\ UNCHANGED <<procOf, made, active, waiting, gone, wire, answers, transactions, logs, base,
           up, requests, begun, written, committed, garbled, crashed>>
  BY <1>e DEF Close, server
<1>2. procOf[c] \in Proc /\ entry \in Conn \union {None}
  BY <1>e, <1>1 DEF Driver, Types, TypeOK
<1>3. entry # None => entry \in made /\ entry \in Conn /\ procOf[entry] = procOf[c]
  BY <1>e, <1>1, <1>2 DEF Driver, Types, TypeOK
<1>4. procOf[c] \notin gone /\ \A d \in made : procOf[d] = procOf[c] => waiting[d] = None
  BY <1>1, ReadyQuiet
<1>5. /\ \A d \in Conn \ {entry} : socket'[d] = socket[d]
      /\ entry \in opened => socket'[entry] = "closed"
      /\ entry # None /\ entry \notin opened => socket'[entry] = socket[entry]
      /\ socket' \in [Conn -> {"none", "up", "closed"}]
  BY <1>1, <1>2, <1>3, NoneApart DEF InternalClose, Types, TypeOK
<1>6. \A d : CloserOf(d) => CloserOf(d)'
  BY <1>1 DEF CloserOf
<1>7. \A d : procOf[d] = procOf[c] => CloserOf(d)'
  BY <1>1 DEF CloserOf
<1>8. Types'
  <2>1. registered' \in [Proc -> Conn \union {None}]
    BY <1>1 DEF Types, TypeOK
  <2>2. TypeOK'
    BY <1>1, <1>5, <2>1 DEF Types, TypeOK
  <2>3. QED BY <2>2, <1>1 DEF Types
<1>9. Driver'
  <2>1. \A d \in Conn \ made' :
          socket'[d] = "none" /\ active'[d] = None /\ waiting'[d] = None /\ procOf'[d] = None
    BY <1>1, <1>3, <1>5, NoneApart DEF Driver
  <2>2. \A d \in Conn : socket'[d] = "none" => wire'[d] = <<>>
    BY <1>1, <1>3, <1>5 DEF Driver
  <2>3. \A d \in Conn : socket'[d] = "up" => d \in opened' \union closedBy'
    BY <1>1, <1>3, <1>5 DEF Driver
  <2>4. \A d \in opened' : socket'[d] = "up"
    BY <1>1, <1>5 DEF Driver, Types, TypeOK
  <2>5. \A d \in Conn : socket'[d] = "up" => procOf'[d] \notin gone'
    BY <1>1, <1>3, <1>5 DEF Driver
  <2>6. \A p \in Proc : registered'[p] # None =>
          registered'[p] \in made' /\ procOf'[registered'[p]] = p
    BY <1>1, <1>2 DEF Driver, Types, TypeOK
  <2>7. \A d \in Conn : socket'[d] = "closed" => procOf'[d] \in gone' \/ CloserOf(d)'
    BY <1>1, <1>3, <1>5, <1>6, <1>7 DEF Driver
  <2>8. \A d \in crashed' : procOf'[d] \in gone' /\ (socket'[d] = "none" \/ CloserOf(d)')
    <3> SUFFICES ASSUME NEW d \in crashed
                 PROVE  procOf'[d] \in gone' /\ (socket'[d] = "none" \/ CloserOf(d)')
      BY <1>1
    <3>1. d \in Conn /\ procOf[d] \in gone /\ (socket[d] = "none" \/ CloserOf(d))
      BY DEF Driver, Types, TypeOK
    <3>2. d # entry
      BY <3>1, <1>2, <1>3, <1>4, NoneApart
    <3>3. QED BY <3>1, <3>2, <1>1, <1>5, <1>6
  <2>9. QED BY <1>1, <2>1, <2>2, <2>3, <2>4, <2>5, <2>6, <2>7, <2>8 DEF Driver
<1>10. Conversation'
  <2> SUFFICES ASSUME NEW d \in Conn PROVE (Quiet(d) \/ Asked(d) \/ Answered(d))'
    BY DEF Conversation
  <2>1. CASE d \in {c, entry}
    <3>1. d \in made /\ procOf[d] = procOf[c]
      BY <2>1, <1>1, <1>3, NoneApart
    <3>2. Ready(d)
      BY <3>1, <1>1 DEF Ready
    <3>3. waiting[d] = None /\ answers[d] = <<>> /\ NoAsk(wire[d])
      BY <3>1, <3>2, ReadyQuiet
    <3>4. QED BY <3>3, <1>1 DEF Quiet, NoAsk
  <2>2. CASE d \notin {c, entry}
    BY <2>2, <1>1, <1>5 DEF Conversation, Quiet, Asked, Answered, NoAsk
  <2>3. QED BY <2>1, <2>2
<1>11. QED BY <1>8, <1>9, <1>10

(* A process that ends: its sockets are closed, its questions stay.        *)
LEMMA EndedStep ==
    ASSUME Types, Driver, Conversation, NEW p \in Proc, Ended(p), p \notin gone,
           \/ crashed' = crashed
           \/ \E c \in made : /\ procOf[c] = p /\ socket[c] # "up"
                              /\ crashed' = crashed \union {c}
    PROVE  Types' /\ Driver' /\ Conversation'
<1>1. /\ gone' = gone \union {p}
      /\ registered' = [registered EXCEPT ![p] = None]
      /\ opened' = {c \in opened : procOf[c] # p}
      /\ UNCHANGED <<procOf, made, wire, transactions, logs, base, up, requests, begun, closedBy,
                     written, committed, garbled>>
  BY DEF Ended, server
<1>2. /\ \A c \in Conn : procOf[c] # p => /\ socket'[c] = socket[c] /\ waiting'[c] = waiting[c]
                                         /\ active'[c] = active[c] /\ answers'[c] = answers[c]
      /\ \A c \in Conn : procOf[c] = p =>
           /\ socket'[c] = (IF socket[c] = "up" THEN "closed" ELSE socket[c])
           /\ waiting'[c] = None /\ active'[c] = None /\ answers'[c] = <<>>
  BY DEF Ended
<1>3. /\ socket' \in [Conn -> {"none", "up", "closed"}] /\ active' \in [Conn -> Tx \union {None}]
      /\ waiting' \in [Conn -> {None, "array", "int"}] /\ answers' \in [Conn -> Seq(Answer)]
      /\ registered' \in [Proc -> Conn \union {None}] /\ gone' \subseteq Proc /\ opened' \subseteq made
  <2>1. <<>> \in Seq(Answer)
    BY EmptySeq
  <2>2. socket' \in [Conn -> {"none", "up", "closed"}] /\ active' \in [Conn -> Tx \union {None}]
    BY DEF Ended, Types, TypeOK
  <2>3. waiting' \in [Conn -> {None, "array", "int"}] /\ answers' \in [Conn -> Seq(Answer)]
    BY <2>1 DEF Ended, Types, TypeOK
  <2>4. QED BY <1>1, <2>2, <2>3 DEF Types, TypeOK
<1>4. crashed' \subseteq made /\ \A c \in crashed' \ crashed : procOf[c] = p /\ socket[c] # "up"
  BY DEF Types
<1>5. Types'
  <2>1. TypeOK'
    BY <1>1, <1>3 DEF Types, TypeOK
  <2>2. QED BY <2>1, <1>1, <1>3, <1>4 DEF Types
<1>6. p # None
  BY NoneApart DEF Proc
<1>7. \A c : CloserOf(c)' = CloserOf(c)
  BY <1>1 DEF CloserOf
<1>8. Driver'
  <2>1. \A c \in Conn \ made' :
          socket'[c] = "none" /\ active'[c] = None /\ waiting'[c] = None /\ procOf'[c] = None
    BY <1>1, <1>2, <1>6 DEF Driver
  <2>2. \A c \in Conn : socket'[c] = "none" => wire'[c] = <<>>
    BY <1>1, <1>2 DEF Driver
  <2>3. \A c \in Conn : socket'[c] = "up" => c \in opened' \union closedBy'
    BY <1>1, <1>2 DEF Driver
  <2>4. \A c \in opened' : socket'[c] = "up"
    BY <1>1, <1>2 DEF Driver, Types, TypeOK
  <2>5. \A c \in Conn : socket'[c] = "up" => procOf'[c] \notin gone'
    BY <1>1, <1>2 DEF Driver
  <2>6. \A q \in Proc : registered'[q] # None =>
          registered'[q] \in made' /\ procOf'[registered'[q]] = q
    BY <1>1 DEF Driver, Types, TypeOK
  <2>7. \A c \in Conn : socket'[c] = "closed" => procOf'[c] \in gone' \/ CloserOf(c)'
    BY <1>1, <1>2, <1>7 DEF Driver
  <2>8. \A c \in crashed' : procOf'[c] \in gone' /\ (socket'[c] = "none" \/ CloserOf(c)')
    <3> SUFFICES ASSUME NEW c \in crashed'
                 PROVE  procOf'[c] \in gone' /\ (socket'[c] = "none" \/ CloserOf(c)')
      OBVIOUS
    <3>1. c \in Conn
      BY <1>4 DEF Types, TypeOK
    <3>2. CASE c \in crashed
      <4>1. procOf[c] \in gone /\ (socket[c] = "none" \/ CloserOf(c))
        BY <3>2 DEF Driver
      <4>2. QED BY <4>1, <3>1, <1>1, <1>2, <1>7
    <3>3. CASE c \notin crashed
      <4>1. procOf[c] = p /\ socket[c] \in {"none", "closed"} /\ procOf[c] \notin gone
        BY <3>1, <3>3, <1>4 DEF Types, TypeOK
      <4>2. socket[c] = "none" \/ CloserOf(c)
        BY <3>1, <4>1 DEF Driver
      <4>3. socket'[c] = socket[c]
        BY <3>1, <4>1, <1>2
      <4>4. QED BY <4>1, <4>2, <4>3, <1>1, <1>7
    <3>4. QED BY <3>2, <3>3
  <2>9. QED BY <1>1, <2>1, <2>2, <2>3, <2>4, <2>5, <2>6, <2>7, <2>8 DEF Driver
<1>9. Conversation'
  <2> SUFFICES ASSUME NEW c \in Conn PROVE (Quiet(c) \/ Asked(c) \/ Answered(c))'
    BY DEF Conversation
  <2>1. CASE procOf[c] # p
    BY <2>1, <1>1, <1>2 DEF Conversation, Quiet, Asked, Answered, NoAsk
  <2>2. CASE procOf[c] = p
    <3>1. waiting'[c] = None /\ answers'[c] = <<>> /\ wire'[c] = wire[c] /\ procOf'[c] \in gone'
      BY <2>2, <1>1, <1>2
    <3>2. NoAsk(wire[c]) \/ socket'[c] = "closed"
      <4>1. CASE Quiet(c)
        BY <4>1, <2>2, <1>2 DEF Quiet
      <4>2. CASE Asked(c)
        BY <4>2, <2>2, <1>2 DEF Asked, Driver
      <4>3. CASE Answered(c)
        <5>1. Len(wire[c]) = 0
          BY <4>3, OnTheWire DEF Answered
        <5>2. QED BY <5>1 DEF NoAsk
      <4>4. QED BY <4>1, <4>2, <4>3 DEF Conversation
    <3>3. QED BY <3>1, <3>2 DEF Quiet, NoAsk
  <2>3. QED BY <2>1, <2>2
<1>10. QED BY <1>5, <1>8, <1>9

(* beginTransaction touches the active transaction only.                   *)
LEMMA BeginStep ==
    ASSUME Types, Driver, Conversation, NEW c \in Conn, BeginTransaction(c)
    PROVE  Types' /\ Driver' /\ Conversation'
<1>1. /\ c \in made /\ Ready(c) /\ begun < MaxTx /\ begun' = begun + 1
      /\ active' = [active EXCEPT ![c] = begun + 1]
      /\ UNCHANGED <<procOf, made, registered, opened, socket, waiting, gone, wire, answers,
           transactions, logs, base, up, requests, closedBy, written, committed, garbled, crashed>>
  BY DEF BeginTransaction, server
<1>2. begun \in Nat /\ MaxTx \in Nat /\ begun + 1 \in Tx /\ begun' \in 0..MaxTx
  BY <1>1, NoneApart DEF Types, Tx
<1>3. active' \in [Conn -> Tx \union {None}] /\ \A d \in Conn \ {c} : active'[d] = active[d]
  BY <1>1, <1>2 DEF Types, TypeOK
<1>4. Types'
  <2>1. TypeOK'
    BY <1>1, <1>3 DEF Types, TypeOK
  <2>2. committed' \subseteq 1..begun'
    BY <1>1, <1>2 DEF Types
  <2>3. QED BY <2>1, <2>2, <1>1, <1>2 DEF Types
<1>5. Driver'
  BY <1>1, <1>3, DriverFrame DEF Driver
<1>6. Conversation'
  <2> SUFFICES ASSUME NEW d \in Conn PROVE (Quiet(d) \/ Asked(d) \/ Answered(d))'
    BY DEF Conversation
  <2>1. CASE d = c
    <3>1. waiting[c] = None /\ answers[c] = <<>> /\ NoAsk(wire[c])
      BY <1>1, ReadyQuiet
    <3>2. QED BY <2>1, <3>1, <1>1 DEF Quiet, NoAsk
  <2>2. CASE d # c
    BY <2>2, <1>1, <1>3 DEF Conversation, Quiet, Asked, Answered, NoAsk
  <2>3. QED BY <2>1, <2>2
<1>7. QED BY <1>4, <1>5, <1>6

(* A request is sent: only a question makes the client wait.               *)
LEMMA SendStep ==
    ASSUME Types, Driver, Conversation, NEW c \in made, Ready(c), socket[c] = "up",
           NEW cmd \in Command, WellFormed(cmd), Sends(c, cmd), cmd.tx = active[c],
           \A d \in Conn : \A i \in 1..Len(wire'[d]) : WellFormed(wire'[d][i]),
           requests' \in 1..MaxRequests,
           active' \in [Conn -> Tx \union {None}], \A d \in Conn \ {c} : active'[d] = active[d],
           waiting' \in [Conn -> {None, "array", "int"}],
           \A d \in Conn \ {c} : waiting'[d] = waiting[d],
           IF cmd.type \in Asks
           THEN waiting'[c] = Kind(cmd.type) /\ active'[c] = active[c] /\ c \in opened
           ELSE waiting'[c] = waiting[c],
           committed' \subseteq 1..begun,
           UNCHANGED <<procOf, made, registered, opened, socket, gone, answers, transactions, logs,
                       base, up, begun, closedBy, garbled, crashed>>
    PROVE  Types' /\ Driver' /\ Conversation'
<1>1. c \in Conn /\ waiting[c] = None /\ answers[c] = <<>> /\ NoAsk(wire[c])
  BY ReadyQuiet
<1>2. Types'
  <2>1. TypeOK'
    BY DEF Types, TypeOK
  <2>2. requests' \in 0..MaxRequests
    BY NoneApart
  <2>3. QED BY <2>1, <2>2 DEF Types, Sends
<1>3. Driver'
  <2>1. \A d \in Conn \ made : active'[d] = None /\ waiting'[d] = None
    BY DEF Driver
  <2>2. \A d \in Conn : socket[d] = "none" => wire'[d] = <<>>
    BY DEF Driver, Sends
  <2>3. QED BY <2>1, <2>2, DriverFrame
<1>4. Conversation'
  <2> SUFFICES ASSUME NEW d \in Conn PROVE (Quiet(d) \/ Asked(d) \/ Answered(d))'
    BY DEF Conversation
  <2>1. CASE d # c
    <3>1. wire'[d] = wire[d] /\ waiting'[d] = waiting[d] /\ active'[d] = active[d]
      BY <2>1 DEF Sends
    <3>2. QED BY <3>1 DEF Conversation, Quiet, Asked, Answered, NoAsk
  <2>2. CASE d = c
    <3>1. /\ Len(wire[c]) \in Nat /\ Len(wire'[c]) = Len(wire[c]) + 1
          /\ \A i \in 1..Len(wire[c]) : wire'[c][i] = wire[c][i] /\ wire[c][i].type \notin Asks
          /\ wire'[c][Len(wire[c]) + 1] = cmd /\ wire'[c] \in Seq(Command)
      BY <1>1, OnTheWire DEF Sends, NoAsk
    <3>2. wire'[c] # <<>>
      BY <3>1, EmptySeq
    <3>3. CASE cmd.type \in Asks
      <4>1. Asked(c)'
        <5>1. Len(wire'[c]) - 1 = Len(wire[c]) /\ wire'[c][Len(wire'[c])] = cmd
          BY <3>1
        <5>2. \A i \in 1..(Len(wire'[c]) - 1) : wire'[c][i].type \notin Asks
          BY <3>1, <5>1
        <5>3. waiting'[c] = Kind(cmd.type) /\ active'[c] = active[c] /\ c \in opened'
              /\ answers'[c] = <<>>
          BY <3>3, <1>1
        <5>4. QED BY <3>2, <3>3, <5>1, <5>2, <5>3, Zenon DEF Asked
      <4>2. QED BY <4>1, <2>2
    <3>4. CASE cmd.type \notin Asks
      <4>1. NoAsk(wire[c])'
        <5>1. \A i \in 1..Len(wire'[c]) : wire'[c][i].type \notin Asks
          BY <3>1, <3>4
        <5>2. QED BY <5>1, Zenon DEF NoAsk
      <4>2. Quiet(c)'
        BY <4>1, <3>4, <1>1 DEF Quiet
      <4>3. QED BY <4>2, <2>2
    <3>5. QED BY <3>3, <3>4
  <2>3. QED BY <2>1, <2>2
<1>5. QED BY <1>2, <1>3, <1>4

(* The answer is read.                                                     *)
LEMMA ReceiveStep ==
    ASSUME Types, Driver, Conversation, NEW c \in Conn, Receive(c)
    PROVE  /\ Types' /\ Driver' /\ Conversation'
           /\ answers'[c] = <<>> /\ \A d \in Conn \ {c} : answers'[d] = answers[d]
<1>1. /\ waiting[c] # None /\ answers[c] # <<>>
      /\ answers' = [answers EXCEPT ![c] = Tail(answers[c])]
      /\ waiting' = [waiting EXCEPT ![c] = None]
      /\ UNCHANGED <<procOf, made, registered, opened, socket, active, gone, wire, transactions, logs,
           base, up, requests, begun, closedBy, written, committed, garbled, crashed>>
  BY DEF Receive, server, history
<1>2. Answered(c)
  BY <1>1 DEF Conversation, Quiet, Asked
<1>3. answers[c] \in Seq(Answer) /\ Len(answers[c]) = 1
  BY <1>2 DEF Answered, Types
<1>4. Tail(answers[c]) \in Seq(Answer) /\ Len(Tail(answers[c])) = 0
  BY <1>1, <1>3, HeadTailProperties
<1>5. Tail(answers[c]) = <<>>
  BY <1>4, EmptySeq
<1>6. answers' \in [Conn -> Seq(Answer)] /\ answers'[c] = <<>>
      /\ \A d \in Conn \ {c} : answers'[d] = answers[d]
  BY <1>1, <1>4, <1>5 DEF Types
<1>7. /\ waiting' \in [Conn -> {None, "array", "int"}] /\ waiting'[c] = None
      /\ \A d \in Conn \ {c} : waiting'[d] = waiting[d]
  BY <1>1 DEF Types, TypeOK
<1>8. Types'
  <2>1. TypeOK'
    BY <1>1, <1>7 DEF Types, TypeOK
  <2>2. QED BY <2>1, <1>1, <1>6 DEF Types
<1>9. Driver'
  <2>1. \A d \in Conn \ made : active'[d] = None /\ waiting'[d] = None
    BY <1>1, <1>7 DEF Driver
  <2>2. QED BY <2>1, <1>1, DriverFrame DEF Driver
<1>10. Conversation'
  <2> SUFFICES ASSUME NEW d \in Conn PROVE (Quiet(d) \/ Asked(d) \/ Answered(d))'
    BY DEF Conversation
  <2>1. CASE d = c
    <3>1. Len(wire[c]) = 0
      BY <1>2, OnTheWire DEF Answered
    <3>2. QED BY <2>1, <3>1, <1>1, <1>6, <1>7 DEF Quiet, NoAsk
  <2>2. CASE d # c
    BY <2>2, <1>1, <1>6, <1>7 DEF Conversation, Quiet, Asked, Answered, NoAsk
  <2>3. QED BY <2>1, <2>2
<1>11. QED BY <1>6, <1>8, <1>9, <1>10

(* What a find sees: the operations after the last drop, none of them a    *)
(* drop, and all of them when there is no drop.                            *)
LEMMA ViewIs ==
    ASSUME NEW log \in Seq(0..MaxRequests)
    PROVE  \E k \in 0..Len(log) :
              /\ View(log) \in Seq(0..MaxRequests) /\ Len(View(log)) = Len(log) - k
              /\ \A i \in 1..Len(View(log)) : View(log)[i] = log[i + k] /\ View(log)[i] # Drop
              /\ k # 0 => log[k] = Drop
<1>l. Len(log) \in Nat /\ DOMAIN log = 1..Len(log)
  BY LenProperties
<1> DEFINE drops == {i \in DOMAIN log : log[i] = Drop}
           last == IF drops = {} THEN 0 ELSE CHOOSE i \in drops : \A j \in drops : j <= i
<1>1. last \in 0..Len(log) /\ (last # 0 => log[last] = Drop) /\ \A j \in drops : j <= last
  <2>1. CASE drops = {}
    BY <2>1, <1>l
  <2>2. CASE drops # {}
    <3> DEFINE S == {Len(log) - i : i \in drops}
    <3>1. S \subseteq Nat /\ S # {}
      BY <2>2, <1>l
    <3> HIDE DEF S
    <3>2. PICK x \in S : \A y \in S : ~(<<y, x>> \in OpToRel(<, Nat))
      BY <3>1, NatLessThanWellFounded, WFMin, Zenon
    <3>3. \A y \in S : x <= y
      <4> SUFFICES ASSUME NEW y \in S, y < x PROVE FALSE BY <3>1
      <4>1. <<y, x>> \in Nat \X Nat /\ <<y, x>>[1] = y /\ <<y, x>>[2] = x
        BY <3>1
      <4>2. <<y, x>> \in OpToRel(<, Nat)
        BY <4>1, Zenon DEF OpToRel
      <4>3. QED BY <3>2, <4>2, Zenon
    <3>4. PICK m \in drops : x = Len(log) - m
      BY DEF S
    <3>5. \A j \in drops : j <= m
      <4> SUFFICES ASSUME NEW j \in drops PROVE j <= m OBVIOUS
      <4>1. Len(log) - j \in S
        BY DEF S
      <4>2. QED BY <3>3, <3>4, <4>1, <1>l
    <3>6. last \in drops /\ \A j \in drops : j <= last
      BY <2>2, <3>5
    <3>7. last \in DOMAIN log /\ log[last] = Drop
      BY <3>6
    <3> HIDE DEF last
    <3>8. QED BY <3>6, <3>7, <1>l
  <2>3. QED BY <2>1, <2>2
<1>2. PICK k \in 0..Len(log) :
        /\ k # 0 => log[k] = Drop
        /\ View(log) = SubSeq(log, k + 1, Len(log))
        /\ \A j \in 1..Len(log) : log[j] = Drop => j <= k
  <2>1. View(log) = SubSeq(log, last + 1, Len(log))
    BY DEF View
  <2>2. \A j \in 1..Len(log) : log[j] = Drop => j <= last
    <3>1. \A j \in 1..Len(log) : log[j] = Drop => j \in drops
      BY <1>l
    <3>2. QED BY <1>1, <3>1, Zenon
  <2> HIDE DEF last
  <2>3. QED BY <1>1, <2>1, <2>2, Zenon
<1> HIDE DEF drops, last
<1>3. \A i \in (k + 1)..Len(log) : i \in 1..Len(log) /\ ~(i <= k)
  BY <1>l
<1>4. \A i \in (k + 1)..Len(log) : log[i] \in 0..MaxRequests /\ log[i] # Drop
  <2>1. \A i \in 1..Len(log) : log[i] \in 0..MaxRequests
    BY LenProperties
  <2>2. QED BY <1>2, <1>3, <2>1, Zenon
<1>5. PICK v : v = SubSeq(log, k + 1, Len(log))
  OBVIOUS
<1>6. /\ v \in Seq(0..MaxRequests)
      /\ Len(v) = IF k + 1 <= Len(log) THEN Len(log) - (k + 1) + 1 ELSE 0
      /\ \A i \in 1..(Len(log) - (k + 1) + 1) : v[i] = log[(k + 1) + i - 1]
  BY <1>4, <1>5, <1>l, SubSeqProperties
<1>7. Len(v) = Len(log) - k /\ \A i \in 1..Len(v) : v[i] = log[i + k]
  <2>1. Len(v) = Len(log) - k
    <3>1. PICK n \in Nat : n = Len(log)
      BY <1>l
    <3>2. k \in 0..n /\ Len(v) = IF k + 1 <= n THEN n - (k + 1) + 1 ELSE 0
      BY <3>1, <1>6, Zenon
    <3>3. CASE k + 1 <= n
      BY <3>1, <3>2, <3>3
    <3>4. CASE ~(k + 1 <= n)
      <4>1. k = n /\ Len(v) = 0
        BY <3>2, <3>4
      <4>2. QED BY <3>1, <4>1
    <3>5. QED BY <3>3, <3>4
  <2>2. \A i \in 1..Len(v) : i \in 1..(Len(log) - (k + 1) + 1) /\ (k + 1) + i - 1 = i + k
    BY <2>1, <1>l
  <2>3. QED BY <2>1, <2>2, <1>6
<1>8. \A i \in 1..Len(v) : i + k \in (k + 1)..Len(log)
  BY <1>7, <1>l
<1>9. \A i \in 1..Len(v) : v[i] # Drop
  BY <1>4, <1>7, <1>8
<1>10. QED BY <1>2, <1>5, <1>6, <1>7, <1>9

(* The logs are sequences of insert numbers and drops.                     *)
LEMMA TheLogs ==
    ASSUME Types
    PROVE  /\ base \in Seq(0..MaxRequests) /\ Len(base) \in Nat
           /\ \A i \in 1..Len(base) : base[i] \in 0..MaxRequests
           /\ \A t \in Tx : /\ logs[t] \in Seq(0..MaxRequests) /\ Len(logs[t]) \in Nat
                            /\ logs[t] = <<>> <=> Len(logs[t]) = 0
                            /\ \A i \in 1..Len(logs[t]) : logs[t][i] \in 0..MaxRequests
<1>1. base \in Seq(0..MaxRequests) /\ \A t \in Tx : logs[t] \in Seq(0..MaxRequests)
  BY DEF Types, TypeOK
<1>2. QED BY <1>1, LenProperties, EmptySeq

(* What a find finds are the operations after the last drop, of the base   *)
(* and of the transaction.                                                 *)
LEMMA FoundIs ==
    ASSUME Types, NEW tx \in Tx \union {None}
    PROVE  \E log \in Seq(0..MaxRequests), k \in Nat :
              /\ Len(log) = Len(base) + (IF tx = None THEN 0 ELSE Len(logs[tx]))
              /\ \A i \in 1..Len(base) : log[i] = base[i]
              /\ tx # None => \A i \in 1..Len(logs[tx]) : log[Len(base) + i] = logs[tx][i]
              /\ k <= Len(log)
              /\ Found(tx) \in Seq(0..MaxRequests) /\ Len(Found(tx)) = Len(log) - k
              /\ \A i \in 1..Len(Found(tx)) : Found(tx)[i] = log[i + k] /\ Found(tx)[i] # Drop
              /\ k # 0 => log[k] = Drop
<1>1. PICK log : log = IF tx = None THEN base ELSE base \o logs[tx]
  OBVIOUS
<1>2. /\ log \in Seq(0..MaxRequests)
      /\ Len(log) = Len(base) + (IF tx = None THEN 0 ELSE Len(logs[tx]))
      /\ \A i \in 1..Len(base) : log[i] = base[i]
      /\ tx # None => \A i \in 1..Len(logs[tx]) : log[Len(base) + i] = logs[tx][i]
  <2>1. CASE tx = None
    BY <2>1, <1>1, TheLogs
  <2>2. CASE tx # None
    <3>1. tx \in Tx /\ log = base \o logs[tx]
      BY <2>2, <1>1
    <3>2. /\ base \in Seq(0..MaxRequests) /\ Len(base) \in Nat
          /\ logs[tx] \in Seq(0..MaxRequests) /\ Len(logs[tx]) \in Nat
      BY <3>1, TheLogs
    <3>3. /\ log \in Seq(0..MaxRequests) /\ Len(log) = Len(base) + Len(logs[tx])
          /\ \A i \in 1..Len(base) + Len(logs[tx]) : log[i] =
               IF i <= Len(base) THEN base[i] ELSE logs[tx][i - Len(base)]
      BY <3>1, <3>2, ConcatProperties
    <3>4. \A i \in 1..Len(base) : log[i] = base[i]
      BY <3>2, <3>3
    <3>5. \A i \in 1..Len(logs[tx]) : log[Len(base) + i] = logs[tx][i]
      <4> SUFFICES ASSUME NEW i \in 1..Len(logs[tx]) PROVE log[Len(base) + i] = logs[tx][i]
        OBVIOUS
      <4>1. Len(base) + i \in 1..Len(base) + Len(logs[tx]) /\ ~(Len(base) + i <= Len(base))
            /\ (Len(base) + i) - Len(base) = i
        BY <3>2
      <4>2. QED BY <4>1, <3>3
    <3>6. QED BY <2>2, <3>3, <3>4, <3>5
  <2>3. QED BY <2>1, <2>2
<1>3. Found(tx) = View(log)
  BY <1>1 DEF Found
<1>4. PICK k \in 0..Len(log) :
              /\ View(log) \in Seq(0..MaxRequests) /\ Len(View(log)) = Len(log) - k
              /\ \A i \in 1..Len(View(log)) : View(log)[i] = log[i + k] /\ View(log)[i] # Drop
              /\ k # 0 => log[k] = Drop
  BY <1>2, ViewIs
<1>5. k \in Nat /\ k <= Len(log)
  BY <1>2, LenProperties
<1>6. /\ Found(tx) \in Seq(0..MaxRequests) /\ Len(Found(tx)) = Len(log) - k
      /\ \A i \in 1..Len(Found(tx)) : Found(tx)[i] = log[i + k] /\ Found(tx)[i] # Drop
      /\ k # 0 => log[k] = Drop
  BY <1>3, <1>4
<1>7. log \in Seq(0..MaxRequests) /\ k \in Nat
  BY <1>2, <1>5
<1> USE <1>7
<1> WITNESS log \in Seq(0..MaxRequests), k \in Nat
<1>8. QED BY <1>2, <1>5, <1>6

(* Each request has its effect on the logs, and nothing else.              *)
LEMMA Executed ==
    ASSUME Types, NEW c \in Conn, Execute(c), NEW cmd, cmd = wire[c][1]
    PROVE  /\ ToBase(cmd) \/ ToLog(cmd) \/ Looks(cmd) \/ Merges(cmd) \/ Forgets(cmd)
           /\ logs' \in [Tx -> Seq(0..MaxRequests)] /\ base' \in Seq(0..MaxRequests)
           /\ transactions' \subseteq Tx /\ up' = up /\ up' \in BOOLEAN /\ ~garbled'
           /\ UNCHANGED <<procOf, made, registered, opened, socket, active, waiting, gone, requests,
                          begun, closedBy, written, committed, crashed>>
<1>1. /\ cmd \in Command /\ WellFormed(cmd)
      /\ ReadCommand(c).type = cmd.type /\ ReadCommand(c).tx = cmd.tx
      /\ ReadCommand(c).value = cmd.value /\ ReadCommand(c).whole = TRUE
  BY Taken
<1>2. /\ base \in Seq(0..MaxRequests) /\ logs \in [Tx -> Seq(0..MaxRequests)] /\ transactions \subseteq Tx
      /\ ~garbled
  BY DEF Types, TypeOK
<1>3. /\ UNCHANGED <<procOf, made, registered, opened, socket, active, waiting, gone, requests, begun,
                     closedBy, written, committed, crashed>>
      /\ ~garbled'
  BY <1>1, <1>2 DEF Execute, driver
<1>4. up' = up /\ up' \in BOOLEAN
  BY DEF Execute, Types, TypeOK
<1>5. cmd.tx \in Tx \union {None} /\ Drop \in 0..MaxRequests
  BY <1>1, Fields, NoneApart DEF Drop
<1>6. CASE cmd.type \in {"insert", "dropnamespace"}
  <2>1. OpOf(cmd) \in 0..MaxRequests
    BY <1>1, <1>5, NoneApart DEF OpOf, WellFormed
  <2>2. transactions' = Transaction(cmd.tx) /\ Logged(cmd.tx, OpOf(cmd))
    BY <1>1, <1>6 DEF Execute, OpOf
  <2>3. CASE cmd.tx = None
    <3>1. base' = Append(base, OpOf(cmd)) /\ logs' = logs /\ transactions' = transactions
      BY <2>2, <2>3 DEF Logged, Transaction
    <3>2. base' \in Seq(0..MaxRequests) /\ ToBase(cmd)
      BY <2>1, <2>3, <3>1, <1>2, <1>6, AppendProperties DEF ToBase
    <3>3. QED BY <3>1, <3>2, <1>2, <1>3, <1>4
  <2>4. CASE cmd.tx # None
    <3>1. PICK t \in Tx : t = cmd.tx
      BY <2>4, <1>5
    <3>2. PICK q : q = Append(logs[t], OpOf(cmd))
      OBVIOUS
    <3>3. logs' = [logs EXCEPT ![t] = q] /\ base' = base /\ transactions' = transactions \union {t}
      BY <2>2, <2>4, <3>1, <3>2 DEF Logged, Transaction
    <3>4. logs[t] \in Seq(0..MaxRequests)
      BY <1>2
    <3>5. /\ q \in Seq(0..MaxRequests) /\ Len(q) = Len(logs[t]) + 1
          /\ q[Len(logs[t]) + 1] = OpOf(cmd) /\ \A i \in 1..Len(logs[t]) : q[i] = logs[t][i]
      BY <2>1, <3>2, <3>4, AppendProperties
    <3>6. logs'[t] = q /\ logs' \in [Tx -> Seq(0..MaxRequests)] /\ \A u \in Tx \ {t} : logs'[u] = logs[u]
      BY <3>3, <3>5, <1>2
    <3>7. ToLog(cmd)
      BY <3>1, <3>3, <3>5, <3>6, <1>6 DEF ToLog
    <3>8. QED BY <3>3, <3>6, <3>7, <1>2, <1>3, <1>4
  <2>5. QED BY <2>3, <2>4
<1>7. CASE cmd.type = "find"
  <2>1. UNCHANGED <<base, logs>> /\ transactions' = Transaction(cmd.tx)
    BY <1>1, <1>7 DEF Execute
  <2>2. transactions' \subseteq Tx
    BY <2>1, <1>2, <1>5 DEF Transaction
  <2>3. QED BY <2>1, <2>2, <1>2, <1>3, <1>4, <1>7 DEF Looks
<1>8. CASE cmd.type \in {"commit", "rollback"}
  <2>1. PICK t \in Tx : t = cmd.tx /\ t = cmd.value
    BY <1>1, <1>8 DEF WellFormed
  <2>2. logs[t] \in Seq(0..MaxRequests) /\ <<>> \in Seq(0..MaxRequests)
    BY <1>2, EmptySeq
  <2>3. logs' = [logs EXCEPT ![t] = <<>>]
    BY <1>1, <1>8, <2>1 DEF Execute, ExecuteCommit, ExecuteRollback
  <2>4. logs'[t] = <<>> /\ logs' \in [Tx -> Seq(0..MaxRequests)] /\ \A u \in Tx \ {t} : logs'[u] = logs[u]
    BY <2>2, <2>3, <1>2
  <2>5. CASE cmd.type = "rollback"
    <3>1. base' = base /\ transactions' = transactions \union {t}
      BY <1>1, <2>5, <2>1 DEF Execute, ExecuteRollback
    <3>2. QED BY <3>1, <2>1, <2>4, <2>5, <1>2, <1>3, <1>4 DEF Forgets
  <2>6. CASE cmd.type = "commit"
    <3>1. base' = base \o logs[t] /\ transactions' = transactions \ {t}
      BY <1>1, <2>6, <2>1 DEF Execute, ExecuteCommit
    <3>2. Len(base) \in Nat /\ Len(logs[t]) \in Nat
      BY TheLogs
    <3>3. /\ base' \in Seq(0..MaxRequests) /\ Len(base') = Len(base) + Len(logs[t])
          /\ \A i \in 1..Len(base) + Len(logs[t]) : base'[i] =
               IF i <= Len(base) THEN base[i] ELSE logs[t][i - Len(base)]
      BY <3>1, <2>2, <1>2, ConcatProperties
    <3>4. \A i \in 1..Len(base) : base'[i] = base[i]
      BY <3>2, <3>3
    <3>5. \A i \in 1..Len(logs[t]) : base'[Len(base) + i] = logs[t][i]
      <4> SUFFICES ASSUME NEW i \in 1..Len(logs[t]) PROVE base'[Len(base) + i] = logs[t][i]
        OBVIOUS
      <4>1. Len(base) + i \in 1..Len(base) + Len(logs[t]) /\ ~(Len(base) + i <= Len(base))
            /\ (Len(base) + i) - Len(base) = i
        BY <3>2
      <4>2. QED BY <4>1, <3>3
    <3>6. Merges(cmd)
      BY <3>1, <3>3, <3>4, <3>5, <2>1, <2>4, <2>6 DEF Merges
    <3>7. QED BY <3>1, <3>3, <3>6, <2>4, <1>2, <1>3, <1>4
  <2>7. QED BY <1>8, <2>5, <2>6
<1>9. QED BY <1>1, <1>6, <1>7, <1>8, Fields DEF Commands

(* The execution of a question answers it, that of any other request says  *)
(* nothing.                                                                *)
LEMMA ExecuteStep ==
    ASSUME Types, Driver, Conversation, NEW c \in Conn, Execute(c), NEW cmd, cmd = wire[c][1]
    PROVE  /\ Types' /\ Driver' /\ Conversation'
           /\ \A d \in Conn \ {c} : answers'[d] = answers[d]
           /\ answers'[c] = <<>> \/
                /\ c \in opened /\ Len(wire[c]) = 1 /\ cmd.tx = active[c]
                /\ cmd.type = "find" => answers'[c] = << <<"array", Found(cmd.tx)>> >>
                /\ cmd.type # "find" => waiting'[c] = "int"
<1>1. /\ Takes(c) /\ cmd \in Command /\ WellFormed(cmd) /\ Len(wire[c]) \in Nat \ {0}
      /\ ReadCommand(c).type = cmd.type /\ ReadCommand(c).tx = cmd.tx
      /\ \A d \in Conn : \A i \in 1..Len(wire'[d]) : WellFormed(wire'[d][i])
  BY Taken
<1>2. /\ logs' \in [Tx -> Seq(0..MaxRequests)] /\ base' \in Seq(0..MaxRequests)
      /\ transactions' \subseteq Tx /\ up' \in BOOLEAN /\ ~garbled'
      /\ UNCHANGED <<procOf, made, registered, opened, socket, active, waiting, gone, requests,
                     begun, closedBy, written, committed, crashed>>
  BY Executed
<1>3. cmd.tx \in Tx \union {None} /\ cmd.type \in Commands
  BY <1>1, Fields
<1>4. PICK res : res = WriteResult(ReadCommand(c))
  OBVIOUS
<1>5. /\ cmd.type = "find" => res = << <<"array", Found(cmd.tx)>> >>
      /\ cmd.type = "dropnamespace" => res = << <<"int", 1>> >>
      /\ cmd.type \notin Asks => res = <<>>
  BY <1>1, <1>4 DEF WriteResult, Asks
<1>6. answers \in [Conn -> Seq(Answer)]
  BY DEF Types
<1>7. Found(cmd.tx) \in Seq(0..MaxRequests)
  BY <1>3, FoundIs
<1>8. res \in Seq(Answer) /\ (cmd.type \in Asks => Len(res) = 1 /\ res[1][1] = Kind(cmd.type))
  <2>1. CASE cmd.type = "find"
    <3>1. PICK a : a = <<"array", Found(cmd.tx)>>
      OBVIOUS
    <3>2. a \in Answer /\ a[1] = "array" /\ res = <<a>>
      BY <2>1, <3>1, <1>5, <1>7 DEF Answer
    <3>3. res \in Seq(Answer) /\ Len(res) = 1 /\ res[1] = a
      BY <3>2
    <3>4. QED BY <2>1, <3>2, <3>3 DEF Kind
  <2>2. CASE cmd.type = "dropnamespace"
    <3>1. PICK a : a = <<"int", 1>>
      OBVIOUS
    <3>2. a \in Answer /\ a[1] = "int" /\ res = <<a>>
      BY <2>2, <3>1, <1>5 DEF Answer
    <3>3. res \in Seq(Answer) /\ Len(res) = 1 /\ res[1] = a
      BY <3>2
    <3>4. QED BY <2>2, <3>2, <3>3 DEF Kind
  <2>3. CASE cmd.type \notin Asks
    BY <2>3, <1>5, EmptySeq
  <2>4. QED BY <2>1, <2>2, <2>3 DEF Asks
<1>9. answers' = IF socket[c] = "up" THEN [answers EXCEPT ![c] = answers[c] \o res] ELSE answers
  BY <1>4 DEF Execute
<1>10. /\ \A d \in Conn \ {c} : answers'[d] = answers[d]
       /\ answers'[c] = IF socket[c] = "up" THEN answers[c] \o res ELSE answers[c]
       /\ answers' \in [Conn -> Seq(Answer)]
  <2>1. answers[c] \in Seq(Answer)
    BY <1>6
  <2>2. answers[c] \o res \in Seq(Answer)
    BY <2>1, <1>8, ConcatProperties
  <2>3. QED BY <2>2, <1>6, <1>9
<1>11. answers[c] = <<>> /\ ~Answered(c)
  <2>1. wire[c] # <<>>
    BY <1>1 DEF Takes
  <2>2. QED BY <2>1 DEF Conversation, Quiet, Asked, Answered
<1>12. answers'[c] = IF socket[c] = "up" THEN res ELSE <<>>
  BY <1>8, <1>10, <1>11, ConcatEmptySeq
<1>13. Types'
  <2>1. TypeOK'
    BY <1>2 DEF Types, TypeOK
  <2>2. QED BY <2>1, <1>1, <1>2, <1>10 DEF Types, Takes
<1>14. Driver'
  <2>1. \A d \in Conn \ made : active'[d] = None /\ waiting'[d] = None
    BY <1>2 DEF Driver
  <2>2. \A d \in Conn : socket[d] = "none" => wire'[d] = <<>>
    BY <1>1 DEF Driver, Takes
  <2>3. QED BY <2>1, <2>2, <1>2, DriverFrame
<1>15. /\ Len(wire'[c]) = Len(wire[c]) - 1
       /\ \A i \in 1..Len(wire'[c]) : wire'[c][i] = wire[c][i + 1] /\ i + 1 \in 1..Len(wire[c])
       /\ wire'[c] = <<>> <=> Len(wire'[c]) = 0
  <2>1. wire'[c] \in Seq(Command) /\ Len(wire'[c]) = Len(wire[c]) - 1
        /\ \A i \in 1..Len(wire'[c]) : wire'[c][i] = wire[c][i + 1]
    BY <1>1 DEF Takes
  <2>2. wire'[c] = <<>> <=> Len(wire'[c]) = 0
    BY <2>1, EmptySeq
  <2>3. \A i \in 1..Len(wire'[c]) : i + 1 \in 1..Len(wire[c])
    BY <2>1, <1>1
  <2>4. QED BY <2>1, <2>2, <2>3
<1> DEFINE Reply ==
             answers'[c] = <<>> \/
                /\ c \in opened /\ Len(wire[c]) = 1 /\ cmd.tx = active[c]
                /\ cmd.type = "find" => answers'[c] = << <<"array", Found(cmd.tx)>> >>
                /\ cmd.type # "find" => waiting'[c] = "int"
<1>16. ASSUME Quiet(c) PROVE Quiet(c)' /\ Reply
  <2>1. /\ socket[c] = "up" => res = <<>>
    <3>1. socket[c] = "up" => NoAsk(wire[c])
      BY <1>16 DEF Quiet
    <3>2. socket[c] = "up" => cmd.type \notin Asks
      BY <3>1, <1>1 DEF NoAsk
    <3>3. QED BY <3>2, <1>5
  <2>2. answers'[c] = <<>>
    BY <2>1, <1>12
  <2>3. NoAsk(wire[c]) => NoAsk(wire[c])'
    <3> SUFFICES ASSUME NoAsk(wire[c]), NEW i \in 1..Len(wire'[c]) PROVE wire'[c][i].type \notin Asks
      BY Zenon DEF NoAsk
    <3>1. QED BY <1>15 DEF NoAsk
  <2>4. Quiet(c)'
    BY <1>2, <1>16, <2>2, <2>3 DEF Quiet
  <2>5. QED BY <2>2, <2>4
<1>17. ASSUME Asked(c), Len(wire[c]) = 1 PROVE Answered(c)' /\ Reply
  <2>1. cmd.type \in Asks /\ waiting[c] = Kind(cmd.type) /\ cmd.tx = active[c] /\ socket[c] = "up"
        /\ c \in opened
    BY <1>17 DEF Asked, Driver
  <2>2. Answered(c)'
    BY <2>1, <1>2, <1>8, <1>12, <1>15, <1>17 DEF Answered
  <2>3. (cmd.type = "find" => answers'[c] = << <<"array", Found(cmd.tx)>> >>)
        /\ (cmd.type # "find" => waiting'[c] = "int")
    BY <2>1, <1>2, <1>5, <1>12 DEF Kind
  <2>4. QED BY <2>1, <2>2, <2>3, <1>17
<1>18. ASSUME Asked(c), Len(wire[c]) # 1 PROVE Asked(c)' /\ Reply
  <2>1. cmd.type \notin Asks
    <3>0. PICK n \in Nat \ {0} : n = Len(wire[c])
      BY <1>1
    <3>a. n # 1
      BY <3>0, <1>18, Zenon
    <3>1. 1 \in 1..(n - 1)
      BY <3>a
    <3>2. QED BY <3>0, <3>1, <1>18 DEF Asked
  <2>2. answers'[c] = <<>>
    BY <2>1, <1>5, <1>12
  <2>3. wire'[c] # <<>> /\ Len(wire'[c]) \in 1..Len(wire[c]) /\ Len(wire'[c]) + 1 = Len(wire[c])
    BY <1>1, <1>15, <1>18
  <2>4. wire'[c][Len(wire'[c])] = wire[c][Len(wire[c])]
    BY <2>3, <1>15
  <2>5. \A i \in 1..(Len(wire'[c]) - 1) : wire'[c][i].type \notin Asks
    <3> SUFFICES ASSUME NEW i \in 1..(Len(wire'[c]) - 1) PROVE wire'[c][i].type \notin Asks
      OBVIOUS
    <3>1. i \in 1..Len(wire'[c]) /\ i + 1 \in 1..(Len(wire[c]) - 1)
      BY <1>1, <1>15
    <3>2. QED BY <3>1, <1>15, <1>18 DEF Asked
  <2>6. Asked(c)'
    <3>1. /\ c \in opened' /\ wire'[c][Len(wire'[c])].type \in Asks
          /\ waiting'[c] = Kind(wire'[c][Len(wire'[c])].type)
          /\ wire'[c][Len(wire'[c])].tx = active'[c]
      BY <1>2, <1>18, <2>4 DEF Asked
    <3>2. QED BY <2>2, <2>3, <2>5, <3>1, Zenon DEF Asked
  <2>7. QED BY <2>2, <2>6
<1>19. (Quiet(c) \/ Asked(c) \/ Answered(c))'
  BY <1>11, <1>16, <1>17, <1>18 DEF Conversation
<1>20. \A d \in Conn \ {c} : (Quiet(d) \/ Asked(d) \/ Answered(d))'
  <2> SUFFICES ASSUME NEW d \in Conn \ {c} PROVE (Quiet(d) \/ Asked(d) \/ Answered(d))'
    OBVIOUS
  <2>1. wire'[d] = wire[d] /\ answers'[d] = answers[d]
    BY <1>1, <1>10 DEF Takes
  <2>2. QED BY <2>1, <1>2 DEF Conversation, Quiet, Asked, Answered, NoAsk
<1>21. Conversation'
  BY <1>19, <1>20 DEF Conversation
<1>22. Reply
  BY <1>11, <1>16, <1>17, <1>18 DEF Conversation
<1>23. QED BY <1>10, <1>13, <1>14, <1>21, <1>22

(* insert, find and dropNamespace.                                         *)
LEMMA RequestStep ==
    ASSUME Types, Driver, Conversation, NEW c \in Conn, Insert(c) \/ Find(c) \/ DropNamespace(c)
    PROVE  Types' /\ Driver' /\ Conversation' /\ \E cmd : Sending(c, cmd)
<1>1. c \in opened /\ c \in made /\ Ready(c) /\ socket[c] = "up"
  BY DEF Insert, Find, DropNamespace, Ask, Driver, Types, TypeOK
<1>2. waiting[c] = None /\ answers[c] = <<>>
  BY <1>1, ReadyQuiet
<1> DEFINE Call(type, value) ==
        /\ type \in {"insert", "find", "dropnamespace"}
        /\ SendCommand(c, type, value)
        /\ (type = "insert" /\ value = requests + 1) \/ (type \in Asks /\ value = None)
        /\ waiting' = IF type \in Asks THEN [waiting EXCEPT ![c] = Kind(type)] ELSE waiting
        /\ written' = IF type \in {"insert", "dropnamespace"}
                  THEN written \union {[n |-> requests + 1, op |-> type, conn |-> c, tx |-> active[c]]}
                  ELSE written
        /\ UNCHANGED <<procOf, made, registered, opened, socket, active, gone, answers, transactions,
                       logs, base, up, begun, closedBy, committed, garbled, crashed>>
<1>3. PICK type, value : Call(type, value)
  <2>1. CASE Insert(c)
    <3>1. Call("insert", requests + 1)
      BY <2>1 DEF Insert, Written, driver, server, Asks
    <3> HIDE DEF Call
    <3>2. QED BY <3>1
  <2>2. CASE Find(c)
    <3>1. Call("find", None)
      BY <2>2 DEF Find, Ask, server, Asks, Kind
    <3> HIDE DEF Call
    <3>2. QED BY <3>1
  <2>3. CASE DropNamespace(c)
    <3>1. Call("dropnamespace", None)
      BY <2>3 DEF DropNamespace, Ask, Written, server, Asks, Kind
    <3> HIDE DEF Call
    <3>2. QED BY <3>1
  <2>4. QED BY <2>1, <2>2, <2>3
<1>4. type \in Commands
  BY <1>3 DEF Commands
<1>5. PICK cmd : cmd = WriteCommand(type, active[c], value)
  OBVIOUS
<1>6. /\ Sends(c, cmd) /\ cmd \in Command /\ WellFormed(cmd)
      /\ requests' = requests + 1 /\ requests' \in 1..MaxRequests
      /\ \A d \in Conn : \A i \in 1..Len(wire'[d]) : WellFormed(wire'[d][i])
  BY <1>3, <1>4, <1>5, Sent
<1>7. cmd.type = type /\ cmd.tx = active[c] /\ cmd.value = value
  BY <1>5 DEF WriteCommand
<1>8. /\ waiting' \in [Conn -> {None, "array", "int"}]
      /\ \A d \in Conn \ {c} : waiting'[d] = waiting[d]
      /\ waiting'[c] = IF type \in Asks THEN Kind(type) ELSE waiting[c]
  BY <1>3 DEF Types, TypeOK, Kind
<1>9. active' \in [Conn -> Tx \union {None}] /\ committed' \subseteq 1..begun
      /\ \A d \in Conn : active'[d] = active[d]
  BY <1>3 DEF Types, TypeOK
<1>10. Types' /\ Driver' /\ Conversation'
  <2>1. IF cmd.type \in Asks
        THEN waiting'[c] = Kind(cmd.type) /\ active'[c] = active[c] /\ c \in opened
        ELSE waiting'[c] = waiting[c]
    BY <1>1, <1>7, <1>8, <1>9
  <2>2. QED BY <2>1, <1>1, <1>3, <1>6, <1>7, <1>8, <1>9, SendStep
<1>11. Sending(c, cmd)
  <2>1. cmd.type \notin {"commit", "rollback"} /\ cmd.type # "commit"
    BY <1>3, <1>7
  <2>2. cmd.type = "insert" => cmd.value = requests + 1
    BY <1>3, <1>7 DEF Asks
  <2>3. QED BY <2>1, <2>2, <1>2, <1>3, <1>6, <1>7, <1>8, <1>9 DEF Sending
<1>12. QED BY <1>10, <1>11

(* commitTransaction and rollbackTransaction: the process crashes, or the  *)
(* request is sent.                                                        *)
LEMMA EndTransactionStep ==
    ASSUME Types, Driver, Conversation, Endings, NEW c \in Conn, NEW type \in {"commit", "rollback"},
           EndTransaction(c, type)
    PROVE  /\ Types' /\ Driver' /\ Conversation'
           /\ \/ \E cmd : Sending(c, cmd)
              \/ \E p \in Proc : Ended(p) /\ p \notin gone
<1>1. /\ c \in made /\ Ready(c) /\ active[c] \in Tx
  BY DEF EndTransaction, Types, TypeOK
<1>2. waiting[c] = None /\ answers[c] = <<>> /\ procOf[c] \notin gone /\ procOf[c] \in Proc
  BY <1>1, ReadyQuiet DEF Driver
<1>3. CASE socket[c] # "up"
  <2>1. Ended(procOf[c]) /\ crashed' = crashed \union {c}
    BY <1>3 DEF EndTransaction
  <2>2. PICK p \in Proc : p = procOf[c]
    BY <1>2
  <2>3. Types' /\ Driver' /\ Conversation'
    BY <2>1, <2>2, <1>1, <1>2, <1>3, EndedStep
  <2>4. QED BY <2>1, <2>3, <1>2
<1>4. CASE socket[c] = "up"
  <2>1. /\ SendCommand(c, type, active[c])
        /\ active' = [active EXCEPT ![c] = None]
        /\ committed' = IF type = "commit" THEN committed \union {active[c]} ELSE committed
        /\ UNCHANGED <<procOf, made, registered, opened, socket, waiting, gone, answers, transactions,
                       logs, base, up, begun, closedBy, written, garbled, crashed>>
    BY <1>4 DEF EndTransaction, server
  <2>2. type \in Commands
    BY DEF Commands
  <2>3. PICK cmd : cmd = WriteCommand(type, active[c], active[c])
    OBVIOUS
  <2>4. /\ Sends(c, cmd) /\ cmd \in Command /\ WellFormed(cmd)
        /\ requests' = requests + 1 /\ requests' \in 1..MaxRequests
        /\ \A d \in Conn : \A i \in 1..Len(wire'[d]) : WellFormed(wire'[d][i])
    BY <2>1, <2>2, <2>3, <1>1, Sent
  <2>5. cmd.type = type /\ cmd.tx = active[c] /\ cmd.type \notin Asks
        /\ cmd.type \notin {"insert", "dropnamespace"} /\ cmd.type # "insert"
    BY <2>3 DEF WriteCommand, Asks
  <2>6. /\ active' \in [Conn -> Tx \union {None}] /\ active'[c] = None
        /\ \A d \in Conn \ {c} : active'[d] = active[d]
    BY <2>1 DEF Types, TypeOK
  <2>7. committed' \subseteq 1..begun
    BY <2>1, <1>1, NoneApart DEF Types, Endings, ActiveOpen
  <2>8. waiting' \in [Conn -> {None, "array", "int"}] /\ \A d \in Conn : waiting'[d] = waiting[d]
    BY <2>1 DEF Types, TypeOK
  <2>9. Types' /\ Driver' /\ Conversation'
    BY <2>1, <2>4, <2>5, <2>6, <2>7, <2>8, <1>1, <1>4, SendStep
  <2>10. Sending(c, cmd)
    BY <2>1, <2>4, <2>5, <2>6, <2>8, <1>2 DEF Sending
  <2>11. QED BY <2>9, <2>10
<1>5. QED BY <1>3, <1>4

(* The end of a process sends nothing.                                     *)
LEMMA EndedStill ==
    ASSUME Types, NEW p \in Proc, Ended(p)
    PROVE  Still /\ up' = up
<1>1. /\ UNCHANGED <<wire, transactions, logs, base, up, requests, written, committed, begun, procOf>>
      /\ gone' = gone \union {p}
  BY DEF Ended, server
<1>2. /\ \A c \in Conn : procOf[c] # p => /\ socket'[c] = socket[c] /\ waiting'[c] = waiting[c]
                                         /\ active'[c] = active[c] /\ answers'[c] = answers[c]
      /\ \A c \in Conn : procOf[c] = p =>
           /\ socket'[c] = (IF socket[c] = "up" THEN "closed" ELSE socket[c])
           /\ waiting'[c] = None /\ active'[c] = None /\ answers'[c] = <<>>
  BY DEF Ended
<1>3. \A c \in Conn : active'[c] \in {active[c], None}
  BY <1>2
<1>4. \A c \in Conn :
         \/ answers'[c] = <<>>
         \/ answers'[c] = answers[c] /\ waiting'[c] = waiting[c] /\ active'[c] = active[c]
  BY <1>2
<1>5. \A c \in Conn : socket[c] = "closed" /\ procOf[c] \in gone =>
                        socket'[c] = "closed" /\ procOf'[c] \in gone'
  BY <1>1, <1>2
<1>6. QED BY <1>1, <1>3, <1>4, <1>5 DEF Still

(* The end of the server leaves everything else as it is.                  *)
LEMMA OverflowStep ==
    ASSUME Types, Driver, Conversation, NEW c \in Conn, ExecuteOverflows(c)
    PROVE  Types' /\ Driver' /\ Conversation' /\ Still
<1>1. ReadCommand(c).whole = TRUE
  BY ReadAsWritten DEF ExecuteOverflows
<1>2. PICK req : req = ReadCommand(c) /\ garbled' = (garbled \/ ~req.whole)
  BY DEF ExecuteOverflows
<1>3. ~garbled' /\ up' \in BOOLEAN
  BY <1>1, <1>2 DEF ExecuteOverflows, Types, TypeOK
<1>4. /\ UNCHANGED <<procOf, made, registered, opened, socket, active, waiting, gone, wire, answers>>
      /\ UNCHANGED <<transactions, logs, base, requests, begun, closedBy, written, committed, crashed>>
  BY DEF ExecuteOverflows, driver
<1>5. TypeOK'
  BY <1>3, <1>4 DEF Types, TypeOK
<1>6. Types'
  BY <1>4, <1>5 DEF Types
<1>7. Driver'
  BY <1>4 DEF Driver, CloserOf
<1>8. Conversation'
  BY <1>4 DEF Conversation, Quiet, Asked, Answered, NoAsk
<1>9. Still
  BY <1>4 DEF Still
<1>10. QED BY <1>6, <1>7, <1>8, <1>9

(* Every step keeps the driver and the conversations, and is one of four   *)
(* kinds for the rest.                                                     *)
LEMMA Steps ==
    ASSUME Types, Driver, Conversation, Endings, Next
    PROVE  /\ Types' /\ Driver' /\ Conversation'
           /\ \/ Still /\ up' = up
              \/ Still /\ \E c \in Conn : ExecuteOverflows(c)
              \/ \E c, cmd : Sending(c, cmd)
              \/ \E c \in Conn : Execute(c)
<1>1. ASSUME NEW c \in Conn, NEW p \in Proc, GetConnection(c, p)
      PROVE  Types' /\ Driver' /\ Conversation' /\ Still /\ up' = up
  <2>1. Types' /\ Driver' /\ Conversation'
    BY <1>1, GetConnectionStep
  <2>2. /\ UNCHANGED <<wire, transactions, logs, base, up, requests, written, committed, begun, active,
                       answers, waiting, socket, gone>>
        /\ procOf' = [procOf EXCEPT ![c] = p] /\ c = Cardinality(made) + 1
    BY <1>1 DEF GetConnection, Maker, server, history
  <2>3. c \notin made
    <3>1. PICK k \in 0..MaxConn : made = 1..k
      BY DEF Driver
    <3>2. k \in Nat /\ Cardinality(made) = k
      BY <3>1, NoneApart, FS_Interval
    <3>3. QED BY <3>1, <3>2, <2>2
  <2>4. socket[c] = "none"
    BY <2>3 DEF Driver
  <2>5. \A d \in Conn : socket[d] = "closed" /\ procOf[d] \in gone =>
                          socket'[d] = "closed" /\ procOf'[d] \in gone'
    BY <2>2, <2>4 DEF Types, TypeOK
  <2>6. Still /\ up' = up
    BY <2>2, <2>5 DEF Still
  <2>7. QED BY <2>1, <2>6
<1>2. ASSUME NEW c \in Conn, Open(c) PROVE Types' /\ Driver' /\ Conversation' /\ Still /\ up' = up
  <2>1. Types' /\ Driver' /\ Conversation'
    BY <1>2, OpenStep
  <2>2. /\ UNCHANGED <<wire, transactions, logs, base, up, requests, written, committed, begun, active,
                       answers, waiting, procOf, gone>>
        /\ socket' = [socket EXCEPT ![c] = "up"] /\ socket[c] = "none"
    BY <1>2 DEF Open, server, history
  <2>3. \A d \in Conn : socket[d] = "closed" /\ procOf[d] \in gone =>
                          socket'[d] = "closed" /\ procOf'[d] \in gone'
    BY <2>2 DEF Types, TypeOK
  <2>4. Still /\ up' = up
    BY <2>2, <2>3 DEF Still
  <2>5. QED BY <2>1, <2>4
<1>3. ASSUME NEW c \in Conn, Close(c) PROVE Types' /\ Driver' /\ Conversation' /\ Still /\ up' = up
  <2>1. Types' /\ Driver' /\ Conversation'
    BY <1>3, CloseStep
  <2>2. UNCHANGED <<wire, transactions, logs, base, up, requests, written, committed, begun, active,
                    answers, waiting, procOf, gone>>
    BY <1>3 DEF Close, server
  <2>3. socket' = socket \/ \E d : socket' = [socket EXCEPT ![d] = "closed"]
    BY <1>3 DEF Close, InternalClose
  <2>4. \A d \in Conn : socket[d] = "closed" /\ procOf[d] \in gone =>
                          socket'[d] = "closed" /\ procOf'[d] \in gone'
    BY <2>2, <2>3 DEF Types, TypeOK
  <2>5. Still /\ up' = up
    BY <2>2, <2>4 DEF Still
  <2>6. QED BY <2>1, <2>5
<1>4. ASSUME NEW c \in Conn, BeginTransaction(c) PROVE Types' /\ Driver' /\ Conversation' /\ Still /\ up' = up
  <2>1. Types' /\ Driver' /\ Conversation'
    BY <1>4, BeginStep
  <2>2. /\ UNCHANGED <<wire, transactions, logs, base, up, requests, written, committed, answers,
                       waiting, procOf, gone, socket>>
        /\ begun' = begun + 1 /\ active' = [active EXCEPT ![c] = begun + 1]
        /\ c \in made /\ Ready(c)
    BY <1>4 DEF BeginTransaction, server
  <2>3. active'[c] = begun + 1 /\ \A d \in Conn \ {c} : active'[d] = active[d]
    BY <2>2 DEF Types, TypeOK
  <2>4. answers[c] = <<>>
    BY <2>2, ReadyQuiet
  <2>5. Still /\ up' = up
    BY <2>2, <2>3, <2>4 DEF Still
  <2>6. QED BY <2>1, <2>5
<1>5. ASSUME NEW c \in Conn, Receive(c) PROVE Types' /\ Driver' /\ Conversation' /\ Still /\ up' = up
  <2>1. /\ Types' /\ Driver' /\ Conversation'
        /\ answers'[c] = <<>> /\ \A d \in Conn \ {c} : answers'[d] = answers[d]
    BY <1>5, ReceiveStep
  <2>2. /\ UNCHANGED <<wire, transactions, logs, base, up, requests, written, committed, begun, active,
                       procOf, gone, socket>>
        /\ waiting' = [waiting EXCEPT ![c] = None]
    BY <1>5 DEF Receive, server, history
  <2>3. \A d \in Conn \ {c} : waiting'[d] = waiting[d]
    BY <2>2 DEF Types, TypeOK
  <2>4. Still /\ up' = up
    BY <2>1, <2>2, <2>3 DEF Still
  <2>5. QED BY <2>1, <2>4
<1>6. ASSUME NEW c \in Conn, Insert(c) \/ Find(c) \/ DropNamespace(c)
      PROVE  Types' /\ Driver' /\ Conversation' /\ \E cmd : Sending(c, cmd)
  BY <1>6, RequestStep
<1>7. ASSUME NEW c \in Conn, CommitTransaction(c) \/ RollbackTransaction(c)
      PROVE  Types' /\ Driver' /\ Conversation' /\ ((Still /\ up' = up) \/ \E cmd : Sending(c, cmd))
  <2>1. PICK type \in {"commit", "rollback"} : EndTransaction(c, type)
    BY <1>7 DEF CommitTransaction, RollbackTransaction
  <2>2. QED BY <2>1, EndTransactionStep, EndedStill
<1>8. ASSUME NEW c \in Conn, Execute(c) PROVE Types' /\ Driver' /\ Conversation'
  <2>1. PICK cmd : cmd = wire[c][1]
    OBVIOUS
  <2>2. QED BY <2>1, <1>8, ExecuteStep
<1>9. ASSUME NEW p \in Proc, Exit(p) PROVE Types' /\ Driver' /\ Conversation' /\ Still /\ up' = up
  <2>1. Ended(p) /\ p \notin gone /\ crashed' = crashed
    BY <1>9 DEF Exit
  <2>2. QED BY <2>1, EndedStep, EndedStill
<1>10. ASSUME NEW c \in Conn, ExecuteOverflows(c) PROVE Types' /\ Driver' /\ Conversation' /\ Still
  BY <1>10, OverflowStep
<1>11. QED BY <1>1, <1>2, <1>3, <1>4, <1>5, <1>6, <1>7, <1>8, <1>9, <1>10 DEF Next

-----------------------------------------------------------------------------
(* The users and the ends of transactions.                                  *)

(* A request of a wire after a send is one of before, or the new one.      *)
LEMMA AfterSend ==
    ASSUME Types, NEW c, NEW cmd, Sending(c, cmd), NEW d \in Conn, NEW i \in 1..Len(wire'[d])
    PROVE  \/ i \in 1..Len(wire[d]) /\ wire'[d][i] = wire[d][i]
           \/ d = c /\ i = Len(wire[c]) + 1 /\ wire'[d][i] = cmd
<1>1. Sends(c, cmd) /\ c \in Conn
  BY DEF Sending
<1>2. Len(wire[c]) \in Nat
  BY <1>1, OnTheWire
<1>3. CASE d # c
  BY <1>1, <1>3 DEF Sends
<1>4. CASE d = c
  BY <1>1, <1>2, <1>4 DEF Sends
<1>5. QED BY <1>3, <1>4

(* A request of a wire after an execution is one of before.                *)
LEMMA AfterTake ==
    ASSUME Types, NEW c \in Conn, Takes(c), NEW d \in Conn, NEW i \in 1..Len(wire'[d])
    PROVE  \E k \in 1..Len(wire[d]) : /\ wire'[d][i] = wire[d][k]
                                      /\ k = IF d = c THEN i + 1 ELSE i
<1>1. Len(wire[c]) \in Nat \ {0}
  <2>1. wire[c] # <<>> /\ wire[c] \in Seq(Command)
    BY OnTheWire DEF Takes
  <2>2. QED BY <2>1, EmptySeq
<1>2. CASE d # c
  BY <1>2 DEF Takes
<1>3. CASE d = c
  <2>1. Len(wire'[c]) = Len(wire[c]) - 1 /\ wire'[c][i] = wire[c][i + 1]
    BY <1>3 DEF Takes
  <2>2. i + 1 \in 1..Len(wire[c])
    BY <2>1, <1>1, <1>3
  <2>3. QED BY <2>1, <2>2, <1>3
<1>4. QED BY <1>2, <1>3

(* A request other than the first is still there after an execution.       *)
LEMMA StillThere ==
    ASSUME Types, NEW c \in Conn, Takes(c), NEW d \in Conn, NEW k \in 1..Len(wire[d]), d # c \/ k # 1
    PROVE  \E i \in 1..Len(wire'[d]) : /\ wire'[d][i] = wire[d][k]
                                       /\ k = IF d = c THEN i + 1 ELSE i
<1>1. Len(wire[d]) \in Nat
  BY OnTheWire
<1>2. CASE d # c
  BY <1>2 DEF Takes
<1>3. CASE d = c
  <2>1. Len(wire'[c]) = Len(wire[c]) - 1
    BY <1>3 DEF Takes
  <2>2. PICK n \in Nat : n = Len(wire[c])
    BY <1>1, <1>3
  <2>3. k \in 1..n /\ k # 1
    BY <1>3, <2>2
  <2>4. k - 1 \in 1..(n - 1) /\ (k - 1) + 1 = k
    BY <2>3
  <2>5. k - 1 \in 1..Len(wire'[c]) /\ wire'[c][k - 1] = wire[c][(k - 1) + 1]
    BY <2>1, <2>2, <2>4 DEF Takes
  <2>6. QED BY <2>4, <2>5, <1>3
<1>4. QED BY <1>2, <1>3

(* Nobody has spoken of a transaction that is not begun.                   *)
LEMMA FreshUnused ==
    ASSUME Types, Endings, Stamped, NEW c \in Conn
    PROVE  ~Uses(c, begun + 1)
<1>1. begun \in Nat /\ begun + 1 # None /\ begun + 1 \notin 1..begun
  BY NoneApart DEF Types
<1>2. active[c] # begun + 1
  BY <1>1 DEF Endings, ActiveOpen
<1>3. \A i \in 1..Len(wire[c]) : wire[c][i].tx # begun + 1
  BY <1>1 DEF Endings, Mentions
<1>4. \A w \in written : w.tx # begun + 1
  BY <1>1 DEF Stamped
<1>5. QED BY <1>2, <1>3, <1>4 DEF Uses

(* A transaction keeps its one user.                                       *)
LEMMA OneUserStill ==
    ASSUME Types, Endings, Stamped, OneUser, Still
    PROVE  OneUser'
<1>1. wire' = wire /\ written' = written
  BY DEF Still
<1>2. CASE begun' = begun /\ \A c \in Conn : active'[c] \in {active[c], None}
  <2>1. \A t \in Tx, c \in Conn : Uses(c, t)' => Uses(c, t)
    BY <1>1, <1>2, NoneApart DEF Uses
  <2>2. QED BY <2>1 DEF OneUser
<1>3. ASSUME NEW c \in Conn, begun' = begun + 1, active'[c] = begun + 1,
             \A d \in Conn \ {c} : active'[d] = active[d]
      PROVE  OneUser'
  <2>1. \A t \in Tx, d \in Conn : Uses(d, t)' => Uses(d, t) \/ (d = c /\ t = begun + 1)
    BY <1>1, <1>3 DEF Uses
  <2>2. \A d \in Conn : ~Uses(d, begun + 1)
    BY FreshUnused
  <2>3. QED BY <2>1, <2>2 DEF OneUser
<1>4. QED BY <1>2, <1>3 DEF Still

(* Who sends a request speaks of the transaction that is active.           *)
LEMMA OneUserSending ==
    ASSUME Types, OneUser, NEW c, NEW cmd, Sending(c, cmd)
    PROVE  OneUser'
<1>1. \A t \in Tx, d \in Conn : Uses(d, t)' => Uses(d, t)
  <2> SUFFICES ASSUME NEW t \in Tx, NEW d \in Conn, Uses(d, t)' PROVE Uses(d, t)
    OBVIOUS
  <2>0. c \in Conn /\ cmd.tx = active[c] /\ t # None
    BY NoneApart DEF Sending
  <2>1. CASE active'[d] = t
    <3>1. d # c => active'[d] = active[d]
      BY DEF Sending
    <3>2. d = c => active'[d] \in {None, active[d]}
      BY DEF Sending
    <3>3. QED BY <2>0, <2>1, <3>1, <3>2 DEF Uses
  <2>2. ASSUME NEW i \in 1..Len(wire'[d]), wire'[d][i].tx = t PROVE Uses(d, t)
    BY <2>0, <2>2, AfterSend DEF Uses
  <2>3. ASSUME NEW w \in written', w.conn = d, w.tx = t PROVE Uses(d, t)
    <3>1. CASE w \in written
      BY <2>3, <3>1 DEF Uses
    <3>2. CASE w \notin written
      <4>1. w = [n |-> requests + 1, op |-> cmd.type, conn |-> c, tx |-> active[c]]
        BY <2>3, <3>2 DEF Sending
      <4>2. w.conn = c /\ w.tx = active[c]
        BY <4>1
      <4>3. QED BY <2>3, <4>2 DEF Uses
    <3>3. QED BY <3>1, <3>2
  <2>4. QED BY <2>1, <2>2, <2>3 DEF Uses
<1>2. QED BY <1>1 DEF OneUser

(* The execution of a request leaves a user of its transaction the user.   *)
LEMMA OneUserExecute ==
    ASSUME Types, OneUser, NEW c \in Conn, Execute(c)
    PROVE  OneUser'
<1>1. Takes(c) /\ active' = active /\ written' = written
  BY Taken DEF Execute, driver
<1>2. \A t \in Tx, d \in Conn : Uses(d, t)' => Uses(d, t)
  <2> SUFFICES ASSUME NEW t \in Tx, NEW d \in Conn, Uses(d, t)' PROVE Uses(d, t)
    OBVIOUS
  <2>1. ASSUME NEW i \in 1..Len(wire'[d]), wire'[d][i].tx = t PROVE Uses(d, t)
    BY <1>1, <2>1, AfterTake DEF Uses
  <2>2. QED BY <1>1, <2>1 DEF Uses
<1>3. QED BY <1>2 DEF OneUser

(* Those who speak of a transaction on a wire are its user.                *)
LEMMA SpeakersAgree ==
    ASSUME OneUser, NEW t \in Tx, NEW c \in Conn, NEW d \in Conn,
           active[c] = t \/ \E i \in 1..Len(wire[c]) : wire[c][i].tx = t,
           active[d] = t \/ \E i \in 1..Len(wire[d]) : wire[d][i].tx = t
    PROVE  c = d
<1>1. Uses(c, t) /\ Uses(d, t)
  BY DEF Uses
<1>2. QED BY <1>1 DEF OneUser

(* The ends of transactions stay ends when nothing is sent.                *)
LEMMA EndingsStill ==
    ASSUME Types, Endings, Still
    PROVE  Endings'
<1>1. UNCHANGED <<wire, transactions, logs, committed>> /\ begun \in Nat /\ committed \subseteq 1..begun
  BY NoneApart DEF Still, Types
<1>2. \A c \in Conn : active'[c] \in {active[c], None} \/ (active'[c] = begun + 1 /\ begun' = begun + 1)
  BY DEF Still
<1>3. begun' = begun \/ begun' = begun + 1
  BY DEF Still
<1>4. ActiveOpen'
  <2> SUFFICES ASSUME NEW c \in Conn, active'[c] # None
               PROVE  active'[c] \in 1..begun' /\ active'[c] \notin committed'
    BY DEF ActiveOpen
  <2>1. CASE active'[c] = active[c]
    BY <2>1, <1>1, <1>3 DEF Endings, ActiveOpen
  <2>2. CASE active'[c] = begun + 1 /\ begun' = begun + 1
    BY <2>2, <1>1
  <2>3. QED BY <2>1, <2>2, <1>2
<1>5. Remembered'
  BY <1>1 DEF Endings, Remembered, CommitOnWire, CommitAt
<1>6. ASSUME NEW c \in Conn, NEW i \in 1..Len(wire[c]) PROVE Mentions(c, i)'
  <2>1. Mentions(c, i) /\ WellFormed(wire[c][i])
    BY OnTheWire DEF Endings
  <2>2. PICK cmd : cmd = wire[c][i]
    OBVIOUS
  <2>3. cmd.tx # None => cmd.tx \in 1..begun'
    BY <2>1, <2>2, <1>1, <1>3 DEF Mentions
  <2>4. cmd.type \in {"commit", "rollback"} => active'[c] # cmd.tx
    <3> SUFFICES ASSUME cmd.type \in {"commit", "rollback"} PROVE active'[c] # cmd.tx
      OBVIOUS
    <3>1. cmd.tx \in Tx /\ cmd.tx # None
      BY <2>1, <2>2, NoneApart DEF WellFormed
    <3>2. cmd.tx \in 1..begun /\ active[c] # cmd.tx
      BY <2>1, <2>2, <3>1 DEF Mentions
    <3>3. QED BY <1>1, <1>2, <3>1, <3>2
  <2>5. QED BY <2>1, <2>2, <2>3, <2>4, <1>1 DEF Mentions, CommitAt
<1>7. QED BY <1>1, <1>4, <1>5, <1>6 DEF Endings

(* A send keeps the ends: it speaks of the active transaction only, and    *)
(* that has not ended.                                                     *)
LEMMA EndingsSending ==
    ASSUME Types, Endings, OneUser, NEW c, NEW cmd, Sending(c, cmd)
    PROVE  Endings'
<1>1. /\ c \in Conn /\ cmd \in Command /\ WellFormed(cmd) /\ Sends(c, cmd) /\ cmd.tx = active[c]
      /\ active'[c] = IF cmd.type \in {"commit", "rollback"} THEN None ELSE active[c]
      /\ committed' = IF cmd.type = "commit" THEN committed \union {active[c]} ELSE committed
      /\ \A d \in Conn \ {c} : active'[d] = active[d]
      /\ UNCHANGED <<transactions, logs, begun>>
  BY DEF Sending
<1>2. committed \subseteq 1..begun /\ begun \in Nat /\ None \notin committed
  <2>1. committed \subseteq 1..begun /\ begun \in Nat
    BY NoneApart DEF Types
  <2>2. \A t \in 1..begun : t \in Nat
    BY <2>1
  <2>3. QED BY <2>1, <2>2, NoneApart, Zenon
<1>3. active[c] # None => active[c] \in Tx /\ active[c] \in 1..begun /\ active[c] \notin committed
  BY <1>1 DEF Endings, ActiveOpen, Types, TypeOK
<1>4. cmd.type = "commit" => active[c] \in Tx
  BY <1>1 DEF WellFormed
<1>5. Len(wire[c]) \in Nat /\ Len(wire'[c]) = Len(wire[c]) + 1 /\ wire'[c][Len(wire[c]) + 1] = cmd
      /\ \A i \in 1..Len(wire[c]) : wire'[c][i] = wire[c][i]
  BY <1>1, OnTheWire DEF Sends
<1>6. \A d \in Conn \ {c} : wire'[d] = wire[d]
  BY <1>1 DEF Sends
<1>7. \A d \in Conn : \A j \in 1..Len(wire[d]) : j \in 1..Len(wire'[d]) /\ wire'[d][j] = wire[d][j]
  BY <1>5, <1>6
<1>8. \A t \in Tx : t \in committed' \ committed => t = active[c] /\ cmd.type = "commit"
  BY <1>1
<1>9. PICK n, u : n = Len(wire[c]) + 1 /\ u = active[c]
  OBVIOUS
<1>10. n \in 1..Len(wire'[c]) /\ n \notin 1..Len(wire[c]) /\ wire'[c][n] = cmd
  BY <1>5, <1>9
<1>11. cmd.type = "commit" => CommitAt(c, n, u)'
  BY <1>1, <1>9, <1>10 DEF CommitAt
<1>12. \A d \in Conn : \A j \in 1..Len(wire[d]) : \A t \in Tx : CommitAt(d, j, t) => CommitAt(d, j, t)'
  BY <1>7 DEF CommitAt
<1>13. ActiveOpen'
  <2> SUFFICES ASSUME NEW d \in Conn, active'[d] # None
               PROVE  active'[d] \in 1..begun /\ active'[d] \notin committed'
    BY <1>1 DEF ActiveOpen
  <2>1. active'[d] = active[d] /\ active[d] # None
    BY <1>1
  <2>2. active[d] \in 1..begun /\ active[d] \notin committed /\ active[d] \in Tx
    BY <2>1 DEF Endings, ActiveOpen, Types, TypeOK
  <2>3. active[d] \notin committed'
    <3> SUFFICES ASSUME active[d] \in committed' PROVE FALSE OBVIOUS
    <3>1. active[d] = active[c] /\ cmd.type = "commit"
      BY <1>8, <2>2
    <3>2. d = c
      BY <1>1, <2>2, <3>1, SpeakersAgree
    <3>3. QED BY <1>1, <2>1, <3>1, <3>2
  <2>4. QED BY <2>1, <2>2, <2>3
<1>14. Remembered'
  <2> SUFFICES ASSUME NEW t \in Tx, t \in committed', t \in transactions \/ logs[t] # <<>>
               PROVE  CommitOnWire(t)'
    BY <1>1 DEF Remembered
  <2>1. CASE t \in committed
    <3>1. PICK d \in Conn : \E j \in 1..Len(wire[d]) : CommitAt(d, j, t)
      BY <2>1 DEF Endings, Remembered, CommitOnWire
    <3>2. PICK j \in 1..Len(wire[d]) : CommitAt(d, j, t)
      BY <3>1
    <3>3. CommitAt(d, j, t)' /\ j \in 1..Len(wire'[d])
      BY <3>2, <1>7, <1>12
    <3>4. QED BY <3>3 DEF CommitOnWire
  <2>2. CASE t \notin committed
    <3>1. t = u /\ cmd.type = "commit"
      BY <2>2, <1>8, <1>9
    <3>2. QED BY <3>1, <1>1, <1>10, <1>11 DEF CommitOnWire
  <2>3. QED BY <2>1, <2>2
<1>15. ASSUME NEW d \in Conn, NEW i \in 1..Len(wire[d]) PROVE Mentions(d, i)'
  <2>1. PICK old : old = wire[d][i]
    OBVIOUS
  <2>2. Mentions(d, i) /\ WellFormed(old) /\ old \in Command /\ wire'[d][i] = old
    BY <2>1, <1>7, OnTheWire DEF Endings
  <2>3. old.tx \in Tx \union {None}
    BY <2>2, Fields
  <2>4. old.tx # None => old.tx \in 1..begun
    BY <2>1, <2>2 DEF Mentions
  <2>5. d # c /\ active[c] \in Tx => old.tx # active[c]
    BY <1>1, <2>1, SpeakersAgree
  <2>6. old.type \in {"commit", "rollback"} =>
          /\ old.tx \in Tx /\ old.tx # None /\ active[d] # old.tx
          /\ \A j \in (i + 1)..Len(wire[d]) : wire[d][j].tx # old.tx
    BY <2>1, <2>2, NoneApart DEF Mentions, WellFormed
  <2>7. old.type \in {"commit", "rollback"} => active'[d] # old.tx
    BY <1>1, <2>6
  <2>8. old.type \in {"commit", "rollback"} => \A j \in (i + 1)..Len(wire'[d]) : wire'[d][j].tx # old.tx
    <3> SUFFICES ASSUME old.type \in {"commit", "rollback"}, NEW j \in (i + 1)..Len(wire'[d])
                 PROVE  wire'[d][j].tx # old.tx
      OBVIOUS
    <3>0. Len(wire[d]) \in Nat /\ i \in Nat /\ i >= 1
      BY OnTheWire
    <3>1. Len(wire'[d]) \in Nat /\ j \in 1..Len(wire'[d])
      BY <3>0, <1>5, <1>6
    <3>2. CASE j \in 1..Len(wire[d])
      <4>1. j \in (i + 1)..Len(wire[d])
        BY <3>0, <3>1, <3>2
      <4>2. QED BY <4>1, <3>2, <2>6, <1>7
    <3>3. CASE d = c /\ wire'[d][j] = cmd
      BY <3>3, <1>1, <2>6
    <3>4. QED BY <3>1, <3>2, <3>3, AfterSend
  <2>9. old.type = "commit" => old.tx \in committed'
    BY <1>1, <2>1, <2>2 DEF Mentions
  <2>10. old.type = "rollback" => old.tx \notin committed'
    <3> SUFFICES ASSUME old.type = "rollback", old.tx \in committed' PROVE FALSE OBVIOUS
    <3>1. old.tx \in Tx /\ active[d] # old.tx /\ old.tx \notin committed
      BY <2>1, <2>2, <2>6 DEF Mentions
    <3>2. old.tx = active[c]
      BY <3>1, <1>8
    <3>3. QED BY <3>1, <3>2, <2>5
  <2>11. old.tx \in committed' => \E j \in i..Len(wire'[d]) : CommitAt(d, j, old.tx)'
    <3> SUFFICES ASSUME old.tx \in committed' PROVE \E j \in i..Len(wire'[d]) : CommitAt(d, j, old.tx)'
      OBVIOUS
    <3>0. Len(wire[d]) \in Nat /\ i \in Nat /\ i >= 1 /\ old.tx \in Tx
      <4>1. None \notin committed'
        BY <1>1, <1>2, <1>4, NoneApart
      <4>2. QED BY <2>3, <4>1, OnTheWire
    <3>1. CASE old.tx \in committed
      <4>1. PICK j \in i..Len(wire[d]) : CommitAt(d, j, old.tx)
        BY <2>1, <2>2, <3>1 DEF Mentions
      <4>2. j \in 1..Len(wire[d])
        BY <3>0
      <4>3. j \in i..Len(wire'[d]) /\ CommitAt(d, j, old.tx)'
        BY <3>0, <4>1, <4>2, <1>5, <1>6, <1>12
      <4>4. QED BY <4>3
    <3>2. CASE old.tx \notin committed
      <4>1. old.tx = u /\ cmd.type = "commit" /\ d = c
        BY <3>0, <3>2, <2>5, <1>8, <1>9
      <4>2. n \in i..Len(wire'[d])
        BY <4>1, <3>0, <1>5, <1>9
      <4>3. QED BY <4>1, <4>2, <1>11
    <3>3. QED BY <3>1, <3>2
  <2>12. QED BY <2>2, <2>4, <2>7, <2>8, <2>9, <2>10, <2>11, <1>1, Zenon DEF Mentions
<1>16. Mentions(c, n)'
  <2>1. wire'[c][n] = cmd /\ n = Len(wire'[c])
    BY <1>5, <1>9, <1>10
  <2>2. cmd.tx # None => cmd.tx \in 1..begun
    BY <1>1, <1>3
  <2>3. cmd.type \in {"commit", "rollback"} => active'[c] # cmd.tx
    BY <1>1, NoneApart DEF WellFormed
  <2>4. \A j \in (n + 1)..Len(wire'[c]) : FALSE
    BY <2>1, <1>5
  <2>5. cmd.type = "commit" => cmd.tx \in committed'
    BY <1>1
  <2>6. cmd.type = "rollback" => cmd.tx \notin committed'
    BY <1>1, <1>2, <1>3
  <2>7. cmd.tx \in committed' => \E j \in n..Len(wire'[c]) : CommitAt(c, j, u)'
    <3> SUFFICES ASSUME cmd.tx \in committed' PROVE \E j \in n..Len(wire'[c]) : CommitAt(c, j, u)'
      OBVIOUS
    <3>1. cmd.type = "commit"
      BY <1>1, <1>2, <1>3
    <3>2. n \in n..Len(wire'[c])
      BY <2>1, <1>5
    <3>3. QED BY <3>1, <3>2, <1>11
  <2>8. cmd.tx = u
    BY <1>1, <1>9
  <2>9. cmd.tx \in committed' => \E j \in n..Len(wire'[c]) : CommitAt(c, j, cmd.tx)'
    BY <2>7, <2>8
  <2>10. QED BY <2>1, <2>2, <2>3, <2>4, <2>5, <2>6, <2>9, <1>1, Zenon DEF Mentions
<1>17. \A d \in Conn : \A i \in 1..Len(wire'[d]) : Mentions(d, i)'
  <2> SUFFICES ASSUME NEW d \in Conn, NEW i \in 1..Len(wire'[d]) PROVE Mentions(d, i)'
    OBVIOUS
  <2>1. i \in 1..Len(wire[d]) \/ (d = c /\ i = n)
    BY <1>9, AfterSend
  <2>2. QED BY <2>1, <1>15, <1>16
<1>18. QED BY <1>13, <1>14, <1>17 DEF Endings

(* The commits on the wires after an execution: those of before, except    *)
(* the one that was executed, which was the only one of its transaction.   *)
LEMMA CommitsLeft ==
    ASSUME Types, Endings, OneUser, NEW c \in Conn, Takes(c), NEW cmd, cmd = wire[c][1],
           Len(wire[c]) \in Nat \ {0}, NEW t \in Tx
    PROVE  /\ CommitOnWire(t)' => CommitOnWire(t)
           /\ CommitOnWire(t) /\ ~(cmd.type = "commit" /\ cmd.tx = t) => CommitOnWire(t)'
           /\ cmd.type = "commit" /\ cmd.tx = t => ~CommitOnWire(t)'
<1>1. ASSUME CommitOnWire(t)' PROVE CommitOnWire(t)
  <2>1. PICK d \in Conn : \E i \in 1..Len(wire'[d]) : CommitAt(d, i, t)'
    BY <1>1 DEF CommitOnWire
  <2>2. PICK i \in 1..Len(wire'[d]) : CommitAt(d, i, t)'
    BY <2>1
  <2>3. PICK k \in 1..Len(wire[d]) : wire'[d][i] = wire[d][k]
    BY AfterTake
  <2>4. CommitAt(d, k, t)
    BY <2>2, <2>3 DEF CommitAt
  <2>5. QED BY <2>4 DEF CommitOnWire
<1>2. ASSUME CommitOnWire(t), ~(cmd.type = "commit" /\ cmd.tx = t) PROVE CommitOnWire(t)'
  <2>1. PICK d \in Conn : \E k \in 1..Len(wire[d]) : CommitAt(d, k, t)
    BY <1>2 DEF CommitOnWire
  <2>2. PICK k \in 1..Len(wire[d]) : CommitAt(d, k, t)
    BY <2>1
  <2>3. d # c \/ k # 1
    BY <1>2, <2>2 DEF CommitAt
  <2>4. PICK i \in 1..Len(wire'[d]) : wire'[d][i] = wire[d][k]
    BY <2>3, StillThere
  <2>5. CommitAt(d, i, t)'
    BY <2>2, <2>4 DEF CommitAt
  <2>6. QED BY <2>5 DEF CommitOnWire
<1>3. ASSUME cmd.type = "commit", cmd.tx = t, CommitOnWire(t)' PROVE FALSE
  <2>1. PICK d \in Conn : \E i \in 1..Len(wire'[d]) : CommitAt(d, i, t)'
    BY <1>3 DEF CommitOnWire
  <2>2. PICK i \in 1..Len(wire'[d]) : CommitAt(d, i, t)'
    BY <2>1
  <2>3. PICK k \in 1..Len(wire[d]) : wire'[d][i] = wire[d][k] /\ k = IF d = c THEN i + 1 ELSE i
    BY AfterTake
  <2>4. wire[d][k].tx = t
    BY <2>2, <2>3 DEF CommitAt
  <2>5. 1 \in 1..Len(wire[c])
    OBVIOUS
  <2>6. d = c
    BY <1>3, <2>4, <2>5, SpeakersAgree
  <2>7. k \in 2..Len(wire[c])
    BY <2>3, <2>6
  <2>8. Mentions(c, 1)
    BY <2>5 DEF Endings
  <2>9. \A j \in (1 + 1)..Len(wire[c]) : wire[c][j].tx # t
    BY <1>3, <2>8 DEF Mentions
  <2>10. QED BY <2>4, <2>6, <2>7, <2>9
<1>4. QED BY <1>1, <1>2, <1>3

(* The execution of a request keeps the ends of transactions.              *)
LEMMA EndingsExecute ==
    ASSUME Types, Endings, OneUser, NEW c \in Conn, Execute(c)
    PROVE  Endings'
<1>0. PICK cmd : cmd = wire[c][1]
  OBVIOUS
<1>1. Takes(c) /\ cmd \in Command /\ WellFormed(cmd) /\ Len(wire[c]) \in Nat \ {0}
  BY <1>0, Taken
<1>2. /\ ToBase(cmd) \/ ToLog(cmd) \/ Looks(cmd) \/ Merges(cmd) \/ Forgets(cmd)
      /\ UNCHANGED <<active, begun, committed>>
  BY <1>0, Executed
<1>3. Mentions(c, 1)
  BY <1>1 DEF Endings
<1>4. \A t \in Tx : /\ CommitOnWire(t) /\ ~(cmd.type = "commit" /\ cmd.tx = t) => CommitOnWire(t)'
                    /\ cmd.type = "commit" /\ cmd.tx = t => ~CommitOnWire(t)'
  BY <1>0, <1>1, CommitsLeft
<1>5. ActiveOpen'
  BY <1>2 DEF Endings, ActiveOpen
<1>6. Remembered'
  <2> SUFFICES ASSUME NEW t \in Tx, t \in committed, t \in transactions' \/ logs'[t] # <<>>
               PROVE  CommitOnWire(t)'
    BY <1>2 DEF Remembered
  <2>1. cmd.tx = t => \E j \in 1..Len(wire[c]) : CommitAt(c, j, t)
    BY <1>0, <1>3 DEF Mentions
  <2>2. cmd.tx = t => CommitOnWire(t)
    BY <2>1 DEF CommitOnWire
  <2>3. (t \in transactions \/ logs[t] # <<>>) => CommitOnWire(t)
    BY DEF Endings, Remembered
  <2>4. CASE ToBase(cmd) \/ ToLog(cmd) \/ Looks(cmd)
    <3>1. cmd.type # "commit"
      BY <2>4 DEF ToBase, ToLog, Looks
    <3>2. cmd.tx = t \/ t \in transactions \/ logs[t] # <<>>
      BY <2>4 DEF ToBase, ToLog, Looks, Transaction
    <3>3. QED BY <3>1, <3>2, <2>2, <2>3, <1>4
  <2>5. CASE Merges(cmd)
    <3>1. t # cmd.tx /\ (t \in transactions \/ logs[t] # <<>>)
      BY <2>5 DEF Merges
    <3>2. QED BY <3>1, <2>3, <1>4
  <2>6. CASE Forgets(cmd)
    <3>1. cmd.type = "rollback" /\ cmd.tx \notin committed
      BY <2>6, <1>0, <1>3 DEF Forgets, Mentions
    <3>2. t # cmd.tx /\ (t \in transactions \/ logs[t] # <<>>)
      BY <2>6, <3>1 DEF Forgets
    <3>3. QED BY <3>2, <2>3, <1>4
  <2>7. QED BY <1>2, <2>4, <2>5, <2>6
<1>7. ASSUME NEW d \in Conn, NEW i \in 1..Len(wire'[d]) PROVE Mentions(d, i)'
  <2>1. PICK k \in 1..Len(wire[d]) : wire'[d][i] = wire[d][k] /\ k = IF d = c THEN i + 1 ELSE i
    BY <1>1, AfterTake
  <2>2. PICK old : old = wire[d][k]
    OBVIOUS
  <2>3. Mentions(d, k)
    BY DEF Endings
  <2>4. /\ old.tx # None => old.tx \in 1..begun
        /\ old.type \in {"commit", "rollback"} =>
             /\ active[d] # old.tx
             /\ \A j \in (k + 1)..Len(wire[d]) : wire[d][j].tx # old.tx
        /\ old.type = "commit" => old.tx \in committed
        /\ old.type = "rollback" => old.tx \notin committed
        /\ old.tx \in committed => \E j \in k..Len(wire[d]) : CommitAt(d, j, old.tx)
    BY <2>2, <2>3, Zenon DEF Mentions
  <2>5. /\ Len(wire[d]) \in Nat
        /\ Len(wire'[d]) = IF d = c THEN Len(wire[d]) - 1 ELSE Len(wire[d])
    BY <1>1, OnTheWire DEF Takes
  <2>6. old.type \in {"commit", "rollback"} => \A j \in (i + 1)..Len(wire'[d]) : wire'[d][j].tx # old.tx
    <3> SUFFICES ASSUME old.type \in {"commit", "rollback"}, NEW j \in (i + 1)..Len(wire'[d])
                 PROVE  wire'[d][j].tx # old.tx
      OBVIOUS
    <3>1. j \in 1..Len(wire'[d]) /\ j \in Nat /\ i \in Nat /\ j > i
      BY <2>5
    <3>2. PICK m \in 1..Len(wire[d]) : wire'[d][j] = wire[d][m] /\ m = IF d = c THEN j + 1 ELSE j
      BY <1>1, <3>1, AfterTake
    <3>3. m \in (k + 1)..Len(wire[d])
      BY <2>1, <3>1, <3>2
    <3>4. QED BY <2>4, <3>2, <3>3
  <2>7. old.tx \in committed => \E j \in i..Len(wire'[d]) : CommitAt(d, j, old.tx)'
    <3> SUFFICES ASSUME old.tx \in committed PROVE \E j \in i..Len(wire'[d]) : CommitAt(d, j, old.tx)'
      OBVIOUS
    <3>1. PICK m \in k..Len(wire[d]) : CommitAt(d, m, old.tx)
      BY <2>4
    <3>2. m \in 1..Len(wire[d]) /\ (d # c \/ m # 1) /\ m >= k /\ m \in Nat
      BY <2>1, <2>5
    <3>3. PICK j \in 1..Len(wire'[d]) : wire'[d][j] = wire[d][m] /\ m = IF d = c THEN j + 1 ELSE j
      BY <1>1, <3>2, StillThere
    <3>4. j \in i..Len(wire'[d])
      BY <2>1, <2>5, <3>2, <3>3
    <3>5. CommitAt(d, j, old.tx)'
      BY <3>1, <3>3 DEF CommitAt
    <3>6. QED BY <3>4, <3>5
  <2>8. wire'[d][i] = old
    BY <2>1, <2>2
  <2>9. QED BY <2>4, <2>6, <2>7, <2>8, <1>2, Zenon DEF Mentions
<1>8. QED BY <1>5, <1>6, <1>7 DEF Endings

-----------------------------------------------------------------------------
(* What was written, and where it is.                                       *)

(* Nothing new is written, and nothing moves.                              *)
LEMMA NumbersStill ==
    ASSUME Types, Numbers, Still
    PROVE  Numbers'
<1>1. UNCHANGED <<wire, logs, base, requests, written, committed>>
  BY DEF Still
<1>2. begun \in Nat /\ (begun' = begun \/ begun' = begun + 1)
  BY NoneApart DEF Still, Types
<1>3. Stamped'
  BY <1>1, <1>2 DEF Numbers, Stamped
<1>4. OnWires'
  BY <1>1 DEF Numbers, OnWires, Inserted, Dropped
<1>5. InLogs'
  BY <1>1 DEF Numbers, InLogs, Inserted, Dropped
<1>6. \A t : CommitOnWire(t)' <=> CommitOnWire(t)
  BY <1>1 DEF CommitOnWire, CommitAt
<1>7. /\ \A n, d, t : Inserted(n, d, t)' <=> Inserted(n, d, t)
      /\ \A t : Dropped(t)' <=> Dropped(t)
  BY <1>1 DEF Inserted, Dropped
<1>8. InBase'
  <2> SUFFICES ASSUME NEW i \in 1..Len(base), NEW x, x = base[i]
               PROVE  \E t \in committed \union {None} :
                        IF x = Drop THEN Dropped(t)'
                        ELSE (\E d \in Conn : Inserted(x, d, t)') /\ (t \in Tx => ~CommitOnWire(t)')
    BY <1>1, Zenon DEF InBase
  <2>1. PICK t \in committed \union {None} :
          IF x = Drop THEN Dropped(t)
          ELSE (\E d \in Conn : Inserted(x, d, t)) /\ (t \in Tx => ~CommitOnWire(t))
    BY DEF Numbers, InBase
  <2>2. QED BY <2>1, <1>6, <1>7
<1>9. QED BY <1>3, <1>4, <1>5, <1>8 DEF Numbers

(* A send gives a new number to what it writes.                            *)
LEMMA NumbersSending ==
    ASSUME Types, Endings, Numbers, NEW c, NEW cmd, Sending(c, cmd)
    PROVE  Numbers'
<1>1. /\ c \in Conn /\ cmd \in Command /\ cmd.tx = active[c]
      /\ (cmd.type = "insert" => cmd.value = requests + 1)
      /\ requests' = requests + 1
      /\ committed \subseteq committed'
      /\ UNCHANGED <<logs, base, begun>>
  BY DEF Sending
<1>2. PICK new : new = [n |-> requests + 1, op |-> cmd.type, conn |-> c, tx |-> active[c]]
  OBVIOUS
<1>3. written' = IF cmd.type \in {"insert", "dropnamespace"} THEN written \union {new} ELSE written
  BY <1>2 DEF Sending
<1>4. written \subseteq written' /\ written' \subseteq written \union {new}
  BY <1>3
<1>5. requests \in Nat
  BY NoneApart DEF Types
<1>6. active[c] \in {None} \union 1..begun
  BY <1>1 DEF Endings, ActiveOpen
<1>7. new.n = requests + 1 /\ new.op = cmd.type /\ new.conn = c /\ new.tx = active[c]
  BY <1>2
<1>8. Stamped'
  <2>1. IsFiniteSet(written')
    BY <1>3, FS_AddElement DEF Numbers, Stamped
  <2>2. \A w \in written' : w.n \in 1..requests' /\ w.conn \in Conn /\ w.tx \in {None} \union 1..begun'
    <3> SUFFICES ASSUME NEW w \in written'
                 PROVE  w.n \in 1..requests' /\ w.conn \in Conn /\ w.tx \in {None} \union 1..begun'
      OBVIOUS
    <3>1. CASE w \in written
      <4>1. w.n \in 1..requests /\ w.conn \in Conn /\ w.tx \in {None} \union 1..begun
        BY <3>1 DEF Numbers, Stamped
      <4>2. QED BY <4>1, <1>1, <1>5
    <3>2. CASE w = new
      BY <3>2, <1>1, <1>5, <1>6, <1>7
    <3>3. QED BY <3>1, <3>2, <1>4
  <2>3. \A w \in written' : /\ w.op \in {"insert", "dropnamespace"}
                            /\ w = [n |-> w.n, op |-> w.op, conn |-> w.conn, tx |-> w.tx]
    <3>1. \A w \in written : /\ w.op \in {"insert", "dropnamespace"}
                             /\ w = [n |-> w.n, op |-> w.op, conn |-> w.conn, tx |-> w.tx]
      BY DEF Numbers, Stamped
    <3>2. new = [n |-> new.n, op |-> new.op, conn |-> new.conn, tx |-> new.tx]
      BY <1>2
    <3>3. new \in written' \ written => new.op \in {"insert", "dropnamespace"}
      BY <1>3, <1>7
    <3>4. QED BY <3>1, <3>2, <3>3, <1>4
  <2>4. \A v, w \in written' : v.n = w.n => v = w
    <3>1. \A v, w \in written : v.n = w.n => v = w
      BY DEF Numbers, Stamped
    <3>2. \A w \in written : w.n # new.n
      BY <1>5, <1>7 DEF Numbers, Stamped
    <3>3. QED BY <3>1, <3>2, <1>4
  <2>5. QED BY <2>1, <2>2, <2>3, <2>4 DEF Stamped
<1>9. \A n, d, t : Inserted(n, d, t) => Inserted(n, d, t)'
  BY <1>4 DEF Inserted
<1>10. \A t : Dropped(t) => Dropped(t)'
  BY <1>4 DEF Dropped
<1>11. OnWires'
  <2> SUFFICES ASSUME NEW d \in Conn, NEW i \in 1..Len(wire'[d]), NEW k, k = wire'[d][i]
               PROVE  /\ k.type = "insert" => Inserted(k.value, d, k.tx)'
                      /\ k.type = "dropnamespace" => Dropped(k.tx)'
    BY Zenon DEF OnWires
  <2>1. CASE i \in 1..Len(wire[d]) /\ k = wire[d][i]
    <3>1. /\ k.type = "insert" => Inserted(k.value, d, k.tx)
          /\ k.type = "dropnamespace" => Dropped(k.tx)
      BY <2>1 DEF Numbers, OnWires
    <3>2. QED BY <3>1, <1>9, <1>10
  <2>2. CASE d = c /\ k = cmd
    <3>1. cmd.type = "insert" => new = [n |-> cmd.value, op |-> "insert", conn |-> c, tx |-> cmd.tx]
      BY <1>1, <1>2
    <3>2. cmd.type \in {"insert", "dropnamespace"} => new \in written'
      BY <1>3
    <3>3. cmd.type = "insert" => Inserted(cmd.value, c, cmd.tx)'
      BY <3>1, <3>2 DEF Inserted
    <3>4. cmd.type = "dropnamespace" => Dropped(cmd.tx)'
      BY <3>2, <1>1, <1>7 DEF Dropped
    <3>5. QED BY <2>2, <3>3, <3>4
  <2>3. QED BY <2>1, <2>2, AfterSend
<1>12. InLogs'
  <2> SUFFICES ASSUME NEW t \in Tx, NEW i \in 1..Len(logs[t]), NEW x, x = logs[t][i]
               PROVE  IF x = Drop THEN Dropped(t)' ELSE \E d \in Conn : Inserted(x, d, t)'
    BY <1>1, Zenon DEF InLogs
  <2>1. IF x = Drop THEN Dropped(t) ELSE \E d \in Conn : Inserted(x, d, t)
    BY DEF Numbers, InLogs
  <2>2. QED BY <2>1, <1>9, <1>10
<1>13. InBase'
  <2> SUFFICES ASSUME NEW i \in 1..Len(base), NEW x, x = base[i]
               PROVE  \E t \in committed' \union {None} :
                        IF x = Drop THEN Dropped(t)'
                        ELSE (\E d \in Conn : Inserted(x, d, t)') /\ (t \in Tx => ~CommitOnWire(t)')
    BY <1>1, Zenon DEF InBase
  <2>1. PICK t \in committed \union {None} :
          IF x = Drop THEN Dropped(t)
          ELSE (\E d \in Conn : Inserted(x, d, t)) /\ (t \in Tx => ~CommitOnWire(t))
    BY DEF Numbers, InBase
  <2>2. t \in Tx /\ ~CommitOnWire(t) => ~CommitOnWire(t)'
    <3> SUFFICES ASSUME t \in Tx, ~CommitOnWire(t), CommitOnWire(t)' PROVE FALSE
      OBVIOUS
    <3>1. PICK d \in Conn : \E j \in 1..Len(wire'[d]) : CommitAt(d, j, t)'
      BY DEF CommitOnWire
    <3>2. PICK j \in 1..Len(wire'[d]) : CommitAt(d, j, t)'
      BY <3>1
    <3>3. CASE j \in 1..Len(wire[d]) /\ wire'[d][j] = wire[d][j]
      BY <3>2, <3>3 DEF CommitOnWire, CommitAt
    <3>4. CASE d = c /\ wire'[d][j] = cmd
      <4>1. active[c] = t /\ t # None
        BY <3>2, <3>4, <1>1, NoneApart DEF CommitAt
      <4>2. t \notin committed
        BY <4>1, <1>1 DEF Endings, ActiveOpen
      <4>3. QED BY <4>1, <4>2, <2>1
    <3>5. QED BY <3>3, <3>4, AfterSend
  <2>3. t \in committed' \union {None}
    BY <1>1
  <2>4. IF x = Drop THEN Dropped(t)'
        ELSE (\E d \in Conn : Inserted(x, d, t)') /\ (t \in Tx => ~CommitOnWire(t)')
    BY <2>1, <2>2, <1>9, <1>10
  <2>5. QED BY <2>3, <2>4
<1>14. QED BY <1>8, <1>11, <1>12, <1>13 DEF Numbers

(* An execution moves what was written from the wire to a log, and from    *)
(* the log of a transaction to the base when it is committed.              *)
LEMMA NumbersExecute ==
    ASSUME Types, Endings, OneUser, Numbers, NEW c \in Conn, Execute(c)
    PROVE  Numbers'
<1>0. PICK cmd : cmd = wire[c][1]
  OBVIOUS
<1>1. Takes(c) /\ cmd \in Command /\ WellFormed(cmd) /\ Len(wire[c]) \in Nat \ {0}
  BY <1>0, Taken
<1>2. /\ ToBase(cmd) \/ ToLog(cmd) \/ Looks(cmd) \/ Merges(cmd) \/ Forgets(cmd)
      /\ UNCHANGED <<begun, committed, requests, written>>
  BY <1>0, Executed
<1>3. /\ \A n, d, t : Inserted(n, d, t)' <=> Inserted(n, d, t)
      /\ \A t : Dropped(t)' <=> Dropped(t)
  BY <1>2 DEF Inserted, Dropped
<1>4. Stamped'
  BY <1>2 DEF Numbers, Stamped
<1>5. OnWires'
  <2> SUFFICES ASSUME NEW d \in Conn, NEW i \in 1..Len(wire'[d]), NEW k, k = wire'[d][i]
               PROVE  /\ k.type = "insert" => Inserted(k.value, d, k.tx)'
                      /\ k.type = "dropnamespace" => Dropped(k.tx)'
    BY Zenon DEF OnWires
  <2>1. \E j \in 1..Len(wire[d]) : k = wire[d][j]
    BY <1>1, AfterTake
  <2>2. /\ k.type = "insert" => Inserted(k.value, d, k.tx)
        /\ k.type = "dropnamespace" => Dropped(k.tx)
    BY <2>1 DEF Numbers, OnWires
  <2>3. QED BY <2>2, <1>3
<1>6. PICK op : op = OpOf(cmd)
  OBVIOUS
<1>7. cmd.type \in {"insert", "dropnamespace"} =>
        IF op = Drop THEN Dropped(cmd.tx) ELSE \E d \in Conn : Inserted(op, d, cmd.tx)
  <2>1. /\ cmd.type = "insert" => Inserted(cmd.value, c, cmd.tx) /\ cmd.value \in 1..MaxRequests
        /\ cmd.type = "dropnamespace" => Dropped(cmd.tx)
    BY <1>0, <1>1 DEF Numbers, OnWires, WellFormed
  <2>2. cmd.type = "insert" => op = cmd.value /\ op # Drop
    BY <2>1, <1>6, NoneApart DEF OpOf, Drop
  <2>3. cmd.type = "dropnamespace" => op = Drop
    BY <1>6 DEF OpOf
  <2>4. QED BY <2>1, <2>2, <2>3
<1>8. InLogs'
  <2> SUFFICES ASSUME NEW t \in Tx, NEW i \in 1..Len(logs'[t]), NEW x, x = logs'[t][i]
               PROVE  IF x = Drop THEN Dropped(t) ELSE \E d \in Conn : Inserted(x, d, t)
    BY <1>3, Zenon DEF InLogs
  <2>1. CASE i \in 1..Len(logs[t]) /\ x = logs[t][i]
    BY <2>1 DEF Numbers, InLogs
  <2>2. CASE ToLog(cmd) /\ t = cmd.tx /\ x = op
    BY <2>2, <1>7 DEF ToLog
  <2>3. logs'[t] = <<>> => FALSE
    BY EmptySeq
  <2>4. CASE ToLog(cmd) /\ t = cmd.tx
    <3>1. Len(logs[t]) \in Nat
      BY TheLogs
    <3>2. i \in 1..Len(logs[t]) \/ i = Len(logs[t]) + 1
      BY <2>4, <3>1 DEF ToLog
    <3>3. (i \in 1..Len(logs[t]) /\ x = logs[t][i]) \/ x = op
      BY <2>4, <3>2, <1>6 DEF ToLog
    <3>4. QED BY <2>1, <2>2, <2>4, <3>3
  <2>5. CASE ~(ToLog(cmd) /\ t = cmd.tx)
    <3>1. logs'[t] = logs[t]
      BY <2>3, <2>5, <1>2 DEF ToBase, ToLog, Looks, Merges, Forgets
    <3>2. QED BY <2>1, <3>1
  <2>6. QED BY <2>4, <2>5
<1>9. \A t \in Tx : /\ ~CommitOnWire(t) => ~CommitOnWire(t)'
                    /\ cmd.type = "commit" /\ cmd.tx = t => ~CommitOnWire(t)'
  BY <1>0, <1>1, CommitsLeft
<1>10. InBase'
  <2> DEFINE Stands(x) == \E t \in committed \union {None} :
                        IF x = Drop THEN Dropped(t)
                        ELSE (\E d \in Conn : Inserted(x, d, t)) /\ (t \in Tx => ~CommitOnWire(t)')
  <2> SUFFICES ASSUME NEW i \in 1..Len(base'), NEW x, x = base'[i] PROVE Stands(x)
    BY <1>2, <1>3, Zenon DEF InBase
  <2>1. ASSUME i \in 1..Len(base), x = base[i] PROVE Stands(x)
    <3>1. PICK t \in committed \union {None} :
            IF x = Drop THEN Dropped(t)
            ELSE (\E d \in Conn : Inserted(x, d, t)) /\ (t \in Tx => ~CommitOnWire(t))
      BY <2>1 DEF Numbers, InBase
    <3>2. QED BY <3>1, <1>9
  <2>2. CASE ToBase(cmd)
    <3>1. Len(base) \in Nat
      BY TheLogs
    <3>2. (i \in 1..Len(base) /\ x = base[i]) \/ x = op
      BY <2>2, <3>1, <1>6 DEF ToBase
    <3>3. ASSUME x = op PROVE Stands(x)
      <4>1. cmd.tx = None /\ cmd.type \in {"insert", "dropnamespace"}
        BY <2>2 DEF ToBase
      <4>2. IF x = Drop THEN Dropped(None) ELSE \E d \in Conn : Inserted(x, d, None)
        BY <3>3, <4>1, <1>7
      <4>3. QED BY <4>2, NoneApart
    <3>4. QED BY <2>1, <3>2, <3>3
  <2>3. CASE ToLog(cmd) \/ Looks(cmd) \/ Forgets(cmd)
    <3>1. base' = base
      BY <2>3 DEF ToLog, Looks, Forgets
    <3>2. QED BY <2>1, <3>1
  <2>4. CASE Merges(cmd)
    <3>1. PICK t \in Tx : t = cmd.tx
      BY <2>4 DEF Merges
    <3>2. Len(base) \in Nat /\ Len(logs[t]) \in Nat
      BY TheLogs
    <3>3. Len(base') = Len(base) + Len(logs[t])
      BY <2>4, <3>1 DEF Merges
    <3>4. i \in 1..Len(base) \/ (i - Len(base) \in 1..Len(logs[t]) /\ i = Len(base) + (i - Len(base)))
      BY <3>2, <3>3
    <3>5. CASE i \in 1..Len(base)
      BY <2>1, <2>4, <3>5 DEF Merges
    <3>6. CASE i - Len(base) \in 1..Len(logs[t]) /\ i = Len(base) + (i - Len(base))
      <4>1. PICK j \in 1..Len(logs[t]) : i = Len(base) + j
        BY <3>6
      <4>2. x = logs[t][j]
        BY <2>4, <3>1, <4>1 DEF Merges
      <4>3. IF x = Drop THEN Dropped(t) ELSE \E d \in Conn : Inserted(x, d, t)
        BY <4>2 DEF Numbers, InLogs
      <4>4. cmd.type = "commit" /\ ~CommitOnWire(t)'
        BY <2>4, <3>1, <1>9 DEF Merges
      <4>5. t \in committed
        <5>1. Mentions(c, 1)
          BY <1>1 DEF Endings
        <5>2. QED BY <3>1, <4>4, <5>1, <1>0 DEF Mentions
      <4>6. QED BY <4>3, <4>4, <4>5
    <3>7. QED BY <3>4, <3>5, <3>6
  <2>5. QED BY <1>2, <2>2, <2>3, <2>4
<1>11. QED BY <1>4, <1>5, <1>8, <1>10 DEF Numbers

(* A number belongs to one insert.                                         *)
LEMMA OneInsert ==
    ASSUME Types, Stamped, NEW n, NEW c, NEW t, Inserted(n, c, t)
    PROVE  /\ n \in 1..requests /\ n # Drop /\ c \in Conn /\ t \in {None} \union 1..begun
           /\ \A d, u : Inserted(n, d, u) => d = c /\ u = t
           /\ \A w \in written : w.n = n => w.op = "insert" /\ w.conn = c /\ w.tx = t
<1>1. PICK v \in written : v = [n |-> n, op |-> "insert", conn |-> c, tx |-> t]
  BY DEF Inserted
<1>2. v.n = n /\ v.op = "insert" /\ v.conn = c /\ v.tx = t
  BY <1>1
<1>3. n \in 1..requests /\ c \in Conn /\ t \in {None} \union 1..begun
  BY <1>2 DEF Stamped
<1>4. n # Drop
  BY <1>3, NoneApart DEF Drop, Types
<1>5. \A w \in written : w.n = n => w.op = "insert" /\ w.conn = c /\ w.tx = t
  BY <1>2 DEF Stamped
<1>6. ASSUME NEW d, NEW u, Inserted(n, d, u) PROVE d = c /\ u = t
  <2>1. PICK w \in written : w = [n |-> n, op |-> "insert", conn |-> d, tx |-> u]
    BY <1>6 DEF Inserted
  <2>2. w.n = n /\ w.conn = d /\ w.tx = u
    BY <2>1
  <2>3. QED BY <1>5, <2>2
<1>7. QED BY <1>3, <1>4, <1>5, <1>6

(* The numbers on the wires and in the logs were given before.             *)
LEMMA OldNumbers ==
    ASSUME Types, Numbers
    PROVE  /\ requests \in Nat
           /\ \A c \in Conn : \A i \in 1..Len(wire[c]) :
                wire[c][i].type = "insert" => wire[c][i].value \in 1..requests
           /\ \A t \in Tx : \A i \in 1..Len(logs[t]) : logs[t][i] \in 0..requests
           /\ \A i \in 1..Len(base) : base[i] \in 0..requests
<1>0. Stamped /\ OnWires /\ InLogs /\ InBase
  BY DEF Numbers
<1>1. requests \in Nat /\ Drop \in 0..requests
  BY NoneApart DEF Types, Drop
<1>2. \A n, c, t : Inserted(n, c, t) => n \in 1..requests
  BY <1>0, OneInsert
<1>3. \A n \in 1..requests : n \in 0..requests
  BY <1>1
<1>4. QED BY <1>0, <1>1, <1>2, <1>3 DEF OnWires, InLogs, InBase

(* Order when nothing is sent.                                             *)
LEMMA OrderedStill ==
    ASSUME Types, Ordered, Still
    PROVE  Ordered'
<1>1. UNCHANGED <<wire, logs, base, written>>
  BY DEF Still
<1>2. WireOrder' /\ LogOrder'
  BY <1>1 DEF Ordered, WireOrder, LogOrder
<1>3. BaseOrder'
  BY <1>1 DEF Ordered, BaseOrder, Inserted
<1>4. QED BY <1>2, <1>3 DEF Ordered

(* A new insert has a larger number than all before it.                    *)
LEMMA OrderedSending ==
    ASSUME Types, Numbers, Ordered, NEW c, NEW cmd, Sending(c, cmd)
    PROVE  Ordered'
<1>0. Stamped /\ WireOrder /\ LogOrder /\ BaseOrder
  BY DEF Numbers, Ordered
<1>1. /\ c \in Conn /\ (cmd.type = "insert" => cmd.value = requests + 1)
      /\ UNCHANGED <<logs, base>>
  BY DEF Sending
<1>2. /\ requests \in Nat
      /\ \A d \in Conn : \A i \in 1..Len(wire[d]) :
           wire[d][i].type = "insert" => wire[d][i].value \in 1..requests
      /\ \A t \in Tx : \A i \in 1..Len(logs[t]) : logs[t][i] \in 0..requests
      /\ \A i \in 1..Len(base) : base[i] \in 0..requests
  BY OldNumbers
<1>3. \A n \in 0..requests : n < requests + 1 /\ n # requests + 1
  BY <1>2
<1>4. \A n \in 1..requests : n \in 0..requests
  BY <1>2
<1>5. WireOrder'
  <2> SUFFICES ASSUME NEW d \in Conn, NEW i \in 1..Len(wire'[d]), NEW j \in 1..Len(wire'[d]), i < j,
                      wire'[d][i].type = "insert", wire'[d][j].type = "insert"
               PROVE  wire'[d][i].value < wire'[d][j].value
    BY DEF WireOrder
  <2>0. Len(wire[d]) \in Nat
    BY OnTheWire
  <2>1. CASE j \in 1..Len(wire[d]) /\ wire'[d][j] = wire[d][j]
    <3>1. i \in 1..Len(wire[d])
      BY <2>0, <2>1
    <3>2. i # Len(wire[d]) + 1
      BY <2>0, <3>1
    <3>3. wire'[d][i] = wire[d][i]
      BY <3>2, AfterSend
    <3>4. QED BY <2>1, <3>1, <3>3, <1>0 DEF WireOrder
  <2>2. CASE d = c /\ j = Len(wire[c]) + 1 /\ wire'[d][j] = cmd
    <3>1. i # Len(wire[c]) + 1
      BY <2>0, <2>2
    <3>2. i \in 1..Len(wire[d]) /\ wire'[d][i] = wire[d][i]
      BY <3>1, AfterSend
    <3>3. wire[d][i].value \in 1..requests
      BY <3>2, <1>2
    <3>4. QED BY <2>2, <3>2, <3>3, <1>1, <1>3, <1>4
  <2>3. QED BY <2>1, <2>2, AfterSend
<1>6. LogOrder'
  <2> SUFFICES ASSUME NEW t \in Tx, NEW i \in 1..Len(logs[t]), logs[t][i] # Drop
               PROVE  /\ \A j \in (i + 1)..Len(logs[t]) : logs[t][j] # Drop => logs[t][i] < logs[t][j]
                      /\ \A d \in Conn : \A j \in 1..Len(wire'[d]) :
                           wire'[d][j].type = "insert" /\ wire'[d][j].tx = t
                             => logs[t][i] < wire'[d][j].value
    BY <1>1, Zenon DEF LogOrder
  <2>1. \A j \in (i + 1)..Len(logs[t]) : logs[t][j] # Drop => logs[t][i] < logs[t][j]
    BY <1>0 DEF LogOrder
  <2>2. ASSUME NEW d \in Conn, NEW j \in 1..Len(wire'[d]),
               wire'[d][j].type = "insert", wire'[d][j].tx = t
        PROVE  logs[t][i] < wire'[d][j].value
    <3>1. CASE j \in 1..Len(wire[d]) /\ wire'[d][j] = wire[d][j]
      BY <2>2, <3>1, <1>0 DEF LogOrder
    <3>2. CASE wire'[d][j] = cmd
      BY <2>2, <3>2, <1>1, <1>2, <1>3
    <3>3. QED BY <3>1, <3>2, AfterSend
  <2>3. QED BY <2>1, <2>2
<1>7. \A n \in 0..requests : \A d, t : Inserted(n, d, t)' => Inserted(n, d, t)
  <2> SUFFICES ASSUME NEW n \in 0..requests, NEW d, NEW t, Inserted(n, d, t)' PROVE Inserted(n, d, t)
    OBVIOUS
  <2>1. PICK w \in written' : w = [n |-> n, op |-> "insert", conn |-> d, tx |-> t]
    BY DEF Inserted
  <2>2. w.n = n
    BY <2>1
  <2>3. w \in written \/ w = [n |-> requests + 1, op |-> cmd.type, conn |-> c, tx |-> active[c]]
    BY DEF Sending
  <2>4. w = [n |-> requests + 1, op |-> cmd.type, conn |-> c, tx |-> active[c]] => w.n = requests + 1
    OBVIOUS
  <2>5. w \in written
    BY <2>2, <2>3, <2>4, <1>3
  <2>6. QED BY <2>1, <2>5 DEF Inserted
<1>8. BaseOrder'
  <2> SUFFICES ASSUME NEW i \in 1..Len(base), NEW d \in Conn, NEW t \in Tx \union {None},
                      Inserted(base[i], d, t)
               PROVE  /\ \A j \in (i + 1)..Len(base) : Inserted(base[j], d, t)' => base[i] < base[j]
                      /\ t = None => \A j \in 1..Len(wire'[d]) :
                           wire'[d][j].type = "insert" /\ wire'[d][j].tx = None
                             => base[i] < wire'[d][j].value
    <3>1. \A i \in 1..Len(base) : \A d, t : Inserted(base[i], d, t)' => Inserted(base[i], d, t)
      <4> SUFFICES ASSUME NEW i \in 1..Len(base), NEW d, NEW t, Inserted(base[i], d, t)'
                   PROVE  Inserted(base[i], d, t)
        OBVIOUS
      <4>1. PICK n : n = base[i] /\ n = base'[i]
        BY <1>1
      <4>2. Inserted(n, d, t)' /\ n \in 0..requests
        BY <4>1, <1>2
      <4>3. QED BY <4>1, <4>2, <1>7
    <3>2. QED BY <1>1, <3>1, Zenon DEF BaseOrder
  <2>1. ASSUME NEW j \in (i + 1)..Len(base), Inserted(base[j], d, t)' PROVE base[i] < base[j]
    <3>1. Len(base) \in Nat /\ j \in 1..Len(base)
      <4>1. Len(base) \in Nat
        BY TheLogs
      <4>2. QED BY <4>1
    <3>2. PICK n : n = base[j] /\ n = base'[j]
      BY <1>1
    <3>3. Inserted(n, d, t)' /\ n \in 0..requests
      BY <2>1, <3>1, <3>2, <1>2
    <3>4. Inserted(base[j], d, t)
      BY <3>2, <3>3, <1>7
    <3>5. QED BY <3>4, <1>0 DEF BaseOrder
  <2>2. ASSUME t = None, NEW j \in 1..Len(wire'[d]),
               wire'[d][j].type = "insert", wire'[d][j].tx = None
        PROVE  base[i] < wire'[d][j].value
    <3>1. CASE j \in 1..Len(wire[d]) /\ wire'[d][j] = wire[d][j]
      BY <2>2, <3>1, <1>0 DEF BaseOrder
    <3>2. CASE wire'[d][j] = cmd
      BY <2>2, <3>2, <1>1, <1>2, <1>3
    <3>3. QED BY <3>1, <3>2, AfterSend
  <2>3. QED BY <2>1, <2>2
<1>9. QED BY <1>5, <1>6, <1>8 DEF Ordered

(* An execution moves the first request of a wire behind what is in its    *)
(* log, and a commit the log of its transaction behind the base.           *)
LEMMA OrderedExecute ==
    ASSUME Types, Endings, OneUser, Numbers, Ordered, NEW c \in Conn, Execute(c)
    PROVE  Ordered'
<1>0. PICK cmd, op : cmd = wire[c][1] /\ op = OpOf(cmd)
  OBVIOUS
<1>1. Takes(c) /\ cmd \in Command /\ WellFormed(cmd) /\ Len(wire[c]) \in Nat \ {0}
  BY <1>0, Taken
<1>2. /\ ToBase(cmd) \/ ToLog(cmd) \/ Looks(cmd) \/ Merges(cmd) \/ Forgets(cmd)
      /\ UNCHANGED <<begun, committed, requests, written>>
  BY <1>0, Executed
<1>3. Stamped /\ OnWires /\ InLogs /\ InBase /\ WireOrder /\ LogOrder /\ BaseOrder
  BY DEF Numbers, Ordered
<1>4. \A n, d, t : Inserted(n, d, t)' <=> Inserted(n, d, t)
  BY <1>2 DEF Inserted
<1>5. 1 \in 1..Len(wire[c])
  BY <1>1
<1>6. op # Drop /\ cmd.type \in {"insert", "dropnamespace"} =>
        cmd.type = "insert" /\ op = wire[c][1].value /\ Inserted(op, c, cmd.tx)
  BY <1>0, <1>3, <1>5 DEF OpOf, OnWires
<1>7. \A d \in Conn : \A j \in 1..Len(wire'[d]) :
        \E k \in 1..Len(wire[d]) : wire'[d][j] = wire[d][k] /\ (d = c => k = j + 1 /\ 1 < k)
  <2> SUFFICES ASSUME NEW d \in Conn, NEW j \in 1..Len(wire'[d])
               PROVE  \E k \in 1..Len(wire[d]) : wire'[d][j] = wire[d][k] /\ (d = c => k = j + 1 /\ 1 < k)
    OBVIOUS
  <2>1. PICK k \in 1..Len(wire[d]) : wire'[d][j] = wire[d][k] /\ k = IF d = c THEN j + 1 ELSE j
    BY <1>1, AfterTake
  <2>2. j \in Nat /\ j >= 1
    OBVIOUS
  <2>3. QED BY <2>1, <2>2
<1>8. WireOrder'
  <2> SUFFICES ASSUME NEW d \in Conn, NEW i \in 1..Len(wire'[d]), NEW j \in 1..Len(wire'[d]), i < j,
                      wire'[d][i].type = "insert", wire'[d][j].type = "insert"
               PROVE  wire'[d][i].value < wire'[d][j].value
    BY DEF WireOrder
  <2>1. PICK k \in 1..Len(wire[d]) : wire'[d][i] = wire[d][k] /\ k = IF d = c THEN i + 1 ELSE i
    BY <1>1, AfterTake
  <2>2. PICK m \in 1..Len(wire[d]) : wire'[d][j] = wire[d][m] /\ m = IF d = c THEN j + 1 ELSE j
    BY <1>1, AfterTake
  <2>3. k < m
    BY <2>1, <2>2
  <2>4. QED BY <2>1, <2>2, <2>3, <1>3 DEF WireOrder
<1>9. LogOrder'
  <2> SUFFICES ASSUME NEW t \in Tx, NEW i \in 1..Len(logs'[t]), logs'[t][i] # Drop
               PROVE  /\ \A j \in (i + 1)..Len(logs'[t]) : logs'[t][j] # Drop => logs'[t][i] < logs'[t][j]
                      /\ \A d \in Conn : \A j \in 1..Len(wire'[d]) :
                           wire'[d][j].type = "insert" /\ wire'[d][j].tx = t
                             => logs'[t][i] < wire'[d][j].value
    BY Zenon DEF LogOrder
  <2>0. Len(logs[t]) \in Nat
    BY TheLogs
  <2>1. ASSUME i \in 1..Len(logs[t]), logs'[t][i] = logs[t][i]
        PROVE  \A d \in Conn : \A j \in 1..Len(wire'[d]) :
                           wire'[d][j].type = "insert" /\ wire'[d][j].tx = t
                             => logs'[t][i] < wire'[d][j].value
    <3> SUFFICES ASSUME NEW d \in Conn, NEW j \in 1..Len(wire'[d]),
                        wire'[d][j].type = "insert", wire'[d][j].tx = t
                 PROVE  logs'[t][i] < wire'[d][j].value
      OBVIOUS
    <3>1. PICK k \in 1..Len(wire[d]) : wire'[d][j] = wire[d][k]
      BY <1>7
    <3>2. logs[t][i] # Drop /\ wire[d][k].type = "insert" /\ wire[d][k].tx = t
      BY <2>1, <3>1
    <3>3. logs[t][i] < wire[d][k].value
      BY <2>1, <3>2, <1>3 DEF LogOrder
    <3>4. QED BY <2>1, <3>1, <3>3
  <2>2. CASE ToLog(cmd) /\ t = cmd.tx
    <3>1. /\ Len(logs'[t]) = Len(logs[t]) + 1 /\ logs'[t][Len(logs[t]) + 1] = op
          /\ \A j \in 1..Len(logs[t]) : logs'[t][j] = logs[t][j]
          /\ cmd.type \in {"insert", "dropnamespace"}
      BY <2>2, <1>0 DEF ToLog
    <3>2. CASE i \in 1..Len(logs[t])
      <4>1. ASSUME NEW j \in (i + 1)..Len(logs'[t]), logs'[t][j] # Drop
            PROVE  logs'[t][i] < logs'[t][j]
        <5>1. j \in (i + 1)..Len(logs[t]) \/ j = Len(logs[t]) + 1
          BY <2>0, <3>1, <3>2
        <5>2. CASE j \in (i + 1)..Len(logs[t])
          <6>1. j \in 1..Len(logs[t])
            BY <2>0, <3>2, <5>2
          <6>2. QED BY <3>1, <3>2, <4>1, <5>2, <6>1, <1>3 DEF LogOrder
        <5>3. CASE j = Len(logs[t]) + 1
          <6>1. op # Drop /\ logs'[t][j] = op
            BY <3>1, <4>1, <5>3
          <6>2. cmd.type = "insert" /\ op = wire[c][1].value /\ wire[c][1].tx = t
            BY <2>2, <3>1, <6>1, <1>0, <1>6
          <6>3. logs[t][i] < wire[c][1].value
            BY <3>1, <3>2, <6>2, <1>0, <1>3, <1>5 DEF LogOrder
          <6>4. QED BY <3>1, <3>2, <6>1, <6>2, <6>3
        <5>4. QED BY <5>1, <5>2, <5>3
      <4>2. QED BY <2>1, <3>1, <3>2, <4>1
    <3>3. CASE i = Len(logs[t]) + 1
      <4>1. op # Drop /\ logs'[t][i] = op
        BY <3>1, <3>3
      <4>2. cmd.type = "insert" /\ op = wire[c][1].value /\ wire[c][1].tx = t
        BY <2>2, <3>1, <4>1, <1>0, <1>6
      <4>3. \A j \in (i + 1)..Len(logs'[t]) : FALSE
        BY <2>0, <3>1, <3>3
      <4>4. ASSUME NEW d \in Conn, NEW j \in 1..Len(wire'[d]),
                   wire'[d][j].type = "insert", wire'[d][j].tx = t
            PROVE  logs'[t][i] < wire'[d][j].value
        <5>1. PICK k \in 1..Len(wire[d]) : wire'[d][j] = wire[d][k] /\ (d = c => k = j + 1 /\ 1 < k)
          BY <1>7
        <5>2. d = c
          BY <4>2, <4>4, <5>1, <1>5, SpeakersAgree
        <5>3. wire[c][1].value < wire[c][k].value
          BY <4>2, <4>4, <5>1, <5>2, <1>0, <1>3, <1>5 DEF WireOrder
        <5>4. QED BY <4>1, <4>2, <5>1, <5>2, <5>3
      <4>5. QED BY <4>3, <4>4
    <3>4. QED BY <2>0, <3>1, <3>2, <3>3
  <2>3. CASE ~(ToLog(cmd) /\ t = cmd.tx)
    <3>1. logs'[t] # <<>>
      BY EmptySeq
    <3>2. logs'[t] = logs[t]
      BY <2>3, <3>1, <1>2 DEF ToBase, ToLog, Looks, Merges, Forgets
    <3>3. \A j \in (i + 1)..Len(logs'[t]) : logs'[t][j] # Drop => logs'[t][i] < logs'[t][j]
      BY <3>2, <1>3 DEF LogOrder
    <3>4. QED BY <2>1, <3>2, <3>3
  <2>4. QED BY <2>2, <2>3
<1>10. BaseOrder'
  <2> SUFFICES ASSUME NEW i \in 1..Len(base'), NEW d \in Conn, NEW t \in Tx \union {None},
                      Inserted(base'[i], d, t)
               PROVE  /\ \A j \in (i + 1)..Len(base') : Inserted(base'[j], d, t) => base'[i] < base'[j]
                      /\ t = None => \A j \in 1..Len(wire'[d]) :
                           wire'[d][j].type = "insert" /\ wire'[d][j].tx = None
                             => base'[i] < wire'[d][j].value
    <3>1. \A i, d, t : Inserted(base[i], d, t)' <=> Inserted(base'[i], d, t)
      BY <1>2 DEF Inserted
    <3>2. QED BY <3>1, Zenon DEF BaseOrder
  <2>0. Len(base) \in Nat
    BY TheLogs
  <2>1. ASSUME i \in 1..Len(base), base'[i] = base[i]
        PROVE  t = None => \A j \in 1..Len(wire'[d]) :
                           wire'[d][j].type = "insert" /\ wire'[d][j].tx = None
                             => base'[i] < wire'[d][j].value
    <3> SUFFICES ASSUME t = None, NEW j \in 1..Len(wire'[d]),
                        wire'[d][j].type = "insert", wire'[d][j].tx = None
                 PROVE  base'[i] < wire'[d][j].value
      OBVIOUS
    <3>1. PICK k \in 1..Len(wire[d]) : wire'[d][j] = wire[d][k]
      BY <1>7
    <3>2. Inserted(base[i], d, t) /\ wire[d][k].type = "insert" /\ wire[d][k].tx = None
      BY <2>1, <3>1
    <3>3. base[i] < wire[d][k].value
      BY <2>1, <3>2, <1>3 DEF BaseOrder
    <3>4. QED BY <2>1, <3>1, <3>3
  <2>2. CASE ToBase(cmd)
    <3>1. /\ Len(base') = Len(base) + 1 /\ base'[Len(base) + 1] = op
          /\ \A j \in 1..Len(base) : base'[j] = base[j]
          /\ cmd.type \in {"insert", "dropnamespace"} /\ cmd.tx = None
      BY <2>2, <1>0 DEF ToBase
    <3>2. CASE i \in 1..Len(base)
      <4>1. ASSUME NEW j \in (i + 1)..Len(base'), Inserted(base'[j], d, t)
            PROVE  base'[i] < base'[j]
        <5>1. j \in (i + 1)..Len(base) \/ j = Len(base) + 1
          BY <2>0, <3>1, <3>2
        <5>2. CASE j \in (i + 1)..Len(base)
          <6>1. j \in 1..Len(base)
            BY <2>0, <3>2, <5>2
          <6>2. QED BY <3>1, <3>2, <4>1, <5>2, <6>1, <1>3 DEF BaseOrder
        <5>3. CASE j = Len(base) + 1
          <6>1. Inserted(op, d, t) /\ base'[j] = op
            BY <3>1, <4>1, <5>3
          <6>2. op # Drop
            BY <6>1, <1>3, OneInsert
          <6>3. cmd.type = "insert" /\ op = wire[c][1].value /\ Inserted(op, c, None)
            BY <3>1, <6>2, <1>6
          <6>4. d = c /\ t = None
            BY <6>1, <6>3, <1>3, OneInsert
          <6>5. base[i] < wire[c][1].value
            BY <3>1, <3>2, <6>3, <6>4, <1>0, <1>3, <1>5 DEF BaseOrder
          <6>6. QED BY <3>1, <3>2, <6>1, <6>3, <6>5
        <5>4. QED BY <5>1, <5>2, <5>3
      <4>2. QED BY <2>1, <3>1, <3>2, <4>1
    <3>3. CASE i = Len(base) + 1
      <4>1. Inserted(op, d, t) /\ base'[i] = op
        BY <3>1, <3>3
      <4>2. op # Drop
        BY <4>1, <1>3, OneInsert
      <4>3. cmd.type = "insert" /\ op = wire[c][1].value /\ Inserted(op, c, None)
        BY <3>1, <4>2, <1>6
      <4>4. d = c /\ t = None
        BY <4>1, <4>3, <1>3, OneInsert
      <4>5. \A j \in (i + 1)..Len(base') : FALSE
        BY <2>0, <3>1, <3>3
      <4>6. ASSUME NEW j \in 1..Len(wire'[c]), wire'[c][j].type = "insert"
            PROVE  base'[i] < wire'[c][j].value
        <5>1. PICK k \in 1..Len(wire[c]) : wire'[c][j] = wire[c][k] /\ 1 < k
          BY <1>7
        <5>2. wire[c][1].value < wire[c][k].value
          BY <4>3, <4>6, <5>1, <1>0, <1>3, <1>5 DEF WireOrder
        <5>3. QED BY <4>1, <4>3, <5>1, <5>2
      <4>7. QED BY <4>4, <4>5, <4>6
    <3>4. QED BY <2>0, <3>1, <3>2, <3>3
  <2>3. CASE ToLog(cmd) \/ Looks(cmd) \/ Forgets(cmd)
    <3>1. base' = base
      BY <2>3 DEF ToLog, Looks, Forgets
    <3>2. \A j \in (i + 1)..Len(base') : Inserted(base'[j], d, t) => base'[i] < base'[j]
      BY <3>1, <1>3 DEF BaseOrder
    <3>3. QED BY <2>1, <3>1, <3>2
  <2>4. CASE Merges(cmd)
    <3>1. PICK u \in Tx : u = cmd.tx
      BY <2>4 DEF Merges
    <3>2. /\ cmd.type = "commit" /\ Len(base') = Len(base) + Len(logs[u])
          /\ \A k \in 1..Len(base) : base'[k] = base[k]
          /\ \A k \in 1..Len(logs[u]) : base'[Len(base) + k] = logs[u][k]
      BY <2>4, <3>1 DEF Merges
    <3>3. Len(logs[u]) \in Nat
      BY TheLogs
    <3>4. CommitAt(c, 1, u)
      BY <3>1, <3>2, <1>0 DEF CommitAt
    <3>5. CommitOnWire(u)
      BY <3>4, <1>5 DEF CommitOnWire
    <3>6. \A k \in 1..Len(logs[u]) : \A e, v : Inserted(logs[u][k], e, v) =>
            v = u /\ v # None /\ logs[u][k] # Drop
      <4> SUFFICES ASSUME NEW k \in 1..Len(logs[u]), NEW e, NEW v, Inserted(logs[u][k], e, v)
                   PROVE  v = u /\ v # None /\ logs[u][k] # Drop
        OBVIOUS
      <4>1. logs[u][k] # Drop
        BY <1>3, OneInsert
      <4>2. \E x \in Conn : Inserted(logs[u][k], x, u)
        BY <4>1, <1>3 DEF InLogs
      <4>3. v = u
        BY <4>2, <1>3, OneInsert
      <4>4. QED BY <4>1, <4>3, NoneApart
    <3>7. \A k \in 1..Len(base) : \A e : ~Inserted(base[k], e, u)
      <4> SUFFICES ASSUME NEW k \in 1..Len(base), NEW e, Inserted(base[k], e, u) PROVE FALSE
        OBVIOUS
      <4>1. base[k] # Drop
        BY <1>3, OneInsert
      <4>2. PICK v \in committed \union {None} :
              (\E x \in Conn : Inserted(base[k], x, v)) /\ (v \in Tx => ~CommitOnWire(v))
        BY <4>1, <1>3 DEF InBase
      <4>3. v = u
        BY <4>2, <1>3, OneInsert
      <4>4. QED BY <4>2, <4>3, <3>5
    <3>8. \A k \in 1..Len(base') : k \notin 1..Len(base) =>
            \E m \in 1..Len(logs[u]) : k = Len(base) + m /\ base'[k] = logs[u][m]
      <4> SUFFICES ASSUME NEW k \in 1..Len(base'), k \notin 1..Len(base)
                   PROVE  \E m \in 1..Len(logs[u]) : k = Len(base) + m /\ base'[k] = logs[u][m]
        OBVIOUS
      <4>1. k - Len(base) \in 1..Len(logs[u]) /\ k = Len(base) + (k - Len(base))
        BY <2>0, <3>2, <3>3
      <4>2. QED BY <4>1, <3>2
    <3>9. CASE i \in 1..Len(base)
      <4>1. ASSUME NEW j \in (i + 1)..Len(base'), Inserted(base'[j], d, t)
            PROVE  base'[i] < base'[j]
        <5>1. j \in 1..Len(base') /\ j \in Nat /\ i \in Nat
          BY <2>0, <3>2, <3>3, <3>9
        <5>2. CASE j \in 1..Len(base)
          <6>1. j \in (i + 1)..Len(base)
            BY <2>0, <5>1, <5>2
          <6>2. QED BY <3>2, <3>9, <4>1, <5>2, <6>1, <1>3 DEF BaseOrder
        <5>3. CASE j \notin 1..Len(base)
          <6>1. PICK m \in 1..Len(logs[u]) : base'[j] = logs[u][m]
            BY <3>8, <5>1, <5>3
          <6>2. t = u
            BY <3>6, <4>1, <6>1
          <6>3. QED BY <3>2, <3>7, <3>9, <6>2
        <5>4. QED BY <5>2, <5>3
      <4>2. QED BY <2>1, <3>2, <3>9, <4>1
    <3>10. CASE i \notin 1..Len(base)
      <4>1. PICK m \in 1..Len(logs[u]) : i = Len(base) + m /\ base'[i] = logs[u][m]
        BY <3>8, <3>10
      <4>2. t = u /\ t # None /\ logs[u][m] # Drop
        BY <3>6, <4>1
      <4>3. ASSUME NEW j \in (i + 1)..Len(base'), Inserted(base'[j], d, t)
            PROVE  base'[i] < base'[j]
        <5>1. j \in 1..Len(base') /\ j \notin 1..Len(base)
          BY <2>0, <3>2, <3>3, <4>1
        <5>2. PICK k \in 1..Len(logs[u]) : j = Len(base) + k /\ base'[j] = logs[u][k]
          BY <3>8, <5>1
        <5>3. logs[u][k] # Drop
          BY <3>6, <4>3, <5>2
        <5>4. k \in (m + 1)..Len(logs[u])
          BY <2>0, <3>3, <4>1, <5>2
        <5>5. QED BY <4>1, <4>2, <5>2, <5>3, <5>4, <1>3 DEF LogOrder
      <4>4. QED BY <4>2, <4>3
    <3>11. QED BY <3>9, <3>10
  <2>5. QED BY <1>2, <2>2, <2>3, <2>4
<1>11. QED BY <1>8, <1>9, <1>10 DEF Ordered

(* Nothing that must not be lost is lost: when nothing is sent.            *)
LEMMA CompleteStill ==
    ASSUME Types, Stamped, Complete, Still
    PROVE  Complete'
<1>1. UNCHANGED <<wire, logs, base, written, committed>>
  BY DEF Still
<1>2. begun \in Nat
  BY NoneApart DEF Types
<1>3. ASSUME NEW w \in written, w.op = "insert"
      PROVE  /\ w.tx = None => OnWire(w)' \/ In(w.n, base')
             /\ w.tx \in committed' \/ (active'[w.conn] = w.tx /\ w.tx # None) =>
                  OnWire(w)' \/ In(w.n, logs'[w.tx]) \/ In(w.n, base')
  <2>1. OnWire(w)' <=> OnWire(w)
    BY <1>1 DEF OnWire
  <2>2. w.conn \in Conn /\ w.tx \in {None} \union 1..begun
    BY DEF Stamped
  <2>3. active'[w.conn] = w.tx /\ w.tx # None => active[w.conn] = w.tx
    <3> SUFFICES ASSUME active'[w.conn] = w.tx, w.tx # None PROVE active[w.conn] = w.tx
      OBVIOUS
    <3>1. active'[w.conn] \in {active[w.conn], None} \/ active'[w.conn] = begun + 1
      BY <2>2 DEF Still
    <3>2. w.tx # begun + 1
      BY <2>2, <1>2
    <3>3. QED BY <3>1, <3>2
  <2>4. /\ w.tx = None => OnWire(w) \/ In(w.n, base)
        /\ w.tx \in committed \/ (active[w.conn] = w.tx /\ w.tx # None) =>
             OnWire(w) \/ In(w.n, logs[w.tx]) \/ In(w.n, base)
    BY <1>3 DEF Complete
  <2>5. QED BY <2>1, <2>3, <2>4, <1>1
<1>4. QED BY <1>1, <1>3 DEF Complete

(* When a request is sent.                                                 *)
LEMMA CompleteSending ==
    ASSUME Types, OneUser, Stamped, Complete, NEW c, NEW cmd, Sending(c, cmd)
    PROVE  Complete'
<1>1. /\ c \in Conn /\ cmd \in Command /\ Sends(c, cmd) /\ cmd.tx = active[c]
      /\ (cmd.type = "insert" => cmd.value = requests + 1)
      /\ active'[c] = IF cmd.type \in {"commit", "rollback"} THEN None ELSE active[c]
      /\ committed' = IF cmd.type = "commit" THEN committed \union {active[c]} ELSE committed
      /\ \A d \in Conn \ {c} : active'[d] = active[d]
      /\ WellFormed(cmd)
      /\ UNCHANGED <<logs, base>>
  BY DEF Sending
<1>2. Len(wire[c]) \in Nat /\ Len(wire'[c]) = Len(wire[c]) + 1 /\ wire'[c][Len(wire[c]) + 1] = cmd
      /\ \A i \in 1..Len(wire[c]) : wire'[c][i] = wire[c][i]
  BY <1>1, OnTheWire DEF Sends
<1>3. \A d \in Conn : \A j \in 1..Len(wire[d]) : j \in 1..Len(wire'[d]) /\ wire'[d][j] = wire[d][j]
  BY <1>1, <1>2 DEF Sends
<1>4. ASSUME NEW w \in written', w.op = "insert"
      PROVE  /\ w.tx = None => OnWire(w)' \/ In(w.n, base')
             /\ w.tx \in committed' \/ (active'[w.conn] = w.tx /\ w.tx # None) =>
                  OnWire(w)' \/ In(w.n, logs'[w.tx]) \/ In(w.n, base')
  <2>1. CASE w \in written
    <3>1. w.conn \in Conn /\ w.tx \in {None} \union 1..begun
      BY <2>1 DEF Stamped
    <3>2. OnWire(w) => OnWire(w)'
      BY <3>1, <1>3 DEF OnWire
    <3>3. active'[w.conn] = w.tx /\ w.tx # None => active[w.conn] = w.tx
      BY <3>1, <1>1
    <3>4. w.tx \in committed' /\ w.tx \notin committed => active[w.conn] = w.tx /\ w.tx # None
      <4> SUFFICES ASSUME w.tx \in committed', w.tx \notin committed
                   PROVE  active[w.conn] = w.tx /\ w.tx # None
        OBVIOUS
      <4>1. w.tx = active[c] /\ w.tx \in Tx
        BY <1>1 DEF WellFormed
      <4>2. Uses(c, w.tx) /\ Uses(w.conn, w.tx)
        BY <2>1, <4>1 DEF Uses
      <4>3. w.conn = c
        BY <3>1, <4>1, <4>2, <1>1 DEF OneUser
      <4>4. QED BY <4>1, <4>3, NoneApart
    <3>5. /\ w.tx = None => OnWire(w) \/ In(w.n, base)
          /\ w.tx \in committed \/ (active[w.conn] = w.tx /\ w.tx # None) =>
               OnWire(w) \/ In(w.n, logs[w.tx]) \/ In(w.n, base)
      BY <2>1, <1>4 DEF Complete
    <3>6. QED BY <3>2, <3>3, <3>4, <3>5, <1>1
  <2>2. CASE w \notin written
    <3>1. w = [n |-> requests + 1, op |-> cmd.type, conn |-> c, tx |-> active[c]]
      BY <2>2, <1>4 DEF Sending
    <3>2. w.n = requests + 1 /\ cmd.type = "insert" /\ w.conn = c
      BY <3>1, <1>4
    <3>3. Len(wire[c]) + 1 \in 1..Len(wire'[c])
      BY <1>2
    <3>4. OnWire(w)'
      BY <3>2, <3>3, <1>1, <1>2 DEF OnWire
    <3>5. QED BY <3>4
  <2>3. QED BY <2>1, <2>2
<1>5. QED BY <1>4 DEF Complete

(* When a request is executed: a rollback takes only what its user gave up.*)
LEMMA CompleteExecute ==
    ASSUME Types, Endings, OneUser, Numbers, Complete, NEW c \in Conn, Execute(c)
    PROVE  Complete'
<1>0. PICK cmd : cmd = wire[c][1]
  OBVIOUS
<1>1. Takes(c) /\ cmd \in Command /\ WellFormed(cmd) /\ Len(wire[c]) \in Nat \ {0}
  BY <1>0, Taken
<1>2. /\ ToBase(cmd) \/ ToLog(cmd) \/ Looks(cmd) \/ Merges(cmd) \/ Forgets(cmd)
      /\ UNCHANGED <<active, begun, committed, requests, written>>
  BY <1>0, Executed
<1>3. Stamped /\ OnWires
  BY DEF Numbers
<1>4. Mentions(c, 1) /\ 1 \in 1..Len(wire[c])
  BY <1>1 DEF Endings
<1>5. Len(base) \in Nat /\ \A t \in Tx : Len(logs[t]) \in Nat
  BY TheLogs
<1>6. \A n : In(n, base) => In(n, base')
  <2> SUFFICES ASSUME NEW n, In(n, base) PROVE In(n, base')
    OBVIOUS
  <2>1. PICK i \in 1..Len(base) : base[i] = n
    BY DEF In
  <2>2. i \in 1..Len(base') /\ base'[i] = base[i]
    <3>1. CASE ToBase(cmd)
      BY <3>1, <1>5 DEF ToBase
    <3>2. CASE Merges(cmd)
      BY <3>2, <1>5 DEF Merges
    <3>3. CASE ToLog(cmd) \/ Looks(cmd) \/ Forgets(cmd)
      BY <3>3 DEF ToLog, Looks, Forgets
    <3>4. QED BY <1>2, <3>1, <3>2, <3>3
  <2>3. QED BY <2>1, <2>2 DEF In
<1>7. \A t \in Tx : \A n : In(n, logs[t]) =>
        In(n, logs'[t]) \/ In(n, base') \/ (Forgets(cmd) /\ t = cmd.tx)
  <2> SUFFICES ASSUME NEW t \in Tx, NEW n, In(n, logs[t]), ~(Forgets(cmd) /\ t = cmd.tx)
               PROVE  In(n, logs'[t]) \/ In(n, base')
    OBVIOUS
  <2>1. PICK i \in 1..Len(logs[t]) : logs[t][i] = n
    BY DEF In
  <2>2. CASE Merges(cmd) /\ t = cmd.tx
    <3>1. Len(base') = Len(base) + Len(logs[t]) /\ base'[Len(base) + i] = logs[t][i]
      BY <2>2 DEF Merges
    <3>2. Len(base) + i \in 1..Len(base')
      BY <3>1, <1>5
    <3>3. QED BY <2>1, <3>1, <3>2 DEF In
  <2>3. CASE ToLog(cmd) /\ t = cmd.tx
    <3>1. Len(logs'[t]) = Len(logs[t]) + 1 /\ logs'[t][i] = logs[t][i]
      BY <2>3 DEF ToLog
    <3>2. i \in 1..Len(logs'[t])
      BY <3>1, <1>5
    <3>3. QED BY <2>1, <3>1, <3>2 DEF In
  <2>4. CASE ~(Merges(cmd) /\ t = cmd.tx) /\ ~(ToLog(cmd) /\ t = cmd.tx)
    <3>1. logs'[t] = logs[t]
      BY <2>4, <1>2 DEF ToBase, ToLog, Looks, Merges, Forgets
    <3>2. QED BY <3>1
  <2>5. QED BY <2>2, <2>3, <2>4
<1>8. cmd.type = "insert" =>
        IF cmd.tx = None THEN In(cmd.value, base') ELSE In(cmd.value, logs'[cmd.tx])
  <2> SUFFICES ASSUME cmd.type = "insert"
               PROVE  IF cmd.tx = None THEN In(cmd.value, base') ELSE In(cmd.value, logs'[cmd.tx])
    OBVIOUS
  <2>1. CASE ToBase(cmd)
    <3>1. Len(base) + 1 \in 1..Len(base') /\ base'[Len(base) + 1] = cmd.value /\ cmd.tx = None
      BY <2>1, <1>5 DEF ToBase, OpOf
    <3>2. QED BY <3>1 DEF In
  <2>2. CASE ToLog(cmd)
    <3>1. PICK t \in Tx : t = cmd.tx
      BY <2>2 DEF ToLog
    <3>2. Len(logs[t]) + 1 \in 1..Len(logs'[t]) /\ logs'[t][Len(logs[t]) + 1] = cmd.value /\ t # None
      BY <2>2, <3>1, <1>5, NoneApart DEF ToLog, OpOf
    <3>3. QED BY <3>1, <3>2 DEF In
  <2>3. QED BY <1>2, <2>1, <2>2 DEF Looks, Merges, Forgets
<1>9. ASSUME NEW w \in written, w.op = "insert"
      PROVE  /\ w.tx = None => OnWire(w)' \/ In(w.n, base')
             /\ w.tx \in committed \/ (active[w.conn] = w.tx /\ w.tx # None) =>
                  OnWire(w)' \/ In(w.n, logs'[w.tx]) \/ In(w.n, base')
  <2>1. /\ w.conn \in Conn /\ w.tx \in {None} \union 1..begun
        /\ w = [n |-> w.n, op |-> w.op, conn |-> w.conn, tx |-> w.tx]
    BY <1>3 DEF Stamped
  <2>2. Inserted(w.n, w.conn, w.tx)
    BY <2>1, <1>9 DEF Inserted
  <2>3. OnWire(w) => \/ OnWire(w)'
                     \/ w.tx = None /\ In(w.n, base')
                     \/ w.tx # None /\ In(w.n, logs'[w.tx])
    <3> SUFFICES ASSUME OnWire(w)
                 PROVE  \/ OnWire(w)'
                        \/ w.tx = None /\ In(w.n, base')
                        \/ w.tx # None /\ In(w.n, logs'[w.tx])
      OBVIOUS
    <3>1. PICK k \in 1..Len(wire[w.conn]) :
            wire[w.conn][k].type = "insert" /\ wire[w.conn][k].value = w.n
      BY DEF OnWire
    <3>2. CASE w.conn # c \/ k # 1
      <4>1. PICK i \in 1..Len(wire'[w.conn]) : wire'[w.conn][i] = wire[w.conn][k]
        BY <2>1, <3>2, <1>1, StillThere
      <4>2. OnWire(w)'
        BY <3>1, <4>1 DEF OnWire
      <4>3. QED BY <4>2
    <3>3. CASE w.conn = c /\ k = 1
      <4>1. cmd.type = "insert" /\ cmd.value = w.n
        BY <3>1, <3>3, <1>0
      <4>2. Inserted(w.n, c, cmd.tx)
        BY <4>1, <1>0, <1>3, <1>4 DEF OnWires
      <4>3. cmd.tx = w.tx
        BY <2>2, <4>2, <1>3, OneInsert
      <4>4. QED BY <4>1, <4>3, <1>8
    <3>4. QED BY <3>2, <3>3
  <2>4. w.tx \in committed \/ (active[w.conn] = w.tx /\ w.tx # None) =>
          w.tx \in Tx /\ w.tx # None
    <3>1. begun \in 0..MaxTx /\ committed \subseteq 1..begun
      BY DEF Types
    <3>2. \A x \in 1..begun : x \in Nat /\ x \in Tx
      BY <3>1, NoneApart DEF Tx
    <3>3. QED BY <2>1, <3>1, <3>2, NoneApart
  <2>5. w.tx \in committed \/ (active[w.conn] = w.tx /\ w.tx # None) =>
          ~(Forgets(cmd) /\ w.tx = cmd.tx)
    <3> SUFFICES ASSUME w.tx \in committed \/ (active[w.conn] = w.tx /\ w.tx # None),
                        Forgets(cmd), w.tx = cmd.tx
                 PROVE  FALSE
      OBVIOUS
    <3>1. cmd.type = "rollback" /\ w.tx \in Tx
      BY <2>4 DEF Forgets
    <3>2. cmd.tx \notin committed /\ active[c] # cmd.tx
      BY <3>1, <1>0, <1>4 DEF Mentions
    <3>3. active[w.conn] = w.tx /\ wire[c][1].tx = w.tx
      BY <3>2, <1>0
    <3>4. w.conn = c
      BY <2>1, <3>1, <3>3, <1>4, SpeakersAgree
    <3>5. QED BY <3>2, <3>3, <3>4
  <2>6. /\ w.tx = None => OnWire(w) \/ In(w.n, base)
        /\ w.tx \in committed \/ (active[w.conn] = w.tx /\ w.tx # None) =>
             OnWire(w) \/ In(w.n, logs[w.tx]) \/ In(w.n, base)
    BY <1>9 DEF Complete
  <2>7. QED BY <2>3, <2>4, <2>5, <2>6, <1>6, <1>7
<1>10. QED BY <1>2, <1>9 DEF Complete

-----------------------------------------------------------------------------
(* What a find answers.                                                     *)

(* Consistent is FindConsistent for one answer.                            *)
LEMMA ConsistentIs ==
    ASSUME NEW c \in Conn, NEW S, NEW answer \in Seq(S)
    PROVE  Consistent(c, answer) <=>
             LET docs    == ToSet(answer)
                 visible == {w \in written : w.tx \in committed \union {None, active[c]}}
                 dropped == \E w \in visible : w.op = "dropnamespace"
                 mine    == {w \in visible : w.op = "insert" /\ w.conn = c}
             IN  /\ docs \subseteq {w.n : w \in visible}
                 /\ ~dropped =>
                      /\ {w.n : w \in mine} \subseteq docs
                      /\ \A t \in committed \ {active[c]} :
                           InsertsOf(t) \intersect docs \in {{}, InsertsOf(t)}
                 /\ \A i, j \in DOMAIN answer : \A v, w \in written :
                      i < j /\ v.n = answer[i] /\ w.n = answer[j] /\ v.conn = w.conn /\ v.tx = w.tx
                        => v.n < w.n
<1> DEFINE docs == ToSet(answer)
           mine == {w \in Visible(c) : w.op = "insert" /\ w.conn = c}
<1>1. DOMAIN answer = 1..Len(answer)
  OBVIOUS
<1>2. \A n : n \in docs <=> In(n, answer)
  BY <1>1 DEF ToSet, In
<1> HIDE DEF docs
<1>3. docs \subseteq {w.n : w \in Visible(c)} <=>
        \A i \in 1..Len(answer) : \E w \in Visible(c) : w.n = answer[i]
  BY <1>2 DEF In
<1>4. {w.n : w \in mine} \subseteq docs <=>
        \A w \in Visible(c) : w.op = "insert" /\ w.conn = c => In(w.n, answer)
  BY <1>2
<1>5. \A t : InsertsOf(t) \intersect docs \in {{}, InsertsOf(t)} <=>
              \/ \A w \in written : w.op = "insert" /\ w.tx = t => ~In(w.n, answer)
              \/ \A w \in written : w.op = "insert" /\ w.tx = t => In(w.n, answer)
  <2> SUFFICES ASSUME NEW t
               PROVE  InsertsOf(t) \intersect docs \in {{}, InsertsOf(t)} <=>
                        \/ \A w \in written : w.op = "insert" /\ w.tx = t => ~In(w.n, answer)
                        \/ \A w \in written : w.op = "insert" /\ w.tx = t => In(w.n, answer)
    OBVIOUS
  <2>1. \A n : n \in InsertsOf(t) <=> \E w \in written : w.op = "insert" /\ w.tx = t /\ w.n = n
    BY DEF InsertsOf
  <2>2. InsertsOf(t) \intersect docs = {} <=>
          \A w \in written : w.op = "insert" /\ w.tx = t => ~In(w.n, answer)
    BY <2>1, <1>2
  <2>3. InsertsOf(t) \intersect docs = InsertsOf(t) <=>
          \A w \in written : w.op = "insert" /\ w.tx = t => In(w.n, answer)
    BY <2>1, <1>2
  <2>4. QED BY <2>2, <2>3
<1>6. (\A w \in Visible(c) : w.op # "dropnamespace") <=> ~\E w \in Visible(c) : w.op = "dropnamespace"
  OBVIOUS
<1>7. QED BY <1>1, <1>3, <1>4, <1>5, <1>6, Zenon DEF Consistent, Visible, docs

(* What an answer holds is a sequence of numbers.                          *)
LEMMA AnswerOf ==
    ASSUME Types, Conversation, NEW c \in Conn, answers[c] # <<>>, waiting[c] = "array"
    PROVE  Head(answers[c])[2] \in Seq(0..MaxRequests) /\ Head(answers[c]) = answers[c][1]
<1>1. Answered(c)
  BY DEF Conversation, Quiet, Asked
<1>2. answers[c] \in Seq(Answer) /\ Len(answers[c]) = 1 /\ answers[c][1][1] = "array"
  BY <1>1 DEF Answered, Types
<1>3. Head(answers[c]) = answers[c][1] /\ answers[c][1] \in Answer
  BY <1>2
<1>4. PICK a \in Answer : a = answers[c][1]
  BY <1>3
<1>5. a[1] = "array" => a \in {"array"} \X Seq(0..MaxRequests)
  BY DEF Answer
<1>6. a[2] \in Seq(0..MaxRequests)
  BY <1>2, <1>4, <1>5
<1>7. QED BY <1>3, <1>4, <1>6

(* What a find finds is what was inserted in the base, or in its own       *)
(* transaction.                                                            *)
LEMMA FoundNumbers ==
    ASSUME Types, Numbers, NEW tx \in Tx \union {None}, NEW i \in 1..Len(Found(tx))
    PROVE  \E d \in Conn, t \in committed \union {None, tx} : Inserted(Found(tx)[i], d, t)
<1>1. PICK log \in Seq(0..MaxRequests), k \in Nat :
              /\ Len(log) = Len(base) + (IF tx = None THEN 0 ELSE Len(logs[tx]))
              /\ \A j \in 1..Len(base) : log[j] = base[j]
              /\ tx # None => \A j \in 1..Len(logs[tx]) : log[Len(base) + j] = logs[tx][j]
              /\ k <= Len(log)
              /\ Found(tx) \in Seq(0..MaxRequests) /\ Len(Found(tx)) = Len(log) - k
              /\ \A j \in 1..Len(Found(tx)) : Found(tx)[j] = log[j + k] /\ Found(tx)[j] # Drop
              /\ k # 0 => log[k] = Drop
  BY FoundIs
<1>2. Len(base) \in Nat /\ (tx # None => Len(logs[tx]) \in Nat) /\ Len(log) \in Nat
  BY TheLogs, LenProperties
<1>3. PICK x : x = Found(tx)[i] /\ x = log[i + k] /\ x # Drop
  BY <1>1
<1>4. i + k \in 1..Len(log)
  BY <1>1, <1>2
<1>5. CASE i + k \in 1..Len(base)
  <2>1. x = base[i + k]
    BY <1>1, <1>3, <1>5
  <2>2. PICK t \in committed \union {None} : \E d \in Conn : Inserted(x, d, t)
    BY <1>3, <1>5, <2>1 DEF Numbers, InBase
  <2>3. QED BY <1>3, <2>2
<1>6. CASE tx # None /\ (i + k) - Len(base) \in 1..Len(logs[tx])
  <2>1. PICK m \in 1..Len(logs[tx]) : m = (i + k) - Len(base)
    BY <1>6
  <2>2. i + k = Len(base) + m
    BY <2>1, <1>2, <1>4
  <2>3. x = logs[tx][m] /\ tx \in Tx
    BY <1>1, <1>3, <1>6, <2>2
  <2>4. \E d \in Conn : Inserted(x, d, tx)
    BY <1>3, <2>3 DEF Numbers, InLogs
  <2>5. QED BY <1>3, <2>4
<1>7. QED BY <1>1, <1>2, <1>4, <1>5, <1>6

(* The inserts of one connection in one transaction are found in order.    *)
LEMMA FoundOrdered ==
    ASSUME Types, Endings, Numbers, Ordered, NEW c \in Conn, 1 \in 1..Len(wire[c]),
           NEW tx, tx = wire[c][1].tx, NEW i \in 1..Len(Found(tx)), NEW j \in 1..Len(Found(tx)), i < j,
           NEW d, NEW t, Inserted(Found(tx)[i], d, t), Inserted(Found(tx)[j], d, t)
    PROVE  Found(tx)[i] < Found(tx)[j]
<1>0. tx \in Tx \union {None} /\ Stamped
  <2>1. wire[c][1] \in Command
    BY OnTheWire
  <2>2. QED BY <2>1, Fields DEF Numbers
<1>1. PICK log \in Seq(0..MaxRequests), k \in Nat :
              /\ Len(log) = Len(base) + (IF tx = None THEN 0 ELSE Len(logs[tx]))
              /\ \A m \in 1..Len(base) : log[m] = base[m]
              /\ tx # None => \A m \in 1..Len(logs[tx]) : log[Len(base) + m] = logs[tx][m]
              /\ k <= Len(log)
              /\ Found(tx) \in Seq(0..MaxRequests) /\ Len(Found(tx)) = Len(log) - k
              /\ \A m \in 1..Len(Found(tx)) : Found(tx)[m] = log[m + k] /\ Found(tx)[m] # Drop
              /\ k # 0 => log[k] = Drop
  BY <1>0, FoundIs
<1>2. Len(base) \in Nat /\ (tx # None => Len(logs[tx]) \in Nat) /\ Len(log) \in Nat
  BY <1>0, TheLogs, LenProperties
<1>3a. PICK x : x = Found(tx)[i] /\ x = log[i + k] /\ x # Drop
  BY <1>1
<1>3b. PICK y : y = Found(tx)[j] /\ y = log[j + k] /\ y # Drop
  BY <1>1
<1>3. x = Found(tx)[i] /\ x # Drop /\ y = Found(tx)[j] /\ y # Drop
  BY <1>3a, <1>3b
<1>4a. i + k \in 1..Len(log) /\ j + k \in 1..Len(log) /\ i + k < j + k
  BY <1>1, <1>2
<1>4b. PICK a \in 1..Len(log) : a = i + k
  BY <1>4a
<1>4c. PICK b \in 1..Len(log) : b = j + k
  BY <1>4a
<1>5. a < b /\ x = log[a] /\ y = log[b] /\ Inserted(x, d, t) /\ Inserted(y, d, t)
  BY <1>3, <1>3a, <1>3b, <1>4a, <1>4b, <1>4c
<1>6. d \in Conn /\ t \in Tx \union {None}
  <2>1. d \in Conn /\ t \in {None} \union 1..begun
    BY <1>0, <1>5, OneInsert
  <2>2. begun \in 0..MaxTx
    BY DEF Types
  <2>3. \A u \in 1..begun : u \in Tx
    BY <2>2, NoneApart DEF Tx
  <2>4. QED BY <2>1, <2>3
<1>7. \A m \in 1..Len(log) : m \notin 1..Len(base) =>
        /\ tx # None
        /\ \E n \in 1..Len(logs[tx]) : m = Len(base) + n /\ log[m] = logs[tx][n]
  <2> SUFFICES ASSUME NEW m \in 1..Len(log), m \notin 1..Len(base)
               PROVE  tx # None /\ \E n \in 1..Len(logs[tx]) : m = Len(base) + n /\ log[m] = logs[tx][n]
    OBVIOUS
  <2>1. tx # None
    BY <1>1, <1>2
  <2>2. m - Len(base) \in 1..Len(logs[tx]) /\ m = Len(base) + (m - Len(base))
    BY <1>1, <1>2, <2>1
  <2>3. PICK n \in 1..Len(logs[tx]) : m = Len(base) + n
    BY <2>2
  <2>4. QED BY <2>1, <2>3, <1>1
<1>8. CASE b \in 1..Len(base)
  <2>1. a \in 1..Len(base) /\ b \in (a + 1)..Len(base)
    BY <1>2, <1>5, <1>8
  <2>2. x = base[a] /\ y = base[b]
    BY <1>1, <1>5, <1>8, <2>1
  <2>3. base[a] < base[b]
    BY <1>5, <1>6, <2>1, <2>2 DEF Ordered, BaseOrder
  <2>4. QED BY <1>3, <2>2, <2>3
<1>9. CASE b \notin 1..Len(base)
  <2>1. tx \in Tx
    BY <1>0, <1>7, <1>9
  <2>2. PICK n \in 1..Len(logs[tx]) : b = Len(base) + n /\ y = logs[tx][n]
    BY <1>5, <1>7, <1>9
  <2>3. \E e \in Conn : Inserted(y, e, tx)
    BY <1>3, <2>1, <2>2 DEF Numbers, InLogs
  <2>4. t = tx
    BY <1>0, <1>5, <2>3, OneInsert
  <2>5. a \notin 1..Len(base)
    <3> SUFFICES ASSUME a \in 1..Len(base) PROVE FALSE OBVIOUS
    <3>1. x = base[a]
      BY <1>1, <1>5
    <3>2. PICK u \in committed \union {None} :
            (\E e \in Conn : Inserted(x, e, u)) /\ (u \in Tx => ~CommitOnWire(u))
      BY <1>3, <3>1 DEF Numbers, InBase
    <3>3. u = tx
      BY <1>0, <1>5, <2>4, <3>2, OneInsert
    <3>4. tx \in committed /\ ~CommitOnWire(tx)
      BY <2>1, <3>2, <3>3, NoneApart
    <3>5. Mentions(c, 1)
      BY DEF Endings
    <3>6. \E m \in 1..Len(wire[c]) : CommitAt(c, m, tx)
      BY <3>4, <3>5 DEF Mentions
    <3>7. QED BY <3>4, <3>6 DEF CommitOnWire
  <2>6. PICK m \in 1..Len(logs[tx]) : a = Len(base) + m /\ x = logs[tx][m]
    BY <1>5, <1>7, <2>5
  <2>7. n \in (m + 1)..Len(logs[tx])
    BY <1>2, <1>5, <2>1, <2>2, <2>6, NoneApart
  <2>8. logs[tx][m] < logs[tx][n]
    BY <1>3, <2>1, <2>2, <2>6, <2>7 DEF Ordered, LogOrder
  <2>9. QED BY <1>3, <2>2, <2>6, <2>8
<1>10. QED BY <1>8, <1>9

(* An insert of the history, by its number.                                *)
LEMMA InsertIs ==
    ASSUME Stamped, NEW w \in written, w.op = "insert"
    PROVE  Inserted(w.n, w.conn, w.tx)
<1>1. w = [n |-> w.n, op |-> w.op, conn |-> w.conn, tx |-> w.tx]
  BY DEF Stamped
<1>2. QED BY <1>1 DEF Inserted

(* When no drop is visible, a find finds all of the base and of its own    *)
(* transaction.                                                            *)
LEMMA FoundAll ==
    ASSUME Types, Numbers, NEW tx \in Tx \union {None}, NEW n,
           \A w \in written : w.tx \in committed \union {None, tx} => w.op # "dropnamespace"
    PROVE  In(n, Found(tx)) <=> In(n, base) \/ (tx # None /\ In(n, logs[tx]))
<1>1. PICK log \in Seq(0..MaxRequests), k \in Nat :
              /\ Len(log) = Len(base) + (IF tx = None THEN 0 ELSE Len(logs[tx]))
              /\ \A j \in 1..Len(base) : log[j] = base[j]
              /\ tx # None => \A j \in 1..Len(logs[tx]) : log[Len(base) + j] = logs[tx][j]
              /\ k <= Len(log)
              /\ Found(tx) \in Seq(0..MaxRequests) /\ Len(Found(tx)) = Len(log) - k
              /\ \A j \in 1..Len(Found(tx)) : Found(tx)[j] = log[j + k] /\ Found(tx)[j] # Drop
              /\ k # 0 => log[k] = Drop
  BY FoundIs
<1>2. Len(base) \in Nat /\ (tx # None => tx \in Tx /\ Len(logs[tx]) \in Nat) /\ Len(log) \in Nat
  BY TheLogs, LenProperties
<1>3. \A t \in committed \union {None, tx} : ~Dropped(t)
  BY DEF Dropped
<1>4. \A m \in 1..Len(log) : m \notin 1..Len(base) =>
        tx # None /\ \E j \in 1..Len(logs[tx]) : m = Len(base) + j /\ log[m] = logs[tx][j]
  <2> SUFFICES ASSUME NEW m \in 1..Len(log), m \notin 1..Len(base)
               PROVE  tx # None /\ \E j \in 1..Len(logs[tx]) : m = Len(base) + j /\ log[m] = logs[tx][j]
    OBVIOUS
  <2>1. tx # None
    BY <1>1, <1>2
  <2>2. m - Len(base) \in 1..Len(logs[tx]) /\ m = Len(base) + (m - Len(base))
    BY <1>1, <1>2, <2>1
  <2>3. PICK j \in 1..Len(logs[tx]) : m = Len(base) + j
    BY <2>2
  <2>4. QED BY <2>1, <2>3, <1>1
<1>5. \A m \in 1..Len(log) : log[m] # Drop
  <2> SUFFICES ASSUME NEW m \in 1..Len(log), log[m] = Drop PROVE FALSE OBVIOUS
  <2>1. CASE m \in 1..Len(base)
    <3>1. base[m] = Drop
      BY <1>1, <2>1
    <3>2. \E t \in committed \union {None} : Dropped(t)
      BY <2>1, <3>1 DEF Numbers, InBase
    <3>3. QED BY <1>3, <3>2
  <2>2. CASE m \notin 1..Len(base)
    <3>1. PICK j \in 1..Len(logs[tx]) : log[m] = logs[tx][j]
      BY <1>4, <2>2
    <3>2. tx \in Tx
      BY <1>2, <1>4, <2>2
    <3>3. Dropped(tx)
      BY <3>1, <3>2 DEF Numbers, InLogs
    <3>4. QED BY <1>3, <3>3
  <2>3. QED BY <2>1, <2>2
<1>6. k = 0
  BY <1>1, <1>2, <1>5
<1>7. Len(Found(tx)) = Len(log) /\ \A j \in 1..Len(log) : Found(tx)[j] = log[j]
  BY <1>1, <1>2, <1>6
<1>8. ASSUME In(n, Found(tx)) PROVE In(n, base) \/ (tx # None /\ In(n, logs[tx]))
  <2>1. PICK m \in 1..Len(log) : log[m] = n
    BY <1>7, <1>8 DEF In
  <2>2. CASE m \in 1..Len(base)
    BY <1>1, <2>1, <2>2 DEF In
  <2>3. CASE m \notin 1..Len(base)
    BY <1>4, <2>1, <2>3 DEF In
  <2>4. QED BY <2>2, <2>3
<1>9. ASSUME In(n, base) PROVE In(n, Found(tx))
  <2>1. PICK m \in 1..Len(base) : base[m] = n
    BY <1>9 DEF In
  <2>2. m \in 1..Len(log)
    BY <1>1, <1>2
  <2>3. Found(tx)[m] = n /\ m \in 1..Len(Found(tx))
    BY <1>1, <1>7, <2>1, <2>2
  <2>4. QED BY <2>3 DEF In
<1>10. ASSUME tx # None, In(n, logs[tx]) PROVE In(n, Found(tx))
  <2>1. PICK m \in 1..Len(logs[tx]) : logs[tx][m] = n
    BY <1>10 DEF In
  <2>2. Len(base) + m \in 1..Len(log) /\ log[Len(base) + m] = n
    BY <1>1, <1>2, <1>10, <2>1
  <2>3. Found(tx)[Len(base) + m] = n /\ Len(base) + m \in 1..Len(Found(tx))
    BY <1>7, <2>2
  <2>4. QED BY <2>3 DEF In
<1>11. QED BY <1>8, <1>9, <1>10

(* A find that is alone on its wire finds what its connection inserted.    *)
LEMMA FoundMine ==
    ASSUME Types, OneUser, Endings, Numbers, Complete, NEW c \in Conn,
           Len(wire[c]) = 1, wire[c][1].type = "find",
           NEW w \in Visible(c), w.op = "insert", w.conn = c
    PROVE  In(w.n, base) \/ (active[c] # None /\ In(w.n, logs[active[c]]))
<1>1. w \in written /\ w.tx \in committed \union {None, active[c]}
  BY DEF Visible
<1>2. ~OnWire(w)
  <2> SUFFICES ASSUME OnWire(w) PROVE FALSE OBVIOUS
  <2>1. PICK i \in 1..Len(wire[c]) : wire[c][i].type = "insert"
    BY DEF OnWire
  <2>2. i = 1
    BY <2>1
  <2>3. QED BY <2>1, <2>2
<1>3. CASE w.tx = None
  BY <1>1, <1>2, <1>3 DEF Complete
<1>4. CASE w.tx \in committed
  <2>1. w.tx \in Tx
    <3>1. begun \in 0..MaxTx /\ committed \subseteq 1..begun
      BY DEF Types
    <3>2. QED BY <1>4, <3>1, NoneApart DEF Tx
  <2>2. In(w.n, logs[w.tx]) \/ In(w.n, base)
    BY <1>1, <1>2, <1>4 DEF Complete
  <2>3. ~In(w.n, logs[w.tx])
    <3> SUFFICES ASSUME In(w.n, logs[w.tx]) PROVE FALSE OBVIOUS
    <3>1. logs[w.tx] # <<>>
      <4>1. PICK i \in 1..Len(logs[w.tx]) : logs[w.tx][i] = w.n
        BY DEF In
      <4>2. QED BY <2>1, <4>1, TheLogs
    <3>2. PICK d \in Conn : \E i \in 1..Len(wire[d]) : CommitAt(d, i, w.tx)
      BY <1>4, <2>1, <3>1 DEF Endings, Remembered, CommitOnWire
    <3>3. PICK i \in 1..Len(wire[d]) : wire[d][i].type = "commit" /\ wire[d][i].tx = w.tx
      BY <3>2 DEF CommitAt
    <3>4. Uses(d, w.tx) /\ Uses(c, w.tx)
      BY <1>1, <3>3 DEF Uses
    <3>5. d = c
      BY <2>1, <3>4 DEF OneUser
    <3>6. i = 1
      BY <3>3, <3>5
    <3>7. QED BY <3>3, <3>5, <3>6
  <2>4. QED BY <2>2, <2>3
<1>5. CASE w.tx = active[c] /\ w.tx # None
  BY <1>1, <1>2, <1>5 DEF Complete
<1>6. QED BY <1>1, <1>3, <1>4, <1>5

(* Of a committed transaction of others the base has all inserts, or none. *)
LEMMA FoundWhole ==
    ASSUME Types, Endings, Numbers, Complete, NEW t \in committed, NEW tx \in Tx \union {None}, t # tx
    PROVE  \/ \A w \in written : w.op = "insert" /\ w.tx = t =>
                ~(In(w.n, base) \/ (tx # None /\ In(w.n, logs[tx])))
           \/ \A w \in written : w.op = "insert" /\ w.tx = t => In(w.n, base)
<1>0. Stamped /\ OnWires /\ InLogs /\ InBase
  BY DEF Numbers
<1>1. t \in Tx
  <2>1. begun \in 0..MaxTx /\ committed \subseteq 1..begun
    BY DEF Types
  <2>2. QED BY <2>1, NoneApart DEF Tx
<1>2. CASE CommitOnWire(t)
  <2>1. ASSUME NEW w \in written, w.op = "insert", w.tx = t
        PROVE  ~In(w.n, base) /\ ~(tx # None /\ In(w.n, logs[tx]))
    <3>1. PICK n : n = w.n
      OBVIOUS
    <3>2. Inserted(n, w.conn, t)
      BY <1>0, <2>1, <3>1, InsertIs
    <3>3. n # Drop /\ \A d, u : Inserted(n, d, u) => u = t
      BY <1>0, <3>2, OneInsert
    <3>4. ASSUME NEW i \in 1..Len(base), base[i] = n PROVE FALSE
      <4>1. PICK u \in committed \union {None} :
              (\E d \in Conn : Inserted(n, d, u)) /\ (u \in Tx => ~CommitOnWire(u))
        BY <1>0, <3>3, <3>4 DEF InBase
      <4>2. QED BY <1>1, <1>2, <3>3, <4>1
    <3>5. ASSUME tx # None, NEW i \in 1..Len(logs[tx]), logs[tx][i] = n PROVE FALSE
      <4>1. tx \in Tx
        BY <3>5
      <4>2. \E d \in Conn : Inserted(n, d, tx)
        BY <1>0, <3>3, <3>5, <4>1 DEF InLogs
      <4>3. QED BY <3>3, <4>2
    <3>6. QED BY <3>1, <3>4, <3>5 DEF In
  <2>2. QED BY <2>1
<1>3. CASE ~CommitOnWire(t)
  <2>1. ASSUME NEW w \in written, w.op = "insert", w.tx = t PROVE In(w.n, base)
    <3>0. PICK n : n = w.n
      OBVIOUS
    <3>1. Inserted(n, w.conn, t) /\ w.conn \in Conn
      BY <1>0, <2>1, <3>0, InsertIs DEF Stamped
    <3>2. OnWire(w) \/ In(w.n, logs[t]) \/ In(w.n, base)
      BY <2>1 DEF Complete
    <3>3. ~OnWire(w)
      <4> SUFFICES ASSUME OnWire(w) PROVE FALSE OBVIOUS
      <4>1. PICK i \in 1..Len(wire[w.conn]) : wire[w.conn][i].type = "insert" /\ wire[w.conn][i].value = n
        BY <3>0 DEF OnWire
      <4>2. PICK u : u = wire[w.conn][i].tx
        OBVIOUS
      <4>3. Inserted(n, w.conn, u)
        BY <1>0, <3>1, <4>1, <4>2 DEF OnWires
      <4>4. u = t
        BY <1>0, <3>1, <4>3, OneInsert
      <4>5. Mentions(w.conn, i)
        BY <3>1 DEF Endings
      <4>6. \E j \in i..Len(wire[w.conn]) : CommitAt(w.conn, j, t)
        BY <4>2, <4>4, <4>5 DEF Mentions
      <4>7. \A j \in i..Len(wire[w.conn]) : j \in 1..Len(wire[w.conn])
        BY <3>1, OnTheWire
      <4>8. QED BY <1>3, <3>1, <4>6, <4>7 DEF CommitOnWire
    <3>4. ~In(w.n, logs[t])
      <4> SUFFICES ASSUME In(w.n, logs[t]) PROVE FALSE OBVIOUS
      <4>1. PICK i \in 1..Len(logs[t]) : logs[t][i] = n
        BY <3>0 DEF In
      <4>2. logs[t] # <<>>
        BY <1>1, <4>1, TheLogs
      <4>3. QED BY <1>1, <1>3, <4>2 DEF Endings, Remembered
    <3>5. QED BY <3>2, <3>3, <3>4
  <2>2. QED BY <2>1
<1>4. QED BY <1>2, <1>3

(* What a find that is alone on its wire finds is what it may answer.      *)
LEMMA FoundConsistent ==
    ASSUME Types, OneUser, Endings, Numbers, Ordered, Complete, NEW c \in Conn,
           Len(wire[c]) = 1, wire[c][1].type = "find", NEW tx, tx = wire[c][1].tx, tx = active[c]
    PROVE  Consistent(c, Found(tx))
<1>0. tx \in Tx \union {None} /\ Stamped
  BY DEF Types, TypeOK, Numbers
<1>1. \A i \in 1..Len(Found(tx)) : \E w \in Visible(c) : w.n = Found(tx)[i]
  <2> SUFFICES ASSUME NEW i \in 1..Len(Found(tx)) PROVE \E w \in Visible(c) : w.n = Found(tx)[i]
    OBVIOUS
  <2>1. PICK d \in Conn, t \in committed \union {None, tx} : Inserted(Found(tx)[i], d, t)
    BY <1>0, FoundNumbers
  <2>2. PICK w \in written : w = [n |-> Found(tx)[i], op |-> "insert", conn |-> d, tx |-> t]
    BY <2>1 DEF Inserted
  <2>3. w.n = Found(tx)[i] /\ w.tx = t
    BY <2>2
  <2>4. w \in Visible(c)
    BY <2>1, <2>3 DEF Visible
  <2>5. QED BY <2>3, <2>4
<1>2. ASSUME \A w \in Visible(c) : w.op # "dropnamespace"
      PROVE  /\ \A w \in Visible(c) : w.op = "insert" /\ w.conn = c => In(w.n, Found(tx))
             /\ \A t \in committed \ {active[c]} :
                  \/ \A w \in written : w.op = "insert" /\ w.tx = t => ~In(w.n, Found(tx))
                  \/ \A w \in written : w.op = "insert" /\ w.tx = t => In(w.n, Found(tx))
  <2>1. \A w \in written : w.tx \in committed \union {None, tx} => w.op # "dropnamespace"
    BY <1>2 DEF Visible
  <2>2. \A n : In(n, Found(tx)) <=> In(n, base) \/ (tx # None /\ In(n, logs[tx]))
    BY <1>0, <2>1, FoundAll
  <2>3. \A w \in Visible(c) : w.op = "insert" /\ w.conn = c => In(w.n, Found(tx))
    BY <2>2, FoundMine
  <2>4. \A t \in committed \ {active[c]} :
                  \/ \A w \in written : w.op = "insert" /\ w.tx = t => ~In(w.n, Found(tx))
                  \/ \A w \in written : w.op = "insert" /\ w.tx = t => In(w.n, Found(tx))
    BY <1>0, <2>2, FoundWhole
  <2>5. QED BY <2>3, <2>4
<1>3. \A i, j \in 1..Len(Found(tx)) : \A v, w \in written :
         i < j /\ v.n = Found(tx)[i] /\ w.n = Found(tx)[j] /\ v.conn = w.conn /\ v.tx = w.tx => v.n < w.n
  <2> SUFFICES ASSUME NEW i \in 1..Len(Found(tx)), NEW j \in 1..Len(Found(tx)), i < j,
                      NEW v \in written, NEW w \in written, v.n = Found(tx)[i], w.n = Found(tx)[j],
                      v.conn = w.conn, v.tx = w.tx
               PROVE  v.n < w.n
    OBVIOUS
  <2>1. PICK d \in Conn, t \in committed \union {None, tx} : Inserted(Found(tx)[i], d, t)
    BY <1>0, FoundNumbers
  <2>2. PICK e \in Conn, u \in committed \union {None, tx} : Inserted(Found(tx)[j], e, u)
    BY <1>0, FoundNumbers
  <2>3. v.conn = d /\ v.tx = t
    BY <1>0, <2>1, OneInsert
  <2>4. w.conn = e /\ w.tx = u
    BY <1>0, <2>2, OneInsert
  <2>5. Inserted(Found(tx)[j], d, t)
    BY <2>2, <2>3, <2>4
  <2>6. 1 \in 1..Len(wire[c])
    OBVIOUS
  <2>7. Found(tx)[i] < Found(tx)[j]
    BY <2>1, <2>5, <2>6, FoundOrdered
  <2>8. QED BY <2>7
<1>4. QED BY <1>1, <1>2, <1>3 DEF Consistent

\* Each array on its way to a client is what a find may answer.
AnswersConsistent ==
    \A c \in Conn : answers[c] # <<>> /\ waiting[c] = "array" =>
        \E a \in Seq(0..MaxRequests) : Head(answers[c])[2] = a /\ Consistent(c, a)

(* FindConsistent, answer by answer.                                       *)
LEMMA FindConsistentIs == Types /\ Conversation => (FindConsistent <=> AnswersConsistent)
<1> DEFINE FC(c, answer) ==
             LET docs    == ToSet(answer)
                 visible == {w \in written : w.tx \in committed \union {None, active[c]}}
                 dropped == \E w \in visible : w.op = "dropnamespace"
                 mine    == {w \in visible : w.op = "insert" /\ w.conn = c}
             IN  /\ docs \subseteq {w.n : w \in visible}
                 /\ ~dropped =>
                      /\ {w.n : w \in mine} \subseteq docs
                      /\ \A t \in committed \ {active[c]} :
                           InsertsOf(t) \intersect docs \in {{}, InsertsOf(t)}
                 /\ \A i, j \in DOMAIN answer : \A v, w \in written :
                      i < j /\ v.n = answer[i] /\ w.n = answer[j] /\ v.conn = w.conn /\ v.tx = w.tx
                        => v.n < w.n
<1> SUFFICES ASSUME Types, Conversation PROVE FindConsistent <=> AnswersConsistent
  OBVIOUS
<1>1. FindConsistent <=>
        \A c \in Conn : answers[c] # <<>> /\ waiting[c] = "array" => FC(c, Head(answers[c])[2])
  BY DEF FindConsistent
<1>2. \A c \in Conn, a \in Seq(0..MaxRequests) : Consistent(c, a) <=> FC(c, a)
  BY ConsistentIs
<1> HIDE DEF FC
<1>3. \A c \in Conn : answers[c] # <<>> /\ waiting[c] = "array" =>
        Head(answers[c])[2] \in Seq(0..MaxRequests)
  BY AnswerOf
<1>4. QED BY <1>1, <1>2, <1>3, Zenon DEF AnswersConsistent

(* An answer stays right when no other client sends anything.              *)
LEMMA ConsistentFrame ==
    ASSUME NEW c \in Conn, NEW answer, Consistent(c, answer),
           written' = written, committed' = committed, active'[c] = active[c]
    PROVE  Consistent(c, answer)'
<1>1. Visible(c)' = Visible(c)
  BY DEF Visible
<1>2. QED BY <1>1 DEF Consistent

(* And it stays right whatever another client sends: what that inserts or  *)
(* commits was not in the answer.                                          *)
LEMMA ConsistentSending ==
    ASSUME Types, OneUser, Endings, Numbers, NEW d, NEW cmd, Sending(d, cmd),
           NEW c \in Conn, c # d, NEW answer, Consistent(c, answer)
    PROVE  Consistent(c, answer)'
<1>0. Stamped /\ d \in Conn /\ active'[c] = active[c] /\ requests \in Nat
  BY NoneApart DEF Numbers, Sending, Types
<1>1. /\ \A w \in written : w \in written'
      /\ \A t \in committed : t \in committed'
      /\ \A w \in written' : w \in written \/
           (w.n = requests + 1 /\ w.conn = d /\ w.tx = active[d] /\ cmd.type # "commit")
      /\ \A t \in committed' : t \in committed \/ (t = active[d] /\ cmd.type = "commit")
  BY DEF Sending
<1>2. \A t \in committed' : t \in Tx
  <2>1. begun \in 0..MaxTx /\ committed \subseteq 1..begun
    BY DEF Types
  <2>2. \A t \in committed : t \in Tx
    BY <2>1, NoneApart DEF Tx
  <2>3. cmd.type = "commit" => active[d] \in Tx
    BY DEF Sending, WellFormed
  <2>4. QED BY <1>1, <2>2, <2>3
<1>3. \A w \in Visible(c) : w \in Visible(c)'
  BY <1>0, <1>1 DEF Visible
<1>4. \A i \in 1..Len(answer) : \E w \in Visible(c) : w.n = answer[i]
  BY DEF Consistent
<1>5. \A i \in 1..Len(answer) : \A w \in written' : w.n = answer[i] => w \in Visible(c)
  <2> SUFFICES ASSUME NEW i \in 1..Len(answer), NEW w \in written', w.n = answer[i]
               PROVE  w \in Visible(c)
    OBVIOUS
  <2>1. PICK v \in Visible(c) : v.n = answer[i]
    BY <1>4
  <2>2. v \in written /\ v.n \in 1..requests
    BY <1>0, <2>1 DEF Visible, Stamped
  <2>3. w.n # requests + 1
    BY <1>0, <2>1, <2>2
  <2>4. w \in written
    BY <1>1, <2>3
  <2>5. w = v
    BY <1>0, <2>1, <2>2, <2>4 DEF Stamped
  <2>6. QED BY <2>1, <2>5
<1>6. ASSUME (\A w \in Visible(c) : w.op # "dropnamespace")'
      PROVE  /\ \A w \in Visible(c)' : w.op = "insert" /\ w.conn = c => In(w.n, answer)
             /\ \A t \in committed' \ {active'[c]} :
                  \/ \A w \in written' : w.op = "insert" /\ w.tx = t => ~In(w.n, answer)
                  \/ \A w \in written' : w.op = "insert" /\ w.tx = t => In(w.n, answer)
  <2>1. /\ \A w \in Visible(c) : w.op = "insert" /\ w.conn = c => In(w.n, answer)
        /\ \A t \in committed \ {active[c]} :
                  \/ \A w \in written : w.op = "insert" /\ w.tx = t => ~In(w.n, answer)
                  \/ \A w \in written : w.op = "insert" /\ w.tx = t => In(w.n, answer)
    BY <1>3, <1>6 DEF Consistent
  <2>2. ASSUME NEW w \in Visible(c)', w.op = "insert", w.conn = c PROVE In(w.n, answer)
    <3>1. w \in written' /\ w.tx \in committed' \union {None, active[c]}
      BY <1>0 DEF Visible
    <3>2. w \in written
      BY <1>1, <2>2, <3>1
    <3>3. w.tx \in committed \union {None, active[c]}
      <4> SUFFICES ASSUME w.tx \in committed', w.tx \notin committed PROVE FALSE
        BY <3>1
      <4>1. w.tx = active[d] /\ w.tx \in Tx
        BY <1>1, <1>2
      <4>2. Uses(d, w.tx) /\ Uses(c, w.tx)
        BY <2>2, <3>2, <4>1 DEF Uses
      <4>3. QED BY <1>0, <4>1, <4>2 DEF OneUser
    <3>4. w \in Visible(c)
      BY <3>2, <3>3 DEF Visible
    <3>5. QED BY <2>1, <2>2, <3>4
  <2>3. ASSUME NEW t \in committed' \ {active'[c]}
        PROVE  \/ \A w \in written' : w.op = "insert" /\ w.tx = t => ~In(w.n, answer)
               \/ \A w \in written' : w.op = "insert" /\ w.tx = t => In(w.n, answer)
    <3>1. CASE t \in committed
      <4>1. t # active[d]
        <5>1. t # None
          BY <1>2, <2>3, NoneApart
        <5>2. QED BY <1>0, <3>1, <5>1 DEF Endings, ActiveOpen
      <4>2. \A w \in written' : w.tx = t => w \in written
        BY <1>1, <4>1
      <4>3. t \in committed \ {active[c]}
        BY <1>0, <2>3, <3>1
      <4>4. QED BY <2>1, <4>2, <4>3
    <3>2. CASE t \notin committed
      <4>1. t # None /\ t # active[c]
        BY <1>0, <1>2, <2>3, NoneApart
      <4>2. \A w \in Visible(c) : w.tx # t
        BY <3>2, <4>1 DEF Visible
      <4>3. \A w \in written' : w.tx = t => ~In(w.n, answer)
        BY <1>5, <4>2 DEF In
      <4>4. QED BY <4>3
    <3>3. QED BY <3>1, <3>2
  <2>4. QED BY <2>2, <2>3
<1>7. \A i, j \in 1..Len(answer) : \A v, w \in written' :
         i < j /\ v.n = answer[i] /\ w.n = answer[j] /\ v.conn = w.conn /\ v.tx = w.tx => v.n < w.n
  <2>1. \A i \in 1..Len(answer) : \A w \in written' : w.n = answer[i] => w \in written
    BY <1>5 DEF Visible
  <2>2. QED BY <2>1 DEF Consistent
<1>8. \A i \in 1..Len(answer) : \E w \in Visible(c)' : w.n = answer[i]
  BY <1>3, <1>4
<1>9. QED BY <1>6, <1>7, <1>8 DEF Consistent

(* Every answer is right when it is written, and until it is read.         *)
LEMMA FindConsistentStep ==
    ASSUME Types, Driver, Conversation, OneUser, Endings, Numbers, Ordered, Complete, FindConsistent,
           \/ Still \/ (\E c, cmd : Sending(c, cmd)) \/ (\E c \in Conn : Execute(c))
    PROVE  AnswersConsistent'
<1>0. AnswersConsistent
  BY FindConsistentIs
<1>1. CASE Still
  <2> SUFFICES ASSUME NEW c \in Conn, answers'[c] # <<>>, waiting'[c] = "array"
               PROVE  \E a \in Seq(0..MaxRequests) : Head(answers'[c])[2] = a /\ Consistent(c, a)'
    BY DEF AnswersConsistent
  <2>1. /\ answers'[c] = answers[c] /\ waiting'[c] = waiting[c] /\ active'[c] = active[c]
        /\ written' = written /\ committed' = committed
    BY <1>1 DEF Still
  <2>2. PICK a \in Seq(0..MaxRequests) : Head(answers[c])[2] = a /\ Consistent(c, a)
    BY <1>0, <2>1 DEF AnswersConsistent
  <2>3. Consistent(c, a)'
    BY <2>1, <2>2, ConsistentFrame
  <2>4. QED BY <2>1, <2>2, <2>3
<1>2. ASSUME NEW d, NEW cmd, Sending(d, cmd) PROVE AnswersConsistent'
  <2> SUFFICES ASSUME NEW c \in Conn, answers'[c] # <<>>, waiting'[c] = "array"
               PROVE  \E a \in Seq(0..MaxRequests) : Head(answers'[c])[2] = a /\ Consistent(c, a)'
    BY DEF AnswersConsistent
  <2>1. answers' = answers /\ c # d /\ waiting'[c] = waiting[c]
    BY <1>2 DEF Sending
  <2>2. PICK a \in Seq(0..MaxRequests) : Head(answers[c])[2] = a /\ Consistent(c, a)
    BY <1>0, <2>1 DEF AnswersConsistent
  <2>3. Consistent(c, a)'
    BY <1>2, <2>1, <2>2, ConsistentSending
  <2>4. QED BY <2>1, <2>2, <2>3
<1>3. ASSUME NEW d \in Conn, Execute(d) PROVE AnswersConsistent'
  <2>0. PICK cmd : cmd = wire[d][1]
    OBVIOUS
  <2>1. UNCHANGED <<active, committed, written, waiting>>
    BY <1>3, <2>0, Executed
  <2>2. /\ \A c \in Conn \ {d} : answers'[c] = answers[c]
        /\ answers'[d] = <<>> \/
                /\ d \in opened /\ Len(wire[d]) = 1 /\ cmd.tx = active[d]
                /\ cmd.type = "find" => answers'[d] = << <<"array", Found(cmd.tx)>> >>
                /\ cmd.type # "find" => waiting'[d] = "int"
    BY <1>3, <2>0, ExecuteStep
  <2> SUFFICES ASSUME NEW c \in Conn, answers'[c] # <<>>, waiting'[c] = "array"
               PROVE  \E a \in Seq(0..MaxRequests) : Head(answers'[c])[2] = a /\ Consistent(c, a)'
    BY DEF AnswersConsistent
  <2>3. CASE c # d
    <3>1. answers'[c] = answers[c]
      BY <2>2, <2>3
    <3>2. PICK a \in Seq(0..MaxRequests) : Head(answers[c])[2] = a /\ Consistent(c, a)
      BY <1>0, <2>1, <3>1 DEF AnswersConsistent
    <3>3. Consistent(c, a)'
      BY <2>1, <3>2, ConsistentFrame
    <3>4. QED BY <3>1, <3>2, <3>3
  <2>4. CASE c = d
    <3>1. /\ Len(wire[c]) = 1 /\ cmd.tx = active[c] /\ cmd.type = "find"
          /\ answers'[c] = << <<"array", Found(cmd.tx)>> >>
      BY <2>2, <2>4
    <3>2. PICK tx : tx = cmd.tx
      OBVIOUS
    <3>3. PICK a : a = Found(tx)
      OBVIOUS
    <3>4. a \in Seq(0..MaxRequests)
      <4>1. tx \in Tx \union {None}
        BY <3>1, <3>2 DEF Types, TypeOK
      <4>2. QED BY <3>3, <4>1, FoundIs
    <3>5. Consistent(c, a)
      BY <2>0, <2>4, <3>1, <3>2, <3>3, FoundConsistent
    <3>6. Consistent(c, a)'
      BY <2>1, <3>5, ConsistentFrame
    <3>7. Head(answers'[c])[2] = a
      BY <3>1, <3>2, <3>3
    <3>8. QED BY <3>4, <3>6, <3>7
  <2>5. QED BY <2>3, <2>4
<1>4. QED BY <1>1, <1>2, <1>3

-----------------------------------------------------------------------------
(* The end of the server.                                                   *)

(* A find answers no more documents than were inserted in its transaction, *)
(* in committed ones and in none.                                          *)
LEMMA FoundBound ==
    ASSUME Types, Endings, Numbers, Ordered, NEW c \in Conn, 1 \in 1..Len(wire[c]),
           NEW tx, tx = wire[c][1].tx,
           NEW S, S = {w \in written : w.op = "insert" /\ w.tx \in committed \union {None, tx}}
    PROVE  /\ IsFiniteSet(S) /\ Cardinality(S) \in Nat
           /\ Len(Found(tx)) \in Nat /\ Len(Found(tx)) <= Cardinality(S)
<1>0. tx \in Tx \union {None} /\ Stamped
  <2>1. wire[c][1] \in Command
    BY OnTheWire
  <2>2. QED BY <2>1, Fields DEF Numbers
<1>1. IsFiniteSet(S) /\ Cardinality(S) \in Nat
  BY <1>0, FS_Subset, FS_CardinalityType DEF Stamped
<1>2. PICK n \in Nat : n = Len(Found(tx))
  <2>1. Found(tx) \in Seq(0..MaxRequests)
    BY <1>0, FoundIs
  <2>2. QED BY <2>1, LenProperties
<1>3. IsFiniteSet(1..n) /\ Cardinality(1..n) = n
  BY FS_Interval
<1>4. \A i \in 1..n : \E w \in S : w.n = Found(tx)[i]
  <2> SUFFICES ASSUME NEW i \in 1..n PROVE \E w \in S : w.n = Found(tx)[i]
    OBVIOUS
  <2>1. PICK d \in Conn, t \in committed \union {None, tx} : Inserted(Found(tx)[i], d, t)
    BY <1>0, <1>2, FoundNumbers
  <2>2. PICK w \in written : w = [n |-> Found(tx)[i], op |-> "insert", conn |-> d, tx |-> t]
    BY <2>1 DEF Inserted
  <2>3. w.n = Found(tx)[i] /\ w.op = "insert" /\ w.tx \in committed \union {None, tx}
    BY <2>1, <2>2
  <2>4. QED BY <2>3
<1>5. PICK f \in [1..n -> S] : \A i \in 1..n : f[i].n = Found(tx)[i]
  <2> DEFINE g == [i \in 1..n |-> CHOOSE w \in S : w.n = Found(tx)[i]]
  <2>1. \A i \in 1..n : g[i] \in S /\ g[i].n = Found(tx)[i]
    BY <1>4
  <2>2. g \in [1..n -> S]
    BY <2>1
  <2> HIDE DEF g
  <2>3. QED BY <2>1, <2>2
<1>6. \A i, j \in 1..n : i < j => f[i] # f[j]
  <2> SUFFICES ASSUME NEW i \in 1..n, NEW j \in 1..n, i < j, f[i] = f[j] PROVE FALSE
    OBVIOUS
  <2>1. i \in 1..Len(Found(tx)) /\ j \in 1..Len(Found(tx)) /\ Found(tx)[i] = Found(tx)[j]
    BY <1>2, <1>5
  <2>2. PICK d \in Conn, t \in committed \union {None, tx} : Inserted(Found(tx)[i], d, t)
    BY <1>0, <2>1, FoundNumbers
  <2>3. Inserted(Found(tx)[j], d, t)
    BY <2>1, <2>2
  <2>4. Found(tx)[i] < Found(tx)[j]
    BY <2>1, <2>2, <2>3, FoundOrdered
  <2>5. Found(tx)[i] \in 1..requests /\ requests \in Nat
    BY <1>0, <2>2, OneInsert, NoneApart DEF Types
  <2>6. QED BY <2>1, <2>4, <2>5
<1>7. \A i, j \in 1..n : i # j => f[i] # f[j]
  BY <1>6
<1>8. ~(Cardinality(S) < n)
  <2> SUFFICES ASSUME Cardinality(S) < n PROVE FALSE
    OBVIOUS
  <2>1. PICK D : D = 1..n
    OBVIOUS
  <2>2. IsFiniteSet(D) /\ Cardinality(S) < Cardinality(D) /\ f \in [D -> S]
    BY <1>3, <1>5, <2>1
  <2>3. \E i, j \in D : i # j /\ f[i] = f[j]
    BY <1>1, <2>2, FS_PigeonHole
  <2>4. QED BY <1>7, <2>1, <2>3
<1>9. n <= Cardinality(S)
  BY <1>1, <1>8
<1>10. QED BY <1>1, <1>2, <1>9

(* The inserts that a find of transaction t may answer.                    *)
Answerable(t) == {w \in written : w.op = "insert" /\ w.tx \in committed \union {None, t}}

(* They are never fewer.                                                   *)
LEMMA AnswerableGrows ==
    ASSUME Stamped, Stamped', written \subseteq written', committed \subseteq committed', NEW t
    PROVE  /\ Cardinality(Answerable(t)) \in Nat /\ Cardinality(Answerable(t)') \in Nat
           /\ Cardinality(Answerable(t)) <= Cardinality(Answerable(t)')
<1>1. Answerable(t) \subseteq written /\ Answerable(t)' \subseteq written'
  BY DEF Answerable
<1>2. IsFiniteSet(Answerable(t)) /\ IsFiniteSet(Answerable(t)')
  BY <1>1, FS_Subset DEF Stamped
<1>3. Answerable(t) \subseteq Answerable(t)'
  BY DEF Answerable
<1>4. PICK a, b : a = Answerable(t) /\ b = Answerable(t)'
  OBVIOUS
<1>5. IsFiniteSet(a) /\ IsFiniteSet(b) /\ a \subseteq b
  BY <1>2, <1>3, <1>4
<1>6. Cardinality(a) \in Nat /\ Cardinality(b) \in Nat /\ Cardinality(a) <= Cardinality(b)
  BY <1>5, FS_Subset, FS_CardinalityType
<1>7. QED BY <1>4, <1>6

(* The server ends for no reason but the one that ServerOutlives gives,    *)
(* and that reason stays.                                                  *)
LEMMA OutlivesStep ==
    ASSUME Types, Endings, Numbers, Numbers', Ordered, ServerOutlives,
           \/ Still /\ up' = up
           \/ \E c \in Conn : ExecuteOverflows(c)
           \/ \E c, cmd : Sending(c, cmd)
           \/ \E c \in Conn : Execute(c)
    PROVE  ServerOutlives'
<1>1. ServerOutlives <=> up \/ \E t \in Tx \union {None} : Cardinality(Answerable(t)) > MaxAnswer
  BY DEF ServerOutlives, Answerable
<1>2. ServerOutlives' <=> up' \/ \E t \in Tx \union {None} : Cardinality(Answerable(t)') > MaxAnswer
  BY DEF ServerOutlives, Answerable
<1>3. Stamped /\ Stamped'
  BY DEF Numbers
<1>4. ASSUME up' = up, written \subseteq written', committed \subseteq committed'
      PROVE  ServerOutlives'
  <2>1. CASE up
    BY <1>2, <1>4, <2>1
  <2>2. CASE ~up
    <3>1. PICK t \in Tx \union {None} : Cardinality(Answerable(t)) > MaxAnswer
      BY <1>1, <2>2
    <3>2. /\ Cardinality(Answerable(t)) \in Nat /\ Cardinality(Answerable(t)') \in Nat
          /\ Cardinality(Answerable(t)) <= Cardinality(Answerable(t)')
      BY <1>3, <1>4, AnswerableGrows
    <3>3. Cardinality(Answerable(t)') > MaxAnswer
      BY <3>1, <3>2, NoneApart
    <3>4. QED BY <1>2, <3>3
  <2>3. QED BY <2>1, <2>2
<1>5. CASE Still /\ up' = up
  BY <1>4, <1>5 DEF Still
<1>6. ASSUME NEW c, NEW cmd, Sending(c, cmd) PROVE ServerOutlives'
  BY <1>4, <1>6 DEF Sending
<1>7. ASSUME NEW c \in Conn, Execute(c) PROVE ServerOutlives'
  <2>0. PICK cmd : cmd = wire[c][1]
    OBVIOUS
  <2>1. UNCHANGED <<written, committed>> /\ up' = up
    BY <1>7, <2>0, Executed
  <2>2. QED BY <1>4, <2>1
<1>8. ASSUME NEW c \in Conn, ExecuteOverflows(c) PROVE ServerOutlives'
  <2>1. /\ wire[c] # <<>> /\ AnswerTooLong(ReadCommand(c))
        /\ UNCHANGED <<written, committed>>
    BY <1>8 DEF ExecuteOverflows
  <2>2. 1 \in 1..Len(wire[c]) /\ ReadCommand(c).tx = wire[c][1].tx /\ wire[c][1] \in Command
    <3>1. wire[c] # <<>> /\ Len(wire[c]) \in Nat \ {0}
      BY <2>1, ReadAsWritten
    <3>2. ReadCommand(c).tx = wire[c][1].tx
      BY <3>1, ReadAsWritten
    <3>3. wire[c][1] \in Command
      BY <3>1, ReadAsWritten
    <3>4. QED BY <3>1, <3>2, <3>3
  <2>3. PICK tx : tx = wire[c][1].tx
    OBVIOUS
  <2>4. tx \in Tx \union {None}
    BY <2>2, <2>3, Fields
  <2>5. Len(Found(tx)) > MaxAnswer
    BY <2>1, <2>2, <2>3 DEF AnswerTooLong
  <2>6. PICK S : S = Answerable(tx)
    OBVIOUS
  <2>7. S = {w \in written : w.op = "insert" /\ w.tx \in committed \union {None, tx}}
    BY <2>6 DEF Answerable
  <2>8. /\ Cardinality(S) \in Nat /\ Len(Found(tx)) \in Nat
        /\ Len(Found(tx)) <= Cardinality(S)
    BY <2>2, <2>3, <2>7, FoundBound
  <2>9. Cardinality(S) > MaxAnswer
    BY <2>5, <2>8, NoneApart
  <2>10. S = Answerable(tx)'
    BY <2>1, <2>7 DEF Answerable
  <2>11. QED BY <1>2, <2>4, <2>9, <2>10
<1>9. QED BY <1>5, <1>6, <1>7, <1>8

-----------------------------------------------------------------------------
(* The theorems.                                                            *)

(* SessionInv holds when nothing is connected.                             *)
LEMMA SessionInit ==
    ASSUME Init
    PROVE  SessionInv
<1> USE NoneApart
<1>1. /\ \A c \in Conn : /\ procOf[c] = None /\ socket[c] = "none" /\ active[c] = None
                         /\ waiting[c] = None /\ wire[c] = <<>> /\ answers[c] = <<>>
      /\ \A p \in Proc : registered[p] = None
      /\ \A t \in Tx : logs[t] = <<>>
      /\ made = {} /\ opened = {} /\ gone = {} /\ transactions = {} /\ base = <<>> /\ up = TRUE
      /\ requests = 0 /\ begun = 0 /\ closedBy = {} /\ written = {} /\ committed = {}
      /\ crashed = {}
  BY DEF Init
<1>2. /\ \A c \in Conn : Len(wire[c]) = 0 /\ 1..Len(wire[c]) = {}
      /\ \A t \in Tx : Len(logs[t]) = 0 /\ 1..Len(logs[t]) = {}
      /\ Len(base) = 0 /\ 1..Len(base) = {}
  BY <1>1
<1>3. Types
  <2>1. TypeOK
    BY DEF Init, TypeOK
  <2>2. wire \in [Conn -> Seq(Command)] /\ answers \in [Conn -> Seq(Answer)]
    BY DEF Init
  <2>3. requests \in 0..MaxRequests /\ begun \in 0..MaxTx
    BY <1>1
  <2>4. QED BY <1>1, <1>2, <2>1, <2>2, <2>3 DEF Types
<1>4. Driver
  <2>1. 0 \in 0..MaxConn /\ made = 1..0
    BY <1>1
  <2>2. QED BY <1>1, <2>1 DEF Driver
<1>5. Conversation
  BY <1>1, <1>2 DEF Conversation, Quiet, NoAsk
<1>6. OneUser
  BY <1>1, <1>2 DEF OneUser, Uses
<1>7. Endings
  BY <1>1, <1>2 DEF Endings, ActiveOpen, Remembered
<1>8. Numbers
  <2>1. IsFiniteSet(written)
    BY <1>1, FS_EmptySet
  <2>2. QED BY <1>1, <1>2, <2>1 DEF Numbers, Stamped, OnWires, InLogs, InBase
<1>9. Ordered
  BY <1>1, <1>2 DEF Ordered, WireOrder, LogOrder, BaseOrder
<1>10. Complete
  BY <1>1 DEF Complete
<1>11. FindConsistent
  BY <1>1 DEF FindConsistent
<1>12. ServerOutlives
  BY <1>1 DEF ServerOutlives
<1>13. QED BY <1>3, <1>4, <1>5, <1>6, <1>7, <1>8, <1>9, <1>10, <1>11, <1>12 DEF SessionInv

(* FindConsistentIs, in the state after a step.                            *)
LEMMA FindConsistentNext == (Types /\ Conversation => (FindConsistent <=> AnswersConsistent))'
  BY FindConsistentIs, PTL

(* A step that changes nothing is still.                                   *)
LEMMA NoStep ==
    ASSUME Types, Driver, Conversation, UNCHANGED vars
    PROVE  Types' /\ Driver' /\ Conversation' /\ Still /\ up' = up
<1>0. /\ UNCHANGED <<procOf, made, registered, opened, socket, active, waiting, gone, wire, answers>>
      /\ UNCHANGED <<transactions, logs, base, up, requests, begun, closedBy, written, committed,
                     garbled, crashed>>
  BY DEF vars, driver, server, history
<1>1. TypeOK'
  BY <1>0 DEF Types, TypeOK
<1>2. Types'
  BY <1>0, <1>1 DEF Types
<1>3. Driver'
  BY <1>0 DEF Driver, CloserOf
<1>4. Conversation'
  BY <1>0 DEF Conversation, Quiet, Asked, Answered, NoAsk
<1>5. Still /\ up' = up
  BY <1>0 DEF Still
<1>6. QED BY <1>2, <1>3, <1>4, <1>5

(* Every step keeps SessionInv.                                            *)
LEMMA SessionStep ==
    ASSUME SessionInv, [Next]_vars
    PROVE  SessionInv'
<1>1. /\ Types /\ Driver /\ Conversation /\ OneUser /\ Endings /\ Numbers /\ Ordered /\ Complete
      /\ FindConsistent /\ ServerOutlives /\ Stamped
  BY DEF SessionInv, Numbers
<1>2. /\ Types' /\ Driver' /\ Conversation'
      /\ \/ Still /\ up' = up
         \/ Still /\ \E c \in Conn : ExecuteOverflows(c)
         \/ \E c, cmd : Sending(c, cmd)
         \/ \E c \in Conn : Execute(c)
  BY <1>1, Steps, NoStep
<1>3. OneUser' /\ Endings' /\ Numbers' /\ Ordered' /\ Complete'
  <2>1. CASE Still
    BY <1>1, <2>1, OneUserStill, EndingsStill, NumbersStill, OrderedStill, CompleteStill
  <2>2. ASSUME NEW c, NEW cmd, Sending(c, cmd) PROVE OneUser' /\ Endings' /\ Numbers' /\ Ordered' /\ Complete'
    BY <1>1, <2>2, OneUserSending, EndingsSending, NumbersSending, OrderedSending, CompleteSending
  <2>3. ASSUME NEW c \in Conn, Execute(c) PROVE OneUser' /\ Endings' /\ Numbers' /\ Ordered' /\ Complete'
    BY <1>1, <2>3, OneUserExecute, EndingsExecute, NumbersExecute, OrderedExecute, CompleteExecute
  <2>4. QED BY <1>2, <2>1, <2>2, <2>3
<1>4. FindConsistent'
  <2>1. AnswersConsistent'
    BY <1>1, <1>2, FindConsistentStep
  <2>2. QED BY <1>2, <2>1, FindConsistentNext
<1>5. ServerOutlives'
  BY <1>1, <1>2, <1>3, OutlivesStep
<1>6. QED BY <1>2, <1>3, <1>4, <1>5 DEF SessionInv

(* However many clients, connections, requests and transactions there are, *)
(* SessionInv holds in every state of a session.                           *)
THEOREM SessionInvariance == Spec => []SessionInv
<1>1. Init => SessionInv
  BY SessionInit
<1>2. SessionInv /\ [Next]_vars => SessionInv'
  BY SessionStep
<1>3. QED BY <1>1, <1>2, PTL DEF Spec

(* Requests are read as they were written, an answer on a wire is the only *)
(* one there and of the kind its client reads, and who waits for one has   *)
(* his question on the wire or his answer: a driver that sends inserts,    *)
(* commits and rollbacks without reading never gets out of step.           *)
THEOREM InStep == Spec => []WireInStep
<1>1. SessionInv => WireInStep
  <2> SUFFICES ASSUME SessionInv PROVE WireInStep OBVIOUS
  <2>1. Types /\ Conversation /\ TypeOK /\ answers \in [Conn -> Seq(Answer)]
    BY DEF SessionInv, Types
  <2>2. AnswerIsAwaited
    <3> SUFFICES ASSUME NEW c \in Conn, answers[c] # <<>>
                 PROVE  Len(answers[c]) = 1 /\ Head(answers[c])[1] = waiting[c]
      BY DEF AnswerIsAwaited
    <3>1. Answered(c)
      BY <2>1 DEF Conversation, Quiet, Asked
    <3>2. Len(answers[c]) = 1 /\ answers[c] \in Seq(Answer)
      BY <2>1, <3>1 DEF Answered
    <3>3. Head(answers[c]) = answers[c][1]
      BY <3>2
    <3>4. QED BY <3>1, <3>3 DEF Answered
  <2>3. WaitsForSomething
    <3> SUFFICES ASSUME NEW c \in Conn, waiting[c] # None
                 PROVE  IF answers[c] = <<>>
                        THEN wire[c] # <<>> /\ Last(wire[c]).type \in {"find", "dropnamespace"}
                        ELSE wire[c] = <<>>
      BY DEF WaitsForSomething
    <3>1. Asked(c) \/ Answered(c)
      BY <2>1 DEF Conversation, Quiet
    <3>2. CASE answers[c] = <<>>
      <4>1. Asked(c)
        BY <3>1, <3>2 DEF Answered
      <4>2. QED BY <3>2, <4>1 DEF Asked, Asks, Last
    <3>3. CASE answers[c] # <<>>
      BY <3>1, <3>3 DEF Asked, Answered
    <3>4. QED BY <3>2, <3>3
  <2>4. QED BY <2>1, <2>2, <2>3 DEF WireInStep
<1>2. QED BY <1>1, SessionInvariance, PTL

(* What a find answers: what its own client wrote, of every other          *)
(* transaction all or nothing, and each client's inserts in their order,   *)
(* though inserts, commits and rollbacks are sent without waiting.         *)
THEOREM FindAnswered == Spec => []FindConsistent
<1>1. SessionInv => FindConsistent
  BY DEF SessionInv
<1>2. QED BY <1>1, SessionInvariance, PTL

(* A connection whose user did not close it is down only when the entry    *)
(* that releaseConnection took was of another close, and no commit or      *)
(* rollback crashes its process for another reason.                        *)
THEOREM ClosedOnlyByAnother == Spec => []ClosedByAnother
<1>1. SessionInv => ClosedByAnother
  <2> SUFFICES ASSUME SessionInv PROVE ClosedByAnother OBVIOUS
  <2>1. Driver /\ TypeOK
    BY DEF SessionInv, Types
  <2>2. ASSUME NEW c \in made \ closedBy, socket[c] # "none", c \notin opened, procOf[c] \notin gone
        PROVE  \E d \in closedBy \ {c} : procOf[d] = procOf[c]
    <3>1. c \in Conn /\ socket[c] \in {"none", "up", "closed"}
      BY <2>1 DEF TypeOK
    <3>2. socket[c] = "closed"
      BY <2>1, <2>2, <3>1 DEF Driver
    <3>3. CloserOf(c)
      BY <2>1, <2>2, <3>1, <3>2 DEF Driver
    <3>4. QED BY <3>3 DEF CloserOf
  <2>3. \A c \in crashed : socket[c] = "none" \/ \E d \in closedBy : procOf[d] = procOf[c]
    BY <2>1 DEF Driver, CloserOf
  <2>4. QED BY <2>2, <2>3 DEF ClosedByAnother
<1>2. QED BY <1>1, SessionInvariance, PTL

(* A transaction in the registry whose commit was sent has that commit on  *)
(* its way, and the base has nothing of one whose commit was not sent.     *)
THEOREM TransactionsEnded == Spec => []TransactionsEnd
<1>1. SessionInv => TransactionsEnd
  <2> SUFFICES ASSUME SessionInv PROVE TransactionsEnd OBVIOUS
  <2>1. Types /\ Endings /\ Numbers /\ Stamped /\ InBase
    BY DEF SessionInv, Numbers
  <2>2. RegistryForgets
    <3> SUFFICES ASSUME NEW t \in transactions, t \in committed
                 PROVE  \E c \in Conn : \E i \in DOMAIN wire[c] :
                           wire[c][i].type = "commit" /\ wire[c][i].value = t
      BY DEF RegistryForgets
    <3>1. t \in Tx
      BY <2>1 DEF Types, TypeOK
    <3>2. PICK c \in Conn : \E i \in 1..Len(wire[c]) : CommitAt(c, i, t)
      BY <2>1, <3>1 DEF Endings, Remembered, CommitOnWire
    <3>3. PICK i \in 1..Len(wire[c]) : wire[c][i].type = "commit" /\ wire[c][i].tx = t
      BY <3>2 DEF CommitAt
    <3>4. wire[c][i].value = t
      BY <2>1, <3>3 DEF Types, WellFormed
    <3>5. i \in DOMAIN wire[c]
      BY <2>1, OnTheWire
    <3>6. QED BY <3>3, <3>4, <3>5
  <2>3. CommittedOnly
    <3> SUFFICES ASSUME NEW i \in DOMAIN base, NEW t \in Tx, base[i] \in InsertsOf(t)
                 PROVE  t \in committed
      BY DEF CommittedOnly
    <3>1. i \in 1..Len(base)
      BY <2>1, TheLogs
    <3>2. PICK w \in written : w.op = "insert" /\ w.tx = t /\ w.n = base[i]
      BY DEF InsertsOf
    <3>3. Inserted(base[i], w.conn, t)
      BY <2>1, <3>2, InsertIs
    <3>4. base[i] # Drop /\ \A d, u : Inserted(base[i], d, u) => u = t
      BY <2>1, <3>3, OneInsert
    <3>5. PICK u \in committed \union {None} : \E d \in Conn : Inserted(base[i], d, u)
      BY <2>1, <3>1, <3>4 DEF InBase
    <3>6. QED BY <3>4, <3>5, NoneApart
  <2>4. QED BY <2>2, <2>3 DEF TransactionsEnd
<1>2. QED BY <1>1, SessionInvariance, PTL

(* The server ends only when a client could be answered more documents     *)
(* than an answer holds: no closed connection and no client that ends      *)
(* while it waits for an answer ends it, nor what was rolled back.         *)
THEOREM ServerOutlivesClients == Spec => []ServerOutlives
<1>1. SessionInv => ServerOutlives
  BY DEF SessionInv
<1>2. QED BY <1>1, SessionInvariance, PTL

=============================================================================
