------------------------------ MODULE Session ------------------------------
(***************************************************************************)
(* A session: the driver in the processes of the clients, the protocol on  *)
(* the socket, and the requests in the server (driverbase/, command/,      *)
(* network/networkservice.cpp, tx/transactionmanager.cpp, stdtransaction). *)
(*                                                                         *)
(* A process is single-threaded, so it does nothing while one of its       *)
(* connections waits for an answer.  All connections lead to one host: the *)
(* map of DjondbConnectionManager has a key per host, and at most one      *)
(* entry here.  The server takes the requests of a connection in their     *)
(* order, one request at a time; its log is the queue that TxLog promises, *)
(* and a document is the number of its insert.  update and remove travel   *)
(* and are logged as insert is.                                            *)
(***************************************************************************)
EXTENDS Naturals, SequencesExt, FiniteSets

CONSTANTS
    None,          \* no connection, no transaction, no answer awaited
    MaxConn,       \* bound: connections made
    MaxAnswer,     \* documents that fit in the buffer of an answer
    MaxRequests,   \* bound: requests sent
    MaxTx          \* bound: transactions begun

ASSUME SessionAssumption ==
    /\ {MaxConn, MaxAnswer, MaxRequests, MaxTx} \subseteq Nat
    /\ None \notin Nat \union {"array", "int"}

Conn == 1..MaxConn     \* in the order in which they are made
Proc == Conn           \* a process has the name of its first connection
Tx == 1..MaxTx

VARIABLES
    \* the driver
    procOf,      \* the process of each connection
    made,        \* connections that getConnection returned
    registered,  \* DjondbConnectionManager::_connections, of each process
    opened,      \* _open
    socket,      \* "none", "up" or "closed"; the writer exists while it is up
    active,      \* _activeTransactionId
    waiting,     \* the answer a connection waits for
    gone,        \* processes that have ended
    \* the wire
    wire, answers,
    \* the server
    transactions, \* TransactionManager::_cacheTransactions
    logs,         \* the log of each transaction
    base,         \* the log of the base transaction and what it has applied
    up,           \* the server runs
    \* bounds and history: no guard but a bound reads them
    requests, begun,
    closedBy,     \* connections on which close was called
    written,      \* every insert and drop sent: number, kind, connection, transaction
    committed,    \* transactions whose COMMIT was sent
    garbled,      \* a request was not read as it was written
    crashed       \* connections whose use of the deleted writer ended the process

driver == <<procOf, made, registered, opened, socket, active, waiting, gone>>
server == <<transactions, logs, base, up>>
history == <<requests, begun, closedBy, written, committed, garbled, crashed>>
vars == <<driver, wire, answers, server, history>>

Init ==
    /\ procOf = [c \in Conn |-> None]
    /\ made = {} /\ registered = [p \in Proc |-> None] /\ opened = {}
    /\ socket = [c \in Conn |-> "none"] /\ active = [c \in Conn |-> None]
    /\ waiting = [c \in Conn |-> None] /\ gone = {}
    /\ wire = [c \in Conn |-> <<>>] /\ answers = [c \in Conn |-> <<>>]
    /\ transactions = {} /\ logs = [t \in Tx |-> <<>>] /\ base = <<>> /\ up = TRUE
    /\ requests = 0 /\ begun = 0 /\ closedBy = {} /\ written = {} /\ committed = {}
    /\ garbled = FALSE /\ crashed = {}

Runs(p) == p \notin gone /\ \A d \in made : procOf[d] = p => waiting[d] = None

\* The process of a connection runs and does not wait for an answer.
Ready(c) == Runs(procOf[c])

-----------------------------------------------------------------------------
(* DjondbConnectionManager, and DjondbConnection::open and close.           *)

\* internalClose, which does nothing when the flag is down
InternalClose(c) == IF c \in opened THEN [socket EXCEPT ![c] = "closed"] ELSE socket

\* A process that makes a connection: one that runs, or a new one
Maker(c, p) ==
    /\ c = Cardinality(made) + 1
    /\ p \in {c} \union {procOf[d] : d \in made} /\ Runs(p)
    /\ made' = made \union {c}
    /\ procOf' = [procOf EXCEPT ![c] = p]

\* Mutant: the entry that is there is closed and replaced
GetConnectionReplaces(c, p) ==
    LET entry == registered[p]
    IN  /\ Maker(c, p)
        /\ socket' = IF entry = None THEN socket ELSE InternalClose(entry)
        /\ opened' = opened \ {entry}
        /\ registered' = [registered EXCEPT ![p] = c]
        /\ UNCHANGED <<active, waiting, gone, wire, answers, server, history>>

\* The connection is looked for under "host_port" and stored under "host", so
\* it is never found and each call makes one; an entry that is there stays.
GetConnection(c, p) ==
    /\ Maker(c, p)
    /\ registered' = [registered EXCEPT ![p] = IF @ = None THEN c ELSE @]
    /\ UNCHANGED <<opened, socket, active, waiting, gone, wire, answers, server, history>>

Open(c) ==
    /\ c \in made /\ Ready(c) /\ socket[c] = "none"
    /\ opened' = opened \union {c}
    /\ socket' = [socket EXCEPT ![c] = "up"]
    /\ UNCHANGED <<procOf, made, registered, active, waiting, gone, wire, answers, server, history>>

\* releaseConnection takes the entry of the host, whichever connection it
\* holds: the count of its copy goes from 1 to 0, that connection is closed
\* and the entry erased.  The flag of the caller's own connection goes down.
Close(c) ==
    LET entry == registered[procOf[c]]
    IN  /\ c \in made /\ Ready(c) /\ socket[c] # "none" /\ c \notin closedBy
        /\ socket' = IF entry = None THEN socket ELSE InternalClose(entry)
        /\ opened' = opened \ {c, entry}
        /\ registered' = [registered EXCEPT ![procOf[c]] = None]
        /\ closedBy' = closedBy \union {c}
        /\ UNCHANGED <<procOf, made, active, waiting, gone, wire, answers, server, requests, begun,
                       written, committed, garbled, crashed>>

\* The process ends: its sockets are closed and its memory is gone.
Ended(p) ==
    LET Lost(f, v) == [c \in Conn |-> IF procOf[c] = p THEN v ELSE f[c]]
    IN  /\ gone' = gone \union {p}
        /\ socket' = [c \in Conn |-> IF procOf[c] = p /\ socket[c] = "up" THEN "closed"
                                     ELSE socket[c]]
        /\ registered' = [registered EXCEPT ![p] = None]
        /\ opened' = {c \in opened : procOf[c] # p}
        /\ waiting' = Lost(waiting, None) /\ active' = Lost(active, None)
        /\ answers' = Lost(answers, <<>>)
        /\ UNCHANGED <<procOf, made, wire, server, requests, begun, closedBy, written, committed,
                       garbled>>

Exit(p) ==
    /\ p \notin gone /\ \E c \in made : procOf[c] = p
    /\ Ended(p)
    /\ UNCHANGED crashed

-----------------------------------------------------------------------------
(* Requests on the wire.                                                    *)

Strings(n) == [i \in 1..n |-> "string"]

\* Command::writeCommand of each command
WrittenFields(type) ==
    CASE type = "insert" -> <<"string", "string", "bson">>
      [] type = "find" -> Strings(4)
      [] type = "dropnamespace" -> Strings(2)
      [] OTHER -> Strings(1)

\* CommandWriter::writeCommand: after the version and the type the options,
\* which hold the transaction, and the fields; value is what the last holds
WriteCommand(type, options, value) ==
    [type |-> type, tx |-> options, fields |-> WrittenFields(type), value |-> value]

\* The parse functions of CommandReader
ReadFields(type) ==
    CASE type = "insert" -> <<"string", "string", "bson">>
      [] type = "find" -> Strings(4)
      [] type = "dropnamespace" -> Strings(2)
      [] OTHER -> Strings(1)

\* CommandReader::readCommand takes what the type asks for, and the next
\* request begins where that ends: the fields must be the ones written.
ReadCommand(c) ==
    LET cmd == Head(wire[c])
    IN  [type |-> cmd.type, tx |-> cmd.tx, value |-> cmd.value,
         whole |-> cmd.fields = ReadFields(cmd.type)]

\* prepareOptions adds the active transaction.
SendCommand(c, type, value) ==
    /\ requests < MaxRequests
    /\ requests' = requests + 1
    /\ wire' = [wire EXCEPT ![c] = Append(@, WriteCommand(type, active[c], value))]

-----------------------------------------------------------------------------
(* DjondbConnection: what a client calls.                                   *)

\* A transaction that was active is forgotten.
BeginTransaction(c) ==
    /\ c \in made /\ Ready(c) /\ begun < MaxTx
    /\ begun' = begun + 1
    /\ active' = [active EXCEPT ![c] = begun + 1]
    /\ UNCHANGED <<procOf, made, registered, opened, socket, waiting, gone, wire, answers, server,
                   requests, closedBy, written, committed, garbled, crashed>>

\* What the history keeps of an insert or a drop
Written(c, type) ==
    written' = written \union {[n |-> requests + 1, op |-> type, conn |-> c, tx |-> active[c]]}

\* insert sends its command and reads nothing.
Insert(c) ==
    /\ c \in opened /\ Ready(c)
    /\ SendCommand(c, "insert", requests + 1)
    /\ Written(c, "insert")
    /\ UNCHANGED <<driver, answers, server, begun, closedBy, committed, garbled, crashed>>

\* find and dropNamespace wait for their answer.
Ask(c, type, kind) ==
    /\ c \in opened /\ Ready(c)
    /\ SendCommand(c, type, None)
    /\ waiting' = [waiting EXCEPT ![c] = kind]
    /\ UNCHANGED <<procOf, made, registered, opened, socket, active, gone, answers, server, begun,
                   closedBy, committed, garbled, crashed>>

Find(c) == Ask(c, "find", "array") /\ UNCHANGED written
DropNamespace(c) == Ask(c, "dropnamespace", "int") /\ Written(c, "dropnamespace")

\* commitTransaction and rollbackTransaction do not look whether the
\* connection is open; the writer of a closed one is gone.
EndTransaction(c, type) ==
    /\ c \in made /\ Ready(c) /\ active[c] # None
    /\ IF socket[c] = "up"
       THEN /\ SendCommand(c, type, active[c])
            /\ active' = [active EXCEPT ![c] = None]
            /\ committed' = IF type = "commit" THEN committed \union {active[c]} ELSE committed
            /\ UNCHANGED <<procOf, made, registered, opened, socket, waiting, gone, answers, server,
                           begun, closedBy, written, garbled, crashed>>
       ELSE Ended(procOf[c]) /\ crashed' = crashed \union {c}

CommitTransaction(c) == EndTransaction(c, "commit")
RollbackTransaction(c) == EndTransaction(c, "rollback")

Receive(c) ==
    /\ waiting[c] # None /\ answers[c] # <<>>
    /\ answers' = [answers EXCEPT ![c] = Tail(@)]
    /\ waiting' = [waiting EXCEPT ![c] = None]
    /\ UNCHANGED <<procOf, made, registered, opened, socket, active, gone, wire, server, history>>

-----------------------------------------------------------------------------
(* NetworkService::executeRequest.                                          *)

Drop == 0

\* BaseTransaction::find: what was inserted since the last drop
View(log) ==
    LET drops == {i \in DOMAIN log : log[i] = Drop}
        last  == IF drops = {} THEN 0 ELSE CHOOSE i \in drops : \A j \in drops : j <= i
    IN  SubSeq(log, last + 1, Len(log))

Log(tx) == IF tx = None THEN base ELSE logs[tx]

\* An operation of the log, in the transaction of the request or in the base
Logged(tx, op) ==
    /\ IF tx = None
       THEN base' = Append(base, op) /\ UNCHANGED logs
       ELSE logs' = [logs EXCEPT ![tx] = Append(@, op)] /\ UNCHANGED base

\* CommitCommand::execute: the buffers go to the base transaction, then
\* dropTransaction
ExecuteCommit(tx) ==
    /\ base' = base \o logs[tx]
    /\ logs' = [logs EXCEPT ![tx] = <<>>]
    /\ transactions' = transactions \ {tx}

\* Mutant: a rollback passes the buffers on
ExecuteRollbackMerges(tx) ==
    /\ base' = base \o logs[tx]
    /\ logs' = [logs EXCEPT ![tx] = <<>>]
    /\ transactions' = transactions \union {tx}

\* RollbackCommand::execute: the transaction stays in the registry
ExecuteRollback(tx) ==
    /\ logs' = [logs EXCEPT ![tx] = <<>>]
    /\ transactions' = transactions \union {tx}
    /\ UNCHANGED base

\* Mutant: a find of a transaction sees its own log only
FoundInOwn(tx) == View(Log(tx))

\* the controller of a transaction is the base transaction
Found(tx) == View(IF tx = None THEN base ELSE base \o logs[tx])

\* Mutant: insert answers
ResultOfInsert(cmd) ==
    CASE cmd.type = "find" -> << <<"array", Found(cmd.tx)>> >>
      [] cmd.type \in {"dropnamespace", "insert"} -> << <<"int", 1>> >>
      [] OTHER -> <<>>

\* Command::writeResult of each command
WriteResult(cmd) ==
    CASE cmd.type = "find" -> << <<"array", Found(cmd.tx)>> >>
      [] cmd.type = "dropnamespace" -> << <<"int", 1>> >>
      [] OTHER -> <<>>

\* getTransaction makes the transaction when it is not known.
Transaction(tx) == IF tx = None THEN transactions ELSE transactions \union {tx}

\* Mutant: the last segment is not used
AnswerTooLongEarly(cmd) == cmd.type = "find" /\ Len(Found(cmd.tx)) >= MaxAnswer

\* An answer is collected in a MemoryStream of 100 segments and sent by one
\* send at its end; MemoryStream::allocate asserts when they are used up.
AnswerTooLong(cmd) == cmd.type = "find" /\ Len(Found(cmd.tx)) > MaxAnswer

\* The first send to a peer that is gone is accepted, and no connection has
\* two answers to come: no send fails.
Execute(c) ==
    /\ up /\ wire[c] # <<>>
    /\ LET cmd == ReadCommand(c)
       IN  /\ ~AnswerTooLong(cmd)
           /\ wire' = [wire EXCEPT ![c] = Tail(@)]
           /\ garbled' = (garbled \/ ~cmd.whole)
           /\ answers' = IF socket[c] = "up" THEN [answers EXCEPT ![c] = @ \o WriteResult(cmd)]
                         ELSE answers
           /\ \/ cmd.type = "insert" /\ Logged(cmd.tx, cmd.value)
                   /\ transactions' = Transaction(cmd.tx)
              \/ cmd.type = "dropnamespace" /\ Logged(cmd.tx, Drop)
                   /\ transactions' = Transaction(cmd.tx)
              \/ cmd.type = "find" /\ UNCHANGED <<base, logs>>
                   /\ transactions' = Transaction(cmd.tx)
              \/ cmd.type = "commit" /\ ExecuteCommit(cmd.value)
              \/ cmd.type = "rollback" /\ ExecuteRollback(cmd.value)
    /\ UNCHANGED <<driver, up, requests, begun, closedBy, written, committed, crashed>>

\* The process ends before anything of the answer is sent, whether its client
\* is still there or not.  Its request is left on the wire, unanswered.
ExecuteOverflows(c) ==
    /\ up /\ wire[c] # <<>>
    /\ LET cmd == ReadCommand(c)
       IN  AnswerTooLong(cmd) /\ garbled' = (garbled \/ ~cmd.whole)
    /\ up' = FALSE
    /\ UNCHANGED <<driver, wire, answers, transactions, logs, base, requests, begun, closedBy,
                   written, committed, crashed>>

-----------------------------------------------------------------------------
Next ==
    \/ \E c \in Conn :
         \/ \E p \in Proc : GetConnection(c, p)
         \/ Open(c) \/ Close(c)
         \/ BeginTransaction(c) \/ Insert(c) \/ Find(c) \/ DropNamespace(c)
         \/ CommitTransaction(c) \/ RollbackTransaction(c) \/ Receive(c)
         \/ Execute(c) \/ ExecuteOverflows(c)
    \/ \E p \in Proc : Exit(p)

Spec == Init /\ [][Next]_vars

-----------------------------------------------------------------------------
(* Properties.                                                              *)

\* The types of the state, and no request is read other than it was written.
TypeOK ==
    /\ procOf \in [Conn -> Proc \union {None}] /\ made \subseteq Conn /\ opened \subseteq made /\ gone \subseteq Proc
    /\ registered \in [Proc -> Conn \union {None}]
    /\ socket \in [Conn -> {"none", "up", "closed"}]
    /\ active \in [Conn -> Tx \union {None}]
    /\ waiting \in [Conn -> {None, "array", "int"}]
    /\ transactions \subseteq Tx
    /\ logs \in [Tx -> Seq(0..MaxRequests)] /\ base \in Seq(0..MaxRequests)
    /\ up \in BOOLEAN /\ ~garbled

\* The server answers what is asked and nothing else: an answer on the wire
\* is the only one there, a client waits for it, and it is of the kind that
\* client reads.  One that nobody reads would be taken for the next.
AnswerIsAwaited ==
    \A c \in Conn :
        answers[c] # <<>> => Len(answers[c]) = 1 /\ Head(answers[c])[1] = waiting[c]

\* A client that waits for an answer does not wait in vain: its request is the
\* last on the wire and its answer not sent, or the answer is on its way.
WaitsForSomething ==
    \A c \in Conn : waiting[c] # None /\ up =>
        IF answers[c] = <<>>
        THEN wire[c] # <<>> /\ Last(wire[c]).type \in {"find", "dropnamespace"}
        ELSE wire[c] = <<>>

\* Requests and answers on the wire are those that both ends expect, whatever
\* is sent without waiting.
WireInStep == TypeOK /\ AnswerIsAwaited /\ WaitsForSomething

InsertsOf(tx) == {w.n : w \in {v \in written : v.op = "insert" /\ v.tx = tx}}

\* What a find answers: all its client inserted before on that connection,
\* outside a transaction, in one it has committed or in the present one,
\* though none of these calls waited for the server, unless a drop may have
\* been executed between; of another transaction all of it when its commit
\* was sent, or nothing; and the inserts of a connection in their order.
FindConsistent ==
    \A c \in Conn : answers[c] # <<>> /\ waiting[c] = "array" =>
        LET answer  == Head(answers[c])[2]
            docs    == ToSet(answer)
            visible == {w \in written : w.tx \in committed \union {None, active[c]}}
            dropped == \E w \in visible : w.op = "dropnamespace"
            mine    == {w \in visible : w.op = "insert" /\ w.conn = c}
        IN  /\ docs \subseteq {w.n : w \in visible}
            /\ ~dropped =>
                 /\ {w.n : w \in mine} \subseteq docs
                 /\ \A t \in committed \ {active[c]} :
                      InsertsOf(t) \intersect docs \in {{}, InsertsOf(t)}
            /\ \A i, j \in DOMAIN answer : \A v, w \in written :
                 i < j /\ v.n = answer[i] /\ w.n = answer[j] /\ v.conn = w.conn /\ v.tx = w.tx
                   => v.n < w.n

\* A connection that its user did not close is down only when another one of
\* the process was closed, and a commit or rollback makes the process crash
\* only after such a close, or on a connection that was never opened.
ClosedByAnother ==
    /\ \A c \in made \ closedBy :
         socket[c] # "none" /\ c \notin opened /\ procOf[c] \notin gone
           => \E d \in closedBy \ {c} : procOf[d] = procOf[c]
    /\ \A c \in crashed :
         socket[c] = "none" \/ \E d \in closedBy : procOf[d] = procOf[c]

\* The server ends only when a client could be answered more documents than
\* an answer holds, those of its own transaction and of the committed ones: no
\* closed connection, no client that ends while it waits, and nothing that was
\* rolled back or is open elsewhere ends it.
ServerOutlives ==
    up \/ \E t \in Tx \union {None} :
            Cardinality({w \in written : /\ w.op = "insert"
                                         /\ w.tx \in committed \union {None, t}}) > MaxAnswer

\* The registry of the server forgets a transaction when it has executed its
\* commit: one that is in it is open, was rolled back or abandoned, or its
\* commit is still on its way.
RegistryForgets ==
    \A t \in transactions : t \in committed =>
        \E c \in Conn : \E i \in DOMAIN wire[c] :
            wire[c][i].type = "commit" /\ wire[c][i].value = t

\* What was written in a transaction reaches the base only by its commit,
\* whatever connections are closed and processes end meanwhile.
CommittedOnly ==
    \A i \in DOMAIN base : \A t \in Tx : base[i] \in InsertsOf(t) => t \in committed

\* What the server keeps of transactions, in its registry and in the base.
TransactionsEnd == RegistryForgets /\ CommittedOnly

=============================================================================
