----------------------------- MODULE SessionInv -----------------------------
(***************************************************************************)
(* What the properties of a session rest on: SessionInv is inductive.      *)
(***************************************************************************)
EXTENDS Session

Commands == {"insert", "find", "dropnamespace", "commit", "rollback"}
Asks == {"find", "dropnamespace"}
Kind(type) == IF type = "find" THEN "array" ELSE "int"

Command ==
    [type : Commands, tx : Tx \union {None}, fields : {WrittenFields(y) : y \in Commands},
     value : 1..MaxRequests \union Tx \union {None}]

\* A request as WriteCommand makes it.
WellFormed(cmd) ==
    /\ cmd.fields = WrittenFields(cmd.type)
    /\ cmd.type = "insert" => cmd.value \in 1..MaxRequests
    /\ cmd.type \in {"commit", "rollback"} => cmd.tx \in Tx /\ cmd.value = cmd.tx

\* What WriteResult puts on the wire.
Answer == ({"array"} \X Seq(0..MaxRequests)) \union ({"int"} \X {1})

Types ==
    /\ TypeOK
    /\ wire \in [Conn -> Seq(Command)]
    /\ \A c \in Conn : \A i \in 1..Len(wire[c]) : WellFormed(wire[c][i])
    /\ answers \in [Conn -> Seq(Answer)]
    /\ requests \in 0..MaxRequests /\ begun \in 0..MaxTx /\ committed \subseteq 1..begun
    /\ closedBy \subseteq made /\ crashed \subseteq made

-----------------------------------------------------------------------------
(* The driver.                                                              *)

\* A connection of the process of c was closed by its user.
CloserOf(c) == \E d \in closedBy : procOf[d] = procOf[c]

\* Only the user's own close takes the flag down and leaves the socket up.
Driver ==
    /\ \E k \in 0..MaxConn : made = 1..k
    /\ \A c \in made : procOf[c] \in Proc
    /\ \A c \in Conn \ made :
         socket[c] = "none" /\ active[c] = None /\ waiting[c] = None /\ procOf[c] = None
    /\ \A c \in Conn : socket[c] = "none" => wire[c] = <<>>
    /\ \A c \in Conn : socket[c] = "up" => c \in opened \union closedBy
    /\ \A c \in opened : socket[c] = "up"
    /\ \A c \in Conn : socket[c] = "up" => procOf[c] \notin gone
    /\ \A p \in Proc : registered[p] # None =>
         registered[p] \in made /\ procOf[registered[p]] = p
    /\ \A c \in Conn : socket[c] = "closed" => procOf[c] \in gone \/ CloserOf(c)
    /\ \A c \in crashed : procOf[c] \in gone /\ (socket[c] = "none" \/ CloserOf(c))

-----------------------------------------------------------------------------
(* The conversation of one connection.                                      *)

NoAsk(q) == \A i \in 1..Len(q) : q[i].type \notin Asks

\* Nothing is asked and nothing answered; or the question is the last request
\* on the wire; or its answer is there.  The question of a process that ended
\* stays on the wire.
Quiet(c) ==
    /\ waiting[c] = None /\ answers[c] = <<>>
    /\ NoAsk(wire[c]) \/ (socket[c] = "closed" /\ procOf[c] \in gone)
Asked(c) ==
    /\ c \in opened /\ answers[c] = <<>> /\ wire[c] # <<>>
    /\ \A i \in 1..(Len(wire[c]) - 1) : wire[c][i].type \notin Asks
    /\ wire[c][Len(wire[c])].type \in Asks
    /\ waiting[c] = Kind(wire[c][Len(wire[c])].type)
    /\ wire[c][Len(wire[c])].tx = active[c]
Answered(c) ==
    /\ c \in opened /\ wire[c] = <<>>
    /\ Len(answers[c]) = 1 /\ answers[c][1][1] = waiting[c]
Conversation == \A c \in Conn : Quiet(c) \/ Asked(c) \/ Answered(c)

-----------------------------------------------------------------------------
(* Transactions.                                                            *)

\* Each transaction has one connection that ever spoke of it.
Uses(c, t) ==
    \/ active[c] = t
    \/ \E i \in 1..Len(wire[c]) : wire[c][i].tx = t
    \/ \E w \in written : w.conn = c /\ w.tx = t
OneUser == \A t \in Tx : \A c, d \in Conn : Uses(c, t) /\ Uses(d, t) => c = d

CommitAt(c, i, t) == wire[c][i].type = "commit" /\ wire[c][i].tx = t
CommitOnWire(t) == \E c \in Conn : \E i \in 1..Len(wire[c]) : CommitAt(c, i, t)

ActiveOpen ==
    \A c \in Conn : active[c] # None => active[c] \in 1..begun /\ active[c] \notin committed

\* After the request that ends a transaction none speaks of it, and what was
\* sent in a transaction before its commit is on the wire before the commit.
Mentions(c, i) ==
    LET cmd == wire[c][i]
    IN  /\ cmd.tx # None => cmd.tx \in 1..begun
        /\ cmd.type \in {"commit", "rollback"} =>
             /\ active[c] # cmd.tx
             /\ \A j \in (i + 1)..Len(wire[c]) : wire[c][j].tx # cmd.tx
        /\ cmd.type = "commit" => cmd.tx \in committed
        /\ cmd.type = "rollback" => cmd.tx \notin committed
        /\ cmd.tx \in committed => \E j \in i..Len(wire[c]) : CommitAt(c, j, cmd.tx)

Remembered ==
    \A t \in Tx : t \in committed /\ (t \in transactions \/ logs[t] # <<>>) => CommitOnWire(t)

Endings ==
    /\ ActiveOpen /\ Remembered
    /\ \A c \in Conn : \A i \in 1..Len(wire[c]) : Mentions(c, i)

-----------------------------------------------------------------------------
(* What was written, and where it is.                                       *)

Inserted(n, c, t) == [n |-> n, op |-> "insert", conn |-> c, tx |-> t] \in written
Dropped(t) == \E w \in written : w.op = "dropnamespace" /\ w.tx = t

Stamped ==
    /\ IsFiniteSet(written)
    /\ \A w \in written :
         /\ w.n \in 1..requests /\ w.conn \in Conn /\ w.tx \in {None} \union 1..begun
         /\ w.op \in {"insert", "dropnamespace"}
         /\ w = [n |-> w.n, op |-> w.op, conn |-> w.conn, tx |-> w.tx]
    /\ \A v, w \in written : v.n = w.n => v = w
OnWires ==
    \A c \in Conn : \A i \in 1..Len(wire[c]) :
         /\ wire[c][i].type = "insert" => Inserted(wire[c][i].value, c, wire[c][i].tx)
         /\ wire[c][i].type = "dropnamespace" => Dropped(wire[c][i].tx)
InLogs ==
    \A t \in Tx : \A i \in 1..Len(logs[t]) :
         IF logs[t][i] = Drop THEN Dropped(t) ELSE \E c \in Conn : Inserted(logs[t][i], c, t)
InBase ==
    \A i \in 1..Len(base) : \E t \in committed \union {None} :
         IF base[i] = Drop THEN Dropped(t)
         ELSE /\ \E c \in Conn : Inserted(base[i], c, t)
              /\ t \in Tx => ~CommitOnWire(t)

\* Every operation is one that was sent, in the base those of transactions
\* whose commit was executed.
Numbers == Stamped /\ OnWires /\ InLogs /\ InBase

WireOrder ==
    \A c \in Conn : \A i, j \in 1..Len(wire[c]) :
         i < j /\ wire[c][i].type = "insert" /\ wire[c][j].type = "insert"
           => wire[c][i].value < wire[c][j].value
LogOrder ==
    \A t \in Tx : \A i \in 1..Len(logs[t]) : logs[t][i] # Drop =>
         /\ \A j \in (i + 1)..Len(logs[t]) : logs[t][j] # Drop => logs[t][i] < logs[t][j]
         /\ \A c \in Conn : \A j \in 1..Len(wire[c]) :
              wire[c][j].type = "insert" /\ wire[c][j].tx = t => logs[t][i] < wire[c][j].value
BaseOrder ==
    \A i \in 1..Len(base) : \A c \in Conn, t \in Tx \union {None} : Inserted(base[i], c, t) =>
         /\ \A j \in (i + 1)..Len(base) : Inserted(base[j], c, t) => base[i] < base[j]
         /\ t = None =>
              \A j \in 1..Len(wire[c]) :
                wire[c][j].type = "insert" /\ wire[c][j].tx = None => base[i] < wire[c][j].value

\* The inserts of one connection in one transaction keep their order.
Ordered == WireOrder /\ LogOrder /\ BaseOrder

OnWire(w) == \E i \in 1..Len(wire[w.conn]) :
                wire[w.conn][i].type = "insert" /\ wire[w.conn][i].value = w.n
In(n, log) == \E i \in 1..Len(log) : log[i] = n

\* No insert outside a transaction, in an open one or in one whose commit
\* was sent is lost.
Complete ==
    \A w \in written : w.op = "insert" =>
        /\ w.tx = None => OnWire(w) \/ In(w.n, base)
        /\ w.tx \in committed \/ (active[w.conn] = w.tx /\ w.tx # None) =>
             OnWire(w) \/ In(w.n, logs[w.tx]) \/ In(w.n, base)

-----------------------------------------------------------------------------
SessionInv ==
    /\ Types /\ Driver /\ Conversation
    /\ OneUser /\ Endings /\ Numbers /\ Ordered /\ Complete
    /\ FindConsistent /\ ServerOutlives

=============================================================================
