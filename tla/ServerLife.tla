----------------------------- MODULE ServerLife -----------------------------
(***************************************************************************)
(* The life of the server process: start, the select loop, the monitor of  *)
(* the log, and the two ways to stop, a SHUTDOWN request and a signal      *)
(* (daemon/main.cpp, service/service.cpp, network/networkservice.cpp,      *)
(* network/networkserver.cpp, tx/txbuffermanager.cpp, util/lock.cpp).      *)
(*                                                                         *)
(* Three threads: "main" polls the service and runs signal handlers, "net" *)
(* serves requests, the monitor flushes the log.  NetworkService::stop     *)
(* runs in whichever of the first two wants to stop; `stopPc' is its place *)
(* in it.  The counter `processing' that stop waits for is raised nowhere, *)
(* so the wait is left out.  What a thread does with a deleted object is   *)
(* undefined: `ub' records it, and nothing is said of the process then.    *)
(***************************************************************************)
EXTENDS Naturals, FiniteSets, Sequences, FiniteSetsExt

CONSTANTS
    Conn,          \* connections, numbered by their descriptors
    MaxRequests,   \* bound: requests sent by all clients
    MaxBacklog     \* bound: buffers queued in the log

ASSUME LifeAssumption ==
    Conn \subseteq Nat \ {0} /\ IsFiniteSet(Conn) /\ MaxRequests \in Nat /\ MaxBacklog \in Nat \ {0}

VARIABLES
    mainPc,     \* main thread: "start", "poll", "stopping", "exited"
    stopPc,     \* place in NetworkService::stop, of each thread
    running,    \* NetworkService::_running
    listening,  \* NetworkServer::_running
    alive,      \* objects that exist: "manager", "base", "controller"
    streams,    \* the controller's streams are open
    \* the network thread
    netPc,
    ready,      \* what the last select returned and the scan has not reached
    pass,       \* connections the present pass over the buffers has still to visit
    from,       \* the connection being served
    current,    \* the request being executed
    back,       \* the loop that called: "scan" or "cleanup"
    \* connections
    open,       \* their streams
    left,       \* the client has closed its end
    owed,       \* the second half of a request is still to come
    closed,     \* closed by the server, which still selects on the descriptor
    inbox,      \* what is in the socket
    buffered,   \* what is in the buffer of the NetworkInputStream
    requests,
    \* the monitor of the log
    monPc,
    monitoring, \* TxBufferManager::_runningMonitor
    second,     \* the timed wait still has its second to go
    backlog,    \* buffers in the log
    lockWait,   \* holder of _lockWait
    lockActive, \* holder of _lockActiveBuffers
    \* history variables: no guard but that of ub reads them
    ub,         \* a deleted object was used, or an exception left a thread
    asked,      \* a stop was asked for: "no", "request", "signal", "both"
    others      \* other requests were at hand when SHUTDOWN was executed

stopVars == <<stopPc, running, listening, alive, streams>>
netVars == <<netPc, ready, pass, from, current, back>>
connVars == <<open, left, owed, closed, inbox, buffered, requests>>
monVars == <<monPc, monitoring, second, backlog>>
lockVars == <<lockWait, lockActive>>
history == <<ub, asked, others>>
vars == <<mainPc, stopVars, netVars, connVars, monVars, lockVars, history>>

Free == "free"
None == "none"
NoConn == 0     \* the descriptor of the standard input
Threads == {"main", "net"}

Init ==
    /\ mainPc = "start" /\ stopPc = [t \in Threads |-> "idle"]
    /\ running = FALSE /\ listening = FALSE /\ alive = {} /\ streams = FALSE
    /\ netPc = "off" /\ ready = {} /\ pass = {} /\ from = NoConn /\ current = None
    /\ back = "scan"
    /\ open = Conn /\ left = {} /\ owed = {} /\ closed = {} /\ requests = 0
    /\ inbox = [c \in Conn |-> <<>>] /\ buffered = [c \in Conn |-> <<>>]
    /\ monPc = "off" /\ monitoring = FALSE /\ second = TRUE /\ backlog = 1
    /\ lockWait = Free /\ lockActive = Free
    /\ ub = FALSE /\ asked = "no" /\ others = FALSE

\* service_startup: the log starts its monitor, the server its thread.
Start ==
    /\ mainPc = "start"
    /\ mainPc' = "poll" /\ netPc' = "select" /\ monPc' = "top"
    /\ running' = TRUE /\ listening' = TRUE /\ monitoring' = TRUE
    /\ alive' = {"manager", "base", "controller"} /\ streams' = TRUE
    /\ UNCHANGED <<stopPc, ready, pass, from, current, back, connVars, second, backlog,
                   lockVars, history>>

-----------------------------------------------------------------------------
(* Clients.  A request comes whole, or its "half" first and the "rest" of  *)
(* it later, if its client does not leave before.                          *)

CanSend(c) == netPc \notin {"off", "done"} /\ c \in open \ (left \union closed)

Send(c, r) ==
    /\ CanSend(c) /\ c \notin owed
    /\ requests < MaxRequests
    /\ requests' = requests + 1
    /\ inbox' = [inbox EXCEPT ![c] = Append(@, r)]
    /\ owed' = IF r = "half" THEN owed \union {c} ELSE owed
    /\ UNCHANGED <<mainPc, stopVars, netVars, open, left, closed, buffered, monVars, lockVars,
                   history>>

SendRest(c) ==
    /\ CanSend(c) /\ c \in owed
    /\ inbox' = [inbox EXCEPT ![c] = Append(@, "rest")]
    /\ owed' = owed \ {c}
    /\ UNCHANGED <<mainPc, stopVars, netVars, open, left, closed, buffered, requests, monVars,
                   lockVars, history>>

Disconnect(c) ==
    /\ CanSend(c)
    /\ left' = left \union {c}
    /\ UNCHANGED <<mainPc, stopVars, netVars, open, owed, closed, inbox, buffered, requests,
                   monVars, lockVars, history>>

-----------------------------------------------------------------------------
(* The select loop of NetworkServer::process.                               *)

\* select returns the sockets with something to read or closed by the
\* client, after a second none of them.  With a closed descriptor among them
\* it fails, and every descriptor it was asked about counts as ready.
Select ==
    /\ netPc = "select"
    /\ pass' = Conn
    /\ IF listening
       THEN /\ ready' = {c \in open : inbox[c] # <<>> \/ c \in left \/ closed # {}}
            /\ netPc' = "scan"
       ELSE /\ netPc' = "cleanup"
            /\ UNCHANGED ready
    /\ UNCHANGED <<mainPc, stopVars, from, current, back, connVars, monVars, lockVars,
                   history>>

\* readCommand: the socket is read only when the buffer is used up, and all
\* that is in it then moves to the buffer.
Read(c) ==
    LET fill == buffered[c] = <<>>
        got == IF fill THEN inbox[c] ELSE buffered[c]
    IN  /\ got # <<>>
        /\ buffered' = [buffered EXCEPT ![c] = Tail(got)]
        /\ inbox' = IF fill THEN [inbox EXCEPT ![c] = <<>>] ELSE inbox
        /\ from' = c /\ current' = Head(got)
        /\ netPc' = IF Head(got) = "half" THEN "reading" ELSE "execute"

\* Mutant: requests that came in one packet wait for the next packet
PendingNone == {c \in pass : FALSE}

\* Requests that wait in the buffers of the connections the pass has to visit.
Pending == {c \in pass : buffered[c] # <<>>}

\* After each descriptor a pass over all streams, for what came with an
\* earlier request.
ServePending ==
    /\ netPc = "scan" /\ Pending # {}
    /\ Read(Min(Pending))
    /\ pass' = {d \in pass : d > Min(Pending)}
    /\ back' = "scan"
    /\ UNCHANGED <<mainPc, stopVars, ready, open, left, owed, closed, requests, monVars, lockVars,
                   history>>

\* The next descriptor that select returned: createStreams finds the stream
\* closed, by the client or by the server itself, and drops it, or waits up to
\* 2000 seconds for something to read, in a select of its own.
ServeReady ==
    /\ netPc = "scan" /\ Pending = {} /\ ready # {}
    /\ LET c == Min(ready)
       IN  /\ ready' = ready \ {c}
           /\ closed' = closed \ {c}
           /\ \/ Read(c) /\ UNCHANGED open
              \/ /\ buffered[c] = <<>> /\ inbox[c] = <<>>
                 /\ IF c \in left \union closed
                    THEN open' = open \ {c} /\ UNCHANGED <<netPc, from>>
                    ELSE netPc' = "blocked" /\ from' = c /\ UNCHANGED open
                 /\ UNCHANGED <<inbox, buffered, current>>
    /\ pass' = Conn
    /\ back' = "scan"
    /\ UNCHANGED <<mainPc, stopVars, left, owed, requests, monVars, lockVars, history>>

\* The pass after a descriptor that select did not return.
NextDescriptor ==
    /\ netPc = "scan" /\ Pending = {}
    /\ \E c \in Conn : buffered[c] # <<>>
    /\ pass' = Conn
    /\ UNCHANGED <<mainPc, stopVars, netPc, ready, from, current, back, connVars, monVars,
                   lockVars, history>>

ScanEnd ==
    /\ netPc = "scan" /\ Pending = {} /\ ready = {}
    /\ netPc' = "select" /\ pass' = {}
    /\ UNCHANGED <<mainPc, stopVars, ready, from, current, back, connVars, monVars, lockVars,
                   history>>

\* The wait in createStreams ends: something comes, the client leaves, or
\* its 2000 seconds are over and the stream is closed.
Blocked ==
    /\ netPc = "blocked"
    /\ \/ Read(from) /\ UNCHANGED open
       \/ /\ inbox[from] = <<>>
          /\ open' = open \ {from}
          /\ netPc' = "scan" /\ from' = NoConn
          /\ UNCHANGED <<inbox, buffered, current>>
    /\ UNCHANGED <<mainPc, stopVars, ready, pass, back, left, owed, closed, requests, monVars,
                   lockVars, history>>

\* The rest of a request is read where the request is, whichever loop called.
ReadRest ==
    /\ netPc = "reading"
    /\ LET fill == buffered[from] = <<>>
           got == IF fill THEN inbox[from] ELSE buffered[from]
       IN  /\ got # <<>>
           /\ buffered' = [buffered EXCEPT ![from] = Tail(got)]
           /\ inbox' = IF fill THEN [inbox EXCEPT ![from] = <<>>] ELSE inbox
    /\ netPc' = "execute" /\ current' = "write"
    /\ UNCHANGED <<mainPc, stopVars, ready, pass, from, back, open, left, owed, closed, requests,
                   monVars, lockVars, history>>

\* It does not come in time, or the client has left: the stream closes its
\* socket and the read fails, which no caller looks at.  The read of the next
\* part asserts and the process ends; after the last part the request is
\* executed with what was in memory.
RestMissing ==
    /\ netPc = "reading" /\ buffered[from] = <<>> /\ inbox[from] = <<>>
    /\ \/ netPc' = "aborted" /\ UNCHANGED <<current, owed, closed>>
       \/ /\ netPc' = "execute" /\ current' = "write"
          /\ owed' = owed \ {from} /\ closed' = closed \union {from}
    /\ UNCHANGED <<mainPc, stopVars, ready, pass, from, back, open, left, inbox, buffered, requests,
                   monVars, lockVars, history>>

\* After the loop one pass over the buffers; what is left in them is dropped.
Cleanup ==
    /\ netPc = "cleanup"
    /\ IF Pending # {}
       THEN /\ Read(Min(Pending))
            /\ pass' = {d \in pass : d > Min(Pending)}
            /\ back' = "cleanup"
       ELSE /\ netPc' = "done"
            /\ buffered' = [c \in Conn |-> <<>>]
            /\ UNCHANGED <<pass, back, from, current, inbox>>
    /\ UNCHANGED <<mainPc, stopVars, ready, open, left, owed, closed, requests, monVars, lockVars,
                   history>>

\* The callback returns to the loop.
Return == netPc' = back /\ current' = None /\ from' = NoConn

\* A write goes through the base transaction to the log; most fit in the
\* buffer that is there, some need a new one (addBuffer).
ExecuteWrite ==
    /\ netPc = "execute" /\ current = "write"
    /\ ub' = ({"base", "controller"} \ alive # {})
    /\ \/ Return /\ UNCHANGED <<backlog, lockActive>>
       \/ /\ lockActive = Free /\ backlog < MaxBacklog
          /\ lockActive' = "net" /\ backlog' = backlog + 1
          /\ netPc' = "notify" /\ UNCHANGED <<from, current>>
    /\ UNCHANGED <<mainPc, stopVars, ready, pass, back, connVars, monPc, monitoring,
                   second, lockWait, asked, others>>

\* addBuffer still holds _lockActiveBuffers; the notification makes the
\* monitor wait another second.
Notify ==
    /\ netPc = "notify" /\ lockWait = Free
    /\ second' = TRUE /\ lockActive' = Free
    /\ Return
    /\ UNCHANGED <<mainPc, stopVars, ready, pass, back, connVars, monPc, monitoring,
                   backlog, lockWait, history>>

\* SHUTDOWN: its command does nothing, then stop runs in the network thread.
ExecuteShutdown ==
    /\ netPc = "execute" /\ current = "shutdown"
    /\ netPc' = "stopping" /\ current' = None /\ from' = NoConn
    /\ stopPc' = [stopPc EXCEPT !["net"] = "check"]
    /\ asked' = IF asked = "no" THEN "request" ELSE "both"
    /\ others' = (ready # {} \/ \E c \in Conn : buffered[c] # <<>>)
    /\ UNCHANGED <<mainPc, running, listening, alive, streams, ready, pass, back,
                   connVars, monVars, lockVars, ub>>

-----------------------------------------------------------------------------
(* NetworkService::stop.                                                    *)

StopAt(t, pc, next) == stopPc[t] = pc /\ stopPc' = [stopPc EXCEPT ![t] = next]

Delete(object) ==
    /\ alive' = alive \ {object}
    /\ ub' = (object \notin alive)

\* A service that does not run throws, and no one catches it.
StopCheck(t) ==
    /\ StopAt(t, "check", "manager")
    /\ ub' = ~running
    /\ UNCHANGED <<mainPc, running, listening, alive, streams, netVars, connVars, monVars, lockVars,
                   asked, others>>

StopManager(t) ==
    /\ StopAt(t, "manager", "monitor")
    /\ Delete("manager")
    /\ UNCHANGED <<mainPc, running, listening, streams, netVars, connVars, monVars, lockVars, asked,
                   others>>

\* Mutant: the flag of the monitor is left alone
StopMonitorNoFlag(t) ==
    /\ StopAt(t, "monitor", "notify")
    /\ UNCHANGED <<mainPc, running, listening, alive, streams, netVars, connVars, monVars,
                   lockVars, history>>

\* stopMonitor, called by ~BaseTransaction: the flag, then the lock of the queue.
StopMonitor(t) ==
    /\ StopAt(t, "monitor", IF monitoring THEN "notify" ELSE "base")
    /\ monitoring => lockActive = Free
    /\ monitoring' = FALSE
    /\ UNCHANGED <<mainPc, running, listening, alive, streams, netVars, connVars, monPc, second,
                   backlog, lockVars, history>>

\* A notification under _lockWait, which does not end the wait of the
\* monitor: its second starts again.
StopNotify(t) ==
    /\ StopAt(t, "notify", "join")
    /\ lockWait = Free
    /\ second' = TRUE
    /\ UNCHANGED <<mainPc, running, listening, alive, streams, netVars, connVars, monPc,
                   monitoring, backlog, lockVars, history>>

\* Mutant: the thread is not joined
StopJoinMonitorNot(t) ==
    /\ StopAt(t, "join", "base")
    /\ UNCHANGED <<mainPc, running, listening, alive, streams, netVars, connVars, monVars,
                   lockVars, history>>

StopJoinMonitor(t) ==
    /\ StopAt(t, "join", "base")
    /\ monPc = "done"
    /\ UNCHANGED <<mainPc, running, listening, alive, streams, netVars, connVars, monVars,
                   lockVars, history>>

StopBase(t) ==
    /\ StopAt(t, "base", "streams")
    /\ Delete("base")
    /\ UNCHANGED <<mainPc, running, listening, streams, netVars, connVars, monVars, lockVars, asked,
                   others>>

\* Mutant: the files stay open
StopStreamsNot(t) ==
    /\ StopAt(t, "streams", "running")
    /\ UNCHANGED <<mainPc, running, listening, alive, streams, netVars, connVars, monVars,
                   lockVars, history>>

\* DBController::shutdown closes the streams.
StopStreams(t) ==
    /\ StopAt(t, "streams", "running")
    /\ streams' = FALSE
    /\ ub' = ("controller" \notin alive)
    /\ UNCHANGED <<mainPc, running, listening, alive, netVars, connVars, monVars, lockVars, asked,
                   others>>

StopRunning(t) ==
    /\ StopAt(t, "running", "server")
    /\ running' = FALSE
    /\ UNCHANGED <<mainPc, listening, alive, streams, netVars, connVars, monVars, lockVars,
                   history>>

StopServer(t) ==
    /\ StopAt(t, "server", "thread")
    /\ listening' = FALSE
    /\ UNCHANGED <<mainPc, running, alive, streams, netVars, connVars, monVars, lockVars, history>>

\* The join of the network thread; a thread that joins itself gets an error.
StopJoinServer(t) ==
    /\ StopAt(t, "thread", "controller")
    /\ t = "net" \/ netPc = "done"
    /\ UNCHANGED <<mainPc, running, listening, alive, streams, netVars, connVars, monVars,
                   lockVars, history>>

\* stop returns: the network thread goes on with its loop, the handler of
\* the signal ends the process.
StopController(t) ==
    /\ StopAt(t, "controller", "idle")
    /\ Delete("controller")
    /\ IF t = "net" THEN netPc' = back /\ UNCHANGED mainPc
       ELSE mainPc' = "exited" /\ UNCHANGED netPc
    /\ UNCHANGED <<running, listening, streams, ready, pass, from, current, back, connVars,
                   monVars, lockVars, asked, others>>

-----------------------------------------------------------------------------
(* The main thread.                                                         *)

\* A signal arrives while the main thread sleeps; the handler stops the service.
Signal ==
    /\ mainPc = "poll"
    /\ mainPc' = "stopping"
    /\ stopPc' = [stopPc EXCEPT !["main"] = "check"]
    /\ asked' = IF asked = "no" THEN "signal" ELSE "both"
    /\ UNCHANGED <<running, listening, alive, streams, netVars, connVars, monVars, lockVars, ub,
                   others>>

Poll ==
    /\ mainPc = "poll" /\ ~running
    /\ mainPc' = "exited"
    /\ UNCHANGED <<stopVars, netVars, connVars, monVars, lockVars, history>>

-----------------------------------------------------------------------------
(* The monitor thread.                                                      *)

MonitorLoop ==
    /\ monPc = "top"
    /\ IF monitoring
       THEN lockWait = Free /\ monPc' = "wait"
       ELSE monPc' = "done"
    /\ UNCHANGED <<mainPc, stopVars, netVars, connVars, monitoring, second, backlog, lockVars,
                   history>>

\* Time passes in pthread_cond_timedwait, which has released the lock.
Tick ==
    /\ monPc = "wait" /\ second
    /\ second' = FALSE
    /\ UNCHANGED <<mainPc, stopVars, netVars, connVars, monPc, monitoring, backlog, lockVars,
                   history>>

Timeout ==
    /\ monPc = "wait" /\ ~second
    /\ lockWait = Free
    /\ lockWait' = "monitor" /\ monPc' = "flush" /\ second' = TRUE
    /\ UNCHANGED <<mainPc, stopVars, netVars, connVars, monitoring, backlog, lockActive, history>>

\* Mutant: the buffer being written and the one before it stay
FlushTwoLeft ==
    /\ monPc = "flush"
    /\ monPc' = "top" /\ lockWait' = Free
    /\ IF backlog > 2
       THEN backlog' = backlog - 1 /\ lockActive = Free
       ELSE UNCHANGED backlog
    /\ UNCHANGED <<mainPc, stopVars, netVars, connVars, monitoring, second, lockActive, history>>

\* With more than one buffer the first is popped, which takes
\* _lockActiveBuffers, and applied.
Flush ==
    /\ monPc = "flush"
    /\ monPc' = "top" /\ lockWait' = Free
    /\ IF backlog > 1
       THEN /\ lockActive = Free
            /\ backlog' = backlog - 1
            /\ ub' = (~streams \/ {"base", "controller"} \ alive # {})
       ELSE UNCHANGED <<backlog, ub>>
    /\ UNCHANGED <<mainPc, stopVars, netVars, connVars, monitoring, second, lockActive, asked,
                   others>>

-----------------------------------------------------------------------------
Stop(t) ==
    \/ StopCheck(t) \/ StopManager(t) \/ StopMonitor(t) \/ StopNotify(t) \/ StopJoinMonitor(t)
    \/ StopBase(t) \/ StopStreams(t) \/ StopRunning(t) \/ StopServer(t) \/ StopJoinServer(t)
    \/ StopController(t)

Net ==
    \/ Select \/ ServePending \/ ServeReady \/ NextDescriptor \/ ScanEnd \/ Blocked
    \/ ReadRest \/ RestMissing \/ Cleanup \/ ExecuteWrite \/ Notify \/ ExecuteShutdown

Monitor == MonitorLoop \/ Tick \/ Timeout \/ Flush

Clients ==
    \E c \in Conn :
        \/ \E r \in {"write", "half", "shutdown"} : Send(c, r)
        \/ SendRest(c) \/ Disconnect(c)

Up == mainPc # "exited" /\ netPc # "aborted" /\ ~ub

Next == Up /\ (Start \/ Signal \/ Poll \/ Clients \/ Net \/ Monitor \/ \E t \in Threads : Stop(t))

\* Every thread is scheduled, and gets a lock that is released again and
\* again: the monitor gives _lockWait back for a second in each round.  Of the
\* clients nothing is assumed.
Fairness ==
    /\ SF_vars(Up /\ Net) /\ WF_vars(Up /\ Monitor) /\ WF_vars(Up /\ Poll)
    /\ \A t \in Threads : SF_vars(Up /\ Stop(t))

Spec == Init /\ [][Next]_vars /\ Fairness

-----------------------------------------------------------------------------
(* Properties.                                                              *)

\* The types of the state.
TypeOK ==
    /\ mainPc \in {"start", "poll", "stopping", "exited"}
    /\ netPc \in {"off", "select", "scan", "blocked", "reading", "execute", "notify", "stopping",
                  "cleanup", "done", "aborted"}
    /\ monPc \in {"off", "top", "wait", "flush", "done"}
    /\ lockWait \in {Free, "monitor"} /\ lockActive \in {Free, "net"}
    /\ alive \subseteq {"manager", "base", "controller"}
    /\ backlog \in 1..MaxBacklog
    /\ ready \subseteq Conn /\ pass \subseteq Conn /\ left \subseteq Conn /\ owed \subseteq Conn
    /\ closed \subseteq Conn
    /\ current \in {None, "write", "half", "shutdown"}

\* A deleted object is used only when a signal stops the server, or when
\* other requests were at hand as SHUTDOWN was executed: stop deletes the
\* transactions and the controller under the loop that called it.
SafeAlone == ub => others \/ asked \in {"signal", "both"}

\* The monitor applies nothing to closed files or through a deleted
\* transaction: stopMonitor joins it first, whoever stops the server.
MonitorStopsFirst == "base" \notin alive /\ mainPc # "start" => monPc = "done"

\* When the process ends by exit, the streams were closed and the monitor of
\* the log has ended.
ExitAfterClose == mainPc = "exited" /\ ~ub => ~streams /\ monPc = "done"

\* Past these places of stop the manager of the transactions is gone.
Past == {"monitor", "notify", "join", "base", "streams", "running", "server", "thread",
         "controller"}
StopPcs == {"idle", "check", "manager"} \union Past

AllUp == /\ alive = {"manager", "base", "controller"}
         /\ streams /\ running /\ listening /\ monitoring
AllDown == alive = {} /\ ~streams /\ ~running /\ ~listening /\ monPc = "done"

\* What a thread that stops the server has taken down when it is at pc.
Stage(pc) ==
    /\ alive = IF pc \in {"monitor", "notify", "join", "base"}
               THEN {"base", "controller"} ELSE {"controller"}
    /\ streams <=> pc \in {"monitor", "notify", "join", "base", "streams"}
    /\ running <=> pc \in {"monitor", "notify", "join", "base", "streams", "running"}
    /\ listening <=> pc \notin {"thread", "controller"}
    /\ monitoring <=> pc = "monitor"
    /\ pc \notin {"monitor", "notify", "join"} => monPc = "done"

\* One thread at a time is past the deletion of the manager; before it
\* everything is up, and after it nothing.
Stages ==
    ~ub /\ mainPc # "start" =>
        \/ (AllUp \/ AllDown) /\ \A t \in Threads : stopPc[t] \notin Past
        \/ \E t \in Threads :
              /\ stopPc[t] \in Past /\ Stage(stopPc[t])
              /\ \A u \in Threads \ {t} : stopPc[u] \notin Past

\* NetworkService::stop takes the server down in order, from either thread.
StopInOrder == TypeOK /\ MonitorStopsFirst /\ ExitAfterClose /\ Stages

\* The lock cycle of addBuffer and flushBuffer, after which neither thread moves.
LockCycle == netPc = "notify" /\ monPc = "flush" /\ backlog > 1

\* Once a stop is asked for the process ends or the locks are in their
\* cycle, though the notification of stopMonitor does not end the wait of the
\* monitor and the network thread joins itself.
StopEnds == (asked # "no") ~> (~Up \/ LockCycle)

\* The assertion of readBufferData ended the process, over a request whose
\* client still owes the rest.
Abandoned == netPc = "aborted" /\ from \in owed

\* A queue of two or more buffers is shortened, unless the server stops, is
\* ended by half a request, or the locks are in their cycle: every notification
\* starts the second of the wait again, and only finitely many requests come.
BacklogShrinks == (backlog > 1) ~> (backlog = 1 \/ asked # "no" \/ LockCycle \/ Abandoned)

\* What a client sent is taken from its socket and its buffer, those that
\* came in one packet included, unless a stop, the lock cycle, or a client that
\* leaves half a request behind intervenes.  A connection closed while the
\* server reads from it holds up none of the others.
EveryRequestRead ==
    \A c \in Conn :
        (inbox[c] # <<>> \/ buffered[c] # <<>>)
            ~> ((inbox[c] = <<>> /\ buffered[c] = <<>>) \/ asked # "no" \/ LockCycle
                \/ Abandoned)

-----------------------------------------------------------------------------
(* What the stages and SafeAlone rest on.                                   *)

\* Which thread is in stop, and who asked for it.
Places ==
    /\ stopPc \in [Threads -> StopPcs]
    /\ netPc = "stopping" <=> stopPc["net"] # "idle"
    /\ stopPc["main"] # "idle" => mainPc = "stopping"
    /\ mainPc = "stopping" => asked \in {"signal", "both"}
    /\ asked \in {"no", "request", "signal", "both"}
    /\ back \in {"scan", "cleanup"}
    /\ netPc = "off" <=> mainPc = "start"
    /\ mainPc = "start" => asked = "no" /\ monPc = "off" /\ ~ub

\* A stop that a request alone asked for.  Without other requests at hand
\* nothing is left for the loop when stop returns to it.
Alone ==
    ~ub /\ mainPc # "start" =>
        /\ asked = "no" => AllUp /\ netPc # "stopping"
        /\ asked = "request" =>
             /\ netPc = "stopping" \/ AllDown
             /\ stopPc["net"] \in {"check", "manager"} => AllUp
             /\ ~others =>
                  /\ ready = {} /\ \A c \in Conn : buffered[c] = <<>>
                  /\ netPc \in {"stopping", "scan", "select", "cleanup", "done"}

\* What is between the client and the loop: the rest of a request follows
\* its half, or comes first when the half was read, or is owed.
Parts == {"write", "half", "shutdown", "rest"}
Proper(s, halfRead, owes) ==
    /\ \A i \in 1..Len(s) :
         s[i] = "rest" <=> IF i = 1 THEN halfRead ELSE s[i - 1] = "half"
    /\ owes <=> IF s = <<>> THEN halfRead ELSE s[Len(s)] = "half"
Stream(c) == buffered[c] \o inbox[c]
HalfRead(c) == netPc = "reading" /\ from = c
Wire ==
    /\ inbox \in [Conn -> Seq(Parts)] /\ buffered \in [Conn -> Seq(Parts)]
    /\ open \subseteq Conn
    /\ netPc \in {"blocked", "reading"} => from \in Conn
    /\ netPc \notin {"done", "aborted"} =>
         \A c \in Conn : Proper(Stream(c), HalfRead(c), c \in owed)

\* Inductive; StopInOrder and SafeAlone are parts of it.
LifeInv == StopInOrder /\ SafeAlone /\ Places /\ Alone /\ Wire

=============================================================================
