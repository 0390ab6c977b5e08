-------------------------- MODULE ServerLifeProofs --------------------------
(***************************************************************************)
(* Proofs about the life of the server process: NetworkService::stop takes *)
(* the server down in order whichever threads run it, and uses no deleted  *)
(* object when a lone SHUTDOWN request asked for it.                       *)
(***************************************************************************)
EXTENDS ServerLife, SequenceTheorems, WellFoundedInduction, TLAPS

(* The least descriptor of a set is one of the set: the loops of process   *)
(* serve connections that exist.                                           *)
LEMMA MinIn ==
    ASSUME NEW S, S \subseteq Nat, S # {}
    PROVE  Min(S) \in S
<1>1. \E x \in S : \A y \in S : ~(<<y, x>> \in OpToRel(<, Nat))
  BY NatLessThanWellFounded, WFMin, Zenon
<1>2. PICK x \in S : \A y \in S : ~(<<y, x>> \in OpToRel(<, Nat))
  BY <1>1, Zenon
<1>3. \A y \in S : ~(y < x)
  <2> SUFFICES ASSUME NEW y \in S, y < x PROVE FALSE OBVIOUS
  <2>1. <<y, x>> \in Nat \X Nat /\ <<y, x>>[1] = y /\ <<y, x>>[2] = x
    OBVIOUS
  <2>2. <<y, x>> \in OpToRel(<, Nat)
    BY <2>1, Zenon DEF OpToRel
  <2>3. QED BY <1>2, <2>2, Zenon
<1>4. \A y \in S : x =< y
  BY <1>3
<1>5. QED BY <1>4 DEF Min

(* The thread past the manager is the only one, and its place says what is *)
(* still up.                                                               *)
LEMMA InPast ==
    ASSUME Stages, ~ub, mainPc # "start", NEW t \in Threads, stopPc[t] \in Past
    PROVE  /\ Stage(stopPc[t])
           /\ \A u \in Threads \ {t} : stopPc[u] \notin Past
  BY DEF Stages

(* Steps that leave the services and the places of stop alone.             *)
LEMMA StagesFrame ==
    ASSUME LifeInv, ~ub, mainPc # "start", stopVars' = stopVars, monitoring' = monitoring,
           monPc = "done" => monPc' = "done"
    PROVE  Stages'
<1>1. Stages
  BY DEF LifeInv, StopInOrder
<1>2. UNCHANGED <<stopPc, running, listening, alive, streams>>
  BY DEF stopVars
<1>3. CASE (AllUp \/ AllDown) /\ \A t \in Threads : stopPc[t] \notin Past
  BY <1>2, <1>3 DEF Stages, AllUp, AllDown
<1>4. CASE \E t \in Threads : stopPc[t] \in Past
  <2>1. PICK t \in Threads : stopPc[t] \in Past
    BY <1>4
  <2>2. Stage(stopPc[t]) /\ \A u \in Threads \ {t} : stopPc[u] \notin Past
    BY <1>1, <2>1, InPast
  <2>3. Stage(stopPc[t])'
    BY <1>2, <2>2 DEF Stage
  <2>4. QED BY <1>2, <2>1, <2>2, <2>3 DEF Stages
<1>5. QED BY <1>1, <1>3, <1>4 DEF Stages

(* Before the server runs, no thread is in stop.                           *)
LEMMA NotStarted ==
    ASSUME Places, mainPc = "start"
    PROVE  /\ \A t \in Threads : stopPc[t] = "idle"
           /\ netPc = "off" /\ asked = "no" /\ monPc = "off" /\ ~ub
  BY DEF Places, Threads

(* Then it can only start.                                                 *)
LEMMA OnlyStart ==
    ASSUME Places, Next, mainPc = "start"
    PROVE  Start
<1>1. netPc = "off" /\ monPc = "off" /\ \A t \in Threads : stopPc[t] = "idle"
  BY NotStarted
<1>2. ~\E t \in Threads : Stop(t)
  BY <1>1 DEF Stop, StopCheck, StopManager, StopMonitor, StopNotify, StopJoinMonitor,
     StopBase, StopStreams, StopRunning, StopServer, StopJoinServer, StopController, StopAt
<1>3. ~Signal /\ ~Poll
  BY DEF Signal, Poll
<1>4. ~Net
  BY <1>1 DEF Net, Select, ServePending, ServeReady, NextDescriptor, ScanEnd, Blocked,
     ReadRest, RestMissing, Cleanup, ExecuteWrite, Notify, ExecuteShutdown
<1>5. ~Clients /\ ~Monitor
  BY <1>1 DEF Clients, Send, SendRest, Disconnect, CanSend, Monitor, MonitorLoop, Tick,
     Timeout, Flush
<1>6. QED BY <1>2, <1>3, <1>4, <1>5 DEF Next

(* Every step of either thread keeps the order of stop.                    *)
LEMMA StagesStep == LifeInv /\ [Next]_vars => Stages'
<1> SUFFICES ASSUME LifeInv, [Next]_vars PROVE Stages' OBVIOUS
<1>0. Stages /\ Places
  BY DEF LifeInv, StopInOrder
<1>t. stopPc \in [Threads -> StopPcs]
  BY <1>0 DEF Places
<1>p. "idle" \notin Past /\ "check" \notin Past /\ "manager" \notin Past
  BY DEF Past
<1>1. CASE UNCHANGED vars
  BY <1>0, <1>1 DEF Stages, AllUp, AllDown, Stage, vars, stopVars, monVars, history
<1>2. CASE Start /\ Next
  <2>1. AllUp' /\ stopPc' = stopPc
    BY <1>2 DEF Start, AllUp
  <2>2. \A t \in Threads : stopPc[t] = "idle"
    BY <1>0, <1>2, NotStarted DEF Start
  <2>3. QED BY <2>1, <2>2, <1>p DEF Stages
<1>3. CASE Next /\ ~Start
  <2>1. ~ub /\ mainPc # "exited"
    BY <1>3 DEF Next, Up
  <2>2. mainPc # "start"
    BY <1>0, <1>3, OnlyStart
  <2>3. QED
    <3>1. CASE Clients \/ Poll
      <4>1. stopVars' = stopVars /\ UNCHANGED <<monitoring, monPc>>
        BY <3>1 DEF Clients, Send, SendRest, Disconnect, Poll, monVars
      <4>2. QED BY <2>1, <2>2, <4>1, StagesFrame
    <3>2. CASE Monitor
      <4>1. stopVars' = stopVars /\ UNCHANGED monitoring /\ monPc # "done"
        BY <3>2 DEF Monitor, MonitorLoop, Tick, Timeout, Flush
      <4>2. QED BY <2>1, <2>2, <4>1, StagesFrame
    <3>3. CASE Net /\ ~ExecuteShutdown
      <4>1. stopVars' = stopVars /\ UNCHANGED <<monitoring, monPc>>
        BY <3>3 DEF Net, Select, ServePending, ServeReady, NextDescriptor, ScanEnd, Blocked,
           ReadRest, RestMissing, Cleanup, ExecuteWrite, Notify, monVars
      <4>2. QED BY <2>1, <2>2, <4>1, StagesFrame
    <3>4. CASE ExecuteShutdown \/ Signal
      <4>1. PICK x \in Threads : stopPc' = [stopPc EXCEPT ![x] = "check"] /\ stopPc[x] = "idle"
        <5>1. CASE ExecuteShutdown
          BY <5>1, <1>0 DEF ExecuteShutdown, Places, Threads
        <5>2. CASE Signal
          BY <5>2, <1>0 DEF Signal, Places, Threads
        <5>3. QED BY <3>4, <5>1, <5>2
      <4>2. UNCHANGED <<running, listening, alive, streams, monitoring, monPc>>
        BY <3>4 DEF ExecuteShutdown, Signal, monVars
      <4>3. \A u \in Threads : stopPc'[u] = stopPc[u] \/ (stopPc'[u] = "check" /\ u = x)
        BY <4>1, <1>t
      <4>4. CASE (AllUp \/ AllDown) /\ \A t \in Threads : stopPc[t] \notin Past
        <5>1. (AllUp \/ AllDown)'
          BY <4>2, <4>4 DEF AllUp, AllDown
        <5>2. QED BY <1>p, <4>3, <4>4, <5>1 DEF Stages
      <4>5. CASE \E t \in Threads : stopPc[t] \in Past
        <5>1. PICK t \in Threads : stopPc[t] \in Past
          BY <4>5
        <5>2. Stage(stopPc[t]) /\ \A u \in Threads \ {t} : stopPc[u] \notin Past
          BY <1>0, <2>1, <2>2, <5>1, InPast
        <5>3. stopPc'[t] = stopPc[t]
          BY <1>p, <4>1, <4>3, <5>1
        <5>4. Stage(stopPc[t])'
          BY <4>2, <5>2, <5>3 DEF Stage
        <5>5. QED BY <1>p, <4>3, <5>1, <5>2, <5>3, <5>4 DEF Stages
      <4>6. QED BY <1>0, <2>1, <2>2, <4>4, <4>5 DEF Stages
    <3>5. ASSUME NEW t \in Threads, Stop(t) PROVE Stages'
      <4> SUFFICES ASSUME ~ub' PROVE Stages' BY DEF Stages
      <4>1. \A u \in Threads \ {t} : stopPc'[u] = stopPc[u]
        BY <3>5, <1>t DEF Stop, StopCheck, StopManager, StopMonitor, StopNotify,
           StopJoinMonitor, StopBase, StopStreams, StopRunning, StopServer, StopJoinServer,
           StopController, StopAt
      <4>2. ASSUME stopPc'[t] \in Past, Stage(stopPc[t])',
                   \A u \in Threads \ {t} : stopPc[u] \notin Past
            PROVE  Stages'
        BY <4>1, <4>2 DEF Stages
      <4>3. CASE StopCheck(t)
        <5>1. /\ stopPc[t] = "check" /\ stopPc'[t] = "manager"
              /\ UNCHANGED <<running, listening, alive, streams, monitoring, monPc>>
          BY <4>3, <1>t DEF StopCheck, StopAt, monVars
        <5>2. CASE (AllUp \/ AllDown) /\ \A u \in Threads : stopPc[u] \notin Past
          <6>1. (AllUp \/ AllDown)'
            BY <5>1, <5>2 DEF AllUp, AllDown
          <6>2. QED BY <1>p, <4>1, <5>1, <5>2, <6>1 DEF Stages
        <5>3. CASE \E u \in Threads : stopPc[u] \in Past
          <6>1. PICK u \in Threads : stopPc[u] \in Past
            BY <5>3
          <6>2. Stage(stopPc[u]) /\ \A w \in Threads \ {u} : stopPc[w] \notin Past
            BY <1>0, <2>1, <2>2, <6>1, InPast
          <6>3. stopPc'[u] = stopPc[u]
            BY <1>p, <4>1, <5>1, <6>1
          <6>4. Stage(stopPc[u])'
            BY <5>1, <6>2, <6>3 DEF Stage
          <6>5. \A w \in Threads \ {u} : stopPc'[w] \notin Past
            BY <1>p, <4>1, <5>1, <6>2
          <6>6. QED BY <6>1, <6>3, <6>4, <6>5 DEF Stages
        <5>4. QED BY <1>0, <2>1, <2>2, <5>2, <5>3 DEF Stages
      <4>4. CASE StopManager(t)
        <5>1. /\ stopPc[t] = "manager" /\ stopPc'[t] = "monitor" /\ "manager" \in alive
              /\ alive' = alive \ {"manager"}
              /\ UNCHANGED <<running, listening, streams, monitoring, monPc>>
          BY <4>4, <1>t DEF StopManager, StopAt, Delete, monVars
        <5>2. AllUp /\ \A u \in Threads : stopPc[u] \notin Past
          BY <1>0, <2>1, <2>2, <5>1 DEF Stages, Stage, AllDown
        <5>3. alive' = {"base", "controller"}
          BY <5>1, <5>2 DEF AllUp
        <5>4. Stage(stopPc[t])'
          BY <5>1, <5>2, <5>3 DEF Stage, AllUp
        <5>5. QED BY <4>2, <5>1, <5>2, <5>4 DEF Past
      <4>5. ASSUME stopPc[t] \in Past, Stage(stopPc[t])', stopPc'[t] \in Past PROVE Stages'
        <5>1. \A u \in Threads \ {t} : stopPc[u] \notin Past
          BY <1>0, <2>1, <2>2, <4>5, InPast
        <5>2. QED BY <4>2, <4>5, <5>1
      <4>6. stopPc[t] \in Past => Stage(stopPc[t])
        BY <1>0, <2>1, <2>2, InPast
      <4>7. CASE StopMonitor(t)
        <5>1. stopPc[t] = "monitor" /\ Stage("monitor")
          BY <4>6, <4>7 DEF StopMonitor, StopAt, Past
        <5>2. /\ stopPc'[t] = "notify" /\ ~monitoring'
              /\ UNCHANGED <<running, listening, alive, streams, monPc>>
          BY <4>7, <5>1, <1>t DEF StopMonitor, StopAt, Stage
        <5>3. Stage(stopPc[t])'
          BY <5>1, <5>2 DEF Stage
        <5>4. QED BY <4>5, <5>1, <5>2, <5>3 DEF Past
      <4>8. CASE StopNotify(t)
        <5>1. stopPc[t] = "notify" /\ Stage("notify")
          BY <4>6, <4>8 DEF StopNotify, StopAt, Past
        <5>2. /\ stopPc'[t] = "join"
              /\ UNCHANGED <<running, listening, alive, streams, monPc, monitoring>>
          BY <4>8, <1>t DEF StopNotify, StopAt
        <5>3. Stage(stopPc[t])'
          BY <5>1, <5>2 DEF Stage
        <5>4. QED BY <4>5, <5>1, <5>2, <5>3 DEF Past
      <4>9. CASE StopJoinMonitor(t)
        <5>1. stopPc[t] = "join" /\ Stage("join") /\ monPc = "done"
          BY <4>6, <4>9 DEF StopJoinMonitor, StopAt, Past
        <5>2. /\ stopPc'[t] = "base"
              /\ UNCHANGED <<running, listening, alive, streams, monPc, monitoring>>
          BY <4>9, <1>t DEF StopJoinMonitor, StopAt, monVars
        <5>3. Stage(stopPc[t])'
          BY <5>1, <5>2 DEF Stage
        <5>4. QED BY <4>5, <5>1, <5>2, <5>3 DEF Past
      <4>10. CASE StopBase(t)
        <5>1. stopPc[t] = "base" /\ Stage("base")
          BY <4>6, <4>10 DEF StopBase, StopAt, Past
        <5>2. /\ stopPc'[t] = "streams" /\ alive' = alive \ {"base"}
              /\ UNCHANGED <<running, listening, streams, monPc, monitoring>>
          BY <4>10, <1>t DEF StopBase, StopAt, monVars, Delete
        <5>3. alive' = {"controller"}
          BY <5>1, <5>2 DEF Stage
        <5>4. Stage(stopPc[t])'
          BY <5>1, <5>2, <5>3 DEF Stage
        <5>5. QED BY <4>5, <5>1, <5>2, <5>4 DEF Past
      <4>11. CASE StopStreams(t)
        <5>1. stopPc[t] = "streams" /\ Stage("streams")
          BY <4>6, <4>11 DEF StopStreams, StopAt, Past
        <5>2. /\ stopPc'[t] = "running" /\ ~streams'
              /\ UNCHANGED <<running, listening, alive, monPc, monitoring>>
          BY <4>11, <1>t DEF StopStreams, StopAt, monVars
        <5>3. Stage(stopPc[t])'
          BY <5>1, <5>2 DEF Stage
        <5>4. QED BY <4>5, <5>1, <5>2, <5>3 DEF Past
      <4>12. CASE StopRunning(t)
        <5>1. stopPc[t] = "running" /\ Stage("running")
          BY <4>6, <4>12 DEF StopRunning, StopAt, Past
        <5>2. /\ stopPc'[t] = "server" /\ ~running'
              /\ UNCHANGED <<streams, listening, alive, monPc, monitoring>>
          BY <4>12, <1>t DEF StopRunning, StopAt, monVars
        <5>3. Stage(stopPc[t])'
          BY <5>1, <5>2 DEF Stage
        <5>4. QED BY <4>5, <5>1, <5>2, <5>3 DEF Past
      <4>13. CASE StopServer(t)
        <5>1. stopPc[t] = "server" /\ Stage("server")
          BY <4>6, <4>13 DEF StopServer, StopAt, Past
        <5>2. /\ stopPc'[t] = "thread" /\ ~listening'
              /\ UNCHANGED <<streams, running, alive, monPc, monitoring>>
          BY <4>13, <1>t DEF StopServer, StopAt, monVars
        <5>3. Stage(stopPc[t])'
          BY <5>1, <5>2 DEF Stage
        <5>4. QED BY <4>5, <5>1, <5>2, <5>3 DEF Past
      <4>14. CASE StopJoinServer(t)
        <5>1. stopPc[t] = "thread" /\ Stage("thread")
          BY <4>6, <4>14 DEF StopJoinServer, StopAt, Past
        <5>2. /\ stopPc'[t] = "controller"
              /\ UNCHANGED <<streams, running, listening, alive, monPc, monitoring>>
          BY <4>14, <1>t DEF StopJoinServer, StopAt, monVars
        <5>3. Stage(stopPc[t])'
          BY <5>1, <5>2 DEF Stage
        <5>4. QED BY <4>5, <5>1, <5>2, <5>3 DEF Past
      <4>15. CASE StopController(t)
        <5>1. /\ stopPc[t] = "controller" /\ Stage("controller")
              /\ \A u \in Threads \ {t} : stopPc[u] \notin Past
          BY <1>0, <2>1, <2>2, <4>6, <4>15, InPast DEF StopController, StopAt, Past
        <5>2. /\ stopPc'[t] = "idle" /\ alive' = alive \ {"controller"}
              /\ UNCHANGED <<streams, running, listening, monPc, monitoring>>
          BY <4>15, <1>t DEF StopController, StopAt, monVars, Delete
        <5>3. alive' = {}
          BY <5>1, <5>2 DEF Stage
        <5>4. AllDown'
          BY <5>1, <5>2, <5>3 DEF Stage, AllDown
        <5>5. QED BY <1>p, <4>1, <5>1, <5>2, <5>4 DEF Stages
      <4>16. QED
        BY <3>5, <4>3, <4>4, <4>7, <4>8, <4>9, <4>10, <4>11, <4>12, <4>13, <4>14, <4>15
        DEF Stop
    <3>6. QED BY <1>3, <3>1, <3>2, <3>3, <3>4, <3>5 DEF Next
<1>4. QED BY <1>1, <1>2, <1>3

(* Every step keeps track of who is in stop and who asked for it.          *)
LEMMA PlacesStep == LifeInv /\ [Next]_vars => Places'
<1> SUFFICES ASSUME LifeInv, [Next]_vars PROVE Places' OBVIOUS
<1>0. Places
  BY DEF LifeInv
<1>t. stopPc \in [Threads -> StopPcs]
  BY <1>0 DEF Places
<1>1. CASE UNCHANGED vars
  BY <1>0, <1>1 DEF Places, vars, stopVars, netVars, monVars, history
<1>2. CASE Start
  BY <1>0, <1>2 DEF Start, Places, history
<1>3. CASE Signal
  <2>1. stopPc' \in [Threads -> StopPcs] /\ stopPc'["net"] = stopPc["net"]
    BY <1>3, <1>t DEF Signal, StopPcs, Threads
  <2>2. QED BY <1>0, <1>3, <2>1 DEF Signal, Places, netVars, monVars
<1>4. CASE Clients \/ Poll
  <2>1. /\ UNCHANGED <<stopPc, netPc, back, monPc, ub, asked>>
        /\ mainPc' = mainPc \/ (mainPc = "poll" /\ mainPc' = "exited")
    BY <1>4 DEF Clients, Send, SendRest, Disconnect, Poll, stopVars, netVars, monVars, history
  <2>2. QED BY <1>0, <2>1 DEF Places
<1>5. CASE Monitor
  <2>1. UNCHANGED <<stopPc, netPc, back, asked, mainPc>> /\ monPc # "off"
    BY <1>5 DEF Monitor, MonitorLoop, Tick, Timeout, Flush, stopVars, netVars, history
  <2>2. QED BY <1>0, <2>1 DEF Places
<1>6. CASE Net /\ ~ExecuteShutdown
  <2>1. UNCHANGED <<stopPc, asked, mainPc>> /\ netPc # "off"
    BY <1>6 DEF Net, Select, ServePending, ServeReady, NextDescriptor, ScanEnd, Blocked,
       ReadRest, RestMissing, Cleanup, ExecuteWrite, Notify, stopVars, history
  <2>2. netPc # "stopping" /\ netPc' \notin {"stopping", "off"} /\ back' \in {"scan", "cleanup"}
    <3>0. back \in {"scan", "cleanup"}
      BY <1>0 DEF Places
    <3>1. CASE Select \/ NextDescriptor \/ ScanEnd \/ ReadRest \/ RestMissing
      BY <3>0, <3>1 DEF Select, NextDescriptor, ScanEnd, ReadRest, RestMissing
    <3>2. CASE ServePending \/ ServeReady \/ Blocked \/ Cleanup
      BY <3>0, <3>2 DEF ServePending, ServeReady, Blocked, Cleanup, Read
    <3>3. CASE ExecuteWrite \/ Notify
      BY <3>0, <3>3 DEF ExecuteWrite, Notify, Return
    <3>4. QED BY <1>6, <3>1, <3>2, <3>3 DEF Net
  <2>3. QED BY <1>0, <2>1, <2>2 DEF Places
<1>7. CASE ExecuteShutdown
  <2>1. stopPc' \in [Threads -> StopPcs] /\ stopPc'["main"] = stopPc["main"]
        /\ stopPc'["net"] = "check"
    BY <1>7, <1>t DEF ExecuteShutdown, StopPcs, Threads
  <2>2. QED BY <1>0, <1>7, <2>1 DEF ExecuteShutdown, Places, monVars
<1>8. ASSUME NEW t \in Threads, Stop(t) PROVE Places'
  <2>0. mainPc # "start"
    BY <1>0, <1>8, NotStarted DEF Stop, StopCheck, StopManager, StopMonitor, StopNotify,
       StopJoinMonitor, StopBase, StopStreams, StopRunning, StopServer, StopJoinServer,
       StopController, StopAt
  <2>1. CASE ~StopController(t)
    <3>1. PICK pc \in StopPcs : pc # "idle" /\ stopPc' = [stopPc EXCEPT ![t] = pc]
      BY <1>8, <2>1 DEF Stop, StopCheck, StopManager, StopMonitor, StopNotify,
         StopJoinMonitor, StopBase, StopStreams, StopRunning, StopServer, StopJoinServer,
         StopAt, StopPcs, Past
    <3>2. UNCHANGED <<mainPc, netPc, back, asked>> /\ stopPc[t] # "idle"
      BY <1>8, <2>1 DEF Stop, StopCheck, StopManager, StopMonitor, StopNotify,
         StopJoinMonitor, StopBase, StopStreams, StopRunning, StopServer, StopJoinServer,
         StopAt, netVars, history
    <3>3. /\ stopPc' \in [Threads -> StopPcs]
          /\ \A u \in Threads : stopPc'[u] # "idle" <=> stopPc[u] # "idle"
      BY <1>t, <3>1, <3>2
    <3>4. "main" \in Threads /\ "net" \in Threads
      BY DEF Threads
    <3>5. QED BY <1>0, <2>0, <3>2, <3>3, <3>4 DEF Places
  <2>2. CASE StopController(t)
    <3>1. /\ stopPc' = [stopPc EXCEPT ![t] = "idle"] /\ stopPc[t] = "controller"
          /\ UNCHANGED <<back, asked>>
      BY <2>2 DEF StopController, StopAt
    <3>2. stopPc' \in [Threads -> StopPcs] /\ stopPc'[t] = "idle"
      BY <1>t, <3>1 DEF StopPcs
    <3>3. CASE t = "net"
      <4>1. /\ stopPc'["main"] = stopPc["main"] /\ stopPc'["net"] = "idle"
            /\ netPc' = back /\ mainPc' = mainPc
        BY <1>t, <2>2, <3>1, <3>2, <3>3 DEF StopController, Threads
      <4>2. QED BY <1>0, <2>0, <3>1, <3>2, <4>1 DEF Places
    <3>4. CASE t = "main"
      <4>1. /\ stopPc'["net"] = stopPc["net"] /\ stopPc'["main"] = "idle"
            /\ netPc' = netPc /\ mainPc' = "exited"
        BY <1>t, <2>2, <3>1, <3>2, <3>4 DEF StopController, Threads
      <4>2. QED BY <1>0, <2>0, <3>1, <3>2, <4>1 DEF Places
    <3>5. QED BY <3>3, <3>4 DEF Threads
  <2>3. QED BY <2>1, <2>2
<1>9. QED BY <1>1, <1>2, <1>3, <1>4, <1>5, <1>6, <1>7, <1>8 DEF Next

(* As long as no deleted object was used: the monitor has ended before the *)
(* base transaction is gone, and a service that does not run has closed    *)
(* its streams.                                                            *)
LEMMA StagesImply ==
    ASSUME Stages, ~ub, mainPc # "start"
    PROVE  /\ "base" \notin alive => monPc = "done"
           /\ ~running => ~streams /\ monPc = "done"
           /\ monPc # "done" => streams /\ "base" \in alive /\ "controller" \in alive
<1>1. CASE AllUp \/ AllDown
  BY <1>1 DEF AllUp, AllDown
<1>2. CASE \E t \in Threads : stopPc[t] \in Past
  <2>1. PICK t \in Threads : stopPc[t] \in Past
    BY <1>2
  <2>2. Stage(stopPc[t])
    BY <2>1, InPast
  <2>3. QED BY <2>1, <2>2 DEF Stage, Past
<1>3. QED BY <1>1, <1>2 DEF Stages

(* The monitor ends before the base transaction is deleted, and exit comes *)
(* after the streams are closed.                                           *)
LEMMA OrderStep == LifeInv /\ [Next]_vars => MonitorStopsFirst' /\ ExitAfterClose'
<1> SUFFICES ASSUME LifeInv, [Next]_vars PROVE MonitorStopsFirst' /\ ExitAfterClose' OBVIOUS
<1>0. Stages /\ Places /\ MonitorStopsFirst /\ ExitAfterClose /\ Stages' /\ Places'
  BY StagesStep, PlacesStep DEF LifeInv, StopInOrder
<1>1. CASE UNCHANGED vars
  BY <1>0, <1>1 DEF MonitorStopsFirst, ExitAfterClose, vars, stopVars, monVars, history
<1>2. CASE Next /\ ~ub'
  <2>1. MonitorStopsFirst'
    BY <1>0, <1>2, StagesImply DEF MonitorStopsFirst, Stages, AllUp, AllDown, Stage, Past
  <2>2. ExitAfterClose'
    <3> SUFFICES ASSUME mainPc' = "exited" PROVE ~streams' /\ monPc' = "done"
      BY DEF ExitAfterClose
    <3>1. mainPc # "exited" /\ ~ub
      BY <1>2 DEF Next, Up
    <3>2. CASE Poll
      <4>1. ~streams /\ monPc = "done"
        BY <1>0, <3>1, <3>2, StagesImply DEF Poll
      <4>2. QED BY <3>2, <4>1 DEF Poll, stopVars, monVars
    <3>3. CASE StopController("main")
      <4>1. stopPc["main"] = "controller" /\ mainPc # "start"
        BY <1>0, <3>3 DEF StopController, StopAt, Places, Threads
      <4>2. Stage("controller")
        BY <1>0, <3>1, <4>1, InPast DEF Past, Threads
      <4>3. QED BY <3>3, <4>2 DEF StopController, Stage, monVars
    <3>4. CASE ~Poll /\ ~StopController("main")
      <4>1. CASE Start \/ Signal \/ Clients \/ Net \/ Monitor
        BY <3>1, <4>1 DEF Start, Signal, Clients, Send, SendRest, Disconnect, Monitor,
           MonitorLoop, Tick, Timeout, Flush, Net, Select, ServePending, ServeReady,
           NextDescriptor, ScanEnd, Blocked, ReadRest, RestMissing, Cleanup, ExecuteWrite, Notify,
           ExecuteShutdown
      <4>2. CASE \E t \in Threads : Stop(t)
        BY <3>1, <3>4, <4>2 DEF Threads, Stop, StopCheck, StopManager, StopMonitor, StopNotify,
           StopJoinMonitor, StopBase, StopStreams, StopRunning, StopServer, StopJoinServer,
           StopController
      <4>3. QED BY <1>2, <3>4, <4>1, <4>2 DEF Next
    <3>5. QED BY <3>2, <3>3, <3>4
  <2>3. QED BY <2>1, <2>2
<1>3. CASE Next /\ ub'
  <2>0. ~ub
    BY <1>3 DEF Next, Up
  <2>1. ExitAfterClose'
    BY <1>3 DEF ExitAfterClose
  <2>2. CASE Start
    BY <1>3, <2>0, <2>2 DEF Start, history
  <2>3. ASSUME "base" \notin alive' => "base" \notin alive,
               monPc = "done" => monPc' = "done", mainPc = "start" => mainPc' = "start"
        PROVE  MonitorStopsFirst'
    BY <1>0, <2>3 DEF MonitorStopsFirst
  <2>4. CASE Signal \/ Poll \/ Clients
    BY <1>3, <2>0, <2>4 DEF Signal, Poll, Clients, Send, SendRest, Disconnect, history
  <2>5. CASE Net
    <3>1. UNCHANGED <<alive, monPc, mainPc>>
      BY <2>5 DEF Net, Select, ServePending, ServeReady, NextDescriptor, ScanEnd, Blocked,
         ReadRest, RestMissing, Cleanup, ExecuteWrite, Notify, ExecuteShutdown, stopVars, monVars
    <3>2. QED BY <2>1, <2>3, <3>1
  <2>6. CASE Monitor
    <3>1. UNCHANGED <<alive, mainPc>> /\ monPc # "done"
      BY <2>6 DEF Monitor, MonitorLoop, Tick, Timeout, Flush, stopVars
    <3>2. QED BY <2>1, <2>3, <3>1
  <2>7. ASSUME NEW t \in Threads, Stop(t) PROVE MonitorStopsFirst'
    <3>1. mainPc # "start"
      BY <1>0, <2>7, NotStarted DEF Stop, StopCheck, StopManager, StopMonitor, StopNotify,
         StopJoinMonitor, StopBase, StopStreams, StopRunning, StopServer, StopJoinServer,
         StopController, StopAt
    <3>2. "base" \notin alive' => "base" \notin alive
      BY <1>3, <2>0, <2>7 DEF Stop, StopCheck, StopManager, StopMonitor, StopNotify,
         StopJoinMonitor, StopBase, StopStreams, StopRunning, StopServer, StopJoinServer,
         StopController, Delete, history
    <3>3. UNCHANGED monPc
      BY <2>7 DEF Stop, StopCheck, StopManager, StopMonitor, StopNotify,
         StopJoinMonitor, StopBase, StopStreams, StopRunning, StopServer, StopJoinServer,
         StopController, monVars
    <3>4. QED BY <2>3, <3>1, <3>2, <3>3
  <2>8. QED BY <1>3, <2>1, <2>2, <2>4, <2>5, <2>6, <2>7 DEF Next
<1>4. QED BY <1>1, <1>2, <1>3

(* With no signal, the main thread is not in stop, and the network thread  *)
(* is in it only for the one request.                                      *)
LEMMA OnlyRequest ==
    ASSUME Places, asked \in {"no", "request"}
    PROVE  stopPc["main"] = "idle" /\ mainPc # "stopping"
  BY DEF Places

(* The step at which a deleted object is used.                             *)
LEMMA SafeStep == LifeInv /\ [Next]_vars => SafeAlone'
<1> SUFFICES ASSUME LifeInv, [Next]_vars, ub', ~others', asked' \notin {"signal", "both"}
             PROVE  FALSE
  BY DEF SafeAlone
<1>0. Stages /\ Places /\ SafeAlone /\ Alone /\ MonitorStopsFirst
  BY DEF LifeInv, StopInOrder
<1>1. CASE UNCHANGED vars
  BY <1>0, <1>1 DEF SafeAlone, vars, history
<1>2. CASE Next
  <2>1. ~ub /\ mainPc # "exited"
    BY <1>2 DEF Next, Up
  <2>2. ~(Start \/ Signal \/ Clients \/ Poll)
    BY <2>1 DEF Start, Signal, Clients, Send, SendRest, Disconnect, Poll, history
  <2>3. CASE Net
    <3>1. ExecuteWrite
      BY <2>1, <2>3 DEF Net, Select, ServePending, ServeReady, NextDescriptor, ScanEnd, Blocked,
         ReadRest, RestMissing, Cleanup, Notify, ExecuteShutdown, history
    <3>2. /\ netPc = "execute" /\ {"base", "controller"} \ alive # {}
          /\ UNCHANGED <<asked, others>>
      BY <3>1 DEF ExecuteWrite
    <3>3. mainPc # "start" /\ asked \in {"no", "request"}
      BY <1>0, <3>2 DEF Places
    <3>4. QED BY <1>0, <2>1, <3>2, <3>3 DEF Alone, AllUp
  <2>4. CASE Monitor
    <3>1. Flush
      BY <2>1, <2>4 DEF Monitor, MonitorLoop, Tick, Timeout, history
    <3>2. /\ monPc = "flush"
          /\ ~streams \/ {"base", "controller"} \ alive # {}
      BY <2>1, <3>1 DEF Flush
    <3>3. mainPc # "start"
      BY <1>0, <3>2 DEF Places
    <3>4. QED BY <1>0, <2>1, <3>2, <3>3, StagesImply
  <2>5. ASSUME NEW t \in Threads, Stop(t) PROVE FALSE
    <3>1. UNCHANGED <<asked, others>> /\ stopPc[t] # "idle"
      BY <2>5 DEF Stop, StopCheck, StopManager, StopMonitor, StopNotify, StopJoinMonitor,
         StopBase, StopStreams, StopRunning, StopServer, StopJoinServer, StopController,
         StopAt, history
    <3>2. t = "net" /\ asked = "request" /\ mainPc # "start"
      <4>1. asked \in {"no", "request"}
        BY <1>0, <3>1 DEF Places
      <4>2. t = "net"
        BY <1>0, <3>1, <4>1, OnlyRequest DEF Threads
      <4>3. netPc = "stopping" /\ mainPc # "start"
        BY <1>0, <3>1, <4>2 DEF Places
      <4>4. QED BY <1>0, <2>1, <4>1, <4>2, <4>3 DEF Alone
    <3>3. stopPc[t] \in {"check", "manager"} => AllUp
      BY <1>0, <2>1, <3>2 DEF Alone
    <3>4. stopPc[t] \in Past => Stage(stopPc[t])
      BY <1>0, <2>1, <3>2, InPast
    <3>5. CASE StopCheck(t) \/ StopManager(t)
      BY <3>3, <3>5 DEF StopCheck, StopManager, StopAt, Delete, AllUp
    <3>6. CASE StopBase(t) \/ StopStreams(t) \/ StopController(t)
      BY <3>4, <3>6 DEF StopBase, StopStreams, StopController, StopAt, Delete, Stage, Past
    <3>7. CASE \/ StopMonitor(t) \/ StopNotify(t) \/ StopJoinMonitor(t) \/ StopRunning(t)
               \/ StopServer(t) \/ StopJoinServer(t)
      BY <2>1, <3>7 DEF StopMonitor, StopNotify, StopJoinMonitor, StopRunning, StopServer,
         StopJoinServer, history
    <3>8. QED BY <2>5, <3>5, <3>6, <3>7 DEF Stop
  <2>6. QED BY <1>2, <2>2, <2>3, <2>4, <2>5 DEF Next
<1>3. QED BY <1>1, <1>2

(* A stop that a lone request asked for finds nothing else to do.          *)
LEMMA AloneStep == LifeInv /\ [Next]_vars => Alone'
<1> SUFFICES ASSUME LifeInv, [Next]_vars, ~ub', mainPc' # "start" PROVE Alone'
  BY DEF Alone
<1>0. Stages /\ Places /\ Alone /\ Stages' /\ Places'
  BY StagesStep, PlacesStep DEF LifeInv, StopInOrder
<1>t. stopPc \in [Threads -> StopPcs]
  BY <1>0 DEF Places
<1>1. CASE UNCHANGED vars
  BY <1>0, <1>1 DEF Alone, AllUp, AllDown, vars, stopVars, netVars, connVars, monVars, history
<1>2. CASE Start
  BY <1>0, <1>2 DEF Start, Alone, AllUp, Places, history
<1>3. CASE Next /\ ~Start
  <2>1. ~ub /\ mainPc # "exited"
    BY <1>3 DEF Next, Up
  <2>2. mainPc # "start"
    BY <1>0, <1>3, OnlyStart
  <2>3. CASE Signal
    BY <1>0, <2>3 DEF Signal, Alone
  <2>4. CASE Clients \/ Poll
    <3>1. UNCHANGED <<stopPc, running, listening, alive, streams, netPc, ready, buffered,
                      monPc, monitoring, asked, others>>
      BY <2>4 DEF Clients, Send, SendRest, Disconnect, Poll, stopVars, netVars, connVars,
         monVars, history
    <3>2. QED BY <1>0, <2>1, <2>2, <3>1 DEF Alone, AllUp, AllDown
  <2>5. CASE Monitor
    <3>1. UNCHANGED <<stopPc, running, listening, alive, streams, netPc, ready, buffered,
                      monitoring, asked, others>> /\ monPc # "done"
      BY <2>5 DEF Monitor, MonitorLoop, Tick, Timeout, Flush, stopVars, netVars, connVars,
         history
    <3>2. QED BY <1>0, <2>1, <2>2, <3>1 DEF Alone, AllUp, AllDown
  <2>6. CASE Net /\ ~ExecuteShutdown
    <3>1. UNCHANGED <<stopPc, running, listening, alive, streams, monPc, monitoring, asked,
                      others>> /\ netPc # "stopping"
      BY <2>6 DEF Net, Select, ServePending, ServeReady, NextDescriptor, ScanEnd, Blocked,
         ReadRest, RestMissing, Cleanup, ExecuteWrite, Notify, stopVars, monVars, history
    <3>2. netPc' # "stopping"
      BY <1>0, <3>1 DEF Places
    <3>3. asked = "no" => AllUp'
      BY <1>0, <2>1, <2>2, <3>1 DEF Alone, AllUp
    <3>4. asked = "request" => AllDown' /\ ~listening
      BY <1>0, <2>1, <2>2, <3>1 DEF Alone, AllDown
    <3>5. stopPc'["net"] = "idle"
      BY <1>0, <3>2 DEF Places
    <3>6. ASSUME asked = "request", ~others
          PROVE  /\ ready' = {} /\ \A c \in Conn : buffered'[c] = <<>>
                 /\ netPc' \in {"stopping", "scan", "select", "cleanup", "done"}
      <4>1. /\ ready = {} /\ \A c \in Conn : buffered[c] = <<>>
            /\ netPc \in {"scan", "select", "cleanup", "done"}
        BY <1>0, <2>1, <2>2, <3>1, <3>6 DEF Alone
      <4>2. pass \subseteq Conn
        BY DEF LifeInv, StopInOrder, TypeOK
      <4>3. Pending = {}
        BY <4>1, <4>2 DEF Pending
      <4>4. CASE Select
        BY <3>4, <3>6, <4>1, <4>4 DEF Select, connVars
      <4>5. CASE ScanEnd
        BY <4>1, <4>5 DEF ScanEnd, connVars
      <4>6. CASE Cleanup
        BY <4>1, <4>3, <4>6 DEF Cleanup
      <4>7. ~(ServePending \/ ServeReady \/ NextDescriptor \/ Blocked \/ ReadRest
              \/ RestMissing \/ ExecuteWrite \/ Notify)
        BY <4>1, <4>3 DEF ServePending, ServeReady, NextDescriptor, Blocked, ReadRest,
           RestMissing, ExecuteWrite, Notify
      <4>8. QED BY <2>6, <4>4, <4>5, <4>6, <4>7 DEF Net
    <3>7. QED BY <3>1, <3>2, <3>3, <3>4, <3>5, <3>6 DEF Alone
  <2>7. CASE ExecuteShutdown
    <3>1. /\ netPc = "execute" /\ netPc' = "stopping"
          /\ asked' = IF asked = "no" THEN "request" ELSE "both"
          /\ UNCHANGED <<running, listening, alive, streams, monitoring, ready, buffered>>
          /\ ~others' => ready = {} /\ \A c \in Conn : buffered[c] = <<>>
      BY <2>7 DEF ExecuteShutdown, monVars, connVars
    <3>2. asked = "no" => AllUp'
      BY <1>0, <2>1, <2>2, <3>1 DEF Alone, AllUp
    <3>3. QED BY <3>1, <3>2 DEF Alone
  <2>8. ASSUME NEW t \in Threads, Stop(t) PROVE Alone'
    <3>1. UNCHANGED <<asked, others, ready, buffered>> /\ stopPc[t] # "idle"
      BY <2>8 DEF Stop, StopCheck, StopManager, StopMonitor, StopNotify, StopJoinMonitor,
         StopBase, StopStreams, StopRunning, StopServer, StopJoinServer, StopController,
         StopAt, history, netVars, connVars
    <3>2. CASE asked \in {"signal", "both"}
      BY <3>1, <3>2 DEF Alone
    <3>3. CASE asked \in {"no", "request"}
      <4>1. t = "net" /\ netPc = "stopping" /\ stopPc["main"] = "idle" /\ asked = "request"
        <5>1. t = "net" /\ stopPc["main"] = "idle"
          BY <1>0, <3>1, <3>3, OnlyRequest DEF Threads
        <5>2. netPc = "stopping"
          BY <1>0, <3>1, <5>1 DEF Places
        <5>3. QED BY <1>0, <2>1, <2>2, <3>3, <5>1, <5>2 DEF Alone
      <4>2. CASE StopCheck(t)
        <5>1. /\ stopPc["net"] = "check"
              /\ UNCHANGED <<running, listening, alive, streams, netPc, monitoring>>
          BY <4>1, <4>2 DEF StopCheck, StopAt, netVars, monVars
        <5>2. AllUp'
          BY <1>0, <2>1, <2>2, <4>1, <5>1 DEF Alone, AllUp
        <5>3. QED BY <1>0, <2>1, <2>2, <3>1, <4>1, <5>1, <5>2 DEF Alone
      <4>3. CASE StopController(t)
        <5>1. /\ stopPc' = [stopPc EXCEPT !["net"] = "idle"] /\ netPc' = back
              /\ alive' = alive \ {"controller"}
          BY <4>1, <4>3 DEF StopController, StopAt, Delete
        <5>2. stopPc'["net"] = "idle" /\ stopPc'["main"] = "idle"
          BY <1>t, <4>1, <5>1 DEF Threads
        <5>3. AllDown'
          BY <1>0, <5>1, <5>2 DEF Stages, AllUp, Threads, Past
        <5>4. back \in {"scan", "cleanup"}
          BY <1>0 DEF Places
        <5>5. /\ ~others => ready = {} /\ \A c \in Conn : buffered[c] = <<>>
          BY <1>0, <2>1, <2>2, <4>1 DEF Alone
        <5>6. QED BY <3>1, <4>1, <5>1, <5>2, <5>3, <5>4, <5>5 DEF Alone
      <4>4. CASE ~StopCheck(t) /\ ~StopController(t)
        <5>1. stopPc'["net"] \notin {"check", "manager"} /\ netPc' = netPc
          BY <1>t, <2>8, <4>1, <4>4 DEF Stop, StopManager, StopMonitor, StopNotify,
             StopJoinMonitor, StopBase, StopStreams, StopRunning, StopServer, StopJoinServer,
             StopAt, netVars, Threads
        <5>2. QED BY <1>0, <2>1, <2>2, <3>1, <4>1, <5>1 DEF Alone
      <4>5. QED BY <4>2, <4>3, <4>4
    <3>4. QED BY <1>0, <3>2, <3>3 DEF Places
  <2>9. QED BY <1>3, <2>3, <2>4, <2>5, <2>6, <2>7, <2>8 DEF Next
<1>4. QED BY <1>1, <1>2, <1>3

(* The requests of a connection after the loop took the first of them ...  *)
LEMMA ProperTail ==
    ASSUME NEW s \in Seq(Parts), s # <<>>, NEW h \in BOOLEAN, NEW o \in BOOLEAN, Proper(s, h, o)
    PROVE  /\ Proper(Tail(s), s[1] = "half", o)
           /\ s[1] \in Parts /\ (s[1] = "rest" <=> h)
<1>1. /\ Len(s) \in Nat /\ Len(s) # 0 /\ Tail(s) \in Seq(Parts) /\ Len(Tail(s)) = Len(s) - 1
      /\ \A i \in 1..(Len(s) - 1) : Tail(s)[i] = s[i + 1]
  OBVIOUS
<1>2. 1 \in 1..Len(s) /\ s[1] \in Parts
  BY <1>1
<1>3. s[1] = "rest" <=> h
  BY <1>2 DEF Proper
<1>4. ASSUME NEW i \in 1..Len(Tail(s))
      PROVE  Tail(s)[i] = "rest" <=> IF i = 1 THEN s[1] = "half" ELSE Tail(s)[i - 1] = "half"
  <2>1. i + 1 \in 1..Len(s) /\ i + 1 # 1 /\ Tail(s)[i] = s[i + 1] /\ (i + 1) - 1 = i
    BY <1>1
  <2>2. s[i + 1] = "rest" <=> s[i] = "half"
    BY <2>1 DEF Proper
  <2>3. i # 1 => Tail(s)[i - 1] = s[i]
    <3>1. i # 1 => i - 1 \in 1..(Len(s) - 1) /\ (i - 1) + 1 = i
      BY <1>1
    <3>2. QED BY <1>1, <3>1
  <2>4. QED BY <2>1, <2>2, <2>3
<1>5. o <=> IF Tail(s) = <<>> THEN s[1] = "half" ELSE Tail(s)[Len(Tail(s))] = "half"
  <2>1. o <=> s[Len(s)] = "half"
    BY DEF Proper
  <2>2. CASE Len(s) = 1
    <3>1. Tail(s) = <<>>
      <4>1. PICK t \in Seq(Parts) : t = Tail(s)
        BY <1>1
      <4>2. Len(t) = 0
        BY <1>1, <2>2, <4>1
      <4>3. QED BY <4>1, <4>2, EmptySeq
    <3>2. QED BY <2>1, <2>2, <3>1
  <2>3. CASE Len(s) # 1
    <3>0. Tail(s) # <<>>
      <4>1. PICK t \in Seq(Parts) : t = Tail(s)
        BY <1>1
      <4>2. Len(t) # 0
        BY <1>1, <2>3, <4>1
      <4>3. QED BY <4>1, <4>2
    <3>1. Len(s) - 1 \in 1..(Len(s) - 1) /\ (Len(s) - 1) + 1 = Len(s) /\ Tail(s) # <<>>
      <4>1. Len(s) - 1 \in 1..(Len(s) - 1) /\ (Len(s) - 1) + 1 = Len(s)
        BY <1>1, <2>3
      <4>2. QED BY <3>0, <4>1
    <3>2. Tail(s)[Len(Tail(s))] = s[Len(s)]
      BY <1>1, <3>1
    <3>3. QED BY <2>1, <3>1, <3>2
  <2>4. QED BY <2>2, <2>3
<1>6. QED BY <1>2, <1>3, <1>4, <1>5 DEF Proper

(* ... and after the client sent another one, or the rest of one.          *)
LEMMA ProperAppend ==
    ASSUME NEW s \in Seq(Parts), NEW h \in BOOLEAN, NEW o \in BOOLEAN, Proper(s, h, o),
           NEW r \in Parts, r = "rest" <=> o
    PROVE  Proper(Append(s, r), h, r = "half")
<1>1. /\ Len(s) \in Nat /\ Append(s, r) \in Seq(Parts) /\ Len(Append(s, r)) = Len(s) + 1
      /\ Append(s, r)[Len(s) + 1] = r /\ Append(s, r) # <<>>
      /\ \A i \in 1..Len(s) : Append(s, r)[i] = s[i]
  BY AppendProperties
<1>2. ASSUME NEW i \in 1..(Len(s) + 1)
      PROVE  Append(s, r)[i] = "rest" <=> IF i = 1 THEN h ELSE Append(s, r)[i - 1] = "half"
  <2>1. CASE i \in 1..Len(s)
    <3>1. s[i] = "rest" <=> IF i = 1 THEN h ELSE s[i - 1] = "half"
      BY <2>1 DEF Proper
    <3>2. i # 1 => i - 1 \in 1..Len(s)
      BY <1>1, <2>1
    <3>3. QED BY <1>1, <2>1, <3>1, <3>2
  <2>2. CASE i = Len(s) + 1
    <3>1. o <=> IF s = <<>> THEN h ELSE s[Len(s)] = "half"
      BY DEF Proper
    <3>2. CASE s = <<>>
      BY <1>1, <2>2, <3>1, <3>2
    <3>3. CASE s # <<>>
      <4>1. Len(s) \in 1..Len(s) /\ i # 1 /\ i - 1 = Len(s)
        BY <1>1, <2>2, <3>3
      <4>2. Append(s, r)[i - 1] = s[Len(s)] /\ Append(s, r)[i] = r
        BY <1>1, <2>2, <4>1
      <4>3. QED BY <3>1, <3>3, <4>1, <4>2
    <3>4. QED BY <3>2, <3>3
  <2>3. QED BY <1>1, <2>1, <2>2
<1>3. QED BY <1>1, <1>2 DEF Proper

(* readCommand takes the first request of a connection, from the buffer or *)
(* else from the socket.                                                   *)
LEMMA ReadStream ==
    ASSUME NEW bu \in Seq(Parts), NEW inb \in Seq(Parts),
           NEW got, got = IF bu = <<>> THEN inb ELSE bu, got # <<>>
    PROVE  /\ got \in Seq(Parts) /\ bu \o inb # <<>> /\ Head(got) = (bu \o inb)[1]
           /\ Tail(got) \in Seq(Parts)
           /\ (IF bu = <<>> THEN Tail(got) \o <<>> ELSE Tail(got) \o inb) = Tail(bu \o inb)
<1>1. CASE bu = <<>>
  <2>1. got = inb /\ bu \o inb = inb
    BY <1>1, ConcatEmptySeq
  <2>2. Tail(inb) \in Seq(Parts) /\ Head(inb) = inb[1]
    BY <2>1
  <2>3. Tail(inb) \o <<>> = Tail(inb)
    BY <2>2, ConcatEmptySeq
  <2>4. QED BY <1>1, <2>1, <2>2, <2>3
<1>2. CASE bu # <<>>
  <2>1. got = bu /\ Len(bu) \in Nat /\ Len(bu) # 0 /\ Len(inb) \in Nat
    BY <1>2
  <2>2. /\ bu \o inb \in Seq(Parts) /\ Len(bu \o inb) = Len(bu) + Len(inb)
        /\ (bu \o inb)[1] = bu[1]
    BY <2>1
  <2>3. Tail(bu) \o inb = Tail(bu \o inb)
    <3>1. /\ Tail(bu) \o inb \in Seq(Parts) /\ Tail(bu \o inb) \in Seq(Parts)
          /\ Len(Tail(bu) \o inb) = Len(bu) - 1 + Len(inb)
          /\ Len(Tail(bu \o inb)) = Len(bu) - 1 + Len(inb)
      BY <2>1, <2>2
    <3>2. ASSUME NEW i \in 1..(Len(bu) - 1 + Len(inb))
          PROVE  (Tail(bu) \o inb)[i] = Tail(bu \o inb)[i]
      <4>1. Tail(bu \o inb)[i] = (bu \o inb)[i + 1]
        BY <2>1, <2>2
      <4>2. CASE i <= Len(bu) - 1
        BY <2>1, <4>1, <4>2
      <4>3. CASE i > Len(bu) - 1
        BY <2>1, <4>1, <4>3
      <4>4. QED BY <2>1, <4>2, <4>3
    <3>3. QED BY <3>1, <3>2, SeqEqual
  <2>4. QED BY <1>2, <2>1, <2>2, <2>3
<1>3. QED BY <1>1, <1>2

(* Steps that leave the sockets and the buffers alone and read no request. *)
LEMMA WireFrame ==
    ASSUME Wire, UNCHANGED <<inbox, buffered, owed>>, open' \subseteq open,
           \/ UNCHANGED <<netPc, from>>
           \/ /\ netPc \notin {"reading", "done", "aborted"} /\ netPc' # "reading"
              /\ netPc' = "blocked" => from' \in Conn
    PROVE  Wire'
<1>1. /\ inbox' \in [Conn -> Seq(Parts)] /\ buffered' \in [Conn -> Seq(Parts)]
      /\ open' \subseteq Conn
      /\ netPc' \in {"blocked", "reading"} => from' \in Conn
  BY DEF Wire
<1>2. ASSUME netPc' \notin {"done", "aborted"}, NEW c \in Conn
      PROVE  Proper(Stream(c), HalfRead(c), c \in owed)'
  <2>1. Proper(Stream(c), HalfRead(c), c \in owed)
    BY <1>2 DEF Wire
  <2>2. Stream(c)' = Stream(c) /\ (HalfRead(c)' <=> HalfRead(c)) /\ (c \in owed' <=> c \in owed)
    BY DEF Stream, HalfRead
  <2>3. QED BY <2>1, <2>2 DEF Proper
<1>3. QED BY <1>1, <1>2 DEF Wire

(* A request of connection c, or the rest of the one being read, is taken  *)
(* from its buffer or socket.                                              *)
LEMMA Take ==
    ASSUME Wire, NEW c \in Conn, NEW got,
           got = IF buffered[c] = <<>> THEN inbox[c] ELSE buffered[c],
           got # <<>>, netPc \notin {"done", "aborted"},
           buffered' = [buffered EXCEPT ![c] = Tail(got)],
           inbox' = IF buffered[c] = <<>> THEN [inbox EXCEPT ![c] = <<>>] ELSE inbox
    PROVE  /\ inbox' \in [Conn -> Seq(Parts)] /\ buffered' \in [Conn -> Seq(Parts)]
           /\ \A d \in Conn \ {c} : Stream(d)' = Stream(d)
           /\ Head(got) \in Parts /\ (Head(got) = "rest" <=> HalfRead(c))
           /\ Proper(buffered'[c] \o inbox'[c], Head(got) = "half", c \in owed)
<1>1. inbox \in [Conn -> Seq(Parts)] /\ buffered \in [Conn -> Seq(Parts)]
  BY DEF Wire
<1>2. buffered[c] \in Seq(Parts) /\ inbox[c] \in Seq(Parts) /\ Stream(c) \in Seq(Parts)
  BY <1>1, ConcatProperties DEF Stream
<1>3. PICK bu \in Seq(Parts), inb \in Seq(Parts) : bu = buffered[c] /\ inb = inbox[c]
  BY <1>2
<1>4. got = IF bu = <<>> THEN inb ELSE bu
  BY <1>3
<1>5. /\ got \in Seq(Parts) /\ bu \o inb # <<>> /\ Head(got) = (bu \o inb)[1]
      /\ Tail(got) \in Seq(Parts)
      /\ (IF bu = <<>> THEN Tail(got) \o <<>> ELSE Tail(got) \o inb) = Tail(bu \o inb)
  BY <1>4, ReadStream
<1>6. Stream(c) = bu \o inb
  BY <1>3 DEF Stream
<1>7. inbox' \in [Conn -> Seq(Parts)] /\ buffered' \in [Conn -> Seq(Parts)]
  BY <1>1, <1>5
<1>8. \A d \in Conn \ {c} : Stream(d)' = Stream(d)
  BY <1>1 DEF Stream
<1>9. buffered'[c] \o inbox'[c] = Tail(Stream(c))
  <2>1. buffered'[c] = Tail(got)
    BY <1>1
  <2>2. inbox'[c] = IF bu = <<>> THEN <<>> ELSE inb
    BY <1>1, <1>3
  <2>3. QED BY <1>5, <1>6, <2>1, <2>2
<1>10. Proper(Stream(c), HalfRead(c), c \in owed)
  BY DEF Wire
<1>11. PICK s \in Seq(Parts) : s = Stream(c)
  BY <1>2
<1>12. PICK h \in BOOLEAN, o \in BOOLEAN : (h <=> HalfRead(c)) /\ (o <=> c \in owed)
  OBVIOUS
<1>13. Proper(s, h, o) /\ s # <<>>
  BY <1>5, <1>6, <1>10, <1>11, <1>12 DEF Proper
<1>14. Proper(Tail(s), s[1] = "half", o) /\ s[1] \in Parts /\ (s[1] = "rest" <=> h)
  BY <1>13, ProperTail
<1>15. s[1] = Head(got) /\ Tail(s) = buffered'[c] \o inbox'[c]
  BY <1>5, <1>6, <1>9, <1>11
<1>16. Proper(buffered'[c] \o inbox'[c], Head(got) = "half", c \in owed)
  BY <1>12, <1>14, <1>15 DEF Proper
<1>17. QED BY <1>7, <1>8, <1>12, <1>14, <1>15, <1>16

(* readCommand.                                                            *)
LEMMA ReadStep ==
    ASSUME Wire, NEW c \in Conn, Read(c), netPc \notin {"reading", "done", "aborted"}, owed' = owed,
           open' \subseteq open
    PROVE  Wire' /\ current' \in {"write", "half", "shutdown"}
<1>1. PICK got : got = IF buffered[c] = <<>> THEN inbox[c] ELSE buffered[c]
  OBVIOUS
<1>2. /\ got # <<>> /\ buffered' = [buffered EXCEPT ![c] = Tail(got)]
      /\ inbox' = IF buffered[c] = <<>> THEN [inbox EXCEPT ![c] = <<>>] ELSE inbox
      /\ from' = c /\ current' = Head(got)
      /\ netPc' = IF Head(got) = "half" THEN "reading" ELSE "execute"
  BY <1>1 DEF Read
<1>3. /\ inbox' \in [Conn -> Seq(Parts)] /\ buffered' \in [Conn -> Seq(Parts)]
      /\ \A d \in Conn \ {c} : Stream(d)' = Stream(d)
      /\ Head(got) \in Parts /\ (Head(got) = "rest" <=> HalfRead(c))
      /\ Proper(buffered'[c] \o inbox'[c], Head(got) = "half", c \in owed)
  BY <1>1, <1>2, Take
<1>4. current' \in {"write", "half", "shutdown"}
  BY <1>2, <1>3 DEF HalfRead, Parts
<1>5. HalfRead(c)' <=> Head(got) = "half"
  BY <1>2 DEF HalfRead
<1>6. Proper(Stream(c), HalfRead(c), c \in owed)'
  BY <1>3, <1>5 DEF Stream, Proper
<1>7. ASSUME NEW d \in Conn \ {c} PROVE Proper(Stream(d), HalfRead(d), d \in owed)'
  <2>1. Proper(Stream(d), HalfRead(d), d \in owed) /\ Stream(d)' = Stream(d)
    BY <1>3 DEF Wire
  <2>2. ~HalfRead(d) /\ ~HalfRead(d)'
    BY <1>2 DEF HalfRead
  <2>3. QED BY <2>1, <2>2 DEF Proper
<1>8. open' \subseteq Conn
  BY DEF Wire
<1>9. QED BY <1>2, <1>3, <1>4, <1>6, <1>7, <1>8 DEF Wire

(* The client sends a request, or the rest of one.                         *)
LEMMA SendStep ==
    ASSUME Wire, NEW c \in Conn, NEW r \in Parts, r = "rest" <=> c \in owed,
           inbox' = [inbox EXCEPT ![c] = Append(@, r)],
           owed' = IF r = "half" THEN owed \union {c} ELSE owed \ {c},
           UNCHANGED <<open, buffered, netPc, from>>
    PROVE  Wire'
<1>1. inbox \in [Conn -> Seq(Parts)] /\ buffered \in [Conn -> Seq(Parts)]
  BY DEF Wire
<1>2. inbox' \in [Conn -> Seq(Parts)]
  BY <1>1, AppendProperties
<1>3. ASSUME netPc \notin {"done", "aborted"}
      PROVE  Proper(Stream(c), HalfRead(c), c \in owed)'
  <2>1. PICK bu \in Seq(Parts), inb \in Seq(Parts) : bu = buffered[c] /\ inb = inbox[c]
    BY <1>1
  <2>2. Stream(c)' = bu \o Append(inb, r) /\ Stream(c) = bu \o inb
    BY <1>1, <2>1 DEF Stream
  <2>3. bu \o Append(inb, r) = Append(bu \o inb, r)
    <3>1. bu \o inb \in Seq(Parts) /\ <<r>> \in Seq(Parts)
      BY ConcatProperties
    <3>2. bu \o (inb \o <<r>>) = (bu \o inb) \o <<r>>
      BY <3>1, ConcatAssociative
    <3>3. QED BY <3>1, <3>2, AppendIsConcat
  <2>4. PICK s \in Seq(Parts) : s = bu \o inb
    BY ConcatProperties
  <2>5. PICK h \in BOOLEAN, o \in BOOLEAN : (h <=> HalfRead(c)) /\ (o <=> c \in owed)
    OBVIOUS
  <2>6. Proper(s, h, o)
    <3>1. Proper(Stream(c), HalfRead(c), c \in owed)
      BY <1>3 DEF Wire
    <3>2. QED BY <2>2, <2>4, <2>5, <3>1 DEF Proper
  <2>7. Proper(Append(s, r), h, r = "half")
    BY <2>5, <2>6, ProperAppend
  <2>8. (HalfRead(c)' <=> h) /\ (c \in owed' <=> r = "half") /\ Stream(c)' = Append(s, r)
    BY <2>2, <2>3, <2>4, <2>5 DEF HalfRead
  <2>9. QED BY <2>7, <2>8 DEF Proper
<1>4. ASSUME netPc \notin {"done", "aborted"}, NEW d \in Conn \ {c}
      PROVE  Proper(Stream(d), HalfRead(d), d \in owed)'
  <2>1. Proper(Stream(d), HalfRead(d), d \in owed)
    BY <1>4 DEF Wire
  <2>2. Stream(d)' = Stream(d) /\ (HalfRead(d)' <=> HalfRead(d)) /\ (d \in owed' <=> d \in owed)
    BY <1>1 DEF Stream, HalfRead
  <2>3. QED BY <2>1, <2>2 DEF Proper
<1>5. QED BY <1>1, <1>2, <1>3, <1>4 DEF Wire

(* What the loops serve next is a connection.                              *)
LEMMA Served ==
    ASSUME TypeOK
    PROVE  /\ Pending # {} => Min(Pending) \in Conn
           /\ ready # {} => Min(ready) \in Conn
<1>1. Pending \subseteq Conn /\ ready \subseteq Conn
  BY DEF TypeOK, Pending
<1>2. Pending \subseteq Nat /\ ready \subseteq Nat
  BY <1>1, LifeAssumption
<1>3. QED BY <1>1, <1>2, MinIn

(* Every step keeps halves and rests together: no rest is ever taken for a *)
(* request.                                                                *)
LEMMA WireStep ==
    LifeInv /\ [Next]_vars => Wire' /\ current' \in {None, "write", "half", "shutdown"}
<1> DEFINE Requests == {None, "write", "half", "shutdown"}
<1> SUFFICES ASSUME LifeInv, [Next]_vars PROVE Wire' /\ current' \in Requests OBVIOUS
<1>0. Wire /\ Places /\ TypeOK /\ current \in Requests
  BY DEF LifeInv, StopInOrder, TypeOK
<1>1. CASE UNCHANGED vars
  <2>1. UNCHANGED <<inbox, buffered, owed, open, netPc, from, current>>
    BY <1>1 DEF vars, connVars, netVars
  <2>2. QED BY <1>0, <2>1, WireFrame
<1>2. CASE Start \/ Signal \/ Poll
  <2>1. /\ UNCHANGED <<inbox, buffered, owed, open, from, current>>
        /\ netPc' = netPc \/ (netPc = "off" /\ netPc' = "select")
    BY <1>0, <1>2 DEF Start, Signal, Poll, connVars, netVars, Places
  <2>2. QED BY <1>0, <2>1, WireFrame
<1>3. CASE Clients
  <2>1. PICK c \in Conn : (\E r \in {"write", "half", "shutdown"} : Send(c, r))
                          \/ SendRest(c) \/ Disconnect(c)
    BY <1>3 DEF Clients
  <2>2. ASSUME NEW r \in {"write", "half", "shutdown"}, Send(c, r)
        PROVE  Wire' /\ current' \in Requests
    <3>1. r \in Parts /\ c \notin owed /\ r # "rest"
      BY <2>2 DEF Parts, Send
    <3>2. /\ inbox' = [inbox EXCEPT ![c] = Append(@, r)]
          /\ owed' = IF r = "half" THEN owed \union {c} ELSE owed \ {c}
          /\ UNCHANGED <<open, buffered, netPc, from, current>>
      BY <2>2, <3>1 DEF Send, netVars
    <3>3. QED BY <1>0, <3>1, <3>2, SendStep
  <2>3. CASE SendRest(c)
    <3>1. /\ inbox' = [inbox EXCEPT ![c] = Append(@, "rest")]
          /\ owed' = owed \ {c} /\ c \in owed /\ "rest" \in Parts
          /\ UNCHANGED <<open, buffered, netPc, from, current>>
      BY <2>3 DEF SendRest, netVars, Parts
    <3>2. Wire'
      <4>1. PICK r \in Parts : r = "rest"
        BY <3>1
      <4>2. /\ inbox' = [inbox EXCEPT ![c] = Append(@, r)]
            /\ owed' = IF r = "half" THEN owed \union {c} ELSE owed \ {c}
            /\ r = "rest" <=> c \in owed
        BY <3>1, <4>1
      <4>3. QED BY <1>0, <3>1, <4>2, SendStep
    <3>3. QED BY <1>0, <3>1, <3>2
  <2>4. CASE Disconnect(c)
    <3>1. UNCHANGED <<inbox, buffered, owed, open, netPc, from, current>>
      BY <2>4 DEF Disconnect, netVars
    <3>2. QED BY <1>0, <3>1, WireFrame
  <2>5. QED BY <2>1, <2>2, <2>3, <2>4
<1>4. CASE Monitor \/ \E t \in Threads : Stop(t) /\ ~StopController(t)
  <2>1. UNCHANGED <<inbox, buffered, owed, open, netPc, from, current>>
    BY <1>4 DEF Monitor, MonitorLoop, Tick, Timeout, Flush, Stop, StopCheck, StopManager,
       StopMonitor, StopNotify, StopJoinMonitor, StopBase, StopStreams, StopRunning, StopServer,
       StopJoinServer, netVars, connVars
  <2>2. QED BY <1>0, <2>1, WireFrame
<1>5. ASSUME NEW t \in Threads, StopController(t) PROVE Wire' /\ current' \in Requests
  <2>1. UNCHANGED <<inbox, buffered, owed, open, from, current>> /\ stopPc[t] # "idle"
    BY <1>5 DEF StopController, StopAt, connVars
  <2>2. netPc' = netPc \/ (netPc = "stopping" /\ netPc' \in {"scan", "cleanup"})
    BY <1>0, <1>5, <2>1 DEF StopController, Places, Threads
  <2>3. QED BY <1>0, <2>1, <2>2, WireFrame
<1>6. CASE Select \/ NextDescriptor \/ ScanEnd \/ ExecuteWrite \/ Notify \/ ExecuteShutdown
  <2>1. /\ UNCHANGED <<inbox, buffered, owed, open>> /\ current' \in Requests
        /\ netPc \notin {"reading", "done", "aborted"} /\ netPc' \notin {"reading", "blocked"}
    BY <1>0, <1>6 DEF Select, NextDescriptor, ScanEnd, ExecuteWrite, Notify, ExecuteShutdown,
       Return, connVars, Places
  <2>2. QED BY <1>0, <2>1, WireFrame
<1>7. CASE ServePending
  <2>1. /\ Min(Pending) \in Conn /\ Read(Min(Pending))
        /\ netPc = "scan" /\ UNCHANGED <<owed, open>>
    BY <1>0, <1>7, Served DEF ServePending
  <2>2. PICK c \in Conn : Read(c)
    BY <2>1
  <2>3. QED BY <1>0, <2>1, <2>2, ReadStep
<1>8. CASE ServeReady
  <2>1. PICK c \in Conn :
            /\ netPc = "scan" /\ UNCHANGED owed
            /\ \/ Read(c) /\ UNCHANGED open
               \/ /\ \/ open' = open \ {c} /\ UNCHANGED <<netPc, from>>
                     \/ netPc' = "blocked" /\ from' = c /\ UNCHANGED open
                  /\ UNCHANGED <<inbox, buffered, current>>
    BY <1>0, <1>8, Served DEF ServeReady
  <2>2. CASE Read(c) /\ UNCHANGED open
    BY <1>0, <2>1, <2>2, ReadStep
  <2>3. CASE ~(Read(c) /\ UNCHANGED open)
    <3>1. /\ open' \subseteq open /\ UNCHANGED <<inbox, buffered, current, owed>>
          /\ netPc = "scan" /\ netPc' \in {"scan", "blocked"}
          /\ netPc' = "blocked" => from' \in Conn
      BY <2>1, <2>3
    <3>2. QED BY <1>0, <3>1, WireFrame
  <2>4. QED BY <2>2, <2>3
<1>9. CASE Blocked
  <2>1. netPc = "blocked" /\ from \in Conn /\ UNCHANGED owed
    BY <1>0, <1>9 DEF Blocked, Wire
  <2>2. CASE Read(from) /\ UNCHANGED open
    <3>1. PICK c \in Conn : Read(c)
      BY <2>1, <2>2
    <3>2. QED BY <1>0, <2>1, <2>2, <3>1, ReadStep
  <2>3. CASE ~(Read(from) /\ UNCHANGED open)
    <3>1. /\ open' \subseteq open /\ UNCHANGED <<inbox, buffered, current, owed>>
          /\ netPc = "blocked" /\ netPc' = "scan"
      BY <1>9, <2>3 DEF Blocked
    <3>2. QED BY <1>0, <3>1, WireFrame
  <2>4. QED BY <2>2, <2>3
<1>10. CASE ReadRest
  <2>1. PICK c \in Conn : c = from
    BY <1>0, <1>10 DEF ReadRest, Wire
  <2>2. PICK got : got = IF buffered[c] = <<>> THEN inbox[c] ELSE buffered[c]
    OBVIOUS
  <2>3. /\ netPc = "reading" /\ got # <<>> /\ buffered' = [buffered EXCEPT ![c] = Tail(got)]
        /\ inbox' = IF buffered[c] = <<>> THEN [inbox EXCEPT ![c] = <<>>] ELSE inbox
        /\ netPc' = "execute" /\ current' = "write" /\ UNCHANGED <<from, open, owed>>
    BY <1>10, <2>1, <2>2 DEF ReadRest
  <2>4. /\ inbox' \in [Conn -> Seq(Parts)] /\ buffered' \in [Conn -> Seq(Parts)]
        /\ \A d \in Conn \ {c} : Stream(d)' = Stream(d)
        /\ Head(got) = "rest" <=> HalfRead(c)
        /\ Proper(buffered'[c] \o inbox'[c], Head(got) = "half", c \in owed)
    BY <1>0, <2>2, <2>3, Take
  <2>5. Head(got) = "rest"
    BY <2>1, <2>3, <2>4 DEF HalfRead
  <2>6. Proper(Stream(c), HalfRead(c), c \in owed)'
    BY <2>3, <2>4, <2>5 DEF Stream, HalfRead, Proper
  <2>7. ASSUME NEW d \in Conn \ {c} PROVE Proper(Stream(d), HalfRead(d), d \in owed)'
    <3>1. Proper(Stream(d), HalfRead(d), d \in owed) /\ Stream(d)' = Stream(d)
      BY <1>0, <2>3, <2>4 DEF Wire
    <3>2. ~HalfRead(d) /\ ~HalfRead(d)'
      BY <2>1, <2>3 DEF HalfRead
    <3>3. QED BY <2>3, <3>1, <3>2 DEF Proper
  <2>8. QED BY <1>0, <2>3, <2>4, <2>6, <2>7 DEF Wire
<1>10a. CASE RestMissing
  <2>1. PICK c \in Conn : c = from
    BY <1>0, <1>10a DEF RestMissing, Wire
  <2>2. /\ netPc = "reading" /\ buffered[c] = <<>> /\ inbox[c] = <<>>
        /\ UNCHANGED <<from, open, inbox, buffered>>
    BY <1>10a, <2>1 DEF RestMissing
  <2>3. CASE netPc' = "aborted"
    <3>1. current' = current
      BY <1>10a, <2>3 DEF RestMissing
    <3>2. QED BY <1>0, <2>2, <2>3, <3>1 DEF Wire
  <2>4. CASE netPc' # "aborted"
    <3>1. netPc' = "execute" /\ current' = "write" /\ owed' = owed \ {c}
      BY <1>10a, <2>1, <2>4 DEF RestMissing
    <3>2. Proper(Stream(c), HalfRead(c), c \in owed)'
      <4>1. Stream(c)' = <<>>
        BY <2>2 DEF Stream
      <4>2. ~HalfRead(c)' /\ c \notin owed'
        BY <3>1 DEF HalfRead
      <4>3. QED BY <4>1, <4>2 DEF Proper
    <3>3. ASSUME NEW d \in Conn \ {c} PROVE Proper(Stream(d), HalfRead(d), d \in owed)'
      <4>1. Proper(Stream(d), HalfRead(d), d \in owed)
        BY <1>0, <2>2 DEF Wire
      <4>2. Stream(d)' = Stream(d) /\ ~HalfRead(d) /\ ~HalfRead(d)' /\ (d \in owed' <=> d \in owed)
        BY <2>1, <2>2, <3>1 DEF Stream, HalfRead
      <4>3. QED BY <4>1, <4>2 DEF Proper
    <3>4. QED BY <1>0, <2>2, <3>1, <3>2, <3>3 DEF Wire
  <2>5. QED BY <2>3, <2>4
<1>11. CASE Cleanup
  <2>1. netPc = "cleanup" /\ UNCHANGED <<open, owed>>
    BY <1>11 DEF Cleanup
  <2>2. CASE Pending # {}
    <3>1. PICK c \in Conn : Read(c)
      BY <1>0, <1>11, <2>2, Served DEF Cleanup
    <3>2. QED BY <1>0, <2>1, <3>1, ReadStep
  <2>3. CASE Pending = {}
    <3>1. /\ netPc' = "done" /\ buffered' = [c \in Conn |-> <<>>]
          /\ UNCHANGED <<inbox, current>>
      BY <1>11, <2>3 DEF Cleanup
    <3>2. buffered' \in [Conn -> Seq(Parts)]
      BY <3>1, EmptySeq
    <3>3. QED BY <1>0, <2>1, <3>1, <3>2 DEF Wire
  <2>4. QED BY <2>2, <2>3
<1>12. QED
  BY <1>1, <1>2, <1>3, <1>4, <1>5, <1>6, <1>7, <1>8, <1>9, <1>10, <1>10a, <1>11
  DEF Next, Net, Stop

(* The types of the state.                                                 *)
LEMMA TypeStep == LifeInv /\ [Next]_vars => TypeOK'
<1> SUFFICES ASSUME LifeInv, [Next]_vars PROVE TypeOK' OBVIOUS
<1>0. TypeOK /\ Places /\ Wire
  BY DEF LifeInv, StopInOrder
<1>1. current' \in {None, "write", "half", "shutdown"}
  BY WireStep
<1>2. CASE UNCHANGED vars
  BY <1>0, <1>1, <1>2 DEF TypeOK, vars, stopVars, netVars, connVars, monVars, lockVars
<1>3. CASE Start \/ Signal \/ Poll
  BY <1>0, <1>1, <1>3 DEF TypeOK, Start, Signal, Poll, stopVars, netVars, connVars, monVars,
     lockVars
<1>4. CASE Clients
  <2>1. /\ left' \subseteq Conn /\ owed' \subseteq Conn /\ closed' \subseteq Conn
        /\ UNCHANGED <<mainPc, stopVars, netVars, monVars, lockVars>>
    BY <1>0, <1>4 DEF Clients, Send, SendRest, Disconnect, TypeOK
  <2>2. QED BY <1>0, <1>1, <2>1 DEF TypeOK, stopVars, netVars, monVars, lockVars
<1>5. CASE Monitor
  <2>0. backlog \in 1..MaxBacklog /\ MaxBacklog \in Nat
    BY <1>0, LifeAssumption DEF TypeOK
  <2>1. /\ monPc' \in {"off", "top", "wait", "flush", "done"}
        /\ lockWait' \in {Free, "monitor"} /\ backlog' \in 1..MaxBacklog
        /\ UNCHANGED <<mainPc, stopVars, netVars, connVars, lockActive>>
    <3>1. CASE MonitorLoop \/ Tick \/ Timeout
      BY <1>0, <3>1 DEF TypeOK, MonitorLoop, Tick, Timeout, lockVars
    <3>2. CASE Flush
      <4>1. backlog' \in 1..MaxBacklog
        BY <2>0, <3>2 DEF Flush
      <4>2. QED BY <1>0, <3>2, <4>1 DEF TypeOK, Flush
    <3>3. QED BY <1>5, <3>1, <3>2 DEF Monitor
  <2>2. QED BY <1>0, <1>1, <2>1 DEF TypeOK, stopVars, netVars, connVars
<1>6. ASSUME NEW t \in Threads, Stop(t) PROVE TypeOK'
  <2>1. /\ mainPc' \in {mainPc, "exited"} /\ netPc' \in {netPc, back}
        /\ alive' \subseteq alive
        /\ UNCHANGED <<monPc, ready, pass, connVars, backlog, lockVars>>
    BY <1>6 DEF Stop, StopCheck, StopManager, StopMonitor, StopNotify, StopJoinMonitor,
       StopBase, StopStreams, StopRunning, StopServer, StopJoinServer, StopController, Delete,
       netVars, monVars
  <2>2. QED BY <1>0, <1>1, <2>1 DEF TypeOK, Places, connVars, lockVars
<1>7. CASE Net
  <2>0. /\ backlog \in 1..MaxBacklog /\ MaxBacklog \in Nat /\ back \in {"scan", "cleanup"}
        /\ ready \subseteq Conn /\ pass \subseteq Conn /\ open \subseteq Conn
    BY <1>0, LifeAssumption DEF TypeOK, Places, Wire
  <2>1. UNCHANGED <<mainPc, monPc, alive, left, lockWait>>
    BY <1>7 DEF Net, Select, ServePending, ServeReady, NextDescriptor, ScanEnd, Blocked,
       ReadRest, RestMissing, Cleanup, ExecuteWrite, Notify, ExecuteShutdown, stopVars, connVars, monVars,
       lockVars
  <2>2. /\ netPc' \in {"off", "select", "scan", "blocked", "reading", "execute", "notify",
                       "stopping", "cleanup", "done", "aborted"}
        /\ lockActive' \in {Free, "net"} /\ backlog' \in 1..MaxBacklog
        /\ ready' \subseteq Conn /\ pass' \subseteq Conn
    <3>1. CASE Select \/ NextDescriptor \/ ScanEnd \/ ReadRest \/ RestMissing \/ ExecuteShutdown
      BY <1>0, <2>0, <3>1 DEF TypeOK, Select, NextDescriptor, ScanEnd, ReadRest, RestMissing,
         ExecuteShutdown, monVars, lockVars
    <3>2. CASE ServePending \/ ServeReady \/ Blocked \/ Cleanup
      BY <1>0, <2>0, <3>2 DEF TypeOK, ServePending, ServeReady, Blocked, Cleanup, Read,
         monVars, lockVars
    <3>3. CASE ExecuteWrite \/ Notify
      BY <1>0, <2>0, <3>3 DEF TypeOK, ExecuteWrite, Notify, Return
    <3>4. QED BY <1>7, <3>1, <3>2, <3>3 DEF Net
  <2>3. owed' \subseteq Conn /\ closed' \subseteq Conn
    <3>1. CASE RestMissing
      <4>1. from \in Conn
        BY <1>0, <3>1 DEF RestMissing, Wire
      <4>2. QED BY <1>0, <3>1, <4>1 DEF TypeOK, RestMissing
    <3>2. CASE ServeReady
      BY <1>0, <3>2 DEF TypeOK, ServeReady
    <3>3. CASE ~RestMissing /\ ~ServeReady
      BY <1>0, <1>7, <3>3 DEF TypeOK, Net, Select, ServePending, NextDescriptor, ScanEnd, Blocked,
         ReadRest, Cleanup, ExecuteWrite, Notify, ExecuteShutdown, connVars
    <3>4. QED BY <3>1, <3>2, <3>3
  <2>4. QED BY <1>0, <1>1, <2>1, <2>2, <2>3 DEF TypeOK
<1>8. QED BY <1>2, <1>3, <1>4, <1>5, <1>6, <1>7 DEF Next

(* The process before it starts.                                           *)
LEMMA InitLife == Init => LifeInv
<1> SUFFICES ASSUME Init PROVE LifeInv OBVIOUS
<1>1. TypeOK
  <2>1. 1 \in 1..MaxBacklog
    BY LifeAssumption
  <2>2. QED BY <2>1 DEF Init, TypeOK
<1>2. MonitorStopsFirst /\ ExitAfterClose /\ Stages /\ SafeAlone /\ Alone
  BY DEF Init, MonitorStopsFirst, ExitAfterClose, Stages, SafeAlone, Alone
<1>3. Places
  BY DEF Init, Places, Threads, StopPcs
<1>4. Wire
  <2>1. inbox \in [Conn -> Seq(Parts)] /\ buffered \in [Conn -> Seq(Parts)] /\ open \subseteq Conn
    BY EmptySeq DEF Init
  <2>2. ASSUME NEW c \in Conn PROVE Proper(Stream(c), HalfRead(c), c \in owed)
    <3>1. Stream(c) = <<>>
      BY DEF Init, Stream
    <3>2. ~HalfRead(c) /\ c \notin owed
      BY DEF Init, HalfRead
    <3>3. QED BY <3>1, <3>2 DEF Proper
  <2>3. QED BY <2>1, <2>2 DEF Init, Wire
<1>5. QED BY <1>1, <1>2, <1>3, <1>4 DEF LifeInv, StopInOrder

(* LifeInv is inductive.                                                   *)
LEMMA StepLife == LifeInv /\ [Next]_vars => LifeInv'
  BY TypeStep, OrderStep, StagesStep, SafeStep, PlacesStep, AloneStep, WireStep
  DEF LifeInv, StopInOrder

(* From the first state on, for any number of connections and requests:    *)
(* who is in NetworkService::stop, what it has taken down, and what is on  *)
(* the way to the loop of process agree.                                   *)
THEOREM LifeInvariance == Spec => []LifeInv
  BY InitLife, StepLife, PTL DEF Spec

(* NetworkService::stop takes the server down in order, whether the signal *)
(* handler, the request or both run it: the monitor of the log is joined   *)
(* before the base transaction goes, and the streams are closed before the *)
(* process exits.                                                          *)
THEOREM StopOrder == Spec => []StopInOrder
<1>1. LifeInv => StopInOrder
  BY DEF LifeInv
<1>2. QED BY <1>1, LifeInvariance, PTL

(* A SHUTDOWN request with no other request at hand makes no thread use a  *)
(* deleted object: the loop it returns to finds nothing to do.             *)
THEOREM ShutdownSafe == Spec => []SafeAlone
<1>1. LifeInv => SafeAlone
  BY DEF LifeInv
<1>2. QED BY <1>1, LifeInvariance, PTL

=============================================================================
