------------------------ MODULE StreamManagerProofs ------------------------
(***************************************************************************)
(* Proofs about the catalog of streams: no document is lost between open   *)
(* and the data file, djondb.dat names what is open, a find maps a file    *)
(* that is there, and dbs and namespaces answer what clients have written. *)
(***************************************************************************)
EXTENDS StreamManager, SequenceTheorems, WellFoundedInduction, TLAPS

(* Where a thread stands after a stream of its list is open.               *)
After(p) ==
  [p EXCEPT !.todo = Tail(p.todo), !.snap = {}, !.fresh = FALSE,
            !.pc = IF Tail(p.todo) = <<>> THEN "work" ELSE "lookup"]

(* The lists of streams to open, taken apart.                              *)
LEMMA Lists ==
  ASSUME NEW l \in ToOpen, l # <<>>
  PROVE  /\ Tail(l) \in ToOpen /\ l[1] \in Type /\ Head(l) = l[1]
         /\ l = <<"data">> => Tail(l) = <<>>
         /\ l = <<"index">> => Tail(l) = <<>>
         /\ l = <<"data", "index">> => Tail(l) = <<"index">>
         /\ l = <<"index", "data">> => Tail(l) = <<"data">>
<1>1. CASE l = <<"data">>
  BY <1>1 DEF ToOpen, Type
<1>2. CASE l = <<"index">>
  BY <1>2 DEF ToOpen, Type
<1>3. CASE l = <<"data", "index">>
  BY <1>3 DEF ToOpen, Type
<1>4. CASE l = <<"index", "data">>
  BY <1>4 DEF ToOpen, Type
<1>5. QED BY <1>1, <1>2, <1>3, <1>4 DEF ToOpen

(* A thread that opens a stream has a namespace and a list.                *)
LEMMA AtStream ==
  ASSUME Stands, NEW t \in Thread, thread[t].pc \in Opening
  PROVE  /\ thread[t] \in Place /\ thread[t].todo \in ToOpen /\ thread[t].todo # <<>>
         /\ thread[t].job \in Op \cup Lookups /\ SpaceOf(t) \in Space
         /\ Wanted(t) = <<SpaceOf(t), thread[t].todo[1]>> /\ Wanted(t) \in File
<1>1. thread[t] \in Place /\ Idle.pc = "idle"
  BY DEF Stands, Idle
<1>2. thread[t].todo \in ToOpen /\ thread[t] # Idle
  <2>1. thread[t].todo \in ToOpen
    BY <1>1 DEF Place
  <2>2. thread[t] # Idle
    BY <1>1 DEF Opening
  <2>3. QED BY <2>1, <2>2
<1>3. thread[t].job \in Op \cup Lookups /\ thread[t].todo # <<>>
  <2>1. CASE t = "net"
    <3>1. /\ thread[t].job \in Lookups
          /\ thread[t].todo \in {<<"index", "data">>, <<"data">>}
      BY <1>2, <2>1 DEF Stands, NetStands, Opening
    <3>2. <<"index", "data">> # <<>> /\ <<"data">> # <<>>
      OBVIOUS
    <3>3. QED BY <3>1, <3>2
  <2>2. CASE t = "mon"
    <3>1. /\ thread[t].job \in Op
          /\ thread[t].todo \in {<<"data", "index">>, <<"data">>, <<"index">>}
      BY <1>2, <2>2 DEF Stands, MonStands, Opening
    <3>2. QED BY <3>1
  <2>3. QED BY <2>1, <2>2 DEF Thread
<1>4. SpaceOf(t) \in Space
  BY <1>3 DEF SpaceOf, Op, Lookups
<1>5. Head(thread[t].todo) = thread[t].todo[1] /\ thread[t].todo[1] \in Type
  BY <1>2, <1>3, Lists
<1>6. QED BY <1>1, <1>2, <1>3, <1>4, <1>5 DEF Wanted, SpaceOf, File

(* The thread goes on to the next stream of its list, or to its work.      *)
LEMMA Onward ==
  ASSUME Stands, NEW t \in Thread, thread[t].pc \in Opening
  PROVE  /\ Advance(t) = [thread EXCEPT ![t] = After(thread[t])]
         /\ After(thread[t]) \in Place
         /\ After(thread[t]).job = thread[t].job
         /\ After(thread[t]).pc \in {"work", "lookup"}
         /\ t = "net" => NetStands(After(thread[t]))
         /\ t = "mon" => MonStands(After(thread[t]))
         /\ HasData(t, After(thread[t])) =>
              thread[t].todo[1] = "data" \/ HasData(t, thread[t])
<1>1. /\ thread[t] \in Place /\ thread[t].todo \in ToOpen /\ thread[t].todo # <<>>
      /\ thread[t].job \in Op \cup Lookups
  BY AtStream
<1>2. PICK p \in Place : p = thread[t]
  BY <1>1
<1>3. PICK l \in ToOpen : l = p.todo /\ l # <<>>
  BY <1>1, <1>2
<1>4. /\ Tail(l) \in ToOpen
      /\ l = <<"data">> => Tail(l) = <<>>
      /\ l = <<"index">> => Tail(l) = <<>>
      /\ l = <<"data", "index">> => Tail(l) = <<"index">>
      /\ l = <<"index", "data">> => Tail(l) = <<"data">>
  BY <1>3, Lists
<1>5. PICK k \in ToOpen : k = Tail(l)
  BY <1>4
<1>6. After(p) = [p EXCEPT !.todo = k, !.snap = {}, !.fresh = FALSE,
                           !.pc = IF k = <<>> THEN "work" ELSE "lookup"]
  BY <1>3, <1>5 DEF After
<1>7. /\ After(p) \in Place /\ After(p).job = p.job /\ After(p).todo = k
      /\ After(p).pc = IF k = <<>> THEN "work" ELSE "lookup"
  BY <1>6 DEF Place, Opening
<1>8. thread \in [Thread -> Place]
  BY DEF Stands
<1>9. Advance(t) = [thread EXCEPT ![t] = After(thread[t])]
  BY <1>8, <1>2 DEF Advance, After, Place
<1>10. p # Idle
  BY <1>2 DEF Opening, Idle
<1>11. t = "net" => NetStands(After(p))
  <2> SUFFICES ASSUME t = "net" PROVE NetStands(After(p)) OBVIOUS
  <2>1. p.job \in Lookups /\ l \in {<<"index", "data">>, <<"data">>}
    BY <1>2, <1>3, <1>10 DEF Stands, NetStands, Opening
  <2>2. k \in {<<>>, <<"data">>}
    BY <1>4, <1>5, <2>1
  <2>3. QED BY <1>7, <2>1, <2>2 DEF NetStands, Opening
<1>12. t = "mon" => MonStands(After(p))
  <2> SUFFICES ASSUME t = "mon" PROVE MonStands(After(p)) OBVIOUS
  <2>1. p.job \in Op /\ l \in {<<"data", "index">>, <<"data">>, <<"index">>}
    BY <1>2, <1>3, <1>10 DEF Stands, MonStands, Opening
  <2>2. k \in {<<>>, <<"index">>}
    BY <1>4, <1>5, <2>1
  <2>3. QED BY <1>7, <2>1, <2>2 DEF MonStands, Opening
<1>13. HasData(t, After(p)) => p.todo[1] = "data" \/ HasData(t, p)
  <2> SUFFICES ASSUME HasData(t, After(p)), l[1] # "data" PROVE HasData(t, p)
    BY <1>3
  <2>1. l \in {<<"index">>, <<"index", "data">>}
    <3>1. <<"data">>[1] = "data" /\ <<"data", "index">>[1] = "data"
      OBVIOUS
    <3>2. l # <<"data">> /\ l # <<"data", "index">>
      BY <3>1
    <3>3. QED BY <1>3, <3>2 DEF ToOpen
  <2>2. CASE t = "net"
    <3>1. l = <<"index", "data">>
      BY <1>2, <1>3, <1>10, <2>1, <2>2 DEF Stands, NetStands, Opening
    <3>2. k = <<"data">>
      BY <1>4, <1>5, <3>1
    <3>3. QED BY <1>7, <2>2, <3>2 DEF HasData
  <2>3. CASE t = "mon"
    <3>1. l = <<"index">>
      BY <1>2, <1>3, <1>10, <2>1, <2>3 DEF Stands, MonStands, Opening
    <3>2. QED BY <1>3, <2>3, <3>1 DEF HasData
  <2>4. QED BY <2>2, <2>3 DEF Thread
<1>14. QED BY <1>2, <1>7, <1>9, <1>11, <1>12, <1>13

(* The types of a step, given where it leaves the threads.                 *)
LEMMA TypesAfter ==
  ASSUME Stands', opened' \subseteq File, catalog' \subseteq File, disk' \subseteq File,
         doubled' \subseteq File, known' \subseteq Db,
         records' \in [Space -> SUBSET (1..MaxOps)],
         ~up' => opened' = {} /\ known' = {} /\ \A t \in Thread : thread'[t] = Idle,
         {f[1][1] : f \in opened'} \subseteq known'
  PROVE  TypeOK'
<1>1. ASSUME NEW t \in Thread
      PROVE  /\ thread'[t].pc \in {"idle", "lookup", "create", "save", "close", "work", "erase"}
             /\ (thread'[t].pc = "idle") <=> (thread'[t].job = NoJob)
             /\ (thread'[t].todo = <<>>) <=> (thread'[t].pc \in {"idle", "work", "erase"})
             /\ thread'[t].snap \subseteq File
  <2>1. PICK p \in Place : p = thread'[t]
    BY DEF Stands
  <2>2. p.pc \in Opening \cup {"idle", "work", "erase"} /\ p.snap \subseteq File
    BY DEF Place
  <2>3. NoJob \notin Op /\ NoJob \notin Lookups
    BY DEF NoJob, Op, Lookups
  <2>4. Idle.pc = "idle" /\ Idle.job = NoJob /\ Idle.todo = <<>>
    BY DEF Idle
  <2>5. <<"index", "data">> # <<>> /\ <<"data", "index">> # <<>> /\ <<"data">> # <<>>
        /\ <<"index">> # <<>>
    OBVIOUS
  <2>6. CASE t = "net"
    BY <2>1, <2>2, <2>3, <2>4, <2>5, <2>6 DEF Stands, NetStands, Opening
  <2>7. CASE t = "mon"
    BY <2>1, <2>2, <2>3, <2>4, <2>5, <2>7 DEF Stands, MonStands, Opening
  <2>8. QED BY <2>6, <2>7 DEF Thread
<1>2. QED BY <1>1 DEF TypeOK

(* Nobody works.                                                           *)
LEMMA IdleStands ==
  ASSUME thread' = [t \in Thread |-> Idle]
  PROVE  Stands'
<1>1. Idle \in Place
  <2>1. <<>> \in ToOpen
    BY DEF ToOpen
  <2>2. QED BY <2>1 DEF Idle, Place
<1>2. QED BY <1>1 DEF Stands, NetStands, MonStands, Thread

(* Without a stream to be saved, djondb.dat leads to every document.       *)
LEMMA Listed ==
  ASSUME StreamInv, up, ~CutOff, NEW s \in Space, kept[s] # {}
  PROVE  <<s, "data">> \in Named(catalog)
<1>1. opened \subseteq Named(catalog)
  BY DEF StreamInv, Saved, CutOff
<1>2. <<s, "data">> \in opened
  BY DEF StreamInv, DocumentsListed, CutOff
<1>3. QED BY <1>1, <1>2

(* The process ends: files and log are left, and the operation of the      *)
(* monitor comes first in the log.                                         *)
LEMMA DieStep ==
  ASSUME StreamInv, up, Die, UNCHANGED <<disk, records, kept, raced, undone, ops>>,
         catalog' \subseteq File,
         ~torn' => \A s \in Space : kept[s] # {} => <<s, "data">> \in Named(catalog')
  PROVE  StreamInv'
<1>0. TypeOK /\ Stands /\ Types /\ NothingToLose /\ RecordsKept
  BY DEF StreamInv
<1>1. /\ up' = FALSE /\ opened' = {} /\ known' = {} /\ doubled' = {}
      /\ thread' = [t \in Thread |-> Idle]
  BY DEF Die
<1>2. \A t \in Thread : thread'[t] = Idle
  BY <1>1
<1>3. Idle.pc = "idle" /\ Idle.todo = <<>>
  BY DEF Idle
<1>4. Stands'
  BY <1>1, IdleStands
<1>5. Types'
  <2>0. \A t \in Thread : thread'[t].pc # "create"
    BY <1>2, <1>3
  <2>1. CASE thread["mon"].pc = "idle"
    BY <1>0, <1>1, <2>0, <2>1 DEF Die, Types
  <2>2. CASE thread["mon"].pc # "idle"
    <3>1. thread["mon"].job \in Op
      BY <1>0, <1>3, <2>2 DEF Stands, MonStands
    <3>2. pending' = <<thread["mon"].job>> \o pending
      BY <2>2 DEF Die
    <3>3. pending' \in Seq(Op)
      BY <1>0, <3>1, <3>2, ConcatProperties DEF Types
    <3>4. QED BY <1>0, <1>1, <2>0, <3>3 DEF Types
  <2>3. QED BY <2>1, <2>2
<1>6. TypeOK'
  <2>1. disk' \subseteq File /\ records' \in [Space -> SUBSET (1..MaxOps)]
    BY <1>0 DEF TypeOK
  <2>2. QED BY <1>1, <1>2, <1>4, <2>1, TypesAfter
<1>7. FilesThere'
  <2>1. "net" \in Thread /\ "mon" \in Thread /\ <<>> # <<"index">>
    BY DEF Thread
  <2>2. QED BY <1>1, <1>2, <1>3, <2>1 DEF FilesThere, HasData, Erases
<1>8. NothingToLose'
  <2>1. \A s \in Space : ~Erases(s)'
    BY <1>2, <1>3 DEF Erases, Thread
  <2>2. \A t \in Thread : thread'[t].pc # "create"
    BY <1>2, <1>3
  <2>3. QED BY <1>0, <1>1, <2>1, <2>2 DEF NothingToLose
<1>9. RecordsKept'
  BY <1>0 DEF RecordsKept
<1>10. Saved' /\ DocumentsListed'
  BY <1>1 DEF Saved, DocumentsListed, Named
<1>11. QED BY <1>4, <1>5, <1>6, <1>7, <1>8, <1>9, <1>10 DEF StreamInv

(* A crash, a shutdown, and the two ways for a request to end the process. *)
LEMMA EndStep ==
  ASSUME StreamInv, up, Die, UNCHANGED <<disk, records, kept, raced, undone, ops>>,
         \/ torn' = CutOff /\ catalog' = catalog
         \/ torn' = torn /\ catalog' = opened
  PROVE  StreamInv'
<1>1. CASE torn' = CutOff /\ catalog' = catalog
  <2>1. catalog' \subseteq File
    BY <1>1 DEF StreamInv, TypeOK
  <2>2. ~torn' => \A s \in Space : kept[s] # {} => <<s, "data">> \in Named(catalog')
    BY <1>1, Listed
  <2>3. QED BY <2>1, <2>2, DieStep
<1>2. CASE torn' = torn /\ catalog' = opened
  <2>1. catalog' \subseteq File
    BY <1>2 DEF StreamInv, TypeOK
  <2>2. ~torn' => \A s \in Space : kept[s] # {} => <<s, "data">> \in Named(catalog')
    BY <1>2 DEF StreamInv, DocumentsListed, Named
  <2>3. QED BY <2>1, <2>2, DieStep
<1>3. QED BY <1>1, <1>2

(* The pairs that name files.                                              *)
LEMMA FileNames ==
  /\ \A s \in Space, y \in Type : <<s, y>> \in File /\ <<s, y>>[1] = s /\ <<s, y>>[2] = y
  /\ \A f \in File : f[1] \in Space /\ f[2] \in Type /\ f = <<f[1], f[2]>> /\ f[1][1] \in Db
  BY DEF File, Db

(* A write goes to the log.                                                *)
LEMMA WriteStep ==
  ASSUME StreamInv, NEW s \in Space, NEW code \in {"insert", "change", "drop"}, Write(code, s)
  PROVE  StreamInv'
<1>0. TypeOK /\ Stands /\ Types /\ FilesThere /\ NothingToLose /\ RecordsKept /\ Saved
      /\ DocumentsListed
  BY DEF StreamInv
<1>1. /\ UNCHANGED <<opened, known, catalog, disk, records, doubled, thread, up, kept, dropped,
                     overlap, torn, undone, raced>>
      /\ ops < MaxOps /\ ops' = ops + 1
      /\ pending' = Append(pending, [code |-> code, sp |-> s, n |-> ops + 1])
  BY DEF Write, store
<1>2. Types'
  <2>1. ops \in Nat /\ MaxOps \in Nat /\ ops' \in 0..MaxOps /\ ops + 1 \in 1..MaxOps
    BY <1>0, <1>1, BoundsAssumption DEF Types
  <2>2. [code |-> code, sp |-> s, n |-> ops + 1] \in Op
    BY <2>1 DEF Op
  <2>3. pending' \in Seq(Op)
    BY <1>0, <1>1, <2>2, AppendProperties DEF Types
  <2>4. QED BY <1>0, <1>1, <2>1, <2>3 DEF Types
<1>3. Stands' /\ TypeOK'
  BY <1>0, <1>1 DEF Stands, TypeOK
<1>4. FilesThere' /\ NothingToLose' /\ RecordsKept'
  BY <1>0, <1>1 DEF FilesThere, NothingToLose, RecordsKept, Erases, SpaceOf
<1>5. Saved' /\ DocumentsListed'
  BY <1>0, <1>1 DEF Saved, DocumentsListed
<1>6. QED BY <1>2, <1>3, <1>4, <1>5 DEF StreamInv

(* Steps that move one thread and leave the streams, the catalog and the   *)
(* records alone.                                                          *)
LEMMA MoveStep ==
  ASSUME StreamInv, up, NEW t \in Thread, NEW p \in Place,
         thread' = [thread EXCEPT ![t] = p],
         UNCHANGED <<opened, catalog, disk, records, doubled, up, ops, kept, dropped, torn,
                     undone, raced>>,
         pending' \in Seq(Op),
         known' \subseteq Db, known \subseteq known',
         t = "net" => NetStands(p), t = "mon" => MonStands(p) /\ overlap' = overlap,
         p.pc \notin {"save", "close", "erase"},
         thread[t].pc \notin {"save", "close", "erase"},
         p.pc = "create" => p.job.sp[1] \in known',
         p.pc = "create" /\ p.fresh /\ p.todo[1] = "data" => kept[p.job.sp] = {},
         t = "mon" /\ HasData(t, p) => <<p.job.sp, "data">> \in opened,
         t = "net" /\ p.pc # "idle" /\ Erases(p.job.sp) => overlap',
         t = "net" /\ HasData(t, p) /\ ~overlap' => <<p.job.sp, "data">> \in disk
  PROVE  StreamInv'
<1>0. TypeOK /\ Stands /\ Types /\ FilesThere /\ NothingToLose /\ RecordsKept /\ Saved
      /\ DocumentsListed
  BY DEF StreamInv
<1>1. /\ thread \in [Thread -> Place] /\ thread' \in [Thread -> Place]
      /\ thread'[t] = p /\ \A u \in Thread \ {t} : thread'[u] = thread[u]
      /\ "net" \in Thread /\ "mon" \in Thread /\ "net" # "mon"
      /\ t \in {"net", "mon"}
  BY <1>0 DEF Stands, Thread
<1>2. Stands'
  BY <1>0, <1>1 DEF Stands
<1>3. Types'
  <2>1. \A u \in Thread : thread'[u].pc = "create" => thread'[u].job.sp[1] \in known'
    BY <1>0, <1>1 DEF Types
  <2>2. QED BY <1>0, <2>1 DEF Types
<1>4. TypeOK'
  <2>1. opened' \subseteq File /\ catalog' \subseteq File /\ disk' \subseteq File
        /\ doubled' \subseteq File /\ records' \in [Space -> SUBSET (1..MaxOps)]
        /\ {f[1][1] : f \in opened'} \subseteq known'
    BY <1>0 DEF TypeOK
  <2>2. QED BY <1>2, <2>1, TypesAfter
<1>5. \A s \in Space : Erases(s)' <=> Erases(s)
  BY <1>1 DEF Erases
<1>6. FilesThere'
  <2>1. \A f \in opened' : f \in disk' \/ Erases(f[1])'
    BY <1>0, <1>5, FileNames DEF FilesThere, TypeOK
  <2>2. HasData("mon", thread'["mon"]) => <<SpaceOf("mon")', "data">> \in opened'
    BY <1>0, <1>1 DEF FilesThere, SpaceOf
  <2>3. HasData("net", thread'["net"]) /\ ~overlap' => <<SpaceOf("net")', "data">> \in disk'
    BY <1>0, <1>1 DEF FilesThere, SpaceOf
  <2>4. thread'["net"].pc # "idle" /\ Erases(SpaceOf("net"))' => overlap'
    BY <1>0, <1>1 DEF FilesThere, SpaceOf, Erases
  <2>5. QED BY <2>1, <2>2, <2>3, <2>4 DEF FilesThere
<1>7. NothingToLose'
  <2>1. ASSUME NEW u \in Thread, thread'[u].pc = "create", thread'[u].fresh,
               thread'[u].todo[1] = "data"
        PROVE  <<SpaceOf(u)', "data">> \in opened' \/ kept'[SpaceOf(u)'] = {}
    BY <1>0, <1>1, <2>1 DEF NothingToLose, SpaceOf
  <2>2. QED BY <1>0, <1>5, <2>1 DEF NothingToLose
<1>8. RecordsKept' /\ DocumentsListed'
  BY <1>0 DEF RecordsKept, DocumentsListed
<1>9. Saved'
  <2>1. \A u \in Thread : /\ thread'[u].pc = "save" <=> thread[u].pc = "save"
                          /\ thread'[u].pc = "close" <=> thread[u].pc = "close"
                          /\ thread[u].pc = "close" => thread'[u].snap = thread[u].snap
    BY <1>1
  <2>2. QED BY <1>0, <2>1 DEF Saved
<1>10. QED BY <1>2, <1>3, <1>4, <1>6, <1>7, <1>8, <1>9 DEF StreamInv

(* A thread begins a job: it has opened nothing for it yet.                *)
LEMMA Beginning ==
  ASSUME NEW job \in Op \cup Lookups, NEW l \in ToOpen, l # <<>>, l # <<"index">>
  PROVE  /\ Begin(job, l) \in Place /\ Begin(job, l).pc = "lookup"
         /\ Begin(job, l).job = job /\ Begin(job, l).todo = l
         /\ \A t \in Thread : ~HasData(t, Begin(job, l))
<1>1. Begin(job, l) = [pc |-> "lookup", job |-> job, todo |-> l, fresh |-> FALSE, snap |-> {}]
  <2>1. PICK nil : nil = <<>>
    OBVIOUS
  <2>2. Idle = [pc |-> "idle", job |-> NoJob, todo |-> nil, fresh |-> FALSE, snap |-> {}]
    BY <2>1 DEF Idle
  <2>3. Begin(job, l) = [Idle EXCEPT !.pc = "lookup", !.job = job, !.todo = l]
    BY DEF Begin
  <2>4. QED BY <2>2, <2>3
<1>2. /\ Begin(job, l) \in Place /\ Begin(job, l).pc = "lookup"
      /\ Begin(job, l).job = job /\ Begin(job, l).todo = l
  BY <1>1 DEF Place, Opening
<1>3. QED BY <1>2 DEF HasData

(* A find begins.                                                          *)
LEMMA FindStep ==
  ASSUME StreamInv, NEW s \in Space, Find(s)
  PROVE  StreamInv'
<1>0. TypeOK /\ Stands /\ Types
  BY DEF StreamInv
<1>1. PICK job \in Lookups : job = [code |-> "find", sp |-> s, n |-> 0]
  BY DEF Lookups
<1>2. FindTypes \in ToOpen /\ FindTypes # <<>> /\ FindTypes # <<"index">>
      /\ FindTypes = <<"index", "data">>
  <2>1. Len(<<"index", "data">>) = 2 /\ Len(<<"index">>) = 1
    OBVIOUS
  <2>2. QED BY <2>1 DEF FindTypes, ToOpen
<1>3. PICK p \in Place :
        /\ p = Begin(job, FindTypes) /\ p.pc = "lookup" /\ p.job = job
        /\ p.todo = FindTypes /\ ~HasData("net", p)
  BY <1>2, Beginning DEF Thread
<1>4. /\ up /\ thread["net"].pc = "idle" /\ thread' = [thread EXCEPT !["net"] = p]
      /\ overlap' = Erases(s)
      /\ UNCHANGED <<opened, known, catalog, disk, records, doubled, pending, up, ops, kept,
                     dropped, torn, undone, raced>>
  BY <1>1, <1>3 DEF Find, Erases, store
<1>5. NetStands(p)
  BY <1>1, <1>2, <1>3 DEF NetStands, Opening
<1>6. known' \subseteq Db /\ pending' \in Seq(Op) /\ p.job.sp = s
  BY <1>0, <1>1, <1>3, <1>4 DEF TypeOK, Types
<1>7. QED BY <1>3, <1>4, <1>5, <1>6, MoveStep DEF Thread

(* The monitor takes an operation.                                         *)
LEMMA TakeStep ==
  ASSUME StreamInv, Take
  PROVE  StreamInv'
<1>0. TypeOK /\ Stands /\ Types
  BY DEF StreamInv
<1>1. pending \in Seq(Op) /\ pending # <<>> /\ Head(pending) \in Op /\ Tail(pending) \in Seq(Op)
  BY <1>0 DEF Take, Types
<1>2. PICK op \in Op : op = Head(pending)
  BY <1>1
<1>3. PICK l : l = IF op.code = "drop" THEN <<"data", "index">> ELSE <<"data">>
  OBVIOUS
<1>4. l \in ToOpen /\ l # <<>> /\ l # <<"index">> /\ l \in {<<"data", "index">>, <<"data">>}
  <2>1. <<"data">>[1] = "data" /\ <<"data", "index">>[1] = "data" /\ <<"index">>[1] = "index"
    OBVIOUS
  <2>2. <<"data">> # <<>> /\ <<"data", "index">> # <<>>
    OBVIOUS
  <2>3. l # <<"index">>
    BY <1>3, <2>1
  <2>4. QED BY <1>3, <2>2, <2>3 DEF ToOpen
<1>5. PICK p \in Place :
        /\ p = Begin(op, l) /\ p.pc = "lookup" /\ p.job = op /\ p.todo = l
        /\ ~HasData("mon", p)
  BY <1>4, Beginning DEF Thread
<1>6. /\ up /\ thread["mon"].pc = "idle" /\ thread' = [thread EXCEPT !["mon"] = p]
      /\ pending' = Tail(pending)
      /\ UNCHANGED <<opened, known, catalog, disk, records, doubled, up, ops, kept,
                     dropped, torn, undone, raced, overlap>>
  BY <1>2, <1>3, <1>5 DEF Take, store, bounds, hist
<1>7. MonStands(p)
  BY <1>4, <1>5 DEF MonStands, Opening
<1>8. known' \subseteq Db
  BY <1>0, <1>6 DEF TypeOK
<1>9. QED BY <1>1, <1>5, <1>6, <1>7, <1>8, MoveStep DEF Thread

(* open finds the stream, or decides how to open the file.                 *)
LEMMA LookupStep ==
  ASSUME StreamInv, NEW t \in Thread, Lookup(t)
  PROVE  StreamInv'
<1>0. TypeOK /\ Stands /\ Types /\ FilesThere /\ NothingToLose
  BY DEF StreamInv
<1>1. up /\ thread[t].pc = "lookup" /\ thread[t].pc \in Opening
  BY DEF Lookup, Opening
<1>2. /\ thread[t] \in Place /\ thread[t].todo \in ToOpen /\ thread[t].todo # <<>>
      /\ thread[t].job \in Op \cup Lookups /\ SpaceOf(t) \in Space
      /\ Wanted(t) = <<SpaceOf(t), thread[t].todo[1]>> /\ Wanted(t) \in File
  BY <1>0, <1>1, AtStream
<1>3. /\ UNCHANGED <<opened, catalog, disk, records, doubled, up, ops, kept, dropped, torn,
                     undone, raced, overlap, pending>>
      /\ known' = known \cup {Wanted(t)[1][1]}
  BY DEF Lookup, bounds, hist
<1>4. known' \subseteq Db /\ known \subseteq known' /\ pending' \in Seq(Op)
  BY <1>0, <1>2, <1>3, FileNames DEF TypeOK, Types
<1>5. CASE Wanted(t) \in opened
  <2>1. PICK p \in Place : p = After(thread[t])
    BY <1>0, <1>1, Onward
  <2>2. /\ thread' = [thread EXCEPT ![t] = p] /\ p.job = thread[t].job
        /\ p.pc \in {"work", "lookup"}
        /\ t = "net" => NetStands(p)
        /\ t = "mon" => MonStands(p)
        /\ HasData(t, p) => thread[t].todo[1] = "data" \/ HasData(t, thread[t])
    BY <1>0, <1>1, <1>5, <2>1, Onward DEF Lookup
  <2>3. p.job.sp = SpaceOf(t)
    BY <2>2 DEF SpaceOf
  <2>4. t = "mon" /\ HasData(t, p) => <<SpaceOf(t), "data">> \in opened
    BY <1>0, <1>2, <1>5, <2>2 DEF FilesThere
  <2>5. t = "net" /\ Erases(SpaceOf(t)) => overlap
    BY <1>0, <1>1 DEF FilesThere
  <2>6. ASSUME t = "net", HasData(t, p), ~overlap PROVE <<SpaceOf(t), "data">> \in disk
    <3>1. CASE HasData(t, thread[t])
      BY <1>0, <2>6, <3>1 DEF FilesThere
    <3>2. CASE thread[t].todo[1] = "data"
      <4>1. <<SpaceOf(t), "data">> \in opened /\ <<SpaceOf(t), "data">>[1] = SpaceOf(t)
        BY <1>2, <1>5, <3>2
      <4>2. QED BY <1>0, <2>5, <2>6, <4>1 DEF FilesThere
    <3>3. QED BY <2>2, <2>6, <3>1, <3>2
  <2>7. QED BY <1>1, <1>3, <1>4, <2>2, <2>3, <2>4, <2>5, <2>6, MoveStep
<1>6. CASE Wanted(t) \notin opened
  <2>1. PICK p : p = [thread[t] EXCEPT !.pc = "create", !.fresh = (Wanted(t) \notin disk)]
    OBVIOUS
  <2>2. /\ p \in Place /\ p.pc = "create" /\ p.job = thread[t].job /\ p.todo = thread[t].todo
        /\ p.fresh = (Wanted(t) \notin disk)
    BY <1>2, <2>1 DEF Place, Opening
  <2>3. thread' = [thread EXCEPT ![t] = p]
    BY <1>0, <1>6, <2>1 DEF Lookup, Stands
  <2>4. (t = "net" => NetStands(p)) /\ (t = "mon" => MonStands(p))
    <3>1. thread[t] # Idle
      BY <1>1 DEF Idle
    <3>2. t = "net" => NetStands(p)
      BY <1>0, <1>1, <2>2, <3>1 DEF Stands, NetStands, Opening
    <3>3. t = "mon" => MonStands(p)
      BY <1>0, <1>1, <2>2, <3>1 DEF Stands, MonStands, Opening
    <3>4. QED BY <3>2, <3>3
  <2>5. HasData(t, p) => t = "mon" /\ HasData(t, thread[t])
    BY <2>2 DEF HasData
  <2>6. p.job.sp = SpaceOf(t) /\ SpaceOf(t)[1] \in known'
    BY <1>2, <1>3, <2>2 DEF SpaceOf
  <2>7. p.fresh /\ p.todo[1] = "data" => kept[SpaceOf(t)] = {}
    BY <1>0, <1>2, <2>2 DEF NothingToLose
  <2>8. t = "mon" /\ HasData(t, p) => <<SpaceOf(t), "data">> \in opened
    BY <1>0, <2>5 DEF FilesThere
  <2>9. t = "net" /\ Erases(SpaceOf(t)) => overlap
    BY <1>0, <1>1 DEF FilesThere
  <2>10. t = "net" => ~HasData(t, p)
    BY <2>5
  <2>11. QED
    BY <1>1, <1>3, <1>4, <2>2, <2>3, <2>4, <2>6, <2>7, <2>8, <2>9, <2>10, MoveStep
<1>7. QED BY <1>5, <1>6

(* A thread is done with its job.                                          *)
LEMMA FinishStep ==
  ASSUME StreamInv, up, NEW t \in Thread, Finish(t),
         thread[t].pc = "work", UNCHANGED <<store, pending, up, ops, hist>>
  PROVE  StreamInv'
<1>0. TypeOK /\ Stands /\ Types
  BY DEF StreamInv
<1>1. Idle \in Place /\ Idle.pc = "idle" /\ Idle.todo = <<>>
  <2>1. <<>> \in ToOpen
    BY DEF ToOpen
  <2>2. QED BY <2>1 DEF Idle, Place
<1>2. /\ thread' = [thread EXCEPT ![t] = Idle]
      /\ UNCHANGED <<opened, known, catalog, disk, records, doubled, up, ops, kept, dropped,
                     torn, undone, raced, overlap, pending>>
  BY DEF Finish, store, hist
<1>3. NetStands(Idle) /\ MonStands(Idle)
  BY DEF NetStands, MonStands
<1>4. ~HasData(t, Idle)
  <2>1. <<>> # <<"index">>
    OBVIOUS
  <2>2. QED BY <1>1, <2>1 DEF HasData
<1>5. known' \subseteq Db /\ pending' \in Seq(Op)
  BY <1>0, <1>2 DEF TypeOK, Types
<1>6. QED BY <1>1, <1>2, <1>3, <1>4, <1>5, MoveStep

(* What the changes of one thread leave of the others.                     *)
LEMMA Moved ==
  ASSUME Stands, NEW t \in Thread, NEW p \in Place, thread' = [thread EXCEPT ![t] = p],
         t = "net" => NetStands(p), t = "mon" => MonStands(p)
  PROVE  /\ Stands' /\ thread'[t] = p /\ \A u \in Thread \ {t} : thread'[u] = thread[u]
         /\ "net" \in Thread /\ "mon" \in Thread /\ t \in {"net", "mon"}
<1>1. /\ thread \in [Thread -> Place] /\ thread' \in [Thread -> Place]
      /\ thread'[t] = p /\ \A u \in Thread \ {t} : thread'[u] = thread[u]
      /\ "net" \in Thread /\ "mon" \in Thread /\ "net" # "mon"
      /\ t \in {"net", "mon"}
  BY DEF Stands, Thread
<1>2. QED BY <1>1 DEF Stands

(* A thread at one place of open, with another counter and other notes.    *)
LEMMA Renamed ==
  ASSUME Stands, NEW t \in Thread, thread[t].pc \in Opening, NEW p \in Place,
         p.pc \in Opening, p.job = thread[t].job, p.todo = thread[t].todo
  PROVE  (t = "net" => NetStands(p)) /\ (t = "mon" => MonStands(p))
<1>1. thread[t] # Idle
  BY DEF Idle, Opening
<1>2. t = "net" => NetStands(p)
  BY <1>1 DEF Stands, NetStands, Opening
<1>3. t = "mon" => MonStands(p)
  BY <1>1 DEF Stands, MonStands, Opening
<1>4. QED BY <1>2, <1>3

(* fopen: a file that is emptied has nothing to lose.                      *)
LEMMA CreateStep ==
  ASSUME StreamInv, NEW t \in Thread, Create(t)
  PROVE  StreamInv'
<1>0. TypeOK /\ Stands /\ Types /\ FilesThere /\ NothingToLose /\ RecordsKept /\ Saved
      /\ DocumentsListed
  BY DEF StreamInv
<1>1. up /\ thread[t].pc = "create" /\ thread[t].pc \in Opening
  BY DEF Create, Opening
<1>2. /\ thread[t] \in Place /\ thread[t].todo \in ToOpen /\ thread[t].todo # <<>>
      /\ SpaceOf(t) \in Space
      /\ Wanted(t) = <<SpaceOf(t), thread[t].todo[1]>> /\ Wanted(t) \in File
  BY <1>0, <1>1, AtStream
<1>3. CASE ~(thread[t].fresh \/ Wanted(t) \in disk)
  <2>1. /\ Die /\ torn' = CutOff
        /\ UNCHANGED <<disk, records, kept, raced, undone, ops, catalog>>
    BY <1>3 DEF Create, bounds
  <2>2. QED BY <1>1, <2>1, EndStep
<1>4. CASE thread[t].fresh \/ Wanted(t) \in disk
  <2>0. PICK f \in File : f = Wanted(t) /\ f[1] = SpaceOf(t) /\ f[2] = thread[t].todo[1]
    BY <1>2
  <2>1. PICK p : p = [thread[t] EXCEPT !.pc = "save"]
    OBVIOUS
  <2>2. p \in Place /\ p.pc = "save" /\ p.job = thread[t].job /\ p.todo = thread[t].todo
    BY <1>2, <2>1 DEF Place, Opening
  <2>3. /\ thread' = [thread EXCEPT ![t] = p]
        /\ opened' = opened \cup {f} /\ disk' = disk \cup {f}
        /\ records' = IF thread[t].fresh /\ f[2] = "data"
                      THEN [records EXCEPT ![f[1]] = {}] ELSE records
        /\ doubled' = IF f \in opened THEN doubled \cup {f} ELSE doubled
        /\ raced' = IF f \in opened /\ f[2] = "data" THEN raced \cup {f[1]} ELSE raced
        /\ UNCHANGED <<known, pending, up, torn, catalog, ops, kept, dropped, overlap, undone>>
    BY <1>0, <1>4, <2>0, <2>1 DEF Create, Stands, bounds
  <2>4. /\ Stands' /\ thread'[t] = p /\ \A u \in Thread \ {t} : thread'[u] = thread[u]
        /\ "net" \in Thread /\ "mon" \in Thread /\ t \in {"net", "mon"}
    BY <1>0, <1>1, <2>2, <2>3, Moved, Renamed DEF Opening
  <2>5. Types'
    <3>1. \A u \in Thread : thread'[u].pc = "create" => thread'[u].job.sp[1] \in known'
      BY <1>0, <2>2, <2>3, <2>4 DEF Types
    <3>2. QED BY <1>0, <2>3, <3>1 DEF Types
  <2>6. TypeOK'
    <3>1. opened' \subseteq File /\ catalog' \subseteq File /\ disk' \subseteq File
          /\ doubled' \subseteq File /\ known' \subseteq Db
      BY <1>0, <2>3 DEF TypeOK
    <3>2. records' \in [Space -> SUBSET (1..MaxOps)]
      BY <1>0, <2>3 DEF TypeOK
    <3>3. f[1][1] \in known
      BY <1>0, <1>1, <2>0 DEF Types, SpaceOf
    <3>4. {g[1][1] : g \in opened'} \subseteq known'
      BY <1>0, <2>3, <3>3 DEF TypeOK
    <3>5. QED BY <1>1, <2>3, <2>4, <3>1, <3>2, <3>4, TypesAfter
  <2>7. \A s \in Space : Erases(s)' <=> Erases(s)
    BY <1>1, <2>2, <2>4 DEF Erases
  <2>8. \A u \in Thread : SpaceOf(u)' = SpaceOf(u)
    BY <2>2, <2>4 DEF SpaceOf
  <2>9. \A u \in Thread : HasData(u, thread'[u]) =>
          HasData(u, thread[u]) \/ (u = t /\ f = <<SpaceOf(u), "data">>)
    <3>1. HasData(t, p) => HasData(t, thread[t]) \/ p.todo[1] = "data"
      BY <2>2 DEF HasData
    <3>2. QED BY <1>2, <2>0, <2>2, <2>4, <3>1
  <2>10. FilesThere'
    <3>1. \A g \in opened' : g \in disk' \/ Erases(g[1])'
      BY <1>0, <2>3, <2>7, FileNames DEF FilesThere, TypeOK
    <3>2. HasData("mon", thread'["mon"]) => <<SpaceOf("mon")', "data">> \in opened'
      BY <1>0, <2>3, <2>4, <2>8, <2>9 DEF FilesThere
    <3>3. HasData("net", thread'["net"]) /\ ~overlap' => <<SpaceOf("net")', "data">> \in disk'
      BY <1>0, <2>3, <2>4, <2>8, <2>9 DEF FilesThere
    <3>4. thread'["net"].pc # "idle" /\ Erases(SpaceOf("net"))' => overlap'
      <4>1. thread'["net"].pc # "idle" => thread["net"].pc # "idle"
        BY <1>1, <2>4
      <4>2. Erases(SpaceOf("net"))' => Erases(SpaceOf("net"))
        BY <1>1, <2>2, <2>4, <2>8 DEF Erases
      <4>3. QED BY <1>0, <2>3, <4>1, <4>2 DEF FilesThere
    <3>5. QED BY <3>1, <3>2, <3>3, <3>4 DEF FilesThere
  <2>11. NothingToLose'
    <3>1. ASSUME NEW s \in Space, <<s, "data">> \in doubled' PROVE s \in raced'
      <4>1. CASE <<s, "data">> \in doubled
        BY <1>0, <2>3, <4>1 DEF NothingToLose
      <4>2. CASE <<s, "data">> = f /\ f \in opened
        <5>1. f[1] = s /\ f[2] = "data"
          BY <4>2
        <5>2. QED BY <2>3, <4>2, <5>1
      <4>3. QED BY <2>3, <3>1, <4>1, <4>2
    <3>2. ASSUME NEW u \in Thread, thread'[u].pc = "create", thread'[u].fresh,
                 thread'[u].todo[1] = "data"
          PROVE  <<SpaceOf(u)', "data">> \in opened' \/ kept'[SpaceOf(u)'] = {}
      BY <1>0, <2>2, <2>3, <2>4, <2>8, <3>2 DEF NothingToLose
    <3>3. QED BY <1>0, <2>3, <2>7, <3>1, <3>2 DEF NothingToLose
  <2>12. RecordsKept'
    <3>1. ASSUME NEW s \in Space \ raced'
          PROVE  kept[s] \subseteq records'[s] /\ (~undone => records'[s] = kept[s])
      <4>1. s \in Space \ raced /\ kept[s] \subseteq records[s] /\ (~undone => records[s] = kept[s])
        BY <1>0, <2>3, <3>1 DEF RecordsKept
      <4>2. CASE records'[s] = records[s]
        BY <4>1, <4>2
      <4>3. CASE records'[s] # records[s]
        <5>1. thread[t].fresh /\ f[2] = "data" /\ s = f[1] /\ records'[s] = {}
          BY <1>0, <2>3, <4>3 DEF TypeOK
        <5>2. f \notin opened
          BY <2>3, <5>1
        <5>3. kept[s] = {}
          <6>1. thread[t].todo[1] = "data" /\ f = <<SpaceOf(t), "data">> /\ s = SpaceOf(t)
            BY <1>2, <2>0, <5>1
          <6>2. f \in opened \/ kept[SpaceOf(t)] = {}
            BY <1>0, <1>1, <5>1, <6>1 DEF NothingToLose
          <6>3. QED BY <5>2, <6>1, <6>2
        <5>4. QED BY <5>1, <5>3
      <4>4. QED BY <4>2, <4>3
    <3>2. QED BY <2>3, <3>1 DEF RecordsKept
  <2>13. Saved'
    <3>1. \A u \in Thread : thread'[u].pc = "close" =>
            thread[u].pc = "close" /\ thread'[u].snap = thread[u].snap
      BY <2>2, <2>4
    <3>2. \E u \in Thread : thread'[u].pc = "save"
      BY <2>2, <2>4
    <3>3. QED BY <1>0, <1>1, <2>3, <3>1, <3>2 DEF Saved
  <2>14. DocumentsListed'
    BY <1>0, <2>3 DEF DocumentsListed
  <2>15. QED BY <2>4, <2>5, <2>6, <2>10, <2>11, <2>12, <2>13, <2>14 DEF StreamInv
<1>5. QED BY <1>3, <1>4

(* Steps of saveDatabases, which touch djondb.dat only.                    *)
LEMMA CatalogStep ==
  ASSUME StreamInv, up, NEW t \in Thread, NEW p \in Place,
         thread[t].pc \in {"save", "close"},
         thread' = [thread EXCEPT ![t] = p], p.job = thread[t].job,
         t = "net" => NetStands(p), t = "mon" => MonStands(p),
         p.pc \in {"close", "work", "lookup"},
         HasData(t, p) => HasData(t, thread[t]),
         UNCHANGED <<opened, known, disk, records, doubled, pending, up, ops, kept, dropped,
                     overlap, undone, raced>>,
         torn => torn', catalog' \subseteq File,
         Saved'
  PROVE  StreamInv'
<1>0. TypeOK /\ Stands /\ Types /\ FilesThere /\ NothingToLose /\ RecordsKept /\ DocumentsListed
  BY DEF StreamInv
<1>1. /\ Stands' /\ thread'[t] = p /\ \A u \in Thread \ {t} : thread'[u] = thread[u]
      /\ "net" \in Thread /\ "mon" \in Thread /\ t \in {"net", "mon"}
  BY <1>0, Moved
<1>2. Types'
  <2>1. \A u \in Thread : thread'[u].pc = "create" => thread'[u].job.sp[1] \in known'
    BY <1>0, <1>1 DEF Types
  <2>2. QED BY <1>0, <2>1 DEF Types
<1>3. TypeOK'
  <2>1. opened' \subseteq File /\ disk' \subseteq File
        /\ doubled' \subseteq File /\ records' \in [Space -> SUBSET (1..MaxOps)]
        /\ {f[1][1] : f \in opened'} \subseteq known' /\ known' \subseteq Db
    BY <1>0 DEF TypeOK
  <2>2. QED BY <1>1, <2>1, TypesAfter
<1>4. \A s \in Space : Erases(s)' <=> Erases(s)
  BY <1>1 DEF Erases
<1>5. \A u \in Thread : SpaceOf(u)' = SpaceOf(u)
  BY <1>1 DEF SpaceOf
<1>6. FilesThere'
  <2>1. \A g \in opened' : g \in disk' \/ Erases(g[1])'
    BY <1>0, <1>4, FileNames DEF FilesThere, TypeOK
  <2>2. HasData("mon", thread'["mon"]) => <<SpaceOf("mon")', "data">> \in opened'
    BY <1>0, <1>1, <1>5 DEF FilesThere
  <2>3. HasData("net", thread'["net"]) /\ ~overlap' => <<SpaceOf("net")', "data">> \in disk'
    BY <1>0, <1>1, <1>5 DEF FilesThere
  <2>4. thread'["net"].pc # "idle" /\ Erases(SpaceOf("net"))' => overlap'
    <3>1. thread'["net"].pc # "idle" => thread["net"].pc # "idle"
      BY <1>1
    <3>2. Erases(SpaceOf("net"))' => Erases(SpaceOf("net"))
      BY <1>1, <1>5 DEF Erases
    <3>3. QED BY <1>0, <3>1, <3>2 DEF FilesThere
  <2>5. QED BY <2>1, <2>2, <2>3, <2>4 DEF FilesThere
<1>7. NothingToLose'
  <2>1. ASSUME NEW u \in Thread, thread'[u].pc = "create", thread'[u].fresh,
               thread'[u].todo[1] = "data"
        PROVE  <<SpaceOf(u)', "data">> \in opened' \/ kept'[SpaceOf(u)'] = {}
    BY <1>0, <1>1, <1>5, <2>1 DEF NothingToLose
  <2>2. QED BY <1>0, <1>4, <2>1 DEF NothingToLose
<1>8. RecordsKept' /\ DocumentsListed'
  BY <1>0 DEF RecordsKept, DocumentsListed
<1>9. QED BY <1>1, <1>2, <1>3, <1>6, <1>7, <1>8 DEF StreamInv

(* djondb.dat is emptied, and what is to be written is what is open.       *)
LEMMA SaveStep ==
  ASSUME StreamInv, NEW t \in Thread, Save(t)
  PROVE  StreamInv'
<1>0. TypeOK /\ Stands /\ Saved
  BY DEF StreamInv
<1>1. up /\ thread[t].pc = "save" /\ thread[t].pc \in Opening
  BY DEF Save, Opening
<1>2. thread[t] \in Place
  BY <1>0 DEF Stands
<1>3. PICK p : p = [thread[t] EXCEPT !.pc = "close", !.snap = opened]
  OBVIOUS
<1>4. /\ p \in Place /\ p.pc = "close" /\ p.job = thread[t].job /\ p.todo = thread[t].todo
      /\ p.snap = opened
  <2>1. opened \in SUBSET File
    BY <1>0 DEF TypeOK
  <2>2. QED BY <1>2, <1>3, <2>1 DEF Place, Opening
<1>5. /\ thread' = [thread EXCEPT ![t] = p] /\ catalog' = {}
      /\ UNCHANGED <<opened, known, disk, records, doubled, pending, up, ops, kept, dropped,
                     overlap, undone, raced, torn>>
  BY <1>0, <1>3 DEF Save, Stands, bounds, hist
<1>6. (t = "net" => NetStands(p)) /\ (t = "mon" => MonStands(p))
  BY <1>0, <1>1, <1>4, Renamed DEF Opening
<1>7. HasData(t, p) => HasData(t, thread[t])
  BY <1>1, <1>4 DEF HasData
<1>8. thread'[t] = p /\ \A u \in Thread \ {t} : thread'[u] = thread[u]
  BY <1>0, <1>4, <1>5, <1>6, Moved
<1>9. Saved'
  <2>1. \A u \in Thread : thread'[u].pc = "close" =>
          \/ thread[u].pc = "close" /\ thread'[u].snap = thread[u].snap
          \/ thread'[u].snap = opened
    BY <1>4, <1>8
  <2>2. thread'[t].pc = "close" /\ opened \subseteq Named(thread'[t].snap)
    BY <1>4, <1>8 DEF Named
  <2>3. QED BY <1>0, <1>1, <1>5, <2>1, <2>2 DEF Saved
<1>10. QED BY <1>1, <1>4, <1>5, <1>6, <1>7, <1>9, CatalogStep

(* djondb.dat is closed.                                                   *)
LEMMA CloseStep ==
  ASSUME StreamInv, NEW t \in Thread, Close(t)
  PROVE  StreamInv'
<1>0. TypeOK /\ Stands /\ Saved
  BY DEF StreamInv
<1>1. up /\ thread[t].pc = "close" /\ thread[t].pc \in Opening
  BY DEF Close, Opening
<1>2. thread[t] \in Place
  BY <1>0 DEF Stands
<1>3. PICK p \in Place : p = After(thread[t])
  BY <1>0, <1>1, Onward
<1>4. /\ thread' = [thread EXCEPT ![t] = p] /\ p.job = thread[t].job
      /\ p.pc \in {"work", "lookup"}
      /\ t = "net" => NetStands(p)
      /\ t = "mon" => MonStands(p)
      /\ HasData(t, p) => thread[t].todo[1] = "data" \/ HasData(t, thread[t])
  BY <1>0, <1>1, <1>3, Onward DEF Close
<1>5. HasData(t, p) => HasData(t, thread[t])
  BY <1>1, <1>4 DEF HasData
<1>6. /\ catalog' \in IF catalog \subseteq thread[t].snap THEN {thread[t].snap}
                      ELSE SUBSET (catalog \cup thread[t].snap)
      /\ torn' = (torn \/ ~(catalog \subseteq thread[t].snap))
      /\ UNCHANGED <<opened, known, disk, records, doubled, pending, up, ops, kept, dropped,
                     overlap, undone, raced>>
  BY DEF Close, bounds
<1>7. catalog' \subseteq File
  <2>1. thread[t].snap \subseteq File /\ catalog \subseteq File
    BY <1>0, <1>2 DEF TypeOK
  <2>2. QED BY <1>6, <2>1
<1>8. thread'[t] = p /\ \A u \in Thread \ {t} : thread'[u] = thread[u]
  BY <1>0, <1>4, Moved
<1>9. Saved'
  <2> SUFFICES ASSUME ~torn' PROVE Saved'
    BY <1>1, <1>6 DEF Saved
  <2>1. ~torn /\ catalog \subseteq thread[t].snap /\ catalog' = thread[t].snap
    BY <1>6
  <2>2. \A f \in catalog' \ opened' : f[1] \in dropped'
    BY <1>0, <1>1, <1>6, <2>1 DEF Saved
  <2>3. \A u \in Thread : thread'[u].pc = "close" =>
          \A f \in thread'[u].snap \ opened' : f[1] \in dropped'
    BY <1>0, <1>1, <1>4, <1>6, <1>8, <2>1 DEF Saved
  <2>4. \/ \E u \in Thread : thread'[u].pc = "save"
        \/ opened' \subseteq Named(catalog)'
        \/ \E u \in Thread : thread'[u].pc = "close" /\ opened' \subseteq Named(thread'[u].snap)
    <3>1. CASE \E u \in Thread : thread[u].pc = "save"
      BY <1>1, <1>8, <3>1
    <3>2. CASE opened \subseteq Named(catalog)
      BY <1>6, <2>1, <3>2 DEF Named
    <3>3. ASSUME NEW u \in Thread, thread[u].pc = "close", opened \subseteq Named(thread[u].snap)
          PROVE  \/ opened' \subseteq Named(catalog)'
                 \/ thread'[u].pc = "close" /\ opened' \subseteq Named(thread'[u].snap)
      <4>1. CASE u = t
        BY <1>6, <2>1, <3>3, <4>1 DEF Named
      <4>2. CASE u # t
        BY <1>6, <1>8, <3>3, <4>2
      <4>3. QED BY <4>1, <4>2
    <3>4. QED BY <1>0, <1>1, <2>1, <3>1, <3>2, <3>3 DEF Saved
  <2>5. QED BY <1>1, <1>6, <2>2, <2>3, <2>4 DEF Saved
<1>10. QED BY <1>1, <1>4, <1>5, <1>6, <1>7, <1>9, CatalogStep

(* The monitor at work on an operation of the log.                         *)
LEMMA AtWork ==
  ASSUME StreamInv, thread["mon"].pc \in {"work", "erase"}
  PROVE  /\ SpaceOf("mon") \in Space /\ thread["mon"].job.n \in 1..MaxOps
         /\ thread["mon"] \in Place /\ thread["mon"].job \in Op /\ thread["mon"].todo = <<>>
<1>1. Stands /\ thread["mon"] # Idle /\ thread["mon"] \in Place
  BY DEF StreamInv, Stands, Idle, Thread
<1>2. thread["mon"].job \in Op /\ thread["mon"].todo = <<>>
  BY <1>1 DEF Stands, MonStands, Opening
<1>3. QED BY <1>1, <1>2 DEF Op, SpaceOf

(* insert writes to the data file, which is there.                         *)
LEMMA InsertStep ==
  ASSUME StreamInv, ApplyInsert
  PROVE  StreamInv'
<1>0. TypeOK /\ Stands /\ Types /\ FilesThere /\ NothingToLose /\ RecordsKept /\ Saved
      /\ DocumentsListed
  BY DEF StreamInv
<1>1. up /\ thread["mon"].pc = "work"
  BY DEF ApplyInsert, At
<1>2. PICK s \in Space, n \in 1..MaxOps : s = SpaceOf("mon") /\ n = thread["mon"].job.n
  BY <1>1, AtWork
<1>3. PICK old \in IF <<s, "data">> \in doubled THEN SUBSET records[s] ELSE {records[s]} :
        records' = [records EXCEPT ![s] = old \cup {n}]
  BY <1>2 DEF ApplyInsert
<1>4. /\ kept' = [kept EXCEPT ![s] = kept[s] \cup {n}]
      /\ thread' = [thread EXCEPT !["mon"] = Idle]
      /\ UNCHANGED <<opened, known, catalog, disk, doubled, pending, up, ops, dropped, overlap,
                     torn, undone, raced>>
  BY <1>2 DEF ApplyInsert, Finish, bounds
<1>5. Idle \in Place /\ Idle.pc = "idle" /\ Idle.todo = <<>> /\ <<>> # <<"index">>
  <2>1. <<>> \in ToOpen
    BY DEF ToOpen
  <2>2. QED BY <2>1 DEF Idle, Place
<1>6. /\ Stands' /\ thread'["mon"] = Idle /\ thread'["net"] = thread["net"]
      /\ "net" \in Thread /\ "mon" \in Thread
  BY <1>0, <1>4, <1>5, Moved DEF MonStands, Thread
<1>7. <<s, "data">> \in opened /\ <<s, "data">> \in disk
  <2>1. <<s, "data">> \in opened /\ <<s, "data">>[1] = s
    BY <1>0, <1>1, <1>2 DEF FilesThere, HasData
  <2>2. QED BY <1>0, <1>1, <2>1 DEF FilesThere, Erases
<1>8. Types'
  <2>1. kept' \in [Space -> SUBSET (1..MaxOps)]
    BY <1>0, <1>4 DEF Types
  <2>2. \A u \in Thread : thread'[u].pc = "create" => thread'[u].job.sp[1] \in known'
    BY <1>0, <1>4, <1>5, <1>6 DEF Types, Thread
  <2>3. QED BY <1>0, <1>4, <2>1, <2>2 DEF Types
<1>9. TypeOK'
  <2>1. old \subseteq records[s] /\ records[s] \subseteq 1..MaxOps
    BY <1>0, <1>3 DEF TypeOK
  <2>2. records' \in [Space -> SUBSET (1..MaxOps)]
    BY <1>0, <1>3, <2>1 DEF TypeOK
  <2>3. opened' \subseteq File /\ catalog' \subseteq File /\ disk' \subseteq File
        /\ doubled' \subseteq File /\ known' \subseteq Db
        /\ {f[1][1] : f \in opened'} \subseteq known'
    BY <1>0, <1>4 DEF TypeOK
  <2>4. QED BY <1>1, <1>4, <1>6, <2>2, <2>3, TypesAfter
<1>10. \A r \in Space : ~Erases(r) /\ ~Erases(r)'
  BY <1>1, <1>5, <1>6 DEF Erases
<1>11. FilesThere'
  <2>1. \A f \in opened' : f \in disk'
    BY <1>0, <1>1, <1>4 DEF FilesThere, Erases
  <2>2. ~HasData("mon", thread'["mon"])
    BY <1>5, <1>6 DEF HasData
  <2>3. HasData("net", thread'["net"]) /\ ~overlap' => <<SpaceOf("net")', "data">> \in disk'
    BY <1>0, <1>4, <1>6 DEF FilesThere, SpaceOf
  <2>4. ~Erases(SpaceOf("net"))'
    BY <1>5, <1>6 DEF Erases
  <2>5. QED BY <2>1, <2>2, <2>3, <2>4 DEF FilesThere
<1>12. \A r \in Space : r # s => kept'[r] = kept[r] /\ records'[r] = records[r]
  BY <1>0, <1>3, <1>4 DEF TypeOK, Types
<1>13. kept'[s] = kept[s] \cup {n} /\ records'[s] = old \cup {n}
  BY <1>0, <1>3, <1>4 DEF TypeOK, Types
<1>14. NothingToLose'
  <2>1. \A r \in Space : kept'[r] # {} => <<r, "data">> \in disk'
    BY <1>0, <1>4, <1>7, <1>12 DEF NothingToLose
  <2>2. ASSUME NEW u \in Thread, thread'[u].pc = "create", thread'[u].fresh,
               thread'[u].todo[1] = "data"
        PROVE  <<SpaceOf(u)', "data">> \in opened' \/ kept'[SpaceOf(u)'] = {}
    <3>1. u = "net" /\ thread'[u] = thread[u] /\ SpaceOf(u)' = SpaceOf(u)
      BY <1>5, <1>6, <2>2 DEF Thread, SpaceOf
    <3>2. SpaceOf(u) \in Space
      BY <1>0, <1>6, <2>2, <3>1, AtStream DEF Opening
    <3>3. <<SpaceOf(u), "data">> \in opened \/ kept[SpaceOf(u)] = {}
      BY <1>0, <2>2, <3>1 DEF NothingToLose
    <3>4. QED BY <1>4, <1>7, <1>12, <3>1, <3>2, <3>3
  <2>3. QED BY <1>0, <1>4, <1>10, <2>1, <2>2 DEF NothingToLose
<1>15. RecordsKept'
  <2>1. ASSUME NEW r \in Space \ raced
        PROVE  kept'[r] \subseteq records'[r] /\ (~undone => records'[r] = kept'[r])
    <3>1. kept[r] \subseteq records[r] /\ (~undone => records[r] = kept[r])
      BY <1>0 DEF RecordsKept
    <3>2. CASE r # s
      BY <1>12, <3>1, <3>2
    <3>3. CASE r = s
      <4>1. old = records[s]
        BY <1>0, <1>3, <3>3 DEF NothingToLose
      <4>2. QED BY <1>13, <3>1, <3>3, <4>1
    <3>4. QED BY <3>2, <3>3
  <2>2. QED BY <1>4, <2>1 DEF RecordsKept
<1>16. DocumentsListed'
  BY <1>0, <1>4, <1>7, <1>12 DEF DocumentsListed
<1>17. Saved'
  <2>1. \A u \in Thread : /\ thread'[u].pc = "save" <=> thread[u].pc = "save"
                          /\ thread'[u].pc = "close" <=> thread[u].pc = "close"
                          /\ thread[u].pc = "close" => thread'[u].snap = thread[u].snap
    BY <1>1, <1>5, <1>6 DEF Thread
  <2>2. QED BY <1>0, <1>1, <1>4, <2>1 DEF Saved
<1>18. QED BY <1>6, <1>8, <1>9, <1>11, <1>14, <1>15, <1>16, <1>17 DEF StreamInv

(* dropNamespace removes the files ...                                     *)
LEMMA DropFilesStep ==
  ASSUME StreamInv, DropFiles
  PROVE  StreamInv'
<1>0. TypeOK /\ Stands /\ Types /\ FilesThere /\ NothingToLose /\ RecordsKept /\ Saved
      /\ DocumentsListed
  BY DEF StreamInv
<1>1. up /\ thread["mon"].pc = "work"
  BY DEF DropFiles, At
<1>2. /\ thread["mon"] \in Place /\ thread["mon"].job \in Op /\ thread["mon"].todo = <<>>
      /\ SpaceOf("mon") \in Space
  BY <1>1, AtWork
<1>3. PICK s \in Space : s = SpaceOf("mon")
  BY <1>2
<1>4. PICK gone \in {{"data", "index"}, {"data"}, {}} :
        /\ undone' = (undone \/ gone # Type)
        /\ disk' = disk \ ({s} \X gone)
        /\ records' = IF "data" \in gone THEN [records EXCEPT ![s] = {}] ELSE records
        /\ kept' = [kept EXCEPT ![s] = {}]
        /\ overlap' = (overlap \/ SpaceOf("net") = s)
  BY <1>3 DEF DropFiles
<1>5. PICK p : p = [thread["mon"] EXCEPT !.pc = "erase"]
  OBVIOUS
<1>6. p \in Place /\ p.pc = "erase" /\ p.job = thread["mon"].job /\ p.todo = <<>>
  BY <1>2, <1>5 DEF Place
<1>7. /\ thread' = [thread EXCEPT !["mon"] = p]
      /\ UNCHANGED <<opened, known, catalog, doubled, pending, up, ops, dropped, torn, raced>>
  BY <1>0, <1>5 DEF DropFiles, Stands
<1>8. /\ Stands' /\ thread'["mon"] = p /\ thread'["net"] = thread["net"]
      /\ "net" \in Thread /\ "mon" \in Thread
  BY <1>0, <1>2, <1>6, <1>7, Moved DEF MonStands, Thread
<1>9. Types'
  <2>1. kept' \in [Space -> SUBSET (1..MaxOps)]
    BY <1>0, <1>4 DEF Types
  <2>2. \A u \in Thread : thread'[u].pc = "create" => thread'[u].job.sp[1] \in known'
    BY <1>0, <1>6, <1>7, <1>8 DEF Types, Thread
  <2>3. QED BY <1>0, <1>7, <2>1, <2>2 DEF Types
<1>10. TypeOK'
  <2>1. records' \in [Space -> SUBSET (1..MaxOps)]
    BY <1>0, <1>4 DEF TypeOK
  <2>2. opened' \subseteq File /\ catalog' \subseteq File /\ disk' \subseteq File
        /\ doubled' \subseteq File /\ known' \subseteq Db
        /\ {f[1][1] : f \in opened'} \subseteq known'
    BY <1>0, <1>4, <1>7 DEF TypeOK
  <2>3. QED BY <1>1, <1>7, <1>8, <2>1, <2>2, TypesAfter
<1>11. \A r : Erases(r)' <=> r = s
  BY <1>3, <1>6, <1>8 DEF Erases, SpaceOf
<1>12. \A r \in Space : r # s =>
         /\ kept'[r] = kept[r] /\ records'[r] = records[r]
         /\ <<r, "data">> \in disk => <<r, "data">> \in disk'
  BY <1>0, <1>4 DEF TypeOK, Types
<1>13. kept'[s] = {}
  BY <1>0, <1>4 DEF Types
<1>14. FilesThere'
  <2>1. ASSUME NEW f \in opened' PROVE f \in disk' \/ Erases(f[1])'
    <3>1. f \in disk
      BY <1>0, <1>1, <1>7 DEF FilesThere, Erases
    <3>2. CASE f[1] = s
      BY <1>3, <1>6, <1>8, <3>2 DEF Erases, SpaceOf
    <3>3. CASE f[1] # s
      BY <1>4, <3>1, <3>3
    <3>4. QED BY <3>2, <3>3
  <2>2. ~HasData("mon", thread'["mon"])
    <3>1. <<>> # <<"index">>
      OBVIOUS
    <3>2. QED BY <1>6, <1>8, <3>1 DEF HasData
  <2>3. HasData("net", thread'["net"]) /\ ~overlap' => <<SpaceOf("net")', "data">> \in disk'
    <3>1. SpaceOf("net")' = SpaceOf("net")
      BY <1>8 DEF SpaceOf
    <3>2. HasData("net", thread["net"]) /\ ~overlap' =>
            <<SpaceOf("net"), "data">> \in disk /\ SpaceOf("net") # s
      BY <1>0, <1>4 DEF FilesThere
    <3>3. QED BY <1>4, <1>8, <3>1, <3>2
  <2>4. Erases(SpaceOf("net"))' => overlap'
    BY <1>3, <1>4, <1>6, <1>8 DEF Erases, SpaceOf
  <2>5. QED BY <2>1, <2>2, <2>3, <2>4 DEF FilesThere
<1>15. NothingToLose'
  <2>1. \A r \in Space : kept'[r] # {} => <<r, "data">> \in disk'
    BY <1>0, <1>12, <1>13 DEF NothingToLose
  <2>2. ASSUME NEW u \in Thread, thread'[u].pc = "create", thread'[u].fresh,
               thread'[u].todo[1] = "data"
        PROVE  <<SpaceOf(u)', "data">> \in opened' \/ kept'[SpaceOf(u)'] = {}
    <3>1. u = "net" /\ thread'[u] = thread[u] /\ SpaceOf(u)' = SpaceOf(u)
      BY <1>6, <1>8, <2>2 DEF Thread, SpaceOf
    <3>2. SpaceOf(u) \in Space
      BY <1>0, <1>8, <2>2, <3>1, AtStream DEF Opening
    <3>3. <<SpaceOf(u), "data">> \in opened \/ kept[SpaceOf(u)] = {}
      BY <1>0, <2>2, <3>1 DEF NothingToLose
    <3>4. QED BY <1>7, <1>12, <1>13, <3>1, <3>2, <3>3
  <2>3. QED BY <1>0, <1>7, <1>11, <1>13, <2>1, <2>2 DEF NothingToLose
<1>16. RecordsKept'
  <2>1. ASSUME NEW r \in Space \ raced
        PROVE  kept'[r] \subseteq records'[r] /\ (~undone' => records'[r] = kept'[r])
    <3>1. kept[r] \subseteq records[r] /\ (~undone => records[r] = kept[r])
      BY <1>0 DEF RecordsKept
    <3>2. CASE r # s
      BY <1>4, <1>12, <3>1, <3>2
    <3>3. CASE r = s
      <4>1. ~undone' => "data" \in gone
        BY <1>4 DEF Type
      <4>2. "data" \in gone => records'[s] = {}
        BY <1>0, <1>4 DEF TypeOK
      <4>3. QED BY <1>13, <3>3, <4>1, <4>2
    <3>4. QED BY <3>2, <3>3
  <2>2. QED BY <1>7, <2>1 DEF RecordsKept
<1>17. DocumentsListed'
  BY <1>0, <1>7, <1>12, <1>13 DEF DocumentsListed
<1>18. Saved'
  <2>1. \A u \in Thread : /\ thread'[u].pc = "save" <=> thread[u].pc = "save"
                          /\ thread'[u].pc = "close" <=> thread[u].pc = "close"
                          /\ thread[u].pc = "close" => thread'[u].snap = thread[u].snap
    BY <1>1, <1>6, <1>8 DEF Thread
  <2>2. QED BY <1>0, <1>1, <1>7, <2>1 DEF Saved
<1>19. QED BY <1>8, <1>9, <1>10, <1>14, <1>15, <1>16, <1>17, <1>18 DEF StreamInv

(* ... and then erases the namespace from _spaces.                         *)
LEMMA DropEraseStep ==
  ASSUME StreamInv, DropErase
  PROVE  StreamInv'
<1>0. TypeOK /\ Stands /\ Types /\ FilesThere /\ NothingToLose /\ RecordsKept /\ Saved
      /\ DocumentsListed
  BY DEF StreamInv
<1>1. up /\ thread["mon"].pc = "erase"
  BY DEF DropErase
<1>2. PICK s \in Space : s = SpaceOf("mon")
  BY <1>1, AtWork
<1>3. /\ opened' = {f \in opened : f[1] # s} /\ doubled' = {f \in doubled : f[1] # s}
      /\ dropped' = dropped \cup {s} /\ thread' = [thread EXCEPT !["mon"] = Idle]
      /\ UNCHANGED <<known, catalog, disk, records, pending, up, ops, kept, overlap, torn,
                     undone, raced>>
  BY <1>2 DEF DropErase, Finish, bounds
<1>4. Idle \in Place /\ Idle.pc = "idle" /\ Idle.todo = <<>> /\ <<>> # <<"index">>
  <2>1. <<>> \in ToOpen
    BY DEF ToOpen
  <2>2. QED BY <2>1 DEF Idle, Place
<1>5. /\ Stands' /\ thread'["mon"] = Idle /\ thread'["net"] = thread["net"]
      /\ "net" \in Thread /\ "mon" \in Thread
  BY <1>0, <1>3, <1>4, Moved DEF MonStands, Thread
<1>6. Erases(s) /\ kept[s] = {}
  <2>1. Erases(s)
    BY <1>1, <1>2 DEF Erases, SpaceOf
  <2>2. QED BY <1>0, <2>1 DEF NothingToLose
<1>7. Types'
  <2>1. \A u \in Thread : thread'[u].pc = "create" => thread'[u].job.sp[1] \in known'
    BY <1>0, <1>3, <1>4, <1>5 DEF Types, Thread
  <2>2. QED BY <1>0, <1>3, <2>1 DEF Types
<1>8. TypeOK'
  <2>1. opened' \subseteq File /\ catalog' \subseteq File /\ disk' \subseteq File
        /\ doubled' \subseteq File /\ known' \subseteq Db
        /\ {f[1][1] : f \in opened'} \subseteq known'
        /\ records' \in [Space -> SUBSET (1..MaxOps)]
    BY <1>0, <1>3 DEF TypeOK
  <2>2. QED BY <1>1, <1>3, <1>5, <2>1, TypesAfter
<1>9. \A r : ~Erases(r)'
  BY <1>4, <1>5 DEF Erases
<1>10. FilesThere'
  <2>1. ASSUME NEW f \in opened' PROVE f \in disk'
    <3>1. f \in opened /\ f[1] # s
      BY <1>3
    <3>2. ~Erases(f[1])
      BY <1>2, <3>1 DEF Erases, SpaceOf
    <3>3. QED BY <1>0, <1>3, <3>1, <3>2 DEF FilesThere
  <2>2. ~HasData("mon", thread'["mon"])
    BY <1>4, <1>5 DEF HasData
  <2>3. HasData("net", thread'["net"]) /\ ~overlap' => <<SpaceOf("net")', "data">> \in disk'
    BY <1>0, <1>3, <1>5 DEF FilesThere, SpaceOf
  <2>4. ~Erases(SpaceOf("net"))'
    BY <1>4, <1>5 DEF Erases
  <2>5. QED BY <2>1, <2>2, <2>3, <2>4 DEF FilesThere
<1>11. \A r \in Space : r # s /\ <<r, "data">> \in opened => <<r, "data">> \in opened'
  BY <1>3
<1>12. NothingToLose'
  <2>1. ASSUME NEW u \in Thread, thread'[u].pc = "create", thread'[u].fresh,
               thread'[u].todo[1] = "data"
        PROVE  <<SpaceOf(u)', "data">> \in opened' \/ kept'[SpaceOf(u)'] = {}
    <3>1. u = "net" /\ thread'[u] = thread[u] /\ SpaceOf(u)' = SpaceOf(u)
      BY <1>4, <1>5, <2>1 DEF Thread, SpaceOf
    <3>2. SpaceOf(u) \in Space
      BY <1>0, <1>5, <2>1, <3>1, AtStream DEF Opening
    <3>3. <<SpaceOf(u), "data">> \in opened \/ kept[SpaceOf(u)] = {}
      BY <1>0, <2>1, <3>1 DEF NothingToLose
    <3>4. QED BY <1>3, <1>6, <1>11, <3>1, <3>2, <3>3
  <2>2. QED BY <1>0, <1>3, <1>9, <2>1 DEF NothingToLose
<1>13. RecordsKept'
  BY <1>0, <1>3 DEF RecordsKept
<1>14. DocumentsListed'
  BY <1>0, <1>3, <1>6, <1>11 DEF DocumentsListed
<1>15. Saved'
  <2>1. \A u \in Thread : /\ thread'[u].pc = "save" <=> thread[u].pc = "save"
                          /\ thread'[u].pc = "close" <=> thread[u].pc = "close"
                          /\ thread[u].pc = "close" => thread'[u].snap = thread[u].snap
    BY <1>1, <1>4, <1>5 DEF Thread
  <2>2. \A f : f \notin opened' => f \notin opened \/ f[1] \in dropped'
    BY <1>3
  <2>3. dropped \subseteq dropped' /\ opened' \subseteq opened
    BY <1>3
  <2> SUFFICES ASSUME ~torn PROVE Saved'
    BY <1>1, <1>3 DEF Saved
  <2>4. \A f \in catalog' \ opened' : f[1] \in dropped'
    BY <1>0, <1>1, <1>3, <2>2, <2>3 DEF Saved
  <2>5. \A u \in Thread : thread'[u].pc = "close" =>
          \A f \in thread'[u].snap \ opened' : f[1] \in dropped'
    BY <1>0, <1>1, <2>1, <2>2, <2>3 DEF Saved
  <2>6. \/ \E u \in Thread : thread'[u].pc = "save"
        \/ opened' \subseteq Named(catalog)'
        \/ \E u \in Thread : thread'[u].pc = "close" /\ opened' \subseteq Named(thread'[u].snap)
    <3>1. \/ \E u \in Thread : thread[u].pc = "save"
          \/ opened \subseteq Named(catalog)
          \/ \E u \in Thread : thread[u].pc = "close" /\ opened \subseteq Named(thread[u].snap)
      BY <1>0, <1>1 DEF Saved
    <3>2. Named(catalog)' = Named(catalog)
      BY <1>3 DEF Named
    <3>3. QED BY <2>1, <2>3, <3>1, <3>2
  <2>7. QED BY <1>1, <1>3, <2>4, <2>5, <2>6 DEF Saved
<1>16. QED BY <1>5, <1>7, <1>8, <1>10, <1>12, <1>13, <1>14, <1>15 DEF StreamInv

(* initialize opens what djondb.dat names.                                 *)
LEMMA StartStep ==
  ASSUME StreamInv, Start
  PROVE  StreamInv'
<1>0. TypeOK /\ Stands /\ Types /\ FilesThere /\ NothingToLose /\ RecordsKept /\ Saved
  BY DEF StreamInv
<1>1. /\ ~up /\ up' = TRUE /\ opened' = Named(catalog) /\ known' = {f[1][1] : f \in catalog}
      /\ disk' = disk \cup opened' /\ dropped' = {}
      /\ UNCHANGED <<catalog, records, doubled, pending, thread, ops, kept, overlap, torn,
                     undone, raced>>
  BY DEF Start, Named, bounds
<1>2. \A t \in Thread : thread[t] = Idle
  BY <1>0, <1>1 DEF TypeOK
<1>3. Idle.pc = "idle" /\ Idle.todo = <<>> /\ <<>> # <<"index">>
      /\ "net" \in Thread /\ "mon" \in Thread
  BY DEF Idle, Thread
<1>4. Stands'
  BY <1>0, <1>1 DEF Stands
<1>5. Types'
  <2>1. \A t \in Thread : thread'[t].pc # "create"
    BY <1>1, <1>2, <1>3
  <2>2. QED BY <1>0, <1>1, <2>1 DEF Types
<1>6. opened' \subseteq File
  <2>1. \A f \in catalog : f \in File /\ <<f[1], "data">> \in File
    BY <1>0, FileNames DEF TypeOK, Type
  <2>2. QED BY <1>1, <2>1 DEF Named
<1>7. TypeOK'
  <2>1. known' \subseteq Db
    BY <1>0, <1>1, FileNames DEF TypeOK
  <2>2. \A g \in opened' : \E f \in catalog : g[1] = f[1]
    BY <1>1 DEF Named
  <2>3. {f[1][1] : f \in opened'} \subseteq known'
    BY <1>1, <2>2
  <2>4. catalog' \subseteq File /\ disk' \subseteq File /\ doubled' \subseteq File
        /\ records' \in [Space -> SUBSET (1..MaxOps)]
    BY <1>0, <1>1, <1>6 DEF TypeOK
  <2>5. QED BY <1>1, <1>4, <1>6, <2>1, <2>3, <2>4, TypesAfter
<1>8. \A r : ~Erases(r)'
  BY <1>1, <1>2, <1>3 DEF Erases
<1>9. FilesThere'
  <2>1. ~HasData("mon", thread'["mon"]) /\ ~HasData("net", thread'["net"])
        /\ thread'["net"].pc = "idle"
    BY <1>1, <1>2, <1>3 DEF HasData
  <2>2. QED BY <1>1, <2>1 DEF FilesThere
<1>10. NothingToLose'
  <2>1. \A t \in Thread : thread'[t].pc # "create"
    BY <1>1, <1>2, <1>3
  <2>2. QED BY <1>0, <1>1, <1>8, <2>1 DEF NothingToLose
<1>11. RecordsKept'
  BY <1>0, <1>1 DEF RecordsKept
<1>12. DocumentsListed'
  BY <1>0, <1>1 DEF DocumentsListed, Saved
<1>13. Saved'
  <2>1. \A t \in Thread : thread'[t].pc # "close"
    BY <1>1, <1>2, <1>3
  <2>2. catalog' \subseteq opened' /\ opened' \subseteq Named(catalog)'
    BY <1>1 DEF Named
  <2>3. QED BY <1>1, <2>1, <2>2 DEF Saved
<1>14. QED BY <1>4, <1>5, <1>7, <1>9, <1>10, <1>11, <1>12, <1>13 DEF StreamInv

(* The first start.                                                        *)
LEMMA InitStreams == Init => StreamInv
<1> SUFFICES ASSUME Init PROVE StreamInv OBVIOUS
<1>1. \A t \in Thread : thread[t] = Idle
  BY DEF Init
<1>2. Idle.pc = "idle" /\ Idle.todo = <<>> /\ <<>> # <<"index">> /\ Idle.job = NoJob
      /\ Idle.snap = {} /\ "net" \in Thread /\ "mon" \in Thread
  BY DEF Idle, Thread
<1>3. Stands
  <2>1. <<>> \in ToOpen
    BY DEF ToOpen
  <2>2. Idle \in Place
    BY <2>1 DEF Idle, Place
  <2>3. QED BY <2>2 DEF Init, Stands, NetStands, MonStands, Thread
<1>4. Types
  <2>1. \A t \in Thread : thread[t].pc # "create"
    BY <1>1, <1>2
  <2>2. pending \in Seq(Op) /\ 0 \in 0..MaxOps
    BY BoundsAssumption, EmptySeq DEF Init
  <2>3. QED BY <2>1, <2>2 DEF Init, Types
<1>5. TypeOK
  <2>1. \A t \in Thread : thread[t].pc = "idle" /\ thread[t].job = NoJob /\ thread[t].todo = <<>>
                          /\ thread[t].snap = {}
    BY <1>1, <1>2
  <2>2. QED BY <2>1 DEF Init, TypeOK
<1>6. \A r : ~Erases(r)
  BY <1>1, <1>2 DEF Erases
<1>7. FilesThere
  BY <1>1, <1>2 DEF Init, FilesThere, HasData
<1>8. NothingToLose
  <2>1. \A t \in Thread : thread[t].pc # "create"
    BY <1>1, <1>2
  <2>2. QED BY <1>6, <2>1 DEF Init, NothingToLose
<1>9. RecordsKept /\ DocumentsListed
  BY DEF Init, RecordsKept, DocumentsListed
<1>10. Saved
  BY <1>1, <1>2 DEF Init, Saved
<1>11. QED BY <1>3, <1>4, <1>5, <1>7, <1>8, <1>9, <1>10 DEF StreamInv

(* StreamInv is inductive.                                                 *)
LEMMA StepStreams == StreamInv /\ [Next]_vars => StreamInv'
<1> SUFFICES ASSUME StreamInv, [Next]_vars PROVE StreamInv' OBVIOUS
<1>1. CASE UNCHANGED vars
  <2>1. UNCHANGED <<opened, known, catalog, disk, records, doubled, thread, up, kept, dropped,
                    overlap, torn, undone, raced, pending, ops>>
    BY <1>1 DEF vars, store, bounds, hist
  <2>2. TypeOK' /\ Stands' /\ Types'
    BY <2>1 DEF StreamInv, TypeOK, Stands, Types
  <2>3. FilesThere' /\ NothingToLose' /\ RecordsKept'
    BY <2>1 DEF StreamInv, FilesThere, NothingToLose, RecordsKept, Erases, SpaceOf
  <2>4. Saved' /\ DocumentsListed'
    BY <2>1 DEF StreamInv, Saved, DocumentsListed
  <2>5. QED BY <2>2, <2>3, <2>4 DEF StreamInv
<1>2. ASSUME NEW s \in Space,
             Write("insert", s) \/ Write("change", s) \/ Write("drop", s) \/ Find(s)
      PROVE  StreamInv'
  BY <1>2, WriteStep, FindStep
<1>3. ASSUME NEW t \in Thread, Lookup(t) \/ Create(t) \/ Save(t) \/ Close(t)
      PROVE  StreamInv'
  BY <1>3, LookupStep, CreateStep, SaveStep, CloseStep
<1>4. CASE Scan
  <2>1. up /\ thread["net"].pc = "work" /\ "net" \in Thread
    BY <1>4 DEF Scan, At, Thread
  <2>2. CASE <<SpaceOf("net"), "data">> \in disk
    <3>1. Finish("net") /\ UNCHANGED <<store, pending, up, ops, hist>>
      BY <1>4, <2>2 DEF Scan, store, hist, bounds
    <3>2. QED BY <2>1, <3>1, FinishStep
  <2>3. CASE <<SpaceOf("net"), "data">> \notin disk
    <3>1. /\ Die /\ torn' = CutOff
          /\ UNCHANGED <<disk, records, kept, raced, undone, ops, catalog>>
      BY <1>4, <2>3 DEF Scan, bounds
    <3>2. QED BY <2>1, <3>1, EndStep
  <2>4. QED BY <2>2, <2>3
<1>5. CASE ApplyChange
  <2>1. up /\ thread["mon"].pc = "work" /\ "mon" \in Thread
    BY <1>5 DEF ApplyChange, At, Thread
  <2>2. Finish("mon") /\ UNCHANGED <<store, pending, up, ops, hist>>
    BY <1>5 DEF ApplyChange, bounds
  <2>3. QED BY <2>1, <2>2, FinishStep
<1>6. CASE Crash \/ Shutdown
  <2>1. /\ up /\ Die /\ UNCHANGED <<disk, records, kept, raced, undone, ops>>
        /\ \/ torn' = CutOff /\ catalog' = catalog
           \/ torn' = torn /\ catalog' = opened
    BY <1>6 DEF Crash, Shutdown
  <2>2. QED BY <2>1, EndStep
<1>7. CASE Take \/ ApplyInsert \/ DropFiles \/ DropErase \/ Start
  BY <1>7, TakeStep, InsertStep, DropFilesStep, DropEraseStep, StartStep
<1>8. QED BY <1>1, <1>2, <1>3, <1>4, <1>5, <1>6, <1>7 DEF Next

(* For any namespaces, operations, finds, crashes and failures: what the   *)
(* threads are at, the files, the streams and djondb.dat agree.            *)
THEOREM StreamInvariance == Spec => []StreamInv
  BY InitStreams, StepStreams, PTL DEF Spec

(* A data file has every insert applied since its namespace was dropped,   *)
(* through crashes and starts, unless both threads opened the namespace at *)
(* the same time: "wb+" never empties a file with documents.               *)
THEOREM DocumentsKept == Spec => []RecordsKept
<1>1. StreamInv => RecordsKept
  BY DEF StreamInv
<1>2. QED BY <1>1, StreamInvariance, PTL

(* djondb.dat names every open stream when no thread is at saveDatabases,  *)
(* and a namespace with documents is open after every start, unless the    *)
(* catalog was torn.                                                       *)
THEOREM CatalogKept == Spec => []CatalogSound
<1>1. StreamInv => CatalogSound
  <2> SUFFICES ASSUME StreamInv PROVE CatalogSound OBVIOUS
  <2>1. TypeOK /\ DocumentsListed /\ Saved
    BY DEF StreamInv
  <2>2. CatalogIsOpen
    BY <2>1 DEF Saved, CatalogIsOpen, Named
  <2>3. QED BY <2>1, <2>2 DEF CatalogSound
<1>2. QED BY <1>1, StreamInvariance, PTL

(* findFullScan maps a file that is there, unless its namespace was        *)
(* dropped while the find was at it.                                       *)
THEOREM ScanSafe == Spec => []ScanFindsFile
<1>1. StreamInv => ScanFindsFile
  BY DEF StreamInv, FilesThere, ScanFindsFile, At, HasData
<1>2. QED BY <1>1, StreamInvariance, PTL

----------------------------------------------------------------------------
(* The merge of the log into an answer.                                    *)

\* f[k] is the answer after the first k operations of the log, up to n.
Merges(f, base, name, n) ==
  f = [k \in 0..n |-> IF k = 0 THEN base ELSE MergeOne(f[k - 1], k, name)]

(* A nonempty set of numbers has a least one.                              *)
LEMMA Least ==
    ASSUME NEW S \in SUBSET Nat, S # {}
    PROVE  \E x \in S : \A y \in S : x <= y
<1>1. PICK x \in S : \A y \in S : ~(<<y, x>> \in OpToRel(<, Nat))
  BY NatLessThanWellFounded, WFMin, Zenon
<1>2. \A y \in S : x <= y
  <2> SUFFICES ASSUME NEW y \in S, y < x PROVE FALSE
    OBVIOUS
  <2>1. <<y, x>> \in Nat \X Nat /\ <<y, x>>[1] = y /\ <<y, x>>[2] = x
    OBVIOUS
  <2>2. <<y, x>> \in OpToRel(<, Nat)
    BY <2>1, Zenon DEF OpToRel
  <2>3. QED BY <1>1, <2>2, Zenon
<1>3. QED BY <1>2

(* The recursion of the merge at one operation.                            *)
LEMMA MergeAt ==
  ASSUME NEW f, NEW base, NEW name, NEW n \in Nat, Merges(f, base, name, n), NEW k \in 0..n
  PROVE  f[k] = IF k = 0 THEN base ELSE MergeOne(f[k - 1], k, name)
<1>1. f = [j \in 0..n |-> IF j = 0 THEN base ELSE MergeOne(f[j - 1], j, name)]
  BY Zenon DEF Merges
<1>2. [j \in 0..n |-> IF j = 0 THEN base ELSE MergeOne(f[j - 1], j, name)][k]
        = IF k = 0 THEN base ELSE MergeOne(f[k - 1], k, name)
  OBVIOUS
<1>3. QED BY <1>1, <1>2

(* The recursion has a solution.                                           *)
LEMMA MergeExists ==
  ASSUME NEW base, NEW name, NEW n \in Nat
  PROVE  \E f : Merges(f, base, name, n)
<1> DEFINE Good(m) == \E f : Merges(f, base, name, m)
           Bad == {m \in Nat : ~Good(m)}
<1> SUFFICES ASSUME Bad # {} PROVE FALSE
  OBVIOUS
<1>1. PICK m \in Bad : \A y \in Bad : m <= y
  BY Least
<1>2. m \in Nat /\ ~Good(m)
  OBVIOUS
<1>3. CASE m = 0
  <2> DEFINE g == [k \in 0..0 |-> base]
  <2>1. Merges(g, base, name, 0)
    <3>1. ASSUME NEW k \in 0..0
          PROVE  (IF k = 0 THEN base ELSE MergeOne(g[k - 1], k, name)) = base
      OBVIOUS
    <3> HIDE DEF g
    <3>2. [k \in 0..0 |-> IF k = 0 THEN base ELSE MergeOne(g[k - 1], k, name)]
            = [k \in 0..0 |-> base]
      BY <3>1
    <3>3. QED BY <3>2, Zenon DEF Merges, g
  <2>2. QED BY <1>2, <1>3, <2>1
<1>4. CASE m # 0
  <2>1. m - 1 \in Nat /\ m - 1 \notin Bad
    <3> HIDE DEF Bad, Good
    <3>1. m - 1 \in Nat /\ ~(m <= m - 1)
      BY <1>2, <1>4
    <3>2. QED BY <1>1, <3>1
  <2>2. PICK f : Merges(f, base, name, m - 1)
    BY <2>1
  <2> DEFINE e == MergeOne(f[m - 1], m, name)
             g == [k \in 0..m |-> IF k = m THEN e ELSE f[k]]
  <2>3. ASSUME NEW k \in 0..m
        PROVE  g[k] = IF k = 0 THEN base ELSE MergeOne(g[k - 1], k, name)
    <3>1. CASE k = m
      <4>1. g[k] = e
        BY <3>1
      <4>2. g[m - 1] = f[m - 1]
        BY <1>2, <1>4
      <4> HIDE DEF g
      <4>3. QED BY <1>4, <3>1, <4>1, <4>2
    <3>2. CASE k # m
      <4>1. k \in 0..(m - 1)
        BY <1>2, <3>2
      <4>2. f[k] = IF k = 0 THEN base ELSE MergeOne(f[k - 1], k, name)
        BY <2>1, <2>2, <4>1, MergeAt
      <4>3. g[k] = f[k] /\ (k # 0 => g[k - 1] = f[k - 1])
        BY <1>2, <3>2
      <4> HIDE DEF g
      <4>4. QED BY <4>2, <4>3
    <3>3. QED BY <3>1, <3>2
  <2>4. g = [k \in 0..m |-> g[k]]
    OBVIOUS
  <2> HIDE DEF g
  <2>5. [k \in 0..m |-> g[k]]
          = [k \in 0..m |-> IF k = 0 THEN base ELSE MergeOne(g[k - 1], k, name)]
    BY <2>3
  <2>6. Merges(g, base, name, m)
    BY <2>4, <2>5, Zenon DEF Merges
  <2>7. QED BY <1>2, <2>6
<1>5. QED BY <1>3, <1>4

(* MergeLog is the last value of a solution.                               *)
LEMMA MergeChosen ==
  ASSUME NEW base, NEW name, Len(pending) \in Nat
  PROVE  \E f : Merges(f, base, name, Len(pending)) /\ MergeLog(base, name) = f[Len(pending)]
<1> DEFINE g == CHOOSE h : Merges(h, base, name, Len(pending))
<1>1. Merges(g, base, name, Len(pending))
  BY MergeExists, Zenon
<1>2. MergeLog(base, name) = g[Len(pending)]
  BY DEF MergeLog, Merges
<1> HIDE DEF g
<1>3. QED BY <1>1, <1>2

\* x is in an answer that merges the first n operations of the log.
Inserted(name, x, i) == i \in DOMAIN name /\ pending[i].code = "insert" /\ name[i] = x
Removed(name, x, m) == m \in DOMAIN name /\ pending[m].code = "drop" /\ name[m] = x
Remains(base, name, x, n) ==
  \/ \E i \in 1..n : Inserted(name, x, i) /\ \A m \in (i + 1)..n : ~Removed(name, x, m)
  \/ x \in base /\ \A m \in 1..n : ~Removed(name, x, m)

(* One more operation of the log.                                          *)
LEMMA RemainsNext ==
  ASSUME NEW base, NEW name, NEW x, NEW n \in Nat, NEW r,
         x \in r <=> Remains(base, name, x, n)
  PROVE  x \in MergeOne(r, n + 1, name) <=> Remains(base, name, x, n + 1)
<1>0. /\ \A i : i \in 1..(n + 1) <=> i \in 1..n \/ i = n + 1
      /\ \A i \in 1..n : \A m : m \in (i + 1)..(n + 1) <=> m \in (i + 1)..n \/ m = n + 1
      /\ \A m : m \notin (n + 2)..(n + 1)
      /\ \A i \in 1..n : i \in Nat /\ n + 1 \in (i + 1)..(n + 1)
  OBVIOUS
<1>1. CASE Inserted(name, x, n + 1)
  <2>1. x \in MergeOne(r, n + 1, name)
    BY <1>1 DEF MergeOne, Inserted
  <2>2. \A m \in ((n + 1) + 1)..(n + 1) : ~Removed(name, x, m)
    OBVIOUS
  <2>3. Remains(base, name, x, n + 1)
    BY <1>0, <1>1, <2>2 DEF Remains
  <2>4. QED BY <2>1, <2>3
<1>2. CASE Removed(name, x, n + 1)
  <2>1. x \notin MergeOne(r, n + 1, name)
    BY <1>2 DEF MergeOne, Removed
  <2>2. ~Inserted(name, x, n + 1)
    BY <1>2 DEF Removed, Inserted
  <2>3. ~Remains(base, name, x, n + 1)
    BY <1>0, <1>2, <2>2 DEF Remains
  <2>4. QED BY <2>1, <2>3
<1>3. CASE ~Inserted(name, x, n + 1) /\ ~Removed(name, x, n + 1)
  <2>1. x \in MergeOne(r, n + 1, name) <=> x \in r
    BY <1>3 DEF MergeOne, Inserted, Removed
  <2>2. Remains(base, name, x, n + 1) <=> Remains(base, name, x, n)
    BY <1>0, <1>3 DEF Remains
  <2>3. QED BY <2>1, <2>2
<1>4. QED BY <1>1, <1>2, <1>3

(* An answer has what the log inserts last, and of the catalog what the    *)
(* log does not drop.                                                      *)
LEMMA MergeIs ==
  ASSUME NEW base, NEW name, NEW x, Len(pending) \in Nat
  PROVE  x \in MergeLog(base, name) <=> Remains(base, name, x, Len(pending))
<1>1. PICK f : Merges(f, base, name, Len(pending)) /\ MergeLog(base, name) = f[Len(pending)]
  BY MergeChosen
<1>2. PICK n \in Nat : n = Len(pending)
  OBVIOUS
<1> DEFINE Bad == {k \in 0..n : ~(x \in f[k] <=> Remains(base, name, x, k))}
<1>3. Bad = {}
  <2> SUFFICES ASSUME Bad # {} PROVE FALSE
    OBVIOUS
  <2>1. PICK k \in Bad : \A y \in Bad : k <= y
    <3>1. Bad \in SUBSET Nat
      OBVIOUS
    <3>2. QED BY <3>1, Least
  <2>2. k \in 0..n /\ ~(x \in f[k] <=> Remains(base, name, x, k))
    OBVIOUS
  <2>3. f[k] = IF k = 0 THEN base ELSE MergeOne(f[k - 1], k, name)
    BY <1>1, <1>2, <2>2, MergeAt
  <2>4. CASE k = 0
    <3>1. f[k] = base /\ 1..0 = {}
      BY <2>3, <2>4
    <3>2. QED BY <2>2, <2>4, <3>1 DEF Remains
  <2>5. CASE k # 0
    <3> HIDE DEF Bad
    <3>1. PICK j \in Nat : j = k - 1 /\ k = j + 1
      BY <2>2, <2>5
    <3>2. j \in 0..n /\ j \notin Bad
      BY <2>1, <2>2, <3>1
    <3>3. x \in f[j] <=> Remains(base, name, x, j)
      BY <3>2 DEF Bad
    <3>4. x \in MergeOne(f[j], j + 1, name) <=> Remains(base, name, x, j + 1)
      BY <3>3, RemainsNext
    <3>5. QED BY <2>2, <2>3, <2>5, <3>1, <3>4
  <2>6. QED BY <2>4, <2>5
<1>4. n \in 0..n /\ n \notin Bad
  BY <1>3
<1>5. QED BY <1>1, <1>2, <1>4

----------------------------------------------------------------------------
(* What a client is told of names.                                         *)

(* An operation more at the end of the log.                                *)
LEMMA LogAppended ==
  ASSUME NEW log \in Seq(Op), NEW op \in Op, NEW s
  PROVE  /\ Append(log, op) \in Seq(Op)
         /\ Undropped(Append(log, op), s, 1) <=> Undropped(log, s, 1) /\ ~Drops(op, s)
         /\ Wrote(Append(log, op), s) <=>
              \/ op.code = "insert" /\ op.sp = s
              \/ Wrote(log, s) /\ ~Drops(op, s)
<1>1. PICK n \in Nat : n = Len(log)
  BY LenProperties
<1>2. PICK l \in Seq(Op) : l = Append(log, op)
  BY AppendProperties
<1>3. Len(l) = n + 1 /\ l[n + 1] = op /\ \A i \in 1..n : l[i] = log[i]
  BY <1>1, <1>2, AppendProperties
<1>4. /\ \A i : i \in 1..(n + 1) <=> i \in 1..n \/ i = n + 1
      /\ \A i \in 1..n : i \in Nat
      /\ \A i \in 1..n : \A m \in (i + 1)..n : m \in 1..n
      /\ \A i \in 1..n : \A m : m \in (i + 1)..(n + 1) <=> m \in (i + 1)..n \/ m = n + 1
      /\ \A m : m \notin ((n + 1) + 1)..(n + 1)
  OBVIOUS
<1>5. Undropped(l, s, 1) <=> Undropped(log, s, 1) /\ ~Drops(op, s)
  BY <1>1, <1>3, <1>4 DEF Undropped
<1>6. \A i \in 1..n : Undropped(l, s, i + 1) <=> Undropped(log, s, i + 1) /\ ~Drops(op, s)
  BY <1>1, <1>3, <1>4 DEF Undropped
<1>7. Undropped(l, s, (n + 1) + 1)
  BY <1>3, <1>4 DEF Undropped
<1>8. Wrote(l, s) <=> \/ op.code = "insert" /\ op.sp = s
                      \/ Wrote(log, s) /\ ~Drops(op, s)
  <2>1. ASSUME Wrote(l, s)
        PROVE  \/ op.code = "insert" /\ op.sp = s
               \/ Wrote(log, s) /\ ~Drops(op, s)
    <3>1. PICK i \in 1..(n + 1) : l[i].code = "insert" /\ l[i].sp = s /\ Undropped(l, s, i + 1)
      BY <1>3, <2>1 DEF Wrote
    <3>2. CASE i = n + 1
      BY <1>3, <3>1, <3>2
    <3>3. CASE i \in 1..n
      BY <1>1, <1>3, <1>6, <3>1, <3>3 DEF Wrote
    <3>4. QED BY <1>4, <3>2, <3>3
  <2>2. ASSUME op.code = "insert", op.sp = s PROVE Wrote(l, s)
    <3>1. n + 1 \in 1..Len(l)
      BY <1>3
    <3>2. QED BY <1>3, <1>7, <2>2, <3>1 DEF Wrote
  <2>3. ASSUME Wrote(log, s), ~Drops(op, s) PROVE Wrote(l, s)
    <3>1. PICK i \in 1..n : log[i].code = "insert" /\ log[i].sp = s /\ Undropped(log, s, i + 1)
      BY <1>1, <2>3 DEF Wrote
    <3>2. l[i].code = "insert" /\ l[i].sp = s /\ Undropped(l, s, i + 1) /\ i \in 1..Len(l)
      BY <1>3, <1>4, <1>6, <2>3, <3>1
    <3>3. QED BY <3>2 DEF Wrote
  <2>4. QED BY <2>1, <2>2, <2>3
<1>9. QED BY <1>2, <1>5, <1>8

(* The log with the operation that the monitor has taken from it.          *)
LEMMA LogTaken ==
  ASSUME NEW log \in Seq(Op), NEW op \in Op, NEW s
  PROVE  /\ <<op>> \o log \in Seq(Op)
         /\ Undropped(<<op>> \o log, s, 1) <=> Undropped(log, s, 1) /\ ~Drops(op, s)
         /\ Wrote(<<op>> \o log, s) <=>
              \/ op.code = "insert" /\ op.sp = s /\ Undropped(log, s, 1)
              \/ Wrote(log, s)
<1>1. PICK n \in Nat : n = Len(log)
  BY LenProperties
<1>2. PICK l \in Seq(Op) : l = <<op>> \o log
  <2>1. <<op>> \in Seq(Op)
    OBVIOUS
  <2>2. <<op>> \o log \in Seq(Op)
    BY <2>1, ConcatProperties
  <2>3. QED BY <2>2, Zenon
<1>3. Len(l) = n + 1 /\ l[1] = op /\ \A i \in 1..n : l[i + 1] = log[i]
  <2>1. <<op>> \in Seq(Op) /\ Len(<<op>>) = 1 /\ <<op>>[1] = op
    OBVIOUS
  <2>2. Len(l) = n + 1
    BY <1>1, <1>2, <2>1, ConcatProperties
  <2>3. \A i \in 1..(n + 1) : l[i] = IF i <= 1 THEN <<op>>[i] ELSE log[i - 1]
    BY <1>1, <1>2, <2>1, ConcatProperties
  <2>4. \A i \in 1..n : i + 1 \in 1..(n + 1) /\ ~(i + 1 <= 1) /\ (i + 1) - 1 = i
    OBVIOUS
  <2>5. 1 \in 1..(n + 1)
    OBVIOUS
  <2>6. QED BY <2>1, <2>2, <2>3, <2>4, <2>5
<1>4. ASSUME NEW i \in Nat
      PROVE  Undropped(l, s, (i + 1) + 1) <=> Undropped(log, s, i + 1)
  <2>1. ASSUME NEW m \in (i + 1)..n
        PROVE  m \in 1..n /\ m + 1 \in ((i + 1) + 1)..(n + 1)
    OBVIOUS
  <2>2. ASSUME NEW m \in ((i + 1) + 1)..(n + 1)
        PROVE  m - 1 \in (i + 1)..n /\ m - 1 \in 1..n /\ (m - 1) + 1 = m
    OBVIOUS
  <2>3. ASSUME Undropped(l, s, (i + 1) + 1) PROVE Undropped(log, s, i + 1)
    BY <1>1, <1>3, <2>1, <2>3 DEF Undropped
  <2>4. ASSUME Undropped(log, s, i + 1), NEW m \in ((i + 1) + 1)..(n + 1)
        PROVE  ~Drops(l[m], s)
    BY <1>1, <1>3, <2>2, <2>4 DEF Undropped
  <2>5. QED BY <1>3, <2>3, <2>4 DEF Undropped
<1>5. Undropped(l, s, 1 + 1) <=> Undropped(log, s, 1)
  <2>1. 0 \in Nat /\ (0 + 1) + 1 = 1 + 1 /\ 0 + 1 = 1
    OBVIOUS
  <2>2. QED BY <1>4, <2>1
<1>6. Undropped(l, s, 1) <=> Undropped(log, s, 1) /\ ~Drops(op, s)
  <2>1. \A m : m \in 1..(n + 1) <=> m = 1 \/ m \in (1 + 1)..(n + 1)
    OBVIOUS
  <2>2. Undropped(l, s, 1) <=> Undropped(l, s, 1 + 1) /\ ~Drops(op, s)
    BY <1>3, <2>1 DEF Undropped
  <2>3. QED BY <1>5, <2>2
<1>7. Wrote(l, s) <=> \/ op.code = "insert" /\ op.sp = s /\ Undropped(log, s, 1)
                      \/ Wrote(log, s)
  <2>1. ASSUME Wrote(l, s)
        PROVE  \/ op.code = "insert" /\ op.sp = s /\ Undropped(log, s, 1)
               \/ Wrote(log, s)
    <3>1. PICK i \in 1..(n + 1) : l[i].code = "insert" /\ l[i].sp = s /\ Undropped(l, s, i + 1)
      BY <1>3, <2>1 DEF Wrote
    <3>2. CASE i = 1
      BY <1>3, <1>5, <3>1, <3>2
    <3>3. CASE i # 1
      <4>1. PICK j \in 1..n : i = j + 1
        BY <3>3
      <4>2. j \in Nat
        OBVIOUS
      <4>3. log[j].code = "insert" /\ log[j].sp = s /\ Undropped(log, s, j + 1)
        BY <1>3, <1>4, <3>1, <4>1, <4>2
      <4>4. QED BY <1>1, <4>3 DEF Wrote
    <3>4. QED BY <3>2, <3>3
  <2>2. ASSUME op.code = "insert", op.sp = s, Undropped(log, s, 1) PROVE Wrote(l, s)
    <3>1. 1 \in 1..Len(l)
      BY <1>3
    <3>2. QED BY <1>3, <1>5, <2>2, <3>1 DEF Wrote
  <2>3. ASSUME Wrote(log, s) PROVE Wrote(l, s)
    <3>1. PICK i \in 1..n : log[i].code = "insert" /\ log[i].sp = s /\ Undropped(log, s, i + 1)
      BY <1>1, <2>3 DEF Wrote
    <3>2. i \in Nat /\ i + 1 \in 1..(n + 1)
      OBVIOUS
    <3>3. l[i + 1].code = "insert" /\ l[i + 1].sp = s /\ Undropped(l, s, (i + 1) + 1)
      BY <1>3, <1>4, <3>1, <3>2
    <3>4. QED BY <1>3, <3>2, <3>3 DEF Wrote
  <2>4. QED BY <2>1, <2>2, <2>3
<1>8. QED BY <1>2, <1>6, <1>7

(* The log and the monitor's operation are operations.                     *)
LEMMA LogType ==
  ASSUME Stands, Types
  PROVE  /\ Log \in Seq(Op) /\ pending \in Seq(Op)
         /\ thread["mon"].pc # "idle" =>
              thread["mon"].job \in Op /\ Log = <<thread["mon"].job>> \o pending
<1>1. pending \in Seq(Op)
  BY DEF Types
<1>2. Idle.pc = "idle"
  BY DEF Idle
<1>3. thread["mon"].pc # "idle" => thread["mon"].job \in Op
  BY <1>2 DEF Stands, MonStands
<1>4. CASE thread["mon"].pc = "idle"
  BY <1>1, <1>4 DEF Log
<1>5. CASE thread["mon"].pc # "idle"
  BY <1>1, <1>3, <1>5, LogTaken DEF Log
<1>6. QED BY <1>1, <1>3, <1>4, <1>5

\* Each thread stays at its operation.
SameJobs ==
  \A u \in Thread : /\ thread'[u].job = thread[u].job
                    /\ thread'[u].pc = "idle" <=> thread[u].pc = "idle"
                    /\ thread'[u].pc = "erase" <=> thread[u].pc = "erase"

(* A step that leaves the log alone and opens streams for a reason.        *)
LEMMA NamesMove ==
  ASSUME NamesInv, Log' = Log, UNCHANGED <<view, kept>>, touched \subseteq touched',
         \A f \in opened' : \/ f \in opened \/ f[1] \in touched'
                            \/ thread'["mon"].pc # "idle" /\ SpaceOf("mon")' = f[1],
         thread["mon"].pc # "idle" /\ opened' # {} =>
           thread'["mon"].pc # "idle" /\ SpaceOf("mon")' = SpaceOf("mon"),
         thread'["net"].pc # "idle" => SpaceOf("net")' \in touched',
         thread'["mon"].pc = "erase" => thread'["mon"].job.code = "drop"
  PROVE  NamesInv'
<1>1. Viewed'
  BY DEF NamesInv, Viewed, Wrote, Undropped, Drops
<1>2. OpenedFor'
  BY DEF NamesInv, OpenedFor
<1>3. Noted'
  BY DEF NamesInv, Noted
<1>4. QED BY <1>1, <1>2, <1>3 DEF NamesInv

(* The steps of open stay at their operation.                              *)
LEMMA OpenJobs ==
  ASSUME Stands, NEW t \in Thread, thread[t].pc \in Opening,
         \/ thread' = Advance(t)
         \/ \E p \in Place : /\ p.pc \in Opening /\ p.job = thread[t].job
                             /\ thread' = [thread EXCEPT ![t] = p]
  PROVE  SameJobs
<1>1. PICK p : /\ p.pc \notin {"idle", "erase"} /\ p.job = thread[t].job
               /\ thread' = [thread EXCEPT ![t] = p]
  <2>1. CASE thread' = Advance(t)
    BY <2>1, Onward
  <2>2. CASE \E p \in Place : /\ p.pc \in Opening /\ p.job = thread[t].job
                              /\ thread' = [thread EXCEPT ![t] = p]
    BY <2>2 DEF Opening
  <2>3. QED BY <2>1, <2>2
<1>2. thread \in [Thread -> Place]
  BY DEF Stands
<1>3. QED BY <1>1, <1>2 DEF SameJobs, Opening

(* A step of open, for either thread.                                      *)
LEMMA NamesOpen ==
  ASSUME StreamInv, NamesInv, NEW t \in Thread, thread[t].pc \in Opening, SameJobs,
         UNCHANGED <<pending, view, kept, touched>>,
         opened' \subseteq opened \cup {Wanted(t)}
  PROVE  NamesInv'
<1>0. Stands
  BY DEF StreamInv
<1>1. "net" \in Thread /\ "mon" \in Thread /\ t \in {"net", "mon"} /\ thread[t].pc # "idle"
  BY DEF Thread, Opening
<1>2. Log' = Log
  BY <1>1 DEF SameJobs, Log
<1>3. /\ SpaceOf("mon")' = SpaceOf("mon") /\ SpaceOf("net")' = SpaceOf("net")
      /\ thread'["mon"].pc = "idle" <=> thread["mon"].pc = "idle"
      /\ thread'["net"].pc = "idle" <=> thread["net"].pc = "idle"
      /\ thread'["mon"].pc = "erase" => thread'["mon"].job.code = "drop"
  BY <1>1 DEF SameJobs, SpaceOf, NamesInv, Noted
<1>4. Wanted(t)[1] = SpaceOf(t)
  BY <1>0, AtStream
<1>5. ASSUME NEW f \in opened'
      PROVE  \/ f \in opened \/ f[1] \in touched'
             \/ thread'["mon"].pc # "idle" /\ SpaceOf("mon")' = f[1]
  <2>1. CASE f = Wanted(t) /\ t = "net"
    BY <1>1, <1>4, <2>1 DEF NamesInv, Noted
  <2>2. CASE f = Wanted(t) /\ t = "mon"
    BY <1>1, <1>3, <1>4, <2>2
  <2>3. QED BY <1>1, <2>1, <2>2
<1>6. thread'["net"].pc # "idle" => SpaceOf("net")' \in touched'
  BY <1>3 DEF NamesInv, Noted
<1>7. QED BY <1>2, <1>3, <1>5, <1>6, NamesMove

(* The network thread writes an operation.                                 *)
LEMMA NamesWrite ==
  ASSUME StreamInv, NamesInv, NEW code \in {"insert", "change", "drop"}, NEW s \in Space,
         Write(code, s)
  PROVE  NamesInv'
<1>0. Stands /\ Types
  BY DEF StreamInv
<1>1. PICK op \in Op : op = [code |-> code, sp |-> s, n |-> ops + 1]
  <2>1. ops + 1 \in 1..MaxOps
    BY <1>0, BoundsAssumption DEF Write, Types
  <2>2. QED BY <2>1 DEF Op
<1>2. /\ op.code = code /\ op.sp = s /\ pending' = Append(pending, op) /\ UNCHANGED thread
      /\ UNCHANGED <<opened, kept>>
      /\ view' = (CASE code = "insert" -> view \cup {s}
                    [] code = "drop"   -> view \ {s}
                    [] OTHER           -> view)
      /\ touched' = IF code = "change" THEN touched \cup {s} ELSE touched
  BY <1>1 DEF Write, store
<1>3. PICK log \in Seq(Op) : log = Log
  BY <1>0, LogType
<1>4. Log' = Append(log, op)
  <2>1. CASE thread["mon"].pc = "idle"
    BY <1>2, <1>3, <2>1 DEF Log
  <2>2. CASE thread["mon"].pc # "idle"
    <3>1. PICK job \in Op : job = thread["mon"].job /\ log = <<job>> \o pending
      BY <1>0, <1>3, <2>2, LogType
    <3>2. pending \in Seq(Op)
      BY <1>0, LogType
    <3>3. <<job>> \in Seq(Op)
      OBVIOUS
    <3>4. <<job>> \o Append(pending, op) = Append(<<job>> \o pending, op)
      BY <3>2, <3>3
    <3>5. Log' = <<job>> \o Append(pending, op)
      BY <1>2, <2>2, <3>1 DEF Log
    <3>6. QED BY <3>1, <3>4, <3>5
  <2>3. QED BY <2>1, <2>2
<1>5. ASSUME NEW r \in Space
      PROVE  r \in view' <=> Wrote(Log', r) \/ (kept'[r] # {} /\ Undropped(Log', r, 1))
  <2>1. /\ Undropped(Log', r, 1) <=> Undropped(log, r, 1) /\ ~Drops(op, r)
        /\ Wrote(Log', r) <=> \/ op.code = "insert" /\ op.sp = r
                              \/ Wrote(log, r) /\ ~Drops(op, r)
    BY <1>4, LogAppended
  <2>2. r \in view <=> Wrote(log, r) \/ (kept[r] # {} /\ Undropped(log, r, 1))
    BY <1>3 DEF NamesInv, Viewed
  <2>3. Drops(op, r) <=> code = "drop" /\ s = r
    BY <1>2 DEF Drops
  <2>4. r \in view' <=> \/ code = "insert" /\ s = r
                        \/ r \in view /\ ~(code = "drop" /\ s = r)
    BY <1>2
  <2>5. QED BY <1>2, <2>1, <2>2, <2>3, <2>4
<1>6. Viewed'
  <2>1. view' \subseteq Space
    BY <1>2 DEF NamesInv, Viewed
  <2>2. QED BY <1>5, <2>1 DEF Viewed
<1>7. OpenedFor'
  BY <1>2 DEF NamesInv, OpenedFor, SpaceOf
<1>8. Noted'
  <2>1. PICK n \in Nat : n = Len(log)
    BY <1>3
  <2>2. PICK l : l = Log' /\ Len(l) = n + 1 /\ l[n + 1] = op /\ \A i \in 1..n : l[i] = log[i]
    BY <1>4, <2>1, AppendProperties
  <2>3. ASSUME NEW i \in 1..Len(l), l[i].code = "change" PROVE l[i].sp \in touched'
    <3>1. CASE i = n + 1
      BY <1>2, <2>2, <2>3, <3>1
    <3>2. CASE i # n + 1
      <4>1. i \in 1..n
        BY <2>2, <3>2
      <4>2. log[i].sp \in touched
        BY <1>3, <2>1, <2>2, <2>3, <4>1 DEF NamesInv, Noted
      <4>3. QED BY <1>2, <2>2, <4>1, <4>2
    <3>3. QED BY <3>1, <3>2
  <2>4. thread'["net"].pc # "idle" => SpaceOf("net")' \in touched'
    BY <1>2 DEF NamesInv, Noted, SpaceOf
  <2>5. thread'["mon"].pc = "erase" => thread'["mon"].job.code = "drop"
    BY <1>2 DEF NamesInv, Noted
  <2>6. QED BY <2>2, <2>3, <2>4, <2>5 DEF Noted
<1>9. QED BY <1>6, <1>7, <1>8 DEF NamesInv

(* The process ends: the log is as it was.                                 *)
LEMMA NamesDie ==
  ASSUME NamesInv, Die, UNCHANGED <<view, kept, touched>>
  PROVE  NamesInv'
<1>1. /\ \A t \in Thread : thread'[t].pc = "idle"
      /\ pending' = Log /\ opened' = {} /\ "mon" \in Thread /\ "net" \in Thread
  BY DEF Die, Idle, Log, Thread
<1>2. Log' = Log
  BY <1>1 DEF Log
<1>3. /\ thread'["net"].pc # "idle" => SpaceOf("net")' \in touched'
      /\ thread'["mon"].pc = "erase" => thread'["mon"].job.code = "drop"
  BY <1>1
<1>4. QED BY <1>1, <1>2, <1>3, NamesMove

(* Find begins a job for a namespace that it notes.                        *)
LEMMA NamesFind ==
  ASSUME StreamInv, NamesInv, NEW s \in Space, Find(s)
  PROVE  NamesInv'
<1>0. thread \in [Thread -> Place]
  BY DEF StreamInv, Stands
<1>1. PICK p : p = Begin([code |-> "find", sp |-> s, n |-> 0], FindTypes)
  OBVIOUS
<1>1a. p.job.sp = s
  BY <1>1 DEF Begin, Idle
<1>2. /\ thread' = [thread EXCEPT !["net"] = p] /\ touched' = touched \cup {s}
      /\ UNCHANGED <<opened, pending, view, kept>>
  BY <1>1 DEF Find, store
<1>3. thread'["net"] = p /\ thread'["mon"] = thread["mon"]
  BY <1>0, <1>2 DEF Thread
<1>4. Log' = Log
  BY <1>2, <1>3 DEF Log
<1>5. SpaceOf("mon")' = SpaceOf("mon") /\ SpaceOf("net")' = s
  BY <1>1a, <1>3 DEF SpaceOf
<1>6. thread'["mon"].pc = "erase" => thread'["mon"].job.code = "drop"
  BY <1>3 DEF NamesInv, Noted
<1>7. QED BY <1>2, <1>3, <1>4, <1>5, <1>6, NamesMove

(* Take moves the first operation of the log to the monitor.               *)
LEMMA NamesTake ==
  ASSUME StreamInv, NamesInv, Take
  PROVE  NamesInv'
<1>0. thread \in [Thread -> Place] /\ pending \in Seq(Op) /\ pending # <<>>
  BY DEF StreamInv, Stands, Types, Take
<1>1. PICK l : l = IF Head(pending).code = "drop" THEN <<"data", "index">> ELSE <<"data">>
  OBVIOUS
<1>2. PICK p : p = Begin(Head(pending), l)
  OBVIOUS
<1>2a. p.job = Head(pending) /\ p.pc = "lookup"
  BY <1>2 DEF Begin, Idle
<1>3. /\ thread' = [thread EXCEPT !["mon"] = p] /\ pending' = Tail(pending)
      /\ thread["mon"].pc = "idle"
      /\ UNCHANGED <<opened, view, kept, touched>>
  BY <1>1, <1>2 DEF Take, store, hist
<1>4. thread'["mon"] = p /\ thread'["net"] = thread["net"]
  BY <1>0, <1>3 DEF Thread
<1>5. Log' = Log
  <2>1. pending = <<Head(pending)>> \o Tail(pending)
    BY <1>0
  <2>2. QED BY <1>3, <1>4, <1>2a, <2>1 DEF Log
<1>6. /\ thread'["net"].pc # "idle" => SpaceOf("net")' \in touched'
      /\ thread'["mon"].pc # "erase"
  BY <1>3, <1>4, <1>2a DEF NamesInv, Noted, SpaceOf
<1>7. QED BY <1>3, <1>5, <1>6, NamesMove

\* The monitor's operation is applied: its document is kept, and nothing is
\* of a namespace that it drops.
Applied(op) ==
  /\ \A r \in Space : kept'[r] # {} <=> kept[r] # {} \/ (op.code = "insert" /\ op.sp = r)
  /\ op.code = "drop" => kept[op.sp] = {}
  /\ \A f \in opened' : f \in opened /\ (f[1] = op.sp => f[1] \in touched \/ kept'[f[1]] # {})

(* The monitor has applied its operation, which leaves the log.            *)
LEMMA NamesDone ==
  ASSUME StreamInv, NamesInv, thread["mon"].pc # "idle", Applied(thread["mon"].job),
         Finish("mon"), UNCHANGED <<pending, view, touched>>
  PROVE  NamesInv'
<1>0. Stands /\ Types /\ thread \in [Thread -> Place] /\ opened \subseteq File
  BY DEF StreamInv, Stands, TypeOK
<1>1. PICK op \in Op : op = thread["mon"].job /\ Log = <<op>> \o pending
  BY <1>0, LogType
<1>2. pending \in Seq(Op)
  BY <1>0, LogType
<1>3. /\ thread'["mon"].pc = "idle" /\ thread'["net"] = thread["net"]
  BY <1>0 DEF Finish, Thread, Idle
<1>4. Log' = pending
  BY <1>3 DEF Log
<1>5. ASSUME NEW r \in Space
      PROVE  r \in view' <=> Wrote(Log', r) \/ (kept'[r] # {} /\ Undropped(Log', r, 1))
  <2>1. /\ Undropped(Log, r, 1) <=> Undropped(pending, r, 1) /\ ~Drops(op, r)
        /\ Wrote(Log, r) <=> \/ op.code = "insert" /\ op.sp = r /\ Undropped(pending, r, 1)
                             \/ Wrote(pending, r)
    BY <1>1, <1>2, LogTaken
  <2>2. r \in view <=> Wrote(Log, r) \/ (kept[r] # {} /\ Undropped(Log, r, 1))
    BY DEF NamesInv, Viewed
  <2>3. /\ kept'[r] # {} <=> kept[r] # {} \/ (op.code = "insert" /\ op.sp = r)
        /\ Drops(op, r) => kept[r] = {}
    BY <1>1 DEF Applied, Drops
  <2>4. QED BY <1>4, <2>1, <2>2, <2>3
<1>6. Viewed'
  BY <1>5 DEF NamesInv, Viewed
<1>7. OpenedFor'
  <2>1. ASSUME NEW f \in opened' PROVE f[1] \in touched' \/ kept'[f[1]] # {}
    <3>1. f \in opened /\ (f[1] = op.sp => f[1] \in touched \/ kept'[f[1]] # {})
      BY <1>1 DEF Applied
    <3>2. f[1] \in Space
      BY <1>0, <3>1 DEF File
    <3>3. kept[f[1]] # {} => kept'[f[1]] # {}
      BY <3>2 DEF Applied
    <3>4. f[1] \in touched \/ kept[f[1]] # {} \/ f[1] = op.sp
      BY <1>1, <3>1 DEF NamesInv, OpenedFor, SpaceOf
    <3>5. QED BY <3>1, <3>3, <3>4
  <2>2. QED BY <2>1 DEF OpenedFor
<1>8. Noted'
  <2>1. PICK n \in Nat : n = Len(pending)
    BY <1>2
  <2>2. ASSUME NEW i \in 1..Len(pending), pending[i].code = "change"
        PROVE  pending[i].sp \in touched
    <3>1. PICK l : l = Log
      OBVIOUS
    <3>2. <<op>> \in Seq(Op) /\ Len(<<op>>) = 1
      OBVIOUS
    <3>3. Len(l) = n + 1
      BY <1>1, <1>2, <2>1, <3>1, <3>2, ConcatProperties
    <3>4. \A j \in 1..(n + 1) : l[j] = IF j <= 1 THEN <<op>>[j] ELSE pending[j - 1]
      BY <1>1, <1>2, <2>1, <3>1, <3>2, ConcatProperties
    <3>5. i + 1 \in 1..(n + 1) /\ ~(i + 1 <= 1) /\ (i + 1) - 1 = i
      BY <2>1
    <3>6. l[i + 1] = pending[i] /\ i + 1 \in 1..Len(l)
      BY <3>3, <3>4, <3>5
    <3>7. QED BY <2>2, <3>1, <3>6 DEF NamesInv, Noted
  <2>3. thread'["net"].pc # "idle" => SpaceOf("net")' \in touched'
    BY <1>3 DEF NamesInv, Noted, SpaceOf
  <2>4. QED BY <1>3, <1>4, <2>2, <2>3 DEF Noted
<1>9. QED BY <1>6, <1>7, <1>8 DEF NamesInv

(* DBController::insert, update and remove, and the end of dropNamespace.  *)
LEMMA NamesApply ==
  ASSUME StreamInv, NamesInv, ApplyInsert \/ ApplyChange \/ DropErase
  PROVE  NamesInv'
<1>0. Stands /\ Types /\ thread["mon"].pc # "idle"
  BY DEF StreamInv, ApplyInsert, ApplyChange, DropErase, At
<1>1. PICK op \in Op : op = thread["mon"].job /\ Log = <<op>> \o pending
  BY <1>0, LogType
<1>2. op.sp = SpaceOf("mon") /\ op.sp \in Space /\ kept \in [Space -> SUBSET (1..MaxOps)]
  BY <1>0, <1>1 DEF SpaceOf, Op, Types
<1>3. CASE ApplyInsert
  <2>1. PICK n : /\ n = thread["mon"].job.n
                 /\ kept' = [kept EXCEPT ![op.sp] = @ \cup {n}]
    BY <1>2, <1>3 DEF ApplyInsert
  <2>2. op.code = "insert" /\ opened' = opened
    BY <1>1, <1>3 DEF ApplyInsert, At
  <2>3. kept'[op.sp] # {} /\ \A r \in Space : r # op.sp => kept'[r] = kept[r]
    BY <1>2, <2>1
  <2>4. Applied(op)
    BY <2>2, <2>3 DEF Applied
  <2>5. Finish("mon") /\ UNCHANGED <<pending, view, touched>>
    BY <1>3 DEF ApplyInsert
  <2>6. QED BY <1>0, <1>1, <2>4, <2>5, NamesDone
<1>4. CASE ApplyChange
  <2>1. op.code = "change" /\ opened' = opened /\ kept' = kept
    BY <1>1, <1>4 DEF ApplyChange, At, store, hist
  <2>2. op.sp \in touched
    <3>1. pending \in Seq(Op) /\ <<op>> \in Seq(Op) /\ Len(<<op>>) = 1 /\ <<op>>[1] = op
      BY <1>0 DEF Types
    <3>2. PICK n \in Nat : n = Len(pending)
      BY <3>1
    <3>3. Len(Log) = 1 + n /\ 1 \in 1..(1 + n)
      BY <1>1, <3>1, <3>2, ConcatProperties
    <3>4. Log[1] = op
      BY <1>1, <3>1, <3>2, <3>3, ConcatProperties
    <3>5. QED BY <2>1, <3>3, <3>4 DEF NamesInv, Noted
  <2>3. Applied(op)
    BY <2>1, <2>2 DEF Applied
  <2>4. Finish("mon") /\ UNCHANGED <<pending, view, touched>>
    BY <1>4 DEF ApplyChange, hist
  <2>5. QED BY <1>0, <1>1, <2>3, <2>4, NamesDone
<1>5. CASE DropErase
  <2>1. /\ opened' = {f \in opened : f[1] # op.sp} /\ kept' = kept
        /\ thread["mon"].pc = "erase"
    BY <1>2, <1>5 DEF DropErase
  <2>2. op.code = "drop" /\ kept[op.sp] = {}
    BY <1>1, <1>2, <2>1 DEF NamesInv, Noted, StreamInv, NothingToLose, Erases
  <2>3. Applied(op)
    BY <2>1, <2>2 DEF Applied
  <2>4. Finish("mon") /\ UNCHANGED <<pending, view, touched>>
    BY <1>5 DEF DropErase
  <2>5. QED BY <1>0, <1>1, <2>3, <2>4, NamesDone
<1>6. QED BY <1>3, <1>4, <1>5

(* dropNamespace removes the files of a namespace that the log drops.      *)
LEMMA NamesDropFiles ==
  ASSUME StreamInv, NamesInv, DropFiles
  PROVE  NamesInv'
<1>0. Stands /\ Types /\ thread["mon"].pc # "idle" /\ thread \in [Thread -> Place]
  BY DEF StreamInv, DropFiles, At, Stands
<1>1. PICK op \in Op : op = thread["mon"].job /\ Log = <<op>> \o pending
  BY <1>0, LogType
<1>2. op.sp = SpaceOf("mon") /\ op.sp \in Space /\ kept \in [Space -> SUBSET (1..MaxOps)]
  BY <1>0, <1>1 DEF SpaceOf, Op, Types
<1>3. /\ op.code = "drop" /\ kept' = [kept EXCEPT ![op.sp] = {}]
      /\ thread' = [thread EXCEPT !["mon"].pc = "erase"]
      /\ UNCHANGED <<opened, pending, view, touched>>
  BY <1>1, <1>2 DEF DropFiles, At
<1>4. /\ thread'["mon"].job = op /\ thread'["mon"].pc = "erase"
      /\ thread'["net"] = thread["net"]
  BY <1>0, <1>1, <1>3 DEF Thread, Place
<1>5. Log' = Log
  BY <1>0, <1>1, <1>3, <1>4 DEF Log
<1>6. PICK log : log = Log
  OBVIOUS
<1>7. pending \in Seq(Op)
  BY <1>0 DEF Types
<1>8. ~Undropped(log, op.sp, 1)
  BY <1>1, <1>3, <1>6, <1>7, LogTaken DEF Drops
<1>9. Viewed'
  <2>1. ASSUME NEW r \in Space
        PROVE  r \in view' <=> Wrote(log, r) \/ (kept'[r] # {} /\ Undropped(log, r, 1))
    <3>1. r \in view <=> Wrote(log, r) \/ (kept[r] # {} /\ Undropped(log, r, 1))
      BY <1>6 DEF NamesInv, Viewed
    <3>2. r # op.sp => kept'[r] = kept[r]
      BY <1>2, <1>3
    <3>3. QED BY <1>3, <1>8, <3>1, <3>2
  <2>2. view' \subseteq Space
    BY <1>3 DEF NamesInv, Viewed
  <2>3. QED BY <1>5, <1>6, <2>1, <2>2 DEF Viewed
<1>10. OpenedFor'
  <2>1. ASSUME NEW f \in opened
        PROVE  f[1] \in touched \/ kept'[f[1]] # {} \/ f[1] = op.sp
    <3>1. f[1] \in Space
      BY DEF StreamInv, TypeOK, File
    <3>2. f[1] \in touched \/ kept[f[1]] # {} \/ f[1] = op.sp
      BY <1>2 DEF NamesInv, OpenedFor
    <3>3. QED BY <1>2, <1>3, <3>1, <3>2
  <2>2. SpaceOf("mon")' = op.sp /\ thread'["mon"].pc # "idle"
    BY <1>4 DEF SpaceOf
  <2>3. QED BY <1>3, <2>1, <2>2 DEF OpenedFor
<1>11. Noted'
  <2>1. thread'["net"].pc # "idle" => SpaceOf("net")' \in touched'
    BY <1>3, <1>4 DEF NamesInv, Noted, SpaceOf
  <2>2. \A i \in 1..Len(log) : log[i].code = "change" => log[i].sp \in touched'
    BY <1>3, <1>6 DEF NamesInv, Noted
  <2>3. QED BY <1>3, <1>4, <1>5, <1>6, <2>1, <2>2 DEF Noted
<1>12. QED BY <1>9, <1>10, <1>11 DEF NamesInv

(* The steps of StreamManager::open.                                       *)
LEMMA NamesStream ==
  ASSUME StreamInv, NamesInv, NEW t \in Thread,
         Lookup(t) \/ Create(t) \/ Save(t) \/ Close(t)
  PROVE  NamesInv'
<1>0. TypeOK /\ Stands /\ thread \in [Thread -> Place]
  BY DEF StreamInv, Stands
<1>1. thread[t].pc \in Opening
  BY DEF Lookup, Create, Save, Close, Opening
<1>2. /\ thread[t] \in Place /\ Wanted(t) = <<SpaceOf(t), thread[t].todo[1]>>
  BY <1>0, <1>1, AtStream
<1>3. CASE Lookup(t)
  <2>1. /\ UNCHANGED <<opened, pending, view, kept, touched>>
    BY <1>3 DEF Lookup, hist
  <2>2. CASE Wanted(t) \in opened
    <3>1. SameJobs
      BY <1>0, <1>1, <1>3, <2>2, OpenJobs DEF Lookup
    <3>2. QED BY <1>1, <2>1, <3>1, NamesOpen
  <2>3. CASE Wanted(t) \notin opened
    <3>1. PICK p : p = [thread[t] EXCEPT !.pc = "create", !.fresh = (Wanted(t) \notin disk)]
      OBVIOUS
    <3>2. p \in Place /\ p.pc \in Opening /\ p.job = thread[t].job
      BY <1>2, <3>1 DEF Place, Opening
    <3>3. thread' = [thread EXCEPT ![t] = p]
      BY <1>0, <1>3, <2>3, <3>1 DEF Lookup
    <3>4. SameJobs
      BY <1>0, <1>1, <3>2, <3>3, OpenJobs
    <3>5. QED BY <1>1, <2>1, <3>4, NamesOpen
  <2>4. QED BY <2>2, <2>3
<1>4. CASE Create(t)
  <2>1. UNCHANGED <<view, kept, touched>>
    BY <1>4 DEF Create
  <2>2. CASE ~(thread[t].fresh \/ Wanted(t) \in disk)
    <3>1. Die
      BY <1>4, <2>2 DEF Create
    <3>2. QED BY <2>1, <3>1, NamesDie
  <2>3. CASE thread[t].fresh \/ Wanted(t) \in disk
    <3>1. PICK p : p = [thread[t] EXCEPT !.pc = "save"]
      OBVIOUS
    <3>2. p \in Place /\ p.pc \in Opening /\ p.job = thread[t].job
      BY <1>2, <3>1 DEF Place, Opening
    <3>3. /\ thread' = [thread EXCEPT ![t] = p] /\ opened' = opened \cup {Wanted(t)}
          /\ UNCHANGED pending
      BY <1>0, <1>4, <2>3, <3>1 DEF Create
    <3>4. SameJobs
      BY <1>0, <1>1, <3>2, <3>3, OpenJobs
    <3>5. QED BY <1>1, <2>1, <3>3, <3>4, NamesOpen
  <2>4. QED BY <2>2, <2>3
<1>5. CASE Save(t)
  <2>1. PICK p : p = [thread[t] EXCEPT !.pc = "close", !.snap = opened]
    OBVIOUS
  <2>2. p \in Place /\ p.pc \in Opening /\ p.job = thread[t].job
    <3>1. opened \in SUBSET File
      BY <1>0 DEF TypeOK
    <3>2. QED BY <1>2, <2>1, <3>1 DEF Place, Opening
  <2>3. /\ thread' = [thread EXCEPT ![t] = p]
        /\ UNCHANGED <<opened, pending, view, kept, touched>>
    BY <1>0, <1>5, <2>1 DEF Save, hist
  <2>4. SameJobs
    BY <1>0, <1>1, <2>2, <2>3, OpenJobs
  <2>5. QED BY <1>1, <2>3, <2>4, NamesOpen
<1>6. CASE Close(t)
  <2>1. /\ thread' = Advance(t)
        /\ UNCHANGED <<opened, pending, view, kept, touched>>
    BY <1>6 DEF Close
  <2>2. SameJobs
    BY <1>0, <1>1, <2>1, OpenJobs
  <2>3. QED BY <1>1, <2>1, <2>2, NamesOpen
<1>7. QED BY <1>3, <1>4, <1>5, <1>6

(* The scan ends its find, or the process.                                 *)
LEMMA NamesScan ==
  ASSUME StreamInv, NamesInv, Scan
  PROVE  NamesInv'
<1>0. thread \in [Thread -> Place]
  BY DEF StreamInv, Stands
<1>1. UNCHANGED <<view, kept, touched>>
  BY DEF Scan
<1>2. CASE <<SpaceOf("net"), "data">> \notin disk
  BY <1>1, <1>2, NamesDie DEF Scan
<1>3. CASE <<SpaceOf("net"), "data">> \in disk
  <2>1. Finish("net") /\ UNCHANGED <<opened, pending>>
    BY <1>3 DEF Scan
  <2>2. thread'["mon"] = thread["mon"] /\ thread'["net"].pc = "idle"
    BY <1>0, <2>1 DEF Finish, Thread, Idle
  <2>3. Log' = Log
    BY <2>1, <2>2 DEF Log
  <2>4. /\ SpaceOf("mon")' = SpaceOf("mon")
        /\ thread'["mon"].pc = "erase" => thread'["mon"].job.code = "drop"
    BY <2>2 DEF SpaceOf, NamesInv, Noted
  <2>5. QED BY <1>1, <2>1, <2>2, <2>3, <2>4, NamesMove
<1>4. QED BY <1>2, <1>3

(* initialize notes what it opens.                                         *)
LEMMA NamesStart ==
  ASSUME StreamInv, NamesInv, Start
  PROVE  NamesInv'
<1>1. /\ opened' = catalog \cup {<<f[1], "data">> : f \in catalog}
      /\ touched' = touched \cup {f[1] : f \in catalog}
      /\ UNCHANGED <<pending, thread, kept, view>>
  BY DEF Start
<1>2. Log' = Log
  BY <1>1 DEF Log
<1>3. \A f \in opened' : f[1] \in touched'
  BY <1>1
<1>4. /\ SpaceOf("mon")' = SpaceOf("mon")
      /\ thread'["net"].pc # "idle" => SpaceOf("net")' \in touched'
      /\ thread'["mon"].pc = "erase" => thread'["mon"].job.code = "drop"
  BY <1>1 DEF SpaceOf, NamesInv, Noted
<1>5. QED BY <1>1, <1>2, <1>3, <1>4, NamesMove

(* Nothing is open, nothing is seen and the log is empty at first.         *)
LEMMA InitNames == Init => NamesInv
<1> SUFFICES ASSUME Init PROVE NamesInv OBVIOUS
<1>1. thread["mon"].pc = "idle" /\ thread["net"].pc = "idle"
  BY DEF Init, Thread, Idle
<1>2. Log = <<>> /\ Len(<<>>) = 0 /\ 1..0 = {}
  BY <1>1 DEF Init, Log
<1>3. Viewed
  BY <1>2 DEF Init, Viewed, Wrote
<1>4. OpenedFor
  BY DEF Init, OpenedFor
<1>5. Noted
  BY <1>1, <1>2 DEF Noted
<1>6. QED BY <1>3, <1>4, <1>5 DEF NamesInv

(* NamesInv is inductive where StreamInv holds.                            *)
LEMMA StepNames == StreamInv /\ NamesInv /\ [Next]_vars => NamesInv'
<1> SUFFICES ASSUME StreamInv, NamesInv, [Next]_vars PROVE NamesInv' OBVIOUS
<1>1. CASE UNCHANGED vars
  <2>1. UNCHANGED <<opened, pending, thread, kept, view, touched>>
    BY <1>1 DEF vars, store, hist
  <2>2. Log' = Log /\ SpaceOf("mon")' = SpaceOf("mon") /\ SpaceOf("net")' = SpaceOf("net")
    BY <2>1 DEF Log, SpaceOf
  <2>3. /\ thread'["net"].pc # "idle" => SpaceOf("net")' \in touched'
        /\ thread'["mon"].pc = "erase" => thread'["mon"].job.code = "drop"
    BY <2>1, <2>2 DEF NamesInv, Noted
  <2>4. QED BY <2>1, <2>2, <2>3, NamesMove
<1>2. ASSUME NEW s \in Space,
             Write("insert", s) \/ Write("change", s) \/ Write("drop", s) \/ Find(s)
      PROVE  NamesInv'
  BY <1>2, NamesWrite, NamesFind
<1>3. ASSUME NEW t \in Thread, Lookup(t) \/ Create(t) \/ Save(t) \/ Close(t)
      PROVE  NamesInv'
  BY <1>3, NamesStream
<1>4. CASE Scan \/ Take \/ DropFiles \/ Start
  BY <1>4, NamesScan, NamesTake, NamesDropFiles, NamesStart
<1>5. CASE ApplyInsert \/ ApplyChange \/ DropErase
  BY <1>5, NamesApply
<1>6. CASE Crash \/ Shutdown
  <2>1. Die /\ UNCHANGED <<view, kept, touched>>
    BY <1>6 DEF Crash, Shutdown
  <2>2. QED BY <2>1, NamesDie
<1>7. QED BY <1>1, <1>2, <1>3, <1>4, <1>5, <1>6 DEF Next

(* The names that clients have used, the log, the streams and the          *)
(* documents agree, through crashes and starts.                            *)
THEOREM NamesInvariance == Spec => [](StreamInv /\ NamesInv)
<1>1. Init => StreamInv /\ NamesInv
  BY InitStreams, InitNames
<1>2. (StreamInv /\ NamesInv) /\ [Next]_vars => (StreamInv /\ NamesInv)'
  BY StepStreams, StepNames
<1>3. QED BY <1>1, <1>2, PTL DEF Spec

(* What namespaces answers of one name.                                    *)
LEMMA NamespaceListed ==
  ASSUME Types, NEW s \in Space
  PROVE  s[2] \in Namespaces(s[1]) <=>
           \/ Wrote(pending, s)
           \/ s[2] \in Stored(s[1]) /\ Undropped(pending, s, 1)
<1>1. pending \in Seq(Op)
  BY DEF Types
<1>2. PICK n \in Nat : n = Len(pending) /\ DOMAIN pending = 1..n
  BY <1>1
<1>3. PICK name : name = [k \in {i \in DOMAIN pending : pending[i].sp[1] = s[1]}
                            |-> pending[k].sp[2]]
  OBVIOUS
<1>4. s[2] \in Namespaces(s[1]) <=> Remains(Stored(s[1]), name, s[2], n)
  <2>1. Namespaces(s[1]) = MergeLog(Stored(s[1]), name)
    BY <1>3 DEF Namespaces
  <2>2. s[2] \in MergeLog(Stored(s[1]), name) <=> Remains(Stored(s[1]), name, s[2], Len(pending))
    BY <1>2, MergeIs
  <2>3. QED BY <1>2, <2>1, <2>2
<1>5. ASSUME NEW i \in 1..n
      PROVE  /\ Inserted(name, s[2], i) <=> pending[i].code = "insert" /\ pending[i].sp = s
             /\ Removed(name, s[2], i) <=> Drops(pending[i], s)
  <2>1. PICK r \in Space : r = pending[i].sp
    <3>1. pending[i] \in Op
      BY <1>1, <1>2, ElementOfSeq
    <3>2. QED BY <3>1 DEF Op
  <2>2. r = <<r[1], r[2]>> /\ s = <<s[1], s[2]>>
    BY SpaceAssumption
  <2>3. r[1] = s[1] /\ r[2] = s[2] <=> r = s
    BY <2>2
  <2>4. i \in DOMAIN name <=> r[1] = s[1]
    BY <1>2, <1>3, <2>1
  <2>5. i \in DOMAIN name => name[i] = r[2]
    BY <1>3, <2>1
  <2>6. QED BY <2>1, <2>3, <2>4, <2>5 DEF Inserted, Removed, Drops
<1>6. \A i \in 1..n : (\A m \in (i + 1)..n : ~Removed(name, s[2], m)) <=> Undropped(pending, s, i + 1)
  <2>1. \A i \in 1..n : \A m \in (i + 1)..n : m \in 1..n
    OBVIOUS
  <2>2. QED BY <1>2, <1>5, <2>1 DEF Undropped
<1>7. (\A m \in 1..n : ~Removed(name, s[2], m)) <=> Undropped(pending, s, 1)
  BY <1>2, <1>5 DEF Undropped
<1>8. (\E i \in 1..n : /\ Inserted(name, s[2], i)
                       /\ \A m \in (i + 1)..n : ~Removed(name, s[2], m)) <=> Wrote(pending, s)
  BY <1>2, <1>5, <1>6 DEF Wrote
<1>9. QED BY <1>4, <1>7, <1>8 DEF Remains

(* What namespaces and dbs answer is what the clients have written, as     *)
(* far as the names can be told apart, however much of the log is flushed  *)
(* and through crashes and starts.                                         *)
THEOREM NamesTold == Spec => []NamesAnswered
<1>1. StreamInv /\ NamesInv => NamespacesAnswer
  <2> DEFINE used == view \cup touched \cup {f[1] : f \in opened}
                       \cup {op.sp : op \in ToSet(pending)}
  <2> SUFFICES ASSUME StreamInv, NamesInv, up, ~torn, thread["mon"].pc = "idle",
                      NEW s \in Space, Stem[s[2]] = s[2],
                      \A r \in used : r[1] = s[1] /\ Stem[r[2]] = s[2] => r = s
               PROVE  /\ s \in view => s[2] \in Namespaces(s[1])
                      /\ s[2] \in Namespaces(s[1]) => s \in view \cup touched
    BY DEF NamespacesAnswer
  <2>1. Types /\ DocumentsListed /\ opened \subseteq File /\ Log = pending
    BY DEF StreamInv, TypeOK, Log
  <2>2. s[2] \in Namespaces(s[1]) <=> \/ Wrote(pending, s)
                                      \/ s[2] \in Stored(s[1]) /\ Undropped(pending, s, 1)
    BY <2>1, NamespaceListed
  <2>3. s \in view <=> Wrote(pending, s) \/ (kept[s] # {} /\ Undropped(pending, s, 1))
    BY <2>1 DEF NamesInv, Viewed
  <2>4. kept[s] # {} => s[2] \in Stored(s[1])
    <3> SUFFICES ASSUME kept[s] # {} PROVE s[2] \in Stored(s[1])
      OBVIOUS
    <3>1. PICK f : f = <<s, "data">>
      OBVIOUS
    <3>2. f \in opened /\ f[1] = s
      BY <2>1, <3>1 DEF DocumentsListed
    <3>3. QED BY <3>2 DEF Stored
  <2>5. ASSUME s[2] \in Stored(s[1]) PROVE s \in touched \/ kept[s] # {}
    <3>1. PICK f \in opened : f[1][1] = s[1] /\ Stem[f[1][2]] = s[2]
      BY <2>5 DEF Stored
    <3>2. f[1] \in used
      OBVIOUS
    <3>3. f[1] = s
      BY <3>1, <3>2
    <3>4. QED BY <3>3 DEF NamesInv, OpenedFor
  <2>6. QED BY <2>2, <2>3, <2>4, <2>5
<1>2. StreamInv /\ NamesInv => DbsAnswer
  <2> SUFFICES ASSUME StreamInv, NamesInv, up, ~torn, thread["mon"].pc = "idle",
                      NEW s \in view,
                      \A op \in ToSet(pending) : ~(op.code = "drop" /\ op.sp[1] = s[1])
               PROVE  s[1] \in Dbs
    BY DEF DbsAnswer
  <2>1. TypeOK /\ Types /\ DocumentsListed /\ Log = pending /\ pending \in Seq(Op)
        /\ s \in Space
    BY DEF StreamInv, Log, Types, NamesInv, Viewed
  <2>2. PICK n \in Nat : n = Len(pending) /\ DOMAIN pending = 1..n
    BY <2>1
  <2>3. PICK name : name = [k \in DOMAIN pending |-> pending[k].sp[1]]
    OBVIOUS
  <2>4. DOMAIN name = 1..n /\ \A k \in 1..n : name[k] = pending[k].sp[1]
    BY <2>2, <2>3
  <2>5. s[1] \in Dbs <=> Remains(known, name, s[1], n)
    <3>1. s[1] \in MergeLog(known, name) <=> Remains(known, name, s[1], Len(pending))
      BY <2>2, MergeIs
    <3>2. QED BY <2>2, <2>3, <3>1 DEF Dbs
  <2>6. ASSUME NEW m \in 1..n PROVE ~Removed(name, s[1], m)
    <3>1. pending[m] \in ToSet(pending)
      BY <2>2 DEF ToSet
    <3>2. QED BY <2>4, <3>1 DEF Removed
  <2>7. CASE Wrote(pending, s)
    <3>1. PICK i \in 1..n : pending[i].code = "insert" /\ pending[i].sp = s
      BY <2>2, <2>7 DEF Wrote
    <3>2. Inserted(name, s[1], i)
      BY <2>4, <3>1 DEF Inserted
    <3>3. \A m \in (i + 1)..n : m \in 1..n
      OBVIOUS
    <3>4. QED BY <2>5, <2>6, <3>2, <3>3 DEF Remains
  <2>8. CASE kept[s] # {}
    <3>1. PICK f : f = <<s, "data">>
      OBVIOUS
    <3>2. f \in opened /\ f[1] = s
      BY <2>1, <2>8, <3>1 DEF DocumentsListed
    <3>3. s[1] \in known
      BY <2>1, <3>2 DEF TypeOK
    <3>4. QED BY <2>5, <2>6, <3>3 DEF Remains
  <2>9. QED BY <2>1, <2>7, <2>8 DEF NamesInv, Viewed
<1>3. StreamInv /\ NamesInv => NamesAnswered
  BY <1>1, <1>2 DEF NamesAnswered
<1>4. QED BY <1>3, NamesInvariance, PTL

=============================================================================
