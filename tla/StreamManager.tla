--------------------------- MODULE StreamManager ---------------------------
(***************************************************************************)
(* The catalog of open streams, _spaces, and its copy on disk, djondb.dat. *)
(* Both threads of the server open streams and no lock guards the catalog: *)
(* the network thread for every find, the monitor thread for every         *)
(* operation that it takes from the log.  What dbs and namespaces answer   *)
(* is the catalog with the operations of the log merged in.                *)
(*                                                                         *)
(* A step of open ends where the other thread can see its work.  Torn      *)
(* updates of the std::maps themselves are not modelled.  A data file is   *)
(* the set of inserts it holds; updates and removes only open it here (see *)
(* DocumentStore).  The catalog fits the buffer of its FILE, so it reaches *)
(* the disk when it is closed.                                             *)
(***************************************************************************)
EXTENDS Integers, FiniteSets, SequencesExt

CONSTANTS
  Space,          \* pairs <<db, ns>>
  Stem,           \* the name up to its last dot, for every name
  None,
  MaxOps,         \* bound: operations ever written
  MaxFinds,       \* bound: finds
  MaxStops,       \* bound: crashes and shutdowns
  MaxFails        \* bound: calls of remove that fail

ASSUME SpaceAssumption == \A s \in Space : s = <<s[1], s[2]>> /\ s[2] \in DOMAIN Stem
ASSUME BoundsAssumption == {MaxOps, MaxFinds, MaxStops, MaxFails} \subseteq Nat

Db == {s[1] : s \in Space}
Ns == DOMAIN Stem
Thread == {"net", "mon"}
Type == {"data", "index"}
File == Space \X Type

VARIABLES
  opened,     \* the streams in _spaces
  known,      \* the dbs that have a map in _spaces
  catalog,    \* djondb.dat
  disk,       \* the files there are
  records,    \* the inserts in the data file of a namespace
  doubled,    \* files with two streams on them
  pending,    \* the log
  thread,     \* where each thread is
  up,         \* the process runs
  ops, finds, stops, fails,
  \* history variables: no action's guard reads them
  kept,       \* inserts applied since the namespace was dropped last
  view,       \* namespaces inserted into and not dropped since
  touched,    \* namespaces opened otherwise: by a find, a change, a start
  dropped,    \* namespaces erased from _spaces since the start
  overlap,    \* the namespace was dropped while the find was at it
  torn,       \* djondb.dat was lost: two saves overlapped or one did not come
  undone,     \* a remove of a file failed
  raced       \* namespaces that both threads opened at the same time

bounds == <<ops, finds, stops, fails>>
hist == <<kept, view, touched, dropped, overlap, torn, undone, raced>>
store == <<opened, known, catalog, disk, records, doubled>>
vars == <<store, pending, thread, up, bounds, hist>>

NoJob == [code |-> "none", sp |-> None, n |-> 0]
Idle == [pc |-> "idle", job |-> NoJob, todo |-> <<>>, fresh |-> FALSE, snap |-> {}]

Init ==
  /\ opened = {} /\ known = {} /\ catalog = {} /\ disk = {}
  /\ records = [s \in Space |-> {}] /\ doubled = {}
  /\ pending = <<>> /\ thread = [t \in Thread |-> Idle] /\ up = TRUE
  /\ ops = 0 /\ finds = 0 /\ stops = 0 /\ fails = 0
  /\ kept = [s \in Space |-> {}] /\ view = {} /\ touched = {} /\ dropped = {}
  /\ overlap = FALSE /\ torn = FALSE /\ undone = FALSE /\ raced = {}

----------------------------------------------------------------------------
(* Requests of the network thread.                                         *)

Write(code, s) ==
  /\ up /\ thread["net"].pc = "idle" /\ ops < MaxOps
  /\ ops' = ops + 1
  /\ pending' = Append(pending, [code |-> code, sp |-> s, n |-> ops + 1])
  /\ view' = CASE code = "insert" -> view \cup {s}
               [] code = "drop"   -> view \ {s}
               [] OTHER           -> view
  /\ touched' = IF code = "change" THEN touched \cup {s} ELSE touched
  /\ UNCHANGED <<store, thread, up, finds, stops, fails, kept, dropped,
                 overlap, torn, undone, raced>>

\* where a thread stands that begins a job which opens these streams
Begin(job, types) == [Idle EXCEPT !.pc = "lookup", !.job = job, !.todo = types]

\* findFullScan opens both streams to be sure of the file
FindTypesIndexOnly == <<"index">>  \* mutant of FindTypes
FindTypes == <<"index", "data">>

Find(s) ==
  /\ up /\ thread["net"].pc = "idle" /\ finds < MaxFinds
  /\ finds' = finds + 1
  /\ thread' = [thread EXCEPT !["net"] =
                  Begin([code |-> "find", sp |-> s, n |-> 0], FindTypes)]
  /\ touched' = touched \cup {s}
  /\ overlap' = (thread["mon"].pc = "erase" /\ thread["mon"].job.sp = s)
  /\ UNCHANGED <<store, pending, up, ops, stops, fails, kept, view, dropped,
                 torn, undone, raced>>

----------------------------------------------------------------------------
(* The monitor takes the next operation of the log.                        *)

Take ==
  /\ up /\ thread["mon"].pc = "idle" /\ pending # <<>>
  /\ LET op == Head(pending)
         types == IF op.code = "drop" THEN <<"data", "index">> ELSE <<"data">>
     IN  thread' = [thread EXCEPT !["mon"] = Begin(op, types)]
  /\ pending' = Tail(pending)
  /\ UNCHANGED <<store, up, bounds, hist>>

----------------------------------------------------------------------------
(* StreamManager::open, for either thread.                                 *)

Wanted(t) == <<thread[t].job.sp, Head(thread[t].todo)>>

\* the thread goes on to the next stream, or to its work
Advance(t) ==
  LET rest == Tail(thread[t].todo)
  IN  [thread EXCEPT ![t].todo = rest, ![t].snap = {}, ![t].fresh = FALSE,
                     ![t].pc = IF rest = <<>> THEN "work" ELSE "lookup"]

\* Mutant of Lookup: the file is always created.
LookupTruncates(t) ==
  /\ up /\ thread[t].pc = "lookup"
  /\ known' = known \cup {Wanted(t)[1][1]}
  /\ thread' = IF Wanted(t) \in opened THEN Advance(t)
               ELSE [thread EXCEPT ![t].pc = "create", ![t].fresh = TRUE]
  /\ UNCHANGED <<opened, catalog, disk, records, doubled, pending, up, bounds,
                 hist>>

\* Finds the stream, or chooses between "rb+" and "wb+".
Lookup(t) ==
  /\ up /\ thread[t].pc = "lookup"
  /\ known' = known \cup {Wanted(t)[1][1]}
  /\ thread' = IF Wanted(t) \in opened THEN Advance(t)
               ELSE [thread EXCEPT ![t].pc = "create",
                                   ![t].fresh = Wanted(t) \notin disk]
  /\ UNCHANGED <<opened, catalog, disk, records, doubled, pending, up, bounds,
                 hist>>

\* What is left when the process ends: files and log.  The operation that the
\* monitor was at is still in the log and comes first after the start.
Die ==
  /\ up' = FALSE
  /\ opened' = {} /\ known' = {} /\ doubled' = {}
  /\ thread' = [t \in Thread |-> Idle]
  /\ pending' = IF thread["mon"].pc = "idle" THEN pending
                ELSE <<thread["mon"].job>> \o pending

\* a stream is not saved yet, or the catalog is empty, when the process ends
CutOff == torn \/ \E t \in Thread : thread[t].pc \in {"save", "close"}

\* fopen, and the stream goes into _spaces: "wb+" empties the file; "rb+" of a
\* file that was removed meanwhile gives NULL, which setvbuf does not survive.
\* insert does nothing when the other thread has put a stream there.
Create(t) ==
  /\ up /\ thread[t].pc = "create"
  /\ LET f == Wanted(t)
         emptied == thread[t].fresh /\ f[2] = "data"
     IN  IF thread[t].fresh \/ f \in disk
         THEN /\ disk' = disk \cup {f}
              /\ records' = IF emptied THEN [records EXCEPT ![f[1]] = {}]
                            ELSE records
              /\ opened' = opened \cup {f}
              /\ doubled' = IF f \in opened THEN doubled \cup {f} ELSE doubled
              /\ raced' = IF f \in opened /\ f[2] = "data"
                          THEN raced \cup {f[1]} ELSE raced
              /\ thread' = [thread EXCEPT ![t].pc = "save"]
              /\ UNCHANGED <<known, pending, up, torn>>
         ELSE Die /\ torn' = CutOff /\ UNCHANGED <<disk, records, raced>>
  /\ UNCHANGED <<catalog, bounds, kept, view, touched, dropped, overlap, undone>>

\* Mutant of Save: only the namespace of the new stream is written.
SaveOne(t) ==
  /\ up /\ thread[t].pc = "save"
  /\ catalog' = {}
  /\ thread' = [thread EXCEPT ![t].pc = "close",
                              ![t].snap = {f \in opened : f[1] = Wanted(t)[1]}]
  /\ UNCHANGED <<opened, known, disk, records, doubled, pending, up, bounds, hist>>

\* saveDatabases empties djondb.dat and writes what _spaces has ...
Save(t) ==
  /\ up /\ thread[t].pc = "save"
  /\ catalog' = {}
  /\ thread' = [thread EXCEPT ![t].pc = "close", ![t].snap = opened]
  /\ UNCHANGED <<opened, known, disk, records, doubled, pending, up, bounds, hist>>

\* ... and closes it.  When the other thread has written a longer catalog since
\* the file was emptied, its tail stays behind ours and is read as anything.
Close(t) ==
  /\ up /\ thread[t].pc = "close"
  /\ catalog' \in IF catalog \subseteq thread[t].snap THEN {thread[t].snap}
                  ELSE SUBSET (catalog \cup thread[t].snap)
  /\ torn' = (torn \/ ~(catalog \subseteq thread[t].snap))
  /\ thread' = Advance(t)
  /\ UNCHANGED <<opened, known, disk, records, doubled, pending, up, bounds,
                 kept, view, touched, dropped, overlap, undone, raced>>

----------------------------------------------------------------------------
(* What the streams were opened for.                                       *)

At(t, code) == up /\ thread[t].pc = "work" /\ thread[t].job.code = code
SpaceOf(t) == thread[t].job.sp
Finish(t) == thread' = [thread EXCEPT ![t] = Idle]

\* The scan maps the file by its name and reads through NULL if it is gone.
Scan ==
  /\ At("net", "find")
  /\ IF <<SpaceOf("net"), "data">> \in disk
     THEN Finish("net") /\ UNCHANGED <<opened, known, doubled, pending, up, torn>>
     ELSE Die /\ torn' = CutOff
  /\ UNCHANGED <<catalog, disk, records, bounds, kept, view, touched, dropped,
                 overlap, undone, raced>>

\* DBController::insert.  Two streams on one file write each at its own
\* position, one over what the other has written.
ApplyInsert ==
  /\ At("mon", "insert")
  /\ LET s == SpaceOf("mon")
         n == thread["mon"].job.n
     IN  /\ \E old \in IF <<s, "data">> \in doubled THEN SUBSET records[s]
                       ELSE {records[s]} :
              records' = [records EXCEPT ![s] = old \cup {n}]
         /\ kept' = [kept EXCEPT ![s] = @ \cup {n}]
  /\ Finish("mon")
  /\ UNCHANGED <<opened, known, catalog, disk, doubled, pending, up, bounds,
                 view, touched, dropped, overlap, torn, undone, raced>>

\* DBController::update and remove
ApplyChange ==
  /\ At("mon", "change")
  /\ Finish("mon")
  /\ UNCHANGED <<store, pending, up, bounds, hist>>

\* dropNamespace removes the files in the order of their types until one
\* remove fails ...
DropFiles ==
  /\ At("mon", "drop")
  /\ LET s == SpaceOf("mon")
     IN  \E gone \in {{"data", "index"}, {"data"}, {}} :
           /\ gone # Type => fails < MaxFails
           /\ fails' = IF gone = Type THEN fails ELSE fails + 1
           /\ undone' = (undone \/ gone # Type)
           /\ disk' = disk \ ({s} \X gone)
           /\ records' = IF "data" \in gone THEN [records EXCEPT ![s] = {}]
                         ELSE records
           /\ kept' = [kept EXCEPT ![s] = {}]
           /\ overlap' = (overlap \/ SpaceOf("net") = s)
  /\ thread' = [thread EXCEPT !["mon"].pc = "erase"]
  /\ UNCHANGED <<opened, known, catalog, doubled, pending, up, ops, finds, stops,
                 view, touched, dropped, torn, raced>>

\* ... and erases the namespace from _spaces, which is not saved.
DropErase ==
  /\ up /\ thread["mon"].pc = "erase"
  /\ opened' = {f \in opened : f[1] # SpaceOf("mon")}
  /\ doubled' = {f \in doubled : f[1] # SpaceOf("mon")}
  /\ dropped' = dropped \cup {SpaceOf("mon")}
  /\ Finish("mon")
  /\ UNCHANGED <<known, catalog, disk, records, pending, up, bounds,
                 kept, view, touched, overlap, torn, undone, raced>>

----------------------------------------------------------------------------
(* The end of the process and its next start.                              *)

Crash ==
  /\ up /\ stops < MaxStops
  /\ stops' = stops + 1
  /\ Die
  /\ torn' = CutOff
  /\ UNCHANGED <<catalog, disk, records, ops, finds, fails, kept, view, touched,
                 dropped, overlap, undone, raced>>

\* closeDatabases, after both threads have ended
Shutdown ==
  /\ up /\ stops < MaxStops /\ \A t \in Thread : thread[t].pc = "idle"
  /\ stops' = stops + 1
  /\ Die
  /\ catalog' = opened
  /\ UNCHANGED <<disk, records, ops, finds, fails, kept, view, touched, dropped,
                 overlap, torn, undone, raced>>

\* DBController::initialize opens what djondb.dat names, the data file of every
\* index file too, and creates files that are not there.  Nothing is saved.
Start ==
  /\ ~up
  /\ up' = TRUE
  /\ opened' = catalog \cup {<<f[1], "data">> : f \in catalog}
  /\ known' = {f[1][1] : f \in catalog}
  /\ disk' = disk \cup opened'
  /\ touched' = touched \cup {f[1] : f \in catalog}
  /\ dropped' = {}
  /\ UNCHANGED <<catalog, records, doubled, pending, thread, bounds, kept, view,
                 overlap, torn, undone, raced>>

----------------------------------------------------------------------------
(* BaseTransaction::dbs and namespaces: the catalog and then the log.      *)

\* Operation k of the log merged into an answer: what it inserts or drops is
\* name[k]; operations without a name are of another db.
MergeOne(r, k, name) ==
  CASE k \in DOMAIN name /\ pending[k].code = "insert" -> r \cup {name[k]}
    [] k \in DOMAIN name /\ pending[k].code = "drop"   -> r \ {name[k]}
    [] OTHER                                           -> r

MergeLog(base, name) ==
  LET merged[k \in 0..Len(pending)] ==
        IF k = 0 THEN base ELSE MergeOne(merged[k - 1], k, name)
  IN  merged[Len(pending)]

\* Mutant of Dbs: without the operations of the log.
DbsStored == known

Dbs == MergeLog(known, [k \in DOMAIN pending |-> pending[k].sp[1]])

Stored(db) == {Stem[f[1][2]] : f \in {g \in opened : g[1][1] = db}}

Namespaces(db) ==
  MergeLog(Stored(db),
           [k \in {i \in DOMAIN pending : pending[i].sp[1] = db} |-> pending[k].sp[2]])

----------------------------------------------------------------------------
Next ==
  \/ \E s \in Space : \/ Write("insert", s) \/ Write("change", s)
                      \/ Write("drop", s) \/ Find(s)
  \/ Take
  \/ \E t \in Thread : \/ Lookup(t) \/ Create(t) \/ Save(t) \/ Close(t)
  \/ Scan \/ ApplyInsert \/ ApplyChange \/ DropFiles \/ DropErase
  \/ Crash \/ Shutdown \/ Start

Spec == Init /\ [][Next]_vars

----------------------------------------------------------------------------
(* Properties.                                                             *)

\* A thread has a job exactly when it is not idle, streams to open exactly
\* while it is in open; a stopped process has no streams.
TypeOK ==
  /\ opened \subseteq File /\ catalog \subseteq File /\ disk \subseteq File
  /\ doubled \subseteq File /\ known \subseteq Db
  /\ records \in [Space -> SUBSET (1..MaxOps)]
  /\ \A t \in Thread :
       /\ thread[t].pc \in {"idle", "lookup", "create", "save", "close", "work",
                            "erase"}
       /\ (thread[t].pc = "idle") <=> (thread[t].job = NoJob)
       /\ (thread[t].todo = <<>>) <=> (thread[t].pc \in {"idle", "work", "erase"})
       /\ thread[t].snap \subseteq File
  /\ ~up => opened = {} /\ known = {} /\ \A t \in Thread : thread[t] = Idle
  /\ {f[1][1] : f \in opened} \subseteq known

\* No document is lost between open and the data file: unless the two threads
\* open one namespace at the same time, the file has every insert applied since
\* the last drop, through crashes and starts, and more only where a remove
\* failed.  (open, existFile and "wb+"; dropNamespace)
RecordsKept ==
  \A s \in Space \ raced :
    /\ kept[s] \subseteq records[s]
    /\ ~undone => records[s] = kept[s]

\* djondb.dat names every open stream, and beyond them only namespaces that
\* were dropped since the start.  (saveDatabases at the end of open)
CatalogIsOpen ==
  up /\ ~torn /\ (\A t \in Thread : thread[t].pc \notin {"save", "close"}) =>
    /\ opened \subseteq catalog \cup {<<f[1], "data">> : f \in catalog}
    /\ \A f \in catalog \ opened : f[1] \in dropped

\* A namespace with documents is open, and so listed, after every start,
\* unless djondb.dat was torn.  (closeDatabases, initialize)
DocumentsListed ==
  up /\ ~torn => \A s \in Space : kept[s] # {} => <<s, "data">> \in opened

\* The streams of the process and djondb.dat tell the same story.
CatalogSound == TypeOK /\ CatalogIsOpen /\ DocumentsListed

\* However much of the log is flushed, namespaces lists what was inserted into
\* and not dropped since, and beyond it only what some other request or a start
\* opened; as long as no two names of the db have one stem.
\* (BaseTransaction::namespaces, StreamManager::namespaces)
NamespacesAnswer ==
  up /\ ~torn /\ thread["mon"].pc = "idle" =>
    \A s \in Space :
      LET used == view \cup touched \cup {f[1] : f \in opened}
                    \cup {op.sp : op \in ToSet(pending)}
      IN  (/\ Stem[s[2]] = s[2]
           /\ \A r \in used : r[1] = s[1] /\ Stem[r[2]] = s[2] => r = s)
            => /\ s \in view => s[2] \in Namespaces(s[1])
               /\ s[2] \in Namespaces(s[1]) => s \in view \cup touched

\* dbs lists every db with a namespace that was inserted into and not dropped,
\* unless the drop of another namespace of that db is in the log: it hides the
\* whole db until it is flushed.  (BaseTransaction::dbs)
DbsAnswer ==
  up /\ ~torn /\ thread["mon"].pc = "idle" =>
    \A s \in view : \/ s[1] \in Dbs
                    \/ \E op \in ToSet(pending) : op.code = "drop" /\ op.sp[1] = s[1]

\* What a client is told of names while part of its work is in the log.
NamesAnswered == NamespacesAnswer /\ DbsAnswer

\* The file that a find has opened is there when it is mapped, unless its
\* namespace was dropped under the find.  (findFullScan, dropNamespace)
ScanFindsFile ==
  At("net", "find") /\ ~overlap =>
    <<SpaceOf("net"), "data">> \in disk

----------------------------------------------------------------------------
(* What the properties rest on.                                            *)

Op == [code : {"insert", "change", "drop"}, sp : Space, n : 1..MaxOps]
Lookups == [code : {"find"}, sp : Space, n : {0}]
Opening == {"lookup", "create", "save", "close"}
ToOpen == {<<>>, <<"data">>, <<"index">>, <<"data", "index">>, <<"index", "data">>}
Place == [pc : Opening \cup {"idle", "work", "erase"}, job : Op \cup Lookups \cup {NoJob},
          todo : ToOpen, fresh : BOOLEAN, snap : SUBSET File]

\* Where the threads can be: the network thread at a find, the monitor at an
\* operation of the log; the data stream is the first that the monitor opens
\* and the last of a find.
NetStands(p) ==
  \/ p = Idle
  \/ /\ p.job \in Lookups
     /\ \/ p.pc \in Opening /\ p.todo \in {<<"index", "data">>, <<"data">>}
        \/ p.pc = "work" /\ p.todo = <<>>
MonStands(p) ==
  \/ p = Idle
  \/ /\ p.job \in Op
     /\ \/ p.pc \in Opening /\ p.todo \in {<<"data", "index">>, <<"data">>, <<"index">>}
        \/ p.pc \in {"work", "erase"} /\ p.todo = <<>>
Stands ==
  thread \in [Thread -> Place] /\ NetStands(thread["net"]) /\ MonStands(thread["mon"])

Types ==
  /\ pending \in Seq(Op) /\ ops \in 0..MaxOps
  /\ kept \in [Space -> SUBSET (1..MaxOps)]
  /\ up \in BOOLEAN
  /\ \A t \in Thread : thread[t].pc = "create" => thread[t].job.sp[1] \in known

Erases(s) == thread["mon"].pc = "erase" /\ thread["mon"].job.sp = s

\* Thread t, at place p, is through with the data stream of its namespace.
HasData(t, p) ==
  \/ p.pc = "work"
  \/ p.pc \in {"save", "close"} /\ p.todo[1] = "data"
  \/ t = "mon" /\ p.todo = <<"index">>

\* An open stream has its file until the monitor has removed it, and the
\* stream that the monitor works on stays open.
FilesThere ==
  /\ \A f \in opened : f \in disk \/ Erases(f[1])
  /\ HasData("mon", thread["mon"]) => <<SpaceOf("mon"), "data">> \in opened
  /\ HasData("net", thread["net"]) /\ ~overlap => <<SpaceOf("net"), "data">> \in disk
  /\ thread["net"].pc # "idle" /\ Erases(SpaceOf("net")) => overlap

\* Where documents are there is a file, and a thread that creates it anew
\* found none and no document has come since, or is in a race.
NothingToLose ==
  /\ \A s \in Space : kept[s] # {} => <<s, "data">> \in disk
  /\ \A s \in Space : Erases(s) => kept[s] = {}
  /\ \A s \in Space : <<s, "data">> \in doubled => s \in raced
  /\ \A t \in Thread :
       thread[t].pc = "create" /\ thread[t].fresh /\ thread[t].todo[1] = "data"
         => \/ <<SpaceOf(t), "data">> \in opened
            \/ kept[SpaceOf(t)] = {}

\* What initialize opens from a catalog.
Named(c) == c \cup {<<f[1], "data">> : f \in c}

\* The catalog, or one that a thread has still to close, names every open
\* stream once all are saved; none names more than was open since the start.
Saved ==
  /\ up /\ ~torn =>
       /\ \A f \in catalog \ opened : f[1] \in dropped
       /\ \A t \in Thread : thread[t].pc = "close" =>
            \A f \in thread[t].snap \ opened : f[1] \in dropped
       /\ \/ \E t \in Thread : thread[t].pc = "save"
          \/ opened \subseteq Named(catalog)
          \/ \E t \in Thread :
               thread[t].pc = "close" /\ opened \subseteq Named(thread[t].snap)
  /\ ~up /\ ~torn => \A s \in Space : kept[s] # {} => <<s, "data">> \in Named(catalog)

\* Inductive; the catalog and the records are sound where it holds.
StreamInv ==
  TypeOK /\ Stands /\ Types /\ FilesThere /\ NothingToLose /\ RecordsKept /\ Saved
    /\ DocumentsListed

----------------------------------------------------------------------------
(* What the answers about names rest on.                                   *)

\* The log with the operation that the monitor is at, as a crash leaves it
Log == IF thread["mon"].pc = "idle" THEN pending
       ELSE <<thread["mon"].job>> \o pending

Drops(op, s) == op.code = "drop" /\ op.sp = s
Undropped(log, s, i) == \A m \in i..Len(log) : ~Drops(log[m], s)
Wrote(log, s) ==
  \E i \in 1..Len(log) :
    log[i].code = "insert" /\ log[i].sp = s /\ Undropped(log, s, i + 1)

\* A client sees what the log inserts and what was applied, unless the log
\* drops it.
Viewed ==
  /\ view \subseteq Space
  /\ \A s \in Space :
       s \in view <=> Wrote(Log, s) \/ (kept[s] # {} /\ Undropped(Log, s, 1))

\* A stream is open for a find, a change or a start, for a document, or for
\* the monitor's operation.
OpenedFor ==
  \A f \in opened : \/ f[1] \in touched \/ kept[f[1]] # {}
                    \/ thread["mon"].pc # "idle" /\ SpaceOf("mon") = f[1]

Noted ==
  /\ thread["net"].pc # "idle" => SpaceOf("net") \in touched
  /\ \A i \in 1..Len(Log) : Log[i].code = "change" => Log[i].sp \in touched
  /\ thread["mon"].pc = "erase" => thread["mon"].job.code = "drop"

\* Inductive together with StreamInv
NamesInv == Viewed /\ OpenedFor /\ Noted

=============================================================================
