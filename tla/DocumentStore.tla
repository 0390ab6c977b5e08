--------------------------- MODULE DocumentStore ---------------------------
(***************************************************************************)
(* One namespace: the data file and the index that DBController keeps, the *)
(* operations of the write-ahead log that have not reached it, and the     *)
(* answer of BaseTransaction::find, which merges the two.                  *)
(*                                                                         *)
(* The log is a queue here (TxLog); a flush applies its head.  The index   *)
(* is the list of its entries in the order they were added: of two entries *)
(* with one key the older is found.  A record takes RecLen units of the    *)
(* data file and the version mark at its start takes Header, which is less *)
(* than any record, so a shift by the mark never leads from one record to  *)
(* another.  A read that does not start at a record gives garbage; of what *)
(* the server does then nothing is said.                                   *)
(***************************************************************************)
EXTENDS Integers, SequencesExt

CONSTANTS
  Id, Val, Rev,   \* _id, the fields a filter looks at, _revision
  None,           \* no document, no value, no revision
  MaxOps,         \* bound: operations ever written
  MaxRestarts     \* bound: restarts of the server

ASSUME NoneAssumption ==
  /\ None \notin Id /\ None \notin Val /\ None \notin Rev
  /\ None \notin [id : Id, val : Val, rev : Rev \cup {None}]
ASSUME BoundsAssumption == MaxOps \in Nat /\ MaxRestarts \in Nat

Header == 1
RecLen == 2
Active == 1
Deleted == 2
Updated == 3

Doc == [id : Id, val : Val, rev : Rev]

VARIABLES
  data,      \* the records of the data file
  exists,    \* the data file exists
  catalog,   \* djondb.dat names the namespace
  isOpen,    \* StreamManager has the stream open
  offset,    \* _versionOffset of the open stream
  index,     \* the entries of the index
  pending,   \* operations in the log
  down,      \* the server used a NULL index entry or read garbage
  ops, restarts,
  \* history variables: no action's guard reads them
  live,      \* the documents a client believes in, oldest change first
  known,     \* ids inserted since the last drop
  used,      \* ids inserted ever
  regular,   \* updates were of known ids, inserts of ids not in the store
  reused,    \* an id was inserted again, or removed after its namespace
  wrongRev,  \* a remove named another revision than the document had
  shifted    \* the index led to another place than it was told

fileVars == <<data, exists, catalog, isOpen, offset, index>>
histVars == <<live, known, used, regular, reused, wrongRev, shifted>>
vars == <<fileVars, pending, down, ops, restarts, histVars>>

Init ==
  /\ data = <<>> /\ exists = FALSE /\ catalog = FALSE
  /\ isOpen = FALSE /\ offset = 0 /\ index = <<>>
  /\ pending = <<>> /\ down = FALSE /\ ops = 0 /\ restarts = 0
  /\ live = <<>> /\ known = {} /\ used = {}
  /\ regular = TRUE /\ reused = FALSE /\ wrongRev = FALSE /\ shifted = FALSE

----------------------------------------------------------------------------
(* LinkedMap: documents in the order of their last add.                    *)

\* The items of s at the places I, in their order
Picked(s, I) ==
  LET picked[k \in 0..Len(s)] ==
        IF k = 0 THEN <<>>
        ELSE IF k \in I THEN Append(picked[k - 1], s[k]) ELSE picked[k - 1]
  IN  picked[Len(s)]

\* a key is in the map once
Erase(m, id) == Picked(m, {i \in DOMAIN m : m[i].id # id})

Add(m, d) == Append(Erase(m, d.id), d)

----------------------------------------------------------------------------
(* Positions in the data file.                                             *)

Place(k) == Header + RecLen * (k - 1)
EndOfFile == Place(Len(data) + 1)

\* the record that starts at a place of the file, 0 if none does
RecordAt(raw) ==
  LET ks == {k \in DOMAIN data : Place(k) = raw}
  IN  IF ks = {} THEN 0 ELSE CHOOSE k \in ks : TRUE

\* BPlusIndexP::find: position of the entry, 0 for NULL
Entry(id) ==
  LET is == {i \in DOMAIN index : index[i].id = id}
  IN  IF is = {} THEN 0 ELSE CHOOSE i \in is : \A j \in is : i <= j

\* StreamManager::open: a stream on a new file counts from its first byte,
\* one on a file that was there from behind the version mark.
OpenOffset == IF isOpen THEN offset ELSE IF exists THEN Header ELSE 0
OpenStream ==
  /\ exists' = TRUE /\ catalog' = TRUE /\ isOpen' = TRUE
  /\ offset' = OpenOffset

----------------------------------------------------------------------------
(* Requests: the network thread appends to the log.                        *)

Write(op) ==
  /\ ~down /\ ops < MaxOps
  /\ ops' = ops + 1
  /\ pending' = Append(pending, op)
  /\ UNCHANGED <<fileVars, down, restarts, shifted>>

Insert(d) ==
  /\ Write([code |-> "insert", id |-> d.id, val |-> d.val, rev |-> d.rev])
  /\ live' = Add(live, d)
  /\ known' = known \cup {d.id} /\ used' = used \cup {d.id}
  /\ regular' = (regular /\ \A i \in DOMAIN live : live[i].id # d.id)
  /\ reused' = (reused \/ d.id \in used)
  /\ UNCHANGED wrongRev

Update(d) ==
  /\ Write([code |-> "update", id |-> d.id, val |-> d.val, rev |-> d.rev])
  /\ live' = Add(live, d)
  /\ regular' = (regular /\ d.id \in known)
  /\ UNCHANGED <<known, used, reused, wrongRev>>

RemoveDoc(id, rev) ==
  /\ Write([code |-> "remove", id |-> id, val |-> None, rev |-> rev])
  /\ live' = Erase(live, id)
  /\ wrongRev' = (wrongRev \/ \E i \in DOMAIN live :
                                live[i].id = id /\ live[i].rev # rev)
  /\ reused' = (reused \/ id \in used \ known)
  /\ UNCHANGED <<known, used, regular>>

DropNamespace ==
  /\ Write([code |-> "drop", id |-> None, val |-> None, rev |-> None])
  /\ live' = <<>> /\ known' = {}
  /\ UNCHANGED <<used, regular, reused, wrongRev>>

\* A find makes sure that the stream is open before it scans the file; its
\* answer is Find below.
FindOpens ==
  /\ ~down
  /\ OpenStream
  /\ UNCHANGED <<data, index, pending, down, ops, restarts, histVars>>

----------------------------------------------------------------------------
(* The monitor thread: DBController's operations.                          *)

Taken(code) ==
  /\ ~down /\ pending # <<>> /\ Head(pending).code = code
  /\ pending' = Tail(pending)
  /\ UNCHANGED <<ops, restarts, live, known, used, regular, reused, wrongRev>>

Record(op) ==
  [id |-> op.id, val |-> op.val, rev |-> op.rev, status |-> Active]

FlushInsert ==
  /\ Taken("insert")
  /\ OpenStream
  /\ LET op == Head(pending) IN
       /\ index' = Append(index, [id  |-> op.id,
                                  pos |-> EndOfFile - OpenOffset,
                                  raw |-> EndOfFile])
       /\ data' = Append(data, Record(op))
  /\ UNCHANGED <<down, shifted>>

\* Mutant: the previous version stays active
MarkedNot(k, status) == data

\* the record is read, gets a new status and is written back to its place
Marked(k, status) == [data EXCEPT ![k].status = status]

\* Mutant: the entry keeps the place of the previous version
MovedNot(e) == index

\* BPlusIndexP::update
Moved(e) == [index EXCEPT ![e].pos = EndOfFile - OpenOffset, ![e].raw = EndOfFile]

FlushUpdate ==
  /\ Taken("update")
  /\ OpenStream
  /\ LET op == Head(pending)
         e  == Entry(op.id)
         k  == RecordAt(OpenOffset + index[e].pos)
     IN  \/ /\ e = 0
            /\ down' = TRUE /\ UNCHANGED <<data, index, shifted>>
         \/ /\ e # 0
            /\ shifted' = (shifted \/ OpenOffset + index[e].pos # index[e].raw)
            /\ IF k = 0
               THEN down' = TRUE /\ UNCHANGED <<data, index>>
               ELSE /\ data' = Append(Marked(k, Updated), Record(op))
                    /\ index' = Moved(e)
                    /\ UNCHANGED down

FlushRemove ==
  /\ Taken("remove")
  /\ OpenStream
  /\ LET e == Entry(Head(pending).id)
         k == RecordAt(OpenOffset + index[e].pos)
     IN  \/ e = 0 /\ UNCHANGED <<data, down, shifted>>
         \/ /\ e # 0
            /\ shifted' = (shifted \/ OpenOffset + index[e].pos # index[e].raw)
            /\ IF k = 0
               THEN down' = TRUE /\ UNCHANGED data
               ELSE data' = Marked(k, Deleted) /\ UNCHANGED down
  /\ UNCHANGED index

\* StreamManager::dropNamespace: opens the stream, which saves the catalog,
\* removes the file and forgets the stream.  The index stays.
FlushDrop ==
  /\ Taken("drop")
  /\ exists' = FALSE /\ isOpen' = FALSE /\ catalog' = TRUE
  /\ data' = <<>>
  /\ UNCHANGED <<offset, index, down, shifted>>

\* DBController::initialize opens what the catalog names; the index is read
\* from its own file and the log is loaded again.
Restart ==
  /\ ~down /\ restarts < MaxRestarts
  /\ restarts' = restarts + 1
  /\ isOpen' = catalog /\ exists' = (exists \/ catalog)
  /\ offset' = IF exists THEN Header ELSE 0
  /\ UNCHANGED <<data, catalog, index, pending, down, ops, histVars>>

Next ==
  \/ \E d \in Doc : Insert(d) \/ Update(d)
  \/ \E id \in Id, rev \in Rev : RemoveDoc(id, rev)
  \/ DropNamespace \/ FindOpens
  \/ FlushInsert \/ FlushUpdate \/ FlushRemove \/ FlushDrop \/ Restart

Spec == Init /\ [][Next]_vars

----------------------------------------------------------------------------
(* Finds.  A filter is the set of values it accepts.                       *)

DocOf(r) == [id |-> r.id, val |-> r.val, rev |-> r.rev]

FirstOf(s, n) == SubSeq(s, 1, IF n < Len(s) THEN n ELSE Len(s))

\* the active records that match, as documents
Scanned(records, filter) ==
  LET hits == Picked(records, {k \in DOMAIN records : /\ records[k].status = Active
                                                     /\ records[k].val \in filter})
  IN  [i \in DOMAIN hits |-> DocOf(hits[i])]

\* DBController::findFullScan for select "*", which stops at the limit
FullScan(filter, limit) == FirstOf(Scanned(data, filter), limit)

\* the map that find fills with them: the last document of each id
Loaded(docs) ==
  Picked(docs, {i \in DOMAIN docs :
                  \A j \in DOMAIN docs : i < j => docs[j].id # docs[i].id})

\* A document of the log enters the map with the fields of the select only,
\* which is for "all" or lists "fields" other than _revision.
Selected(op, select) == [DocOf(op) EXCEPT !.rev = IF select = "all" THEN @ ELSE None]

\* getString("_revision") of a document without the field: nobody catches
\* the exception.
Failure == <<None>>

\* Mutant: an update that no longer matches leaves the document in the answer
MergedNoErase(m, op, filter, select) ==
  IF m = Failure THEN m
  ELSE CASE op.code \in {"insert", "update"} ->
         IF op.val \in filter THEN Add(m, Selected(op, select)) ELSE m
    [] op.code = "remove" ->
         IF \E i \in DOMAIN m : m[i].id = op.id /\ m[i].rev = None THEN Failure
         ELSE IF \E i \in DOMAIN m : m[i].id = op.id /\ m[i].rev = op.rev
              THEN Erase(m, op.id) ELSE m
    [] op.code = "drop" -> <<>>

\* Mutant: an updated document is listed again
MergedInPlace(m, op, filter, select) ==
  IF m = Failure THEN m
  ELSE CASE op.code \in {"insert", "update"} ->
         IF op.val \in filter THEN Append(m, Selected(op, select)) ELSE Erase(m, op.id)
    [] op.code = "remove" -> Erase(m, op.id)
    [] op.code = "drop" -> <<>>

\* one operation of the log in BaseTransaction::find
Merged(m, op, filter, select) ==
  IF m = Failure THEN m
  ELSE CASE op.code = "insert" ->
         IF op.val \in filter THEN Add(m, Selected(op, select)) ELSE m
    [] op.code = "update" ->
         IF op.val \in filter THEN Add(m, Selected(op, select)) ELSE Erase(m, op.id)
    [] op.code = "remove" ->
         IF \E i \in DOMAIN m : m[i].id = op.id /\ m[i].rev = None THEN Failure
         ELSE IF \E i \in DOMAIN m : m[i].id = op.id /\ m[i].rev = op.rev
              THEN Erase(m, op.id) ELSE m
    [] op.code = "drop" -> <<>>

\* what is in the map after each operation of the log
WithLog(base, log, filter, select) ==
  LET merged[k \in 0..Len(log)] ==
        IF k = 0 THEN base ELSE Merged(merged[k - 1], log[k], filter, select)
  IN  merged

\* Mutant: the answer is cut when it has more than the limit
LimitedLate(m, limit) == FirstOf(m, limit + 1)

\* The answer is cut once it has as many documents as the limit, and the
\* first is always in it.
Limited(m, limit) == FirstOf(m, IF limit = 0 THEN 1 ELSE limit)

FindSelected(filter, limit, select) ==
  Limited(WithLog(Loaded(FullScan(filter, limit)), pending, filter, select)[Len(pending)], limit)

\* a find for select "*" without a limit
Find(filter) == FindSelected(filter, MaxOps, "all")

\* DBController::find when the filter names _id only: the place of every entry
\* found, to which DBFileInputStream adds the version mark
IndexFind(ids) ==
  {[entry |-> e, record |-> RecordAt(Header + e.pos)] : e \in {i \in ToSet(index) : i.id \in ids}}

----------------------------------------------------------------------------
RecordType == [id : Id, val : Val, rev : Rev,
               status : {Active, Deleted, Updated}]

(* Every variable holds a value of its type.                               *)
TypeOK ==
  /\ data \in Seq(RecordType)
  /\ exists \in BOOLEAN /\ catalog \in BOOLEAN /\ isOpen \in BOOLEAN
  /\ offset \in {0, Header}
  /\ index \in Seq([id : Id, pos : Nat, raw : Nat])
  /\ pending \in Seq([code : {"insert", "update", "remove", "drop"},
                      id : Id \cup {None}, val : Val \cup {None},
                      rev : Rev \cup {None}])
  /\ down \in BOOLEAN /\ ops \in 0..MaxOps /\ restarts \in 0..MaxRestarts
  /\ live \in Seq(Doc) /\ known \subseteq Id /\ used \subseteq Id
  /\ regular \in BOOLEAN /\ reused \in BOOLEAN /\ wrongRev \in BOOLEAN
  /\ shifted \in BOOLEAN

Matching(docs, filter) == Picked(docs, {i \in DOMAIN docs : docs[i].val \in filter})
Current(filter) == Matching(live, filter)
Answers == \A filter \in SUBSET Val : Find(filter) = Current(filter)

(* A find gives, for every filter, the matching documents as the client    *)
(* left them, in the order of their last change, however much of the log   *)
(* has been flushed and whenever the server was restarted: the merge of    *)
(* BaseTransaction::find and the records DBController leaves agree on what *)
(* insert, update, remove and dropNamespace mean.  Ids are inserted once,  *)
(* updates are of inserted ids, removes name the revision, and the index   *)
(* leads where it was told.                                                *)
FindIsCurrent == regular /\ ~reused /\ ~wrongRev /\ ~shifted => Answers

(* Under the same conditions no document has two active records, and the   *)
(* server does not meet an update of a document that it cannot find.       *)
OneActiveRecord ==
  regular /\ ~reused /\ ~shifted =>
    /\ ~down
    /\ \A j, k \in DOMAIN data :
         data[j].id = data[k].id /\ data[j].status = Active
           /\ data[k].status = Active => j = k

(* Under the same conditions the index leads from the id of every document *)
(* to the place of its active record, through any sequence of updates,     *)
(* drops and restarts: the entry that insertIndex makes before the record  *)
(* is written, and that updateIndex moves, says where writeBSON then puts  *)
(* the record.                                                             *)
IndexLeadsToActive ==
  regular /\ ~reused /\ ~shifted =>
    \A k \in DOMAIN data : data[k].status = Active =>
      LET e == Entry(data[k].id) IN e # 0 /\ index[e].raw = Place(k)

(* What DBController keeps of the data file and its index, whatever is     *)
(* flushed and whenever the server restarts.                               *)
StoreSound == TypeOK /\ OneActiveRecord /\ IndexLeadsToActive

(* With a limit a find gives current documents only, and no more than the  *)
(* limit, or one for the limit 0.  While the log holds nothing but inserts *)
(* they are the first ones; with a remove or an update in it there may be  *)
(* fewer than match, since the controller has stopped at the limit before  *)
(* the log is merged in.                                                   *)
LimitedFind ==
  regular /\ ~reused /\ ~wrongRev /\ ~shifted =>
    \A filter \in SUBSET Val, limit \in 0..2 :
      LET answer == FindSelected(filter, limit, "all")
      IN  /\ ToSet(answer) \subseteq ToSet(Current(filter))
          /\ Len(answer) <= IF limit = 0 THEN 1 ELSE limit
          /\ limit > 0 /\ (\A i \in DOMAIN pending : pending[i].code = "insert")
               => answer = FirstOf(Current(filter), limit)

(* A find whose select leaves _revision out gives the same documents, or   *)
(* fails, and it fails only when the log holds a document and its remove:  *)
(* the document of the log has lost the field that the remove is compared  *)
(* with.                                                                   *)
SelectedFind ==
  regular /\ ~reused /\ ~wrongRev /\ ~shifted =>
    \A filter \in SUBSET Val :
      LET answer == FindSelected(filter, MaxOps, "fields")
          Ids(docs) == [i \in DOMAIN docs |-> docs[i].id]
      IN  IF answer = Failure
          THEN \E i, j \in DOMAIN pending :
                 /\ i < j /\ pending[j].code = "remove"
                 /\ pending[i].code \in {"insert", "update"} /\ pending[i].id = pending[j].id
          ELSE Ids(answer) = Ids(Current(filter))

(* A find through the index never gives a version that was superseded, but *)
(* it gives the removed ones too: it reads the record of the id that is    *)
(* active or deleted, provided that the entry counts its place from behind *)
(* the version mark, as those of a file that was new do not.               *)
IndexFindLatest ==
  regular /\ ~reused /\ ~shifted =>
    \A found \in IndexFind(known) :
      LET e == found.entry
          k == found.record
      IN  e.raw = Header + e.pos =>
            k # 0 /\ data[k].id = e.id /\ data[k].status \in {Active, Deleted}

----------------------------------------------------------------------------
(* What StoreSound and IndexFindLatest rest on.                            *)

Inserts(i, id) == pending[i].code = "insert" /\ pending[i].id = id
Stored(id) == \E k \in 1..Len(data) : data[k].id = id
Indexed(id) == \E e \in 1..Len(index) : index[e].id = id

\* When the log has been applied up to before j the document is, or was, in
\* the file: it was inserted and its namespace not dropped since.
Reached(id, j) ==
  \/ \E i \in 1..(j - 1) :
       Inserts(i, id) /\ \A m \in (i + 1)..(j - 1) : pending[m].code # "drop"
  \/ Stored(id) /\ \A m \in 1..(j - 1) : pending[m].code # "drop"

\* Nor was it inserted ever.
Unheard(id, j) == ~Indexed(id) /\ \A i \in 1..(j - 1) : ~Inserts(i, id)

\* An operation of the log as the request made it
WellFormed(op) ==
  /\ op.code \in {"insert", "update"} => op.id \in Id /\ op.val \in Val /\ op.rev \in Rev
  /\ op.code = "remove" => op.id \in Id

\* An id is inserted once: it has one entry in the index, or one insert in the
\* log, or neither.
Once ==
  /\ \A d, e \in 1..Len(index) : index[d].id = index[e].id => d = e
  /\ \A i, j \in 1..Len(pending) :
       Inserts(i, pending[i].id) /\ Inserts(j, pending[i].id) => i = j
  /\ \A i \in 1..Len(pending), e \in 1..Len(index) : ~Inserts(i, index[e].id)
  /\ \A i \in 1..Len(pending) : pending[i].code = "insert" => pending[i].id \in used
  /\ \A e \in 1..Len(index) : index[e].id \in used
  /\ known \subseteq used

\* Each document in the file has a last version, to which the index leads.
Latest ==
  \A k \in 1..Len(data) :
    /\ \E j \in 1..Len(data) : data[j].id = data[k].id /\ data[j].status # Updated
    /\ data[k].status # Updated =>
         \E e \in 1..Len(index) : index[e].id = data[k].id /\ index[e].raw = Place(k)

\* What an update or a remove in the log will find
Foreseen ==
  /\ \A id \in known : Reached(id, Len(pending) + 1)
  /\ \A j \in 1..Len(pending) :
       /\ pending[j].code = "update" => Reached(pending[j].id, j)
       /\ pending[j].code = "remove" => Reached(pending[j].id, j) \/ Unheard(pending[j].id, j)

\* Inductive
StoreInv ==
  /\ TypeOK /\ \A i \in 1..Len(pending) : WellFormed(pending[i])
  /\ regular /\ ~reused /\ ~shifted => ~down /\ Once /\ Latest /\ Foreseen

----------------------------------------------------------------------------
(* What the answers of a find rest on.                                     *)

\* The documents in the file, and what they are after each operation of the log
Filed == Scanned(data, Val)
Views == WithLog(Filed, pending, Val, "all")

\* An insert in the log is of an id that is not there, a remove names the
\* revision that is.
Fits(docs, op) ==
  \A i \in 1..Len(docs) : docs[i].id = op.id =>
    op.code # "insert" /\ (op.code = "remove" => docs[i].rev = op.rev)

\* The log takes the documents in the file to those the client believes in.
\* Inductive together with StoreInv.
ViewInv ==
  /\ Len(data) + Len(pending) <= ops /\ Len(live) <= ops
  /\ regular /\ ~reused /\ ~wrongRev /\ ~shifted =>
       /\ live = Views[Len(pending)]
       /\ \A k \in 1..Len(pending) : Fits(Views[k - 1], pending[k])

============================================================================
