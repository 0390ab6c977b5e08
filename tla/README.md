# djondb: specifications of the log, the store, the index and the server

djondb (`src/db/`) is a document store. A server process (`daemon/`,
`service/`) answers the requests of drivers (`driverbase/`). Two of its threads
touch the data:

* the **network thread** (`network/networkserver.cpp`, `process`) runs a select
  loop and executes every request of every client, one after the other;
* the **monitor thread** (`tx/txbuffermanager.cpp`, `monitorBuffers`) applies
  what the network thread has logged to the data files.

A third, the daemon's **main thread** (`daemon/main.cpp`), starts the service,
stops it on a signal, and ends the process when the service has stopped.

## Inventory

| component | state | operations | interacts with |
|---|---|---|---|
| write-ahead log: `TxBufferManager`, `TxBuffer` | queue of active buffers, reusable buffers, counts per log file, control file `main.trc`, mapped log files, two locks | `writeOperationToRegister`, `getBuffer`, `addBuffer(s)`, `pop`, `flushBuffer`, `dropBuffer`, `loadBuffers`, start and stop of the monitor | called by transactions; calls the controller |
| transactions: `BaseTransaction`, `StdTransaction`, `TransactionManager` | a log each, a cache of open transactions | insert, update, remove, dropNamespace, find, commit, rollback | `find` merges the controller's answer with the log |
| store: `DBController`, `StreamManager` | a data file per namespace, the catalog `djondb.dat` | insert, update, remove, find, dropNamespace, open, save | index, file streams |
| index: `BPlusIndexP`, `IndexFactory`, `Buffer`, `BufferManager` | pages of a B+ tree, page files | add, update, find, split, persist, load | store |
| caches: `Cache`, `PriorityCache`, `LinkedMap`, `CacheManager` | bounded maps | add, get, remove, eviction | index pages, transactions |
| commands and network: `Command*`, `NetworkServer`, `NetworkService` | connections, pending sockets | select loop, dispatch, start, stop | transactions |
| filter language: `FilterParser`, expressions | expression tree | parse (generated), eval | store, find |
| BSON: `BSONObj`, streams, `BSONBufferedObj` | documents | encode, decode, select | everywhere |
| driver: `DjondbConnection`, `ConnectionManager` | connections by key, current transaction | open, close, requests | server |
| utilities: `Lock`, `Thread`, `circular_queue`, settings, logger | | lock, timed wait, notify | everywhere |

What is hard in this code, and what the properties are for: the two threads
share the log's containers under two locks taken in both orders; a buffer moves
from hand to hand (queue, monitor, reusable list, writer, transaction) and is
reset on the way; the place of a buffer in the log file is computed from a
count; a restart rebuilds the queue from a control file that is written in
several steps; readers walk the queue without a lock; both threads open, create
and drop files through a catalog without a lock; a split of an index page is
several writes; the server is stopped from inside its own request loop; clients
do not wait for most of what they send, and may end at any time. `PROJECT.json`
lists each such hazard at its line.

What makes each part correct: the log applies what it accepted once, in order,
and loses nothing; a commit is all or nothing and a rollback leaves no trace;
a find answers as if every accepted operation were applied; the data file holds
one active record of each document and the index leads to it; a filter matches
what it means wherever the document is at that time; the catalog names what is
there; a restart changes none of this; every request is read, every answer is
awaited, and a stop ends.

## Modules

| module | models | extends |
|---|---|---|
| `TxBufferManager` | the log at the grain of its lock operations: both threads, buffers, log files, control file, transactions | |
| `TxBufferManagerInv` | its invariants, action and liveness properties, the inductive invariants `IndInv` and `LogInv` | `TxBufferManager` |
| `TxLog` | what the log promises: one queue, a commit in one step | |
| `TxLogRefinement` | the mapping of buffers to that queue, `ImplementsLog` | `TxBufferManagerInv` |
| `TxRecovery` | a crash at any step and `loadBuffers` | `TxBufferManagerInv` |
| `TxFind` | `BaseTransaction::findOperations` racing the monitor | `TxBufferManagerInv` |
| `DocumentStore` | one namespace: data file, index entries, pending operations, find by scan and through the index, with limit and select; the inductive invariants `StoreInv` and `ViewInv` | |
| `BPlusIndexP` | the pages of an index in memory and in its file: search, add, splits, update, load, crash | |
| `StreamManager` | the catalog of open streams and `djondb.dat`, used by both threads; drop, `dbs`, `namespaces`, crash | |
| `FilterExpression` | evaluation of filters on the three representations of a document, against what they mean | |
| `ServerLife` | main, network and monitor thread from start to exit: select loop, timed wait, stop by request or signal | |
| `Session` | driver, wire and requests in the server; registry of transactions; clients that end | |
| `SessionInv` | the inductive invariant of a session | `Session` |
| `MCTxLog`, `MCDocumentStore`, `MCBPlusIndexP`, `MCStreamManager`, `MCFilterExpression` | symmetry sets, initial trees, names and filters for TLC | |
| `TxBufferManagerProofs`, `TxLogTheorems` | the proofs about the log | the second the first |
| `TxLogRefinementProofs` | the proof that the log implements `TxLog` | `TxLogRefinement`, `TxLogTheorems` |
| `TxRecoveryProofs` | the proofs about the log with restarts | `TxRecovery`, `TxLogTheorems` |
| `DocumentStoreProofs`, `ServerLifeProofs`, `StreamManagerProofs`, `SessionProofs` | the proofs about store, service, catalog and session | `DocumentStore`, `ServerLife`, `StreamManager`, `SessionInv` |

### How the log corresponds to the code

A buffer is a `TxBuffer` object: log file, place in it (`slot`), cursor
(`_currentPos`), length (`_bufferLength`) and the number of its control record.
`disk` is the contents of the mapped files; a buffer has no contents of its own,
so two buffers mapped at one place see each other's writes. Operations have one
size and a buffer holds `BufCap` of them.

The network thread (`netPc`) runs `writeOperationToRegister`: `getBuffer` takes
the tail (`GetBufferTail`), a reusable buffer (`GetBufferReuse`) or a new one
(`GetBufferCreate`); `AddBuffer` and `AddBufferNotify` are the two locks of
`addBuffer`; `Register` writes the control record; `WriteOperation` appends.
A commit is `Commit` (`popAll`), `AddBuffersLock`, `AddBuffersNext`,
`AddBuffersUnlock`, a forced `getBuffer`, `FinishCommit`. The writes of a
transaction go to its own manager, which no other thread sees, and are one step.
The monitor thread (`monPc`) is `flushBuffer`: `FlushWake`, `FlushPop`,
`FlushApply` per operation, then `FlushRecycle` and `FlushRegister` for a buffer
of the main log or `FlushDrop` for one of a transaction.

A step ends where a thread may block or the other may see its work. The history
variables `owner`, `start`, `acked`, `applied` and `clash` are read by no guard;
`clash` says that `createNewBuffer` mapped a buffer over one in use, after which
order and contents are lost, and the properties of the log say what holds up to
that point.

`TxRecovery` adds `Restart`: memory is gone, log files and control files stay,
`loadBuffers` rebuilds the queue, and for a transaction that is named again its own
buffers (`TakenUp`: `getTransaction` makes a manager on the transaction's log, whose
constructor reads its control file). Those of a transaction whose commit was under way
are not read a second time: the model takes such a transaction not to be named again.
The two writes of `registerBufferControlFile`,
and the write of an operation with the length it sets, are one step for a crash.

`TxFind` adds the walk of a reader: it sets the cursor back (`FindSeek`) and tests
for the end (`FindTest`) without the buffer's lock, and reads (`FindRead`) under
it, which waits while the monitor drains the buffer. Where the walk runs past the
end of the vector or of a buffer, or into a deleted buffer, the behaviour is
undefined and the reader stops. The release of the lock after a drain and the
reset behind it are one step.

### How the store corresponds to the code

Requests append to `pending`; `FlushInsert`, `FlushUpdate`, `FlushRemove`,
`FlushDrop` are `DBController`'s operations on its head, one step each. `data` is
the sequence of records with `_status`; an index entry keeps the position the
code computes (`pos`, relative to `_versionOffset`) and, as history, the place it
meant (`raw`). `OpenStream` is `StreamManager::open`: a stream on a new file has
offset 0, on an old one the length of the version mark. A find is `FindOpens` (it
opens the stream) and the operator `FindSelected`: `FullScan` up to the limit, read
into the map (`Loaded`), with the log merged in as `BaseTransaction::find` does
(`WithLog`, the map after each operation), for select `*` and for one that leaves
`_revision` out. A filter is a set of values. `IndexFind` is the branch
that a filter on `_id` alone takes; when it is taken is `ThroughIndex` of
`FilterExpression`.

### How the index corresponds to the code

A page has elements, one pointer more and a parent; its number is also its place
in the file, since the page buffers give every page a place of its own. `Add` is
`add` with `splitAddLeaf`, `splitAddInner` and the new head, `Update` is `update`,
`Restart` reads the file. An operation is one step of the one thread that changes
the index. A crash inside it is `CrashInAdd`: the operators thread a record of
pages and file through the code and collect in `images` what the file held after
each write, and the crash leaves any of these. `atRisk` has the keys that the
file left behind by a crash or by the fault of run `index_restart` does not lead
to; the properties speak of the others.

### How the catalog corresponds to the code

`open` is `Lookup` (the look into `_spaces` and `existFile`), `Create` (`"wb+"` or
`"rb+"`, the stream and its entry), `Save` and `Close` (the two ends of
`saveDatabases`: the file is emptied when it is opened and written when it is
closed), for the data file and then the index file, each step of either thread.
Then the thread works: `Scan` maps the file of a find, `ApplyInsert` and
`ApplyChange` are the monitor's operations, `DropFiles` and `DropErase` the halves
of `dropNamespace`, with a `remove` that may fail. `Shutdown` is `closeDatabases`,
`Start` is `initialize`. The operators `Dbs` and `Namespaces` are those of
`BaseTransaction` and `StreamManager`.

### How filters correspond to the code

`Eval` follows the four classes of expressions; a value keeps the type the parsers
give it, and `GetXpath` differs for a `BSONObj` (log, index) and a `BSONBufferedObj`
(data file), as it does in the code. So does what a field gives: `getValue` compares
whole keys, `GetType` follows `getType`, which takes the type of the first key that
the field begins with. A document has a field "a" before "age" for this, and `Misread`
has what may come of bytes that are read with another type. `Crash` is what an
exception, a NULL result or a wrong address does to the server. `Meaning` is the
reference, `Sound` the filters for which the code is asked to agree with it. `tokens`
is the global `__parser_field_tokens`.

### How the server corresponds to the code

`netPc` follows `NetworkServer::process`: `Select`, then for each descriptor
`ServeReady` and, for what one packet brought together, `ServePending`; a request in
two packets holds the thread until `ReadRest`, and a socket without data in `Blocked`. When
the rest does not come, because its client has left or only takes its time, the thread
does `RestMissing`: the stream closes its socket, and the process ends in an assertion
(`networkinputstream.cpp:222`), or the request runs with what was in memory and the
loop goes on selecting on a closed descriptor (`closed`), which makes `select` fail and
every descriptor count as ready.
`ExecuteWrite` and `Notify` are the locks that a write takes, `Flush` those of the
monitor, `Tick` and `Timeout` the timed wait that a notification starts again.
`NetworkService::stop` runs in the thread that asks for it, one step per object it
closes or deletes (`StopCheck` to `StopController`; `stopPc`). The counter
`processing` that it waits for is raised nowhere and is left out. `ub` records that
a deleted object was used; nothing is said of the process after that.

### How the session corresponds to the code

`GetConnection`, `Open` and `Close` are the connection manager of a process, whose
map has one entry per host; requests put a record on `wire` and wait or do not, as
`DjondbConnection` does. `Execute` is `executeRequest`: it reads the fields, runs the
command on the transaction the registry has or makes for its name, and answers. An
answer is collected in a `MemoryStream` and sent by one send; it is taken to arrive
whole. The stream has 100 segments of 2048 bytes and asserts when they are used up:
`ExecuteOverflows` is the find whose answer has more than `MaxAnswer` documents, which
ends the server. update and remove travel
as insert does. The log of the server is the queue that `TxLog` promises.

## Runs

| run | question | result |
|---|---|---|
| `log` | ownership, order, durability, log files, `LogInv` | holds |
| `log_refinement` | do buffers implement one queue with atomic commits; is the oldest buffer of two or more taken at last | holds, the second unless the lock cycle is reached |
| `recovery` | crash at any step: no run of the server applies an operation twice, no uncommitted operation, queue as the control file says | holds |
| `find` | do finds leave the cursors alone, and see exactly the pending operations | holds when no flush overlaps |
| `store` | does the merged answer equal the client's view, with limits, partial selects and through the index; one active record each, to which the index leads | holds under the conditions below |
| `index` | after any splits, updates, restarts and crashes: well-formed search tree, every key found, file as memory | holds but for the first child of a right half |
| `catalog` | both threads in the catalog: documents kept, `djondb.dat` true, names answered, files there | holds under the conditions below |
| `filter` | some 1,900 filters: answer as meant, alike before and after a flush, which end the server | holds for `Sound` filters on fields that no key of another type hides |
| `service` | does a stop end, in order; is every request read and the log drained | holds unless the lock cycle is reached or half a request ends the process |
| `session` | are answers those awaited, finds consistent, transactions kept apart; what ends a connection or the server | holds |
| `recovery_committed` | committed, unflushed transaction after a restart | violated |
| `index_restart` | keys after a clean restart | violated |

For the two violated runs `PROJECT.json` quotes the line of the repository that
expects otherwise. The conditions in the properties that hold mark further places
where the code keeps less than one would like.

Log and recovery:

* `AppliedOncePerRun` counts since the last start: what a flush had applied when the
  process was killed is applied again by the next run;
* `FlushProgress`, `BacklogShrinks`, `StopEnds` and `EveryRequestRead` end in the
  lock cycle: `addBuffer` takes `_lockWait` inside `_lockActiveBuffers`
  (`txbuffermanager.cpp:286`), `flushBuffer` the other way round (`:426`);
* `AppliedInOrder` and `NothingLost` hold up to a `clash`: the place of a new buffer
  is a count (`:194`) that is lower while a buffer is being drained;
* `RestartKeepsPending` speaks of the set of pending operations: reused buffers
  keep the place of their first control record, so their order is lost; and the
  first write after a restart goes over what the last buffer holds, since a loaded
  buffer has its cursor at 0 (`txbuffer.cpp:41`);
* `LogFileLifetime` holds without restarts: `loadBuffers` does not rebuild
  `_buffersByLog`, so the first buffer of a transaction flushed after a restart
  takes the log file from the buffers behind it;
* `FindComplete` speaks of finds that overlap no flush: a buffer that `pop` has
  taken is neither in the queue nor yet in the store, and a find that sets the
  cursor of a buffer being drained (`basetransaction.cpp:110`) makes the monitor
  apply operations twice.

Store, index, filters:

* `FindIsCurrent` speaks of ids inserted once: a drop leaves the index entries of
  the namespace and a remove that of the document, and the old one is found first;
  of removes with the right revision, which the merge compares and the flush does
  not (`dbcontroller.cpp:311`); and of entries read from the origin they were
  counted from, which changes with a restart for a file that was new
  (`dbfilestream.cpp:42`);
* `LimitedFind` allows fewer documents than match while the log holds an update or
  a remove, `SelectedFind` an exception for a document and its remove in the log,
  `IndexFindLatest` removed documents;
* `CopiesKnown`: an update changes the leaf, and `find` gives the copy that a split
  left in an inner page;
* `FindAnswers` leaves out `<` of equal operands, which the code accepts
  (`binaryexpression.cpp:160`), `and` and `or` of what is not boolean, orders of what
  are not numbers; `NumberMatches` leaves out `INT_MAX`, an int in a document and a
  long in a filter; `SameAfterFlush` fields that hold an object. All but `NumberMatches`
  leave out what `Shadowed` says: in the data file a field is read with the type of the
  first key that it begins with (`bsonbufferedobj.cpp:132`, against the comment at
  `:115`), so that `{a: 1, age: 's'}` is found by `$'age' == 's'` in the log and not
  after its flush, and `{a: {}, age: 5}` ends the server with the first comparison on
  `age`. A key before it of the same type does no harm, and that is checked;

Catalog:

* `RecordsKept` leaves out namespaces that both threads opened at the same time:
  both find no file, and the second `"wb+"` empties what the first has written
  (`streammanager.cpp:179`); and allows old documents to come back after a failed
  `remove` (`:306`);
* `CatalogSound` holds while `djondb.dat` is not torn: it is emptied and rewritten by
  every open, by both threads at once, and not at all by a drop (`:256`);
* `NamesAnswered`: a pending drop of one namespace hides its whole db from `dbs`, and
  names with a dot are cut at the last one;
* `ScanFindsFile`: a drop between the open and the map of a find leaves it NULL
  (`dbcontroller.cpp:489`).

Server and session:

* `SafeAlone`: requests at hand when a SHUTDOWN is executed run afterwards on deleted
  objects, and a signal deletes them under a running request
  (`networkservice.cpp:172`; the comment at `:161` expects the request to be the only
  one alive);
* `EveryRequestRead` and `BacklogShrinks` end with the process when the rest of a request
  does not come: one client that leaves in the middle of a request, or waits, takes
  all others with it (`networkinputstream.cpp:222`);
* `ClosedByAnother`: the close of one connection closes another of the process with
  the same key;
* `ServerOutlives`: an answer that does not fit in the 100 segments of its stream ends
  the server under all its clients (`memorystream.cpp:87`); nothing else that clients do
  in a session does, neither an end while an answer is on its way nor a close;
* `TransactionsEnd`: a transaction that was rolled back stays in the registry.

### Bounds

`log` has two transactions, four operations and one-operation buffers, so every
write moves a buffer and reuse, commits of two buffers and drops all happen while
the other thread is at any step; `log_refinement` and `find` have two operations
to a buffer, so cursors stand inside buffers. Seven buffer objects are more than
four operations and two commits can use at a time. `recovery` has two
crashes, so that the second run of the server, which begins with what the first had
applied and not yet forgotten, is itself cut off. Slots are as many as buffers, so the
bound never hides a place. `store` has two documents, values and revisions and
four operations: the longest story told apart is insert, update, remove and an
insert of the other document. `index` has pages of three elements (five in the code; both odd, as
the halving needs) and starts from the empty tree and from trees whose head is
full, so three adds split a leaf, inner pages and the head, at every key. `catalog`
has two namespaces of one db, one with a dot in its name, three operations, one
find, one crash or shutdown and one failing `remove`: enough for both threads to be
anywhere in `open` while files appear, go and come back. `filter` has an `INT_MAX` of
1 so that numbers below, at and above it occur, and a document of every type, with a
key of every type and with none before the field (1,794 states, some 1,900 filters in
each).
`service` has two connections and two requests, whole or in halves, together or
apart or with their second half missing, and a log of up to two buffers, so that the
monitor has something to flush (170,550 states);
`session` two connections of one process or of two, four requests, one transaction and
answers of up to two documents, so that a find of the base, of a transaction and of both
together can be at the limit and over it.
Deadlock is not checked: a bounded number of requests ends every behaviour. The
deadlock of the code is `NoLockCycle`, part of `FlushProgress`.

### Fairness

`FairSpec` has weak fairness of the network thread's steps within a request and of
the monitor's steps: both are plain threads that run whenever they are not
blocked. Requests themselves are not fair. `FlushWake` stands for the timeout of
`Lock::wait`: a notification starts the second again (`util/lock.cpp`, 77-103),
but notifications come with new buffers only, and these stop in the model.

`Fairness` of `ServerLife` is strong for the steps of the network thread and of a
stop: they want locks that the monitor holds again and again but gives up for a
second each round; it is weak for the monitor and for main's poll, which always
find their way. Nothing is assumed of clients and signals: a request that was begun may
stay half. The other modules state safety only.

## Proofs

Each theorem holds for every value of the constants, under the assumptions that the
modules make of them: the names are distinct, a buffer holds at least one operation,
slot 0 exists, bounds are natural numbers, and `None` is none of the things it stands
beside. The invariants that the proofs are about were model-checked on the instances
of the runs first; run `log` checks its own on every occasion.

### The log

`TxLogTheorems` proves, for any set of transactions, any buffer size, any set of
slots and any bounds, `Spec => []IndInv` (`Invariance`) and from it `TypeCorrect`,
`WriterExclusive`, `Order`, `Durable` and the action property `Truncation`.

None of these properties is inductive. That the next operation applied is the
next accepted one needs that the buffers of the queue cover the accepted
operations from the first not applied to the last, each its own stretch
(`Stretches`, `Covered`); that they hold what they cover, `Intact`; that the
stretches stay adjacent when a buffer is popped, recycled and taken again, that
the containers hold each buffer once (`Containers`) and that each thread works on
the buffer its program counter says (`Control`); that nothing is read twice or
skipped, that every cursor outside the monitor stands at the end of its buffer
(`Cursors`). `IndInv` is the conjunction. The delicate case is the second reset in
`flushBuffer`: after `addReusable` a writer may already hold the buffer, and only
`_lockWait`, which `addBuffer` wants before the first write, keeps it from writing
until `FlushRegister` has reset it once more; `Control` says so under
`monPc = "register"`. The proof takes the actions one by one:
`TxBufferManagerProofs` has types, containers, control, cursors, stretches and
cover, `TxLogTheorems` contents and the theorems.

`TxLogTheorems` then adds `FileInv` and proves `LogInv == IndInv /\ FileInv`
(`LogInvariance`), and from it `NoLeak`, `Isolation` and `FileLifetime`. `Placed`
and `HandedOver` say where a buffer is at each step of a commit, between `popAll`
and `addBuffers`; `Counted` that `_buffersByLog` has the number of queued buffers of
each log file, which makes the deletion in `dropBuffer` come with the last of them;
`OwnOperations` that a log file holds operations of its transaction only, so that
what is applied from it was committed. These hold after a `clash` as well: buffers
that are mapped over each other map the same file.

### The log is a queue

`TxLogRefinementProofs` proves `Refinement`, `Spec => ImplementsLog`: the mapping of
`TxLogRefinement` takes every step of the log to one of `TxLog` or to a stutter, up to
a `clash`, for any transactions, buffers, operations and interleavings. The mapped
queue is the unread part of the buffer that the monitor has, then the contents of the
queued buffers one after the other. What a flattened sequence of sequences is when one
is added at its end, taken from its front or written to at its last is a lemma each; `FlattenSeq`
is a recursive function, and its value is reached without the induction theorems of
the library, by taking the least index at which the claim fails. `LogInv` tells the
rest: a recycled buffer is empty when it comes back to the queue, a buffer that is
drained holds nothing, and `popAll` hands over the buffers that have the operations of
its transaction and no others.

### The log with restarts

`TxRecoveryProofs` is about `RSpec`, the log killed at any step and any number of times.
A restart gives every loaded buffer the cursor 0 and the length that the control file
has, which `Cursors` and the cover of `IndInv` exclude. What survives is `BaseInv`
(types, containers, control and the bounds of the cursors) and `IsolationInv`; the lemmas
about the steps of the log are stated from `BaseInv`, so that they serve both
specifications. `RecoveryInvariance` proves
`RecoveryInv`: each registered buffer has a record of its own with its place and at
least its length (`OnRecord`), and a record of a log file of a transaction is there only
after that transaction was handed over (`HandedRecords`). `RecoveryIsolation` and
`PendingSurvives` follow: what `loadBuffers` maps was committed, and it maps at least
what was pending.

`AppliedOnce` needs `RunInv` (`RunInvariance`). An operation has one place in the log
files (`OnePlace`) and a number that no later one gets (`Numbered`); a restart moves
`appliedBefore` to the end of what was applied, so that everything on disk may be read
once more by the new run; within a run, what it has applied since stands there once
(`EachOnce`), and what can still be read of a live buffer was not applied by it
(`UnreadAt`), because the cursor of the buffer with the monitor only moves forward, a
recycled buffer has length 0, and no two live buffers are at one place.

### The store

`DocumentStoreProofs` proves `StoreInv` (`StoreInvariance`), with `OneVersion`
(`StoreSound`) and `LatestRead` (`IndexFindLatest`), for any ids, values and
revisions and any number of operations and restarts. That an update marks the record
that was active needs more than one active record each: the entry it follows must
lead to the last version, deleted or not (`Latest`), and be the only one of its id
(`Once`, which counts entries and the inserts still in the log together, since an
insert moves from one to the other). And it must find the document at all. A client
may update an id while its insert, and the drop of an earlier namespace, are still in
the log; `Foreseen` says of each update and remove in the log that what is before it
leaves the document in the file (`Reached`), or, for a remove, that the id was never
inserted (`Unheard`), and a flush takes the first operation from what the others were
told. `raw` and `pos` of an entry are tied by the condition that nothing was
`shifted`; the theorems assume no more of a restart.

What a find answers needs `ViewInv`, inductive together with `StoreInv`
(`ViewInvariance`): the log, merged into the active records (`Views`), gives the
documents the client believes in, and each operation of the log fits the documents
before it (`Fits`): an insert is of an id that is not there, a remove names the
revision that is. A flush moves the first operation from the log to the file, and the
claim is that the scan of the new file is the first view of the old one; for an update
this is where `StoreInv` enters, since marking one record and appending another erases
and adds a document only if the marked record was the active one. `FindsCurrent`
(`FindIsCurrent`) follows since filtering and merging commute (`MatchingMerged`), for
the filter is applied to the records before the merge and to the operations in it.
`LimitedFinds` (`LimitedFind`) compares the map of a find that stopped at its limit
with the views: it stays within them (`Within`), and inserts let it begin as they do
(`Begins`). `SelectedFinds` (`SelectedFind`) compares the map whose documents of the log
have no revision: the ids stay those of the views (`SameIds`) until a remove meets a
row without one, which only the log can have brought (`Listed`).

These are inductions over the length of the log or of the file. The library's induction
theorems are out of the provers' reach, but induction over a set is not: lemma `Numbers`
says that a set which has 0 and with each number the next one has all numbers, by its
least exception, and `Sequences` the same of finite sequences.

### The service

`ServerLifeProofs` proves `LifeInv` (`LifeInvariance`), with `StopOrder` and
`ShutdownSafe`, for any number of connections and requests. `Stages` says that one
thread at a time is past the deletion of the transaction manager and that exactly
the objects up to its place are gone, though `stop` may run in two threads; `Places`
ties the program counters of the three threads to who asked for the stop. For
`SafeAlone` the loop that a SHUTDOWN returns to must find nothing to do: `Alone` says
so, and needs `Wire`, that the second half of a request follows its first, since a
half left in a buffer would be read after the stop; a process that `RestMissing` has
ended is past all that.

### The catalog

`StreamManagerProofs` proves `StreamInv` (`StreamInvariance`), with `DocumentsKept`,
`CatalogKept` and `ScanSafe`, for any set of namespaces and any bounds. The network
thread opens the index before the data stream and the monitor the data stream
first; `Stands` lists where each can be. `FilesThere` says that an open stream has
its file until the monitor, between the two halves of `dropNamespace`, has removed
it; `NothingToLose` that a thread about to create a file with `"wb+"` found none and
that no document has come since, unless the namespace is in a race; `Saved` that the
catalog on disk, or the one that a thread has still to close, names all that is
open.

`NamesTold` is `NamesAnswered` for any namespaces, stems and logs. `NamesInv`, inductive
together with `StreamInv` (`NamesInvariance`), ties what clients have written to the
log and to the documents: a namespace is in view when an insert of the log is not
followed by a drop, or when it has documents and the log does not drop it (`Viewed`); a
stream is open for a document, for a request that is noted, or for the operation that
the monitor is at (`OpenedFor`). The log is here the one that a crash would leave, with
the operation that the monitor has taken at its front, so taking an operation and
crashing change nothing and only its last step moves a document from log to file. The
merge of `dbs` and `namespaces` is a recursive function over the log; lemma `MergeIs`
says what is in it, again by the least operation at which that would fail.

### The session

`SessionProofs` proves `SessionInv` (`SessionInvariance`) and from it the five
properties of run `session`: `InStep`, `FindAnswered`, `ClosedOnlyByAnother`,
`TransactionsEnded` and `ServerOutlivesClients`, for any number of connections,
processes, requests and transactions and any limit of an answer. `Conversation` has the
three states of a wire: quiet, asked, answered; `Driver` what the flags, sockets and
entries of the connection manager know of each other. A find reads its client's
writes only because these are before it on the same wire (`Complete`: on the wire, in
the log of their transaction or in the base), and another transaction whole or not
at all only because one connection speaks of it (`OneUser`), its commit is the last
it says (`Endings`), and the base has nothing of it while that commit is on the wire
(`Numbers`). `Ordered` follows the numbers of one connection and one transaction from
the wire through the log into the base; with `Numbers` it also bounds the length of
an answer by the inserts of the transaction that asks, of the committed ones and of
none (`FoundBound`), which `ServerOutlives` needs: the server ends only when there are
more of these than an answer may have. The proof sorts the steps into four kinds
(lemma `Steps`): nothing is sent, one request is sent, one is executed, one is too much
for its answer; each part of the invariant has a lemma for each kind.

### Only model-checked

* liveness (`FlushProgress`, `StopEnds`, `BacklogShrinks`, `EveryRequestRead`), which
  this prover does not reach;
* `BPlusIndexP` and `FilterExpression`, which follow recursive code with RECURSIVE
  operators;
* the log with a concurrent find (`TxFind`), whose cursors the reader sets, and which
  gives up the invariant of the cursors that the other theorems rest on.

## Not modelled

* the control file of a transaction's own manager but for what a restart makes of it
  (`TakenUp`): that a transaction whose commit was under way at a crash could be named
  again and have its buffers read twice, and that the first write of a transaction
  after a restart goes over what its last buffer holds, as it does in the main log;
* `buffersByLog` has the entries of transactions only;
* a rolled back transaction that is written again: its name stays in the registry
  (`TransactionsEnd`), but drivers make a new name for each transaction;
* torn updates of `_reusableBuffers`, `_buffersByLog`, `_vactiveBuffers` and
  `_spaces`, which both threads change without a lock: what the containers then do
  is not defined by anything in the code;
* operations of different sizes, and one longer than a buffer;
* a crash inside `registerBufferControlFile` or between the writes of one flushed
  operation;
* migrations of files of old versions; `StreamManager::close`, the legacy index, the
  circular queue and the node notifier, which nothing calls; the caches of documents and
  structures, whose calls are commented out. The one `Cache` in use is the registry of
  `TransactionManager`, a map without a limit, and is modelled as that set
  (`transactions` of `Session`);
* index pages whose ids are so long that they pass the mapping of a page;
* in `FilterExpression`, keys that `_id`, `_status` or a name inside an object begins with,
  and the select of a find, which asks `getType` in the same way
  (`bsonbufferedobj.cpp:504`); fields of type double;
* the arrival of connections, so that no descriptor that was closed is used again, other
  errors of `select`, the second join in
  `~NetworkService`, signals that reach another thread than main;
* in `Session`, a disconnection in the middle of a request (it is in `ServerLife`), and
  `dbs` and `namespaces` over the wire;
* generated parsers beyond the trees, types and tokens they produce, the BSON
  encoding, the bytes of streams, DQL, language bindings (mostly generated), shell,
  settings, logging, installers and third-party code.

## Plan

1. Operations of several sizes in the log; the writes of one flush and of one control
   record as separate steps for a crash.
