# DolphinDB C++ API: verification project

This directory holds TLA+ models of the DolphinDB C++ API (`src/src`,
`src/include`), the TLC configurations that check them on small instances, and
TLAPS proofs for any size. Paths below are relative to the repository, whose
sources are under `src/`.

## 1. Inventory

The library is a client of the DolphinDB server. An application opens
connections, runs scripts, uploads data objects, writes rows through several
kinds of writers, and subscribes to tables the server publishes.

| part | state it keeps | operations | interacts with |
|---|---|---|---|
| `MultithreadedTableWriter` | per writer thread: `writeQueue_`, `failedQueue_`, `sentRows`, `exit`, a `Signal`, `mutex_`; `hasError_`, `exited_`, `insertRWLock_` | `insert`, `insertUnwrittenData`, `getStatus`, `getUnwrittenData`, `waitForThreadCompletion`; thread body `SendExecutor::run` | one `DBConnection` per thread; the application's callback |
| `BatchTableWriter` | map of destination tables, each with a queue, a writer thread, `finished`, `destroy` flags | `addTable`, `insert`, `removeTable`, `getUnwrittenData`, `getStatus`; writer loop | one `DBConnection` per table |
| `DBConnectionPool` (`DBConnectionPoolImpl`, `AsynWorker`, `TaskStatusMgmt`) | blocking queue of tasks, task status map, worker count | `run`, `isFinished`, `getData`, `shutDown`; workers | one `DBConnection` per worker |
| `PartitionedTableAppender`, `AutoFitTableAppender`, `AutoFitTableUpsert` | chunk indices of the current call, identities of tasks | `append` | pool; `Domain` for routing |
| `DBConnection` (`DolphinDB.cpp`, `DolphinDBImp.cpp`) | node list with loads, current node, sequence number, client id, `closed_` | `connect`, `run`, `upload`, `switchDataNode`, `close` | socket, server |
| `StreamingClient` (`Streaming.cpp`) | `topicSubInfos_`, `topics_`, `topicReconn_`, `liveSubsOnSite_`, `actionCntOnTable_`, `initResub_`, `readyMutex_`, a queue and a `stopped_` flag per subscription | `subscribe`, `unsubscribe`, reconnect thread, daemon, `parseMessage` | handlers, queues, server |
| `ThreadedClient`, `ThreadPooledClient`, `PollingClient`, `EventClient` | handler threads over a subscription queue | `subscribe`, `unsubscribe`, handler loops | `StreamingClient` |
| UDP streaming (`UDPStreamingImpl` of `Streaming.cpp`) | the client per topic, those to be destroyed, next offset, a message queue and an `exit` flag per client | `subscribe`, `unsubscribe`, receive and callback threads | handlers, the network |
| `SharedMem` (ring of shared memory) | write and read positions | `readData` | other process |
| `Concurrent` | `Mutex`, `Signal`, `CountDownLatch`, `BlockingQueue`, `BoundedBlockingQueue`, `SynchronizedQueue`, `Semaphore`, `RWLock` | push, pop, wait, notify | everything above |
| `Domain`, `DFSChunkMeta` | partition schemes | `getPartitionKeys` | writers, appenders |
| `EventHandler` | schemas, attribute serialisers | `serializeEvent`, `deserializeEvent` | event sender and client |
| `SymbolBase` | symbols and their reverse map | `find`, `serialize` | marshalling |
| marshalling (`ConstantMarshall`, `SysIO`, `Compress`, `LZ4`) | partial input or output of an object, the buffers of both streams, the decoding thread and its queue | `start`, `resume`, `serialize`, `deserialize`, `encodeContent`, `decode` | sockets |
| `BasicTable` (`TableImp`) | columns, their names and positions, size, capacity | `append`, `update`, `remove`, `addColumn`, `join`, `drop`, ... | columns |
| `FastArrayVector` (`ConstantImp`) | ends of the rows, values | `append`, `remove`, `getSubVector`, `serialize`, ... | tables, marshalling |
| other data forms (`ConstantImp`, `ScalarImp`, `DictionaryImp`, `SetImp`, `Matrix`, `Util`, `Format`, `Types`, `int128`) | values | conversions, indexing, formatting | all |

Which behaviours are hard:

* threads: writers, workers, handlers and subscription threads share queues
  and flags with application threads, with several locks of different extent;
* wakeups: `Signal` and condition variables, some without a predicate;
* failure in the middle: a server call that fails after the server did the
  work, a callback that throws, a connection that drops during a subscription;
* order: rows of a key must reach the server in the order of insertion, rows
  of a topic must reach the handler without gaps or repetitions;
* ends: `waitForThreadCompletion`, `removeTable`, `unsubscribe`, `shutDown`
  join threads that may be blocked elsewhere.

What makes each part correct:

* a writer stores every accepted row once and in order, or accounts for it as
  failed or handed back; its counters and callbacks agree with that; its ends
  (`waitForThreadCompletion`, `removeTable`) return and leave nothing queued;
* the pool takes every task once, tells each caller of its own task, and
  closes every connection on `shutDown`;
* a queue is a bounded FIFO queue whose waiters are woken;
* a subscription delivers consecutive rows across reconnections, is not
  forgotten when its connection breaks, and ends its handlers on `unsubscribe`;
* a connection runs a request at most once, however often it is sent again,
  and its initial script before any of them on every node;
* what is encoded on one side of a connection is decoded as it was on the
  other, wherever buffers, blocks and segments end;
* the columns of a table stay aligned whatever is refused in the middle of an
  operation, and a column of arrays is a sequence of rows.

The places where a test would hardly show the opposite are the "hazards" of
`PROJECT.json`, each at its line.

## 2. Modules

| module | models | state and actions |
|---|---|---|
| `MultithreadedTableWriter` | `MultithreadedTableWriter.h`, `.cpp`, `Signal` of `Concurrent.h` | One variable per member of `WriterThread` (`writeQueue`, `failedQueue`, `sentRows`, `exit`, `signaled`, `mutex`), `hasError`, `errorInfo`, `exited`, `insertRWLock`; program counters of the callers (`callPc`) and of `run()` (`pc`). Calls begin with `Insert`, `InsertUnwrittenData`, `GetStatus`, `GetUnwrittenData`, `WaitForThreadCompletion` and go on in steps at the lock boundaries of the code; `RunTop` to `FinalCallbacks` are the thread body and `writeAllData`. History: `accepted`, `handed`, `stored`, `okRows`, `badRows`. |
| `BatchTableWriter` | `BatchTableWriter.h`, `.cpp` | The map `destTables`, and per `DestTable` its queue, `saveQueue`, flags and writer thread; `AddTable`, `AddEntry`, `StartThread`, `Insert`, `InsertRow`, `InsertNotify`, `RemoveTable` to `RemoveErase`, `GetUnwrittenData`, `Destruct` on the callers' side, `LoopTest` to `SaveDone` and `BeginWait` on the thread's. |
| `ConnectionPool` | `DBConnectionPoolImpl`, `AsynWorker`, `TaskStatusMgmt`, `DBConnectionPool` and `PartitionedTableAppender::append` of `DolphinDB.cpp` | `queue`, `results` (the status map), `latch`, `shutDownFlag`, one program counter per worker; users run a task and poll for it, an appender runs one task per chunk with identities counted downwards. |
| `DBConnection` | `DBConnection` and `DBConnectionImpl` of `DolphinDB.cpp`, `DolphinDBImp.cpp` | `ha_` and `reconnect_` as a mode, `runSeqNo`, `clientId`, `lastIndex` and the calls under way as a stack, because `switchDataNode` runs the initial script from within a call. Around it the nodes, the link, the requests on the wire and what servers remember of numbers. |
| `BlockingQueue`, `FifoQueue` | `BlockingQueue<T>` of `Concurrent.h` | The ring buffer with `head`, `tail`, `size` and what each thread waits for. `FifoQueue` is the abstract promise; `BlockingQueue!Fifo` maps the slots from head to tail to its sequence. |
| `StreamSubscription` | the subscription protocol of `Streaming.cpp` | The maps of `StreamingClientImpl` reduced to one topic (`topicSubInfos`, `topicReconn`, `liveSubs`, `actionCnt`, `topics`, `initResub`), `readyMutex`, and the four kinds of threads: the application, a parse thread per connection, the reconnect thread, the handlers. The message queue is the bounded queue that `BlockingQueue` models, reduced to its length. |
| `StreamSites` | backup sites, `subOnce`, HA tables and `resubscribeTimeout` in `Streaming.cpp` | The same maps with a topic per node: `entry` is `topicSubInfos_` with the sites, indices, offset and socket of `SubscribeInfo`. What is done under `readyMutex_` is one step, and so are the two attempts at a site; a lost connection is found out, stamped and marked in three (`Lose`, `StampSite`, `MarkSite`); rows go to the queue without their handlers. Nodes and links fail, and leaders are elected. |
| `UdpStreaming` | `UDPStreamingImpl` of `Streaming.cpp` | `clients_` (one entry), `deadClients_`, `clientsMutex_`; per `SubscribeClient` its `exit`, `offset`, `msgQueue`, receive thread and callback thread. Any datagram may come next, so that they are lost, repeated and late at will. |
| `MessageDelivery` | `parseMessage`, `mergeTable`, `newHandleThread`, `handleConvertRowData` and the loops of `ThreadedClient` and `EventClient` in `Streaming.cpp`; `StreamDeserializer` and `Message` of `StreamingUtil` | One connection and its subscriptions, each with the form its handler wants. `objects` holds the rows of columns, rows and tuples, so that what is shared shows; `TurnOfWhole`, `TurnOfTuple`, `TurnOfBlob` and `PushDue` are the parsing thread under `readyMutex_`, `PopNext`, `Merge`, `Handle`, `Done` a handler thread, and `tuples` what the deserializer uses again. |
| `ColumnTransfer` | `ConstantMarshall.cpp`, `SysIO.cpp`, `Compress.cpp` (LZ4), `FastStringVector` | A table of string columns from `serialize` to `deserialize`: pieces, the output buffer, segments of any length, `DataInputStream::buf_` with its `cursor`, `size` and `capacity`, the decoding thread, the queue of blocks. |
| `BasicTable` | `TableImp.cpp` | `cols`, `colNames`, `colMap`, `size`, `capacity`, `compresses`; one action per operation, each refused after any column. A cell is the row it was written for and whether it is null, and then whether the column was told so (`Nulls`). |
| `ArrayVector`, `RowSequence` | `FastArrayVector` of `ConstantImp.cpp` | `index` (the ends) and `value` (the cells), moved separately by every operation. `RowSequence` is the abstract promise, and `Abstract` the mapping. |
| `ArrayMarshall` | `FastArrayVector::serialize`, `deserialize` | Blocks of rows with a width for their counts, cut where the buffer ends: operators over the states of `ArrayVector`. |
| `DeltaOfDelta` | `CompressDeltaofDelta`, `DeltaCompressor`, `DeltaDecompressor` of `Compress.cpp` | The coder and the decoder of second differences, bit by bit, over every short column. |
| `EventEncoding` | `EventHandler.cpp` | A schema of any two fields, an event that fits it, and the blob: `SerializerOf` is the choice of `checkSchema`, `ReadField` that of `deserializeEvent`, each with the bytes it writes and takes. |
| `TemporalCasts`, `TableAppenders` | `castTemporal` of `ConstantImp.cpp` and `ScalarImp.cpp`, the calendar of `Util.cpp`, `DomainImp.cpp`; `PartitionedTableAppender`, `AutoFitTableAppender`, `AutoFitTableUpsert`, the routing of `MultithreadedTableWriter::insert` | The partition column of a table as it is given, cast, asked for keys and shared out to threads: `AppendPartitioned`, `AutoFit`, `Insert`. `TemporalCasts` has the casts as operators, with the ratios of the units as constants, and `Exact` for what a cast should give. |

`MC*` modules hold the values TLC needs. Where one run checks parts that share
no state (`MCStreamQueues`, `MCStreamSites`, `MCConnection`, `MCDataForms`), a variable `part`
says which of them a behaviour is about, and the others stay in an initial
state; every property is then one of the part it names. The eight modules `*Proofs` hold the
proofs about the module they are named after, `StreamQueuesProofs` those about
`BlockingQueue`, `UdpStreaming` and `MessageDelivery`. A definition that names a mutant (such
as `KeepBlock` beside `PopBlock`) is a plausible error in the code which the
property it belongs to must detect; no specification uses it.

Steps are cut where another thread can come in between: at a lock, an unlock,
a wait, an atomic flag or a call of the server. What happens under one lock, or
touches only what the thread itself owns, is one step.

Abstractions that hold throughout:

* A row, a message or a result is a number; columns, types and conversions are
  left out. Routing is a function from keys to threads.
* A server call is one step that stores or not and answers or not. The kinds
  of failure are constants (`Faults`, `BatchFaults`, `Answers`), so that a run
  names the failures it allows. `DBConnection` takes this step apart.
* Logging, texts of errors and time are left out. A timeout may fire whenever
  its wait is under way.
* Spurious wakeups of condition variables are actions.

Particular ones:

* Writer: `mutex_` is modelled where it is held over several steps. The
  constructor is the initial state; one that fails in its loop over the threads
  is not modelled. `insertUnwrittenData` does not take `insertRWLock_`, so the
  properties about counts assume that one caller makes that call,
  `getUnwrittenData` and `waitForThreadCompletion`, or that nobody makes it
  (`SingleOwner`). A callback
  that calls the writer again is not modelled: it would wait for a lock that
  `waitForThreadCompletion` holds while it joins the thread.
* Batch writer: `addTable` looks the table up, connects, and looks it up again:
  both tests are steps, and so is the gap between the insertion of the empty
  `DestTable` and its thread. A method of a table that is still empty in this
  gap would read members not yet set, which is not modelled.
* Pool: the constructor's connecting, and exceptions other than `IOException`,
  which end the process, are left out. Users choose their own identities;
  two users of one identity at a time are left out (`Users = {u1}`). So are two
  appenders at once: each counts its identities downwards from
  -1 (`include/DolphinDB.h:315`), so that they use the same ones, and with two
  `TasksInOrder` does not hold.
* Streaming: one topic, `resub` set, no `exit()`; `StreamSubscription` has no
  backup sites, no leader switch and `resubscribeTimeout` 0, which
  `StreamSites` has. In it `unsubscribe` looks the topic up in one step and
  erases it in another, and nodes may fail between them; that a table is
  highly available and that sites are given exclude each other. The publisher refuses a second
  subscription of a topic while a connection is open (`publishTable` without
  `allowExists`) and starts from the offset it is given. The application makes
  one call at a time.
* Connection: a server executes a request it has read whatever becomes of the
  link, and one under the negated number of a request it has executed gets the
  answer of that one. Loads of nodes are any. Logins that are refused,
  asynchronous connections and `fetchSize` are left out.
* Column transfer: a character is a number, and so is any number sent; the
  compression of a block is left out, since LZ4 is vendored, but not that
  columns are cut into blocks. Sizes of buffers are a few characters. The
  symbol base, blobs and plain numbers are left out.
* Messages: who subscribes and from which offset is left to
  `StreamSubscription`; a deserializer knows all the rows of a message or not
  all; a handler takes its messages one by one; the application may keep one
  message at a time per subscription.
* Events: types are those of one size, the literals, ANY and arrays; texts hold
  no zero. The row's columns for the time and the common fields, which the
  client does not read, and schemas that are refused are left out.
* Casts: the units have other ratios than the real ones (constants), the
  calendar is the real one; an int and a long have fewer bits. Hashes of strings
  and numbers other than the whole ones are left out.
* UDP: a row is in one datagram, and a heartbeat, which is sent when nothing
  was published, takes up no offset of a datagram of rows (`UdpAssumption`).
* Table and array column: what a loop over an index copies is a list of
  positions in increasing order (`InOrder`), which the caller of the operation
  gives. An operation is one step, as these objects belong to
  one thread; what is interesting is what a refusal in the middle leaves.

## 3. Runs

| run | instance | question |
|---|---|---|
| `writer_rows` | 2 threads, 2 callers, keys of both signs, blocks of 2 rows, 3 rows, rejected blocks and lost replies | are rows counted once, kept in order, stored at most once, and all stored when completion reports no error; is no wakeup lost |
| `writer_callbacks` | the same with blocks of 3 rows, throttling and a callback that may throw, without `insertUnwrittenData`, fairness | do `getStatus` and the callbacks agree with what happened, what does a throwing callback do to the counts, do rows leave the queue and does `waitForThreadCompletion` return |
| `batch_rows` | 2 callers, 1 table, 2 `DestTable`s, 3 rows, rejected and lost calls, fairness | is every row stored or handed back, once and in order, one thread per table; unless a notification is missed, are rows written and does `removeTable` return |
| `batch_remove` | 1 `DestTable`, fairness | violated: `removeTable` may wait for ever (finding) |
| `pool_tasks` | a user, an appender, 2 workers, 3 tasks, every answer, empty scripts, shut-down, fairness | are tasks taken once and in order, callers told of their own tasks, chunks counted, connections closed, and do polls and `shutDown` end |
| `pool_poll` | 1 user, 1 worker, 1 task | violated: a result may be overwritten by a late WAITING (finding) |
| `connection_moves` | calls: 2 nodes, the 3 kinds of connection, 2 requests, 2 faults, an initial script, numbers up to 20; table: 2 columns out of 6, buffers of 3 to 4 characters and blocks of 4, a connection that may break; fairness | is a numbered call executed once, an answered one executed, the script first on every node, and does every call end; do columns arrive as they were sent, and does reading end |
| `stream_queues` | queue: 2 producers, 2 consumers, capacity 3, batch size 2, 4 items; UDP: 2 clients, 5 datagrams, queue of 2; messages: 2 subscriptions in any of 6 forms, 3 messages of 4 rows, queues of 1, 2 tuples, 13 objects (`MaxObjects`, which is never short); fairness of the UDP threads | does the ring implement `FifoQueue` and wake its waiters; are UDP rows in order, and do its calls return; do the handlers get the rows that were published, and keep them |
| `stream_rows` | one topic: 2 subscriptions, 3 connections, 2 rows, capacity 1, with and without offset; sites: 3 nodes, 1 or 2 backup sites with 2 failures or a highly available table with 1, 4 connections, 2 rows, time-outs | consecutive rows across reconnections and moves, no subscription forgotten; are the entry, its sites and indices right, and is nothing left after `unsubscribe` |
| `stream_live` | one topic: 1 subscription whose first attempt may fail, 2 handlers, 2 connections; sites: the same with 1 failure; fairness | is a marked topic connected again, do the handlers end; is a site that runs found, or the new leader |
| `stream_stop` | 1 subscription, capacity 2, 2 rows, fairness | violated: with a full queue `unsubscribe` and the handler wait for each other (finding) |
| `data_forms` | table: 3 columns, 2 rows, 2 changes of its columns; array column: 3 rows of up to 2 cells, buffers of 8 to 16 bytes; second differences: columns of up to 5 values of 6 and 8 bits, blocks of 4; events: every schema of up to 2 fields, vectors of up to 4 cells where a byte counts to 1; casts: every temporal type, days of 2 hours of 3 minutes of 2 seconds, an int of 16 bits and a long of 21 | do rows stay together and names find their columns; does an array column change, read and arrive as rows; do a compressed column and the attributes of an event arrive as they were; do rows whose moments are cast reach the threads of their partitions |

Why the bounds are enough to meet the interesting cases: with one or two rows
per block beyond the first and three rows a writer has a full block, a partial
one and one in flight; two writer threads let one fail while the other goes on,
and two callers let one insert while the other asks, takes or ends. One table
can be added again while its previous `DestTable` ends with two of them. Three
tasks let one run, one wait and one be pushed. Four items wrap a ring of three
slots around. Three connections are a first one, a replacement, and one for the
next subscription; two rows are a message, the rest of it, and the one after.
Three sites let the one that is erased stand before or behind the current one;
two failures let the subscription come back to the site it has left, which
takes a fourth connection, and three nodes have a majority without one.
Two nodes and two faults let a call fail on one node, move, fail there and come
back, with the script run in between. The strings of the columns end with
`'\r'`, are empty, are cut by a buffer and by a block, and are longer than a
block. A table of three columns has one before, at and after the column that
refuses. Blocks of four values have the first value, the first difference and
two changes of it, and five values a second block; the numbers of six bits
include the extremes, whose difference needs a seventh. Nulls from shared
memory or `setNull` are taken in the last column and its last cell only, as all
are treated alike, and narrowed ones where `append` makes them. Two
subscriptions share what a message is made of, three messages let a tuple of
the first serve the third, and a queue of one makes the parsing thread wait
with the row in its hand; TLC finds a wrong `RowsDelivered` or `KeptRowsStay`
there with each exception taken away. Two fields let the first shift the
second, and four cells are more than two bytes of two values count.

Deadlock is checked in the writer's runs, where every caller may always call
again. In the others the system really may stop: when the bound is reached,
everything was shut down, or by the disagreements listed below.

Fairness. Threads of the library run, a server call returns, and a begun call
goes on (weak fairness per thread): the operating system schedules them and the
library sets timeouts on its sockets. A wait that ends by itself, such as the
pool's one second, is part of that. Streaming needs strong fairness for steps
that need a lock others take again and again (`readyMutex_`, `topicReconn_`):
the reconnect thread sleeps between its rounds, so that those who wait get
their turn. It also assumes that the publisher can be reached in the end, or, of
several, that one stays up; that the interval of a marked topic is over again
and again; and that `rand()` does not avoid the followers for ever, who name
the leader. For
`DBConnection` a server executes a request that is awaited, and one node at
least runs. Nothing obliges an application to call, a publisher to publish, a
datagram to come, or a condition variable to wake for nothing.

## 4. Proofs

The theorems hold for every number of threads, callers, tables, rows,
datagrams, connections and columns and every size of a block, queue or ring
that the named assumptions of the modules admit. `PROJECT.json` says what each
one establishes. None of the invariants the runs check is inductive by itself;
what had to be added to each is the argument why the code is right:

* `MultithreadedTableWriterProofs`. `TypeCorrect`, `ShapeCorrect`: types, and that
  all blocks of a queue but the last are full. `AccountingCorrect`,
  `OrderCorrect`, `StoredCorrect`, `WakeupCorrect` from `WriterInv`:
  `getUnwrittenData` drops a queue it has copied before, so that one needs that
  the copy is current (`CopyIsCurrent`), which in turn needs that `mutex_` and
  `insertRWLock_` are held by whom the code says (`LockDiscipline`), and the row
  count of a queue is a formula over full blocks (`BlockShape`). Order on the
  server needs where the rows of the block in flight stand (`RowOrder`) and that
  nothing stored is still to come (`StoredRowsLeft`); that no wakeup is lost, that
  the exit flag and its signal come in pairs (`ExitIsSignaled`).
  `CompletionCorrect` (`CompletionMeansWritten`) from `CompletionInv`: how far
  the destroying thread has come with the threads one by one, that nobody can
  insert behind it, and that a thread that ends without an error has emptied its
  queue. `ReportedCorrect` (`ReportedOnce`) and `DoubleCountCorrect`
  (`DoubleCountIsOneBlock`) from `ReportInv`: which rows may still be reported and by whom,
  and that at most one row is behind the last report of a thread.
  `StatusCorrect` (`StatusAddsUp`) from `StatusInv`: what `getStatus` has added up
  so far is what the threads it has visited had accepted and not handed back:
  their rows move on while it visits the others, but none comes or goes.
* `BatchTableWriterProofs`. `WritersCorrect` (`WritersInOrder`) from `WritersInv`:
  calls, the map and the threads agree on which `DestTable` a name stands for, although
  `addTable` and `removeTable` let go of `rwLock` in between. `AccountingCorrect`,
  `StoredCorrect` and the action property `DrainedCorrect` (`EndsDrained`) from
  `RowsInv`: which rows a thread holds when, and that no row is in two places.
* `ConnectionPoolProofs`. `TakenInOrderCorrect` from `PoolInv`.
  `TasksInOrderCorrect` needs in addition that a task that was pushed, is run or
  is answered is the only one its caller waits for (`OwnInv`); it has at most
  one appender as its hypothesis, which is what the code needs. The action
  property `AffectedCorrect` (`AffectedCountsChunks`) from `AffectedInv`: what
  `append` has added up so far is what its tasks were answered.
* `DBConnectionProofs`. The stack of calls has a shape (`StackInv`: which call may
  stand on which, and that a request on the wire belongs to the call on top).
  `NumberedCorrect` (`NumberedRunsOnce`) from `OnceInv`: what a server remembers
  under a client's number is what was executed under it, so that a call that
  is sent again is not executed again; this holds also when numbers
  wrap around. `AnswersCorrect` (`AnswersAreTrue`) and `ScriptFirstCorrect`
  (`ScriptFirst`) from `AnswerInv` do not: when the number comes around to one the server
  remembers, a new call gets an old answer. Both have `[]NumbersLast` as their
  hypothesis, that the connection makes fewer calls than a long counts, which
  is also how the run bounds them.
* `StreamSubscriptionProofs`. `TypeCorrect` (`TypeInv`) has the discipline of
  `readyMutex_` and which infos the four kinds of threads may have in their
  hands. `HandlersCorrect` (`HandlersEndFirst`, an action property) from
  `EntryInv`: whose threads an entry has. `RowsCorrect` (`ConsecutiveRows`) from
  `RowInv`: which row comes next at every place a message may be, in the hands
  of a parse thread, in the queue, at a handler. `SubscriptionsCorrect`
  (`SubscriptionsKept`) from `WatchInv`: a topic that is to be connected is marked,
  or some connection's parse thread is bound to mark it. The proof of the second
  one found the property's exception for subscriptions that share a topic too
  narrow for three subscriptions, which a run of two does not show: threads of a
  subscription the reconnect thread made are joined by nobody.
* `StreamSitesProofs`. `SitesKeptCorrect` (`SitesKept`: consecutive rows, one
  entry, the sites that remain, nothing after `unsubscribe`) from `SitesInv`: a
  subscription has an entry on one node only and a node serves it on one
  connection (`OneNode`); the entry and that connection await the same row
  (`RowsAwaited`); of the sites of an entry, one is the node it is entered for,
  and of a copy the one that was left (`SitesOf`), in spite of the erasing
  with `subOnce`; the open connection is the one whose socket the entry has
  (`SocketsKept`); and its ID leads to no entry that `operator[]` has made for a
  topic erased meanwhile (`FoundByID`), as such entries may stay. The proof showed that a mark out of date (`stale`) costs a
  subscription no row, so that `RowsContinue` no longer excepts it.
* `StreamQueuesProofs`. Of `UdpStreaming`: `RowsCorrect` (`RowsAsPublished`) from
  `LinkInv`: a chain from the row the handler had last over the message in its
  hands and those in the queue to `offset`, each beginning where the one before
  ends, but for rows nobody has published. Of `BlockingQueue`: `RingCorrect`,
  `WaitersCorrect` from `QueueInv`, and `QueueIsFifo`: every step of the ring
  maps to a step or a stutter of `FifoQueue`. Of `MessageDelivery`:
  `KeptRowsCorrect` (`KeptRowsStay`) from `ObjectsInv`: which objects the parsing
  thread, the queues, the handlers and the application refer to, that a tuple the
  deserializer will use again is with none of them and there once (`ObjectsApart`,
  `OnceEach`), and that rows, tuples and columns are never one object; and
  `DeliveredRowsCorrect` (`RowsDelivered`) from `RowsInv`: a chain of offsets from
  the row after those the handler got (`Position`), over the message in its hands,
  its queue and what is due to it, to the end of what was received
  (`MsgFollows`, `QueueFollows`, `DueFollows`), each message with exactly the rows its
  offset says (`Right`). That merging into one table leaves the next ones as they
  are needs that they are different objects, made in the order in which they
  are popped (`InOrder`).
* `BasicTableProofs`. `RowsTogetherCorrect`, `NamesCorrect`, `FlagsCorrect` from
  `TableInv`: a column may be one row ahead while rows are written to the columns
  themselves, then with the one row that is being written (`AsLong`), or
  `updateSize` could bring different rows together; and names that are told apart have the
  places of the map in their order, so that the number of names the map has is the
  place of the next one. That a finite set of numbers has a least one
  (`LeastNatural`) is proved from the well-foundedness of the subsets.

Assumptions on the constants are those of the modules (`ThreadAssumption`,
`PoolAssumption` and so on), which TLC evaluates in the runs: sizes are at least
one where the code divides or waits by them, a batch is not larger than a block,
callers and writer threads are different threads. What a property excepts is
part of the property, and said in section 5.

Only model-checked:

* every liveness property, as the prover has none of fairness and ENABLED;
* `ArrayVector`, `ArrayMarshall`, `DeltaOfDelta`, `EventEncoding`,
  `ColumnTransfer`, `TemporalCasts`, `TableAppenders`: what recursive
  definitions and `SelectSeq` compute, which is induction over data.

## 5. What the code does otherwise than it says

Three runs refute a statement of the repository (the findings of
`PROJECT.json`): `removeTable` releasing the thread, a poll being told of its
task, and handler threads stopping upon `unsubscribe`.

More was met while modelling, and is excluded from the properties by name
rather than ignored:

* Writer: an insert that passed its test of `hasError_` may queue one row
  nobody reports (`ReportedOnce`); a callback that throws makes a block
  count twice (`DoubleCountIsOneBlock`); `unsentRows` is short by one per full
  block (`StatusAddsUp`).
* Batch writer: an insert may push a row after `removeTable` has joined the
  thread; `finished` is visible before the failed rows are.
* Pool: identities of the pool and of an appender come from one map, with
  nothing that keeps users from choosing an appender's; an empty script never
  finishes; an empty result of one chunk resets the sum of `append`
  (`AffectedCountsChunks`).
* Streaming: the parse thread of a connection that was replaced may deliver or
  report late, so that rows are repeated or a healthy topic is reconnected
  (`outdated`); a connection that breaks between the publisher's first message
  and `insertMeta` is never recovered (`early`); a reconnection under the same
  topic leaves the old `socket_` in the entry, so `unsubscribe` closes the wrong
  one; a subscription whose first attempt failed is kept under the empty topic
  and its threads with it, so that `unsubscribe` does not join them later, and
  one unsubscribed before the retry is connected all the same, which with a
  further subscription of the topic is beyond what the properties promise
  (`stream_rows` therefore lets first attempts succeed, `stream_live` lets the
  one subscription fail).
* Sites: a mark is erased only by a message of its own topic, so that the mark of
  a site that was given up makes the reconnect thread take the subscription away
  from that site when it has come back to it, and its connection is never closed
  (`stale`); the thread puts its copy of the entry back after every attempt, so
  that an offset, a handler or an `unsubscribe` of meanwhile is undone
  (`overwritten`, `crossed`). A parse thread whose connection is lost stamps topics
  it has looked up before, and of one that `unsubscribe` or a move has erased
  meanwhile `operator[]` makes a blank entry (`Invalid`), which stays, and is marked:
  the reconnect thread passes it over in every round. What the properties say of
  the entries of the subscription (`Entries`) does not count it. `unsubscribe` throws while the current site is
  down. A new leader is found only when a follower is tried at random and names
  it: the leader itself, tried at random, would be asked for the topic while
  `publishTable` goes to the old one. The same leader connected again leaves its
  socket in no entry, so that `unsubscribe` does not close it. Entries of
  `haStreamTableInfo_` (used to unsubscribe by another node's name, not
  modelled) are never brought up to date.
* UDP: `unsubscribe` may not return when the queue is full, nor when a call of
  a handler overlaps another call (`wasFull`, `crossed`).
* Messages: of two subscriptions with a deserializer on one connection the second
  gets messages with nothing in them (`GivenAway`); handlers that get tables of
  one message share its columns, and one that merges extends them for all
  (`OthersMerge`); a handler of single rows gets the same object every time, so
  that a row it keeps changes; a row a deserializer does not know ends the
  parsing thread, and its tuple is lost; an event a client does not know drops
  the whole message.
* Events: a vector of type ANY is written as an object and read as an array;
  of a vector of strings given for a symbol, whose form is not checked, only
  the first arrives (`Confused`); with more than 65535 cells the width of the
  count is never found, and `sendEvent` does not return.
* Connection: `connect()` with high availability returns without a client id
  when it has moved to the lighter node, so that retried calls may be executed
  twice (`NumberedRunsOnce` asks for the client id); an `upload` carries no
  number; when the initial script is refused on a node the connection has moved
  to, the calls after that run without it (`scriptFailed`); an error `connect()`
  does not know makes it ask for the loads again without end; `close()` during
  `connect()` may leave it with no table of loads, which it then reads.
* Marshalling: a string read from a socket loses a `'\r'` at its end, the same
  string from a compressed column does not; a compressed string of 64K or more
  loses its first 64K and takes on the beginning of what follows, one of 128K
  is begun again for ever (`TransferAssumption` excludes it); when the decoding
  thread ends for an error the reading thread waits for ever (`Deserted`); the
  result of reading a column's header is not looked at (`garbage`).
* Second differences: the first difference of a block is written in the bits of
  the type, so that a difference beyond it spoils the block (the ints
  -2000000000 and 2000000000); and some first values or differences, nulls after
  them included, look like the end mark and cut the block short
  (`FirstDifferenceCut`, `LooksLikeEnd`).
* Table: the null flag knows of the nulls it was told of only (`NullFlagSound`): not
  of those by `setNull(index)`, nor of a row read from shared memory, nor of a
  value that is narrowed to the null of the column, as 2147483648 is to that of an
  int column, nor of those of a value whose own flag is wrong; columns that share a
  name make the map point past or beside columns added later (`twice`);
  `remove` of rows of a tuple column throws in the middle (`torn`); a tuple
  column takes several rows as one cell (`mixed`).
* Casts: a month of a moment before 1970 after midnight is that of the day after;
  so is the day of such an hour, and its time is negative; a vector of timestamps
  before 1970 on a full second is cast to the hour after it, which a timestamp by
  itself is not; hours beyond the seconds an int counts wrap around (`Inexact`).
  A null is looked up in a `RangeDomain` of an int type as 0 (`NullIsFound`).
* Array column: appending a range of one value takes the first value instead of
  the one asked for (`exact`); appending one value of a type that does not
  convert throws with the ends already longer; `reverse` of a part mixes rows up
  (nobody calls it).

## 6. Not modelled, and the plan

Next, in this order:

1. an abstract ledger of rows (accepted, pending, stored, failed, handed back)
   that both writers implement;
2. streaming in listen mode and with `exit()`, two topics that share
   `readyMutex_` (`parseMessage` holds it while it waits for room on one
   queue).

Known places without a model: `addTable` publishes an entry before its members
are set (`BatchTableWriter.cpp:71`) and never unlocks `writeMutex` (112); the
pool's constructor may throw with workers running (`DBConnectionPoolImpl.cpp:16`);
`insertUnwrittenData` appends without the lock of `insert`
(`MultithreadedTableWriter.h:104`).

Left out for good: vendored code (`ccapi_cpp`, `absl`, LZ4), formatting, the
operating system layer, examples, the reader of shared memory, whose protocol
is the server's, and the type-by-type containers and conversions of the data
model, which are sequential and which unit tests reach.
