---------------------- MODULE MultithreadedTableWriter ----------------------
(***************************************************************************)
(* The multithreaded table writer of the C++ API                           *)
(* (src/include/MultithreadedTableWriter.h,                                *)
(* src/src/MultithreadedTableWriter.cpp).                                  *)
(*                                                                         *)
(* Application threads ("callers") insert rows.  A row is routed by the    *)
(* key of its partition to one of the writer threads and appended to that  *)
(* thread's writeQueue_, a list of column blocks.  The writer thread pops  *)
(* whole blocks and sends each with one server call.  The first failed     *)
(* call latches hasError_, after which every thread stops sending.         *)
(*                                                                         *)
(* A row is named by its rank: row n of thread t is the n-th row that was  *)
(* ever appended to writeQueue_ of t.  The columns of a row are abstracted *)
(* away; which thread a row goes to is decided by its key.                 *)
(***************************************************************************)
EXTENDS Integers, Sequences, FiniteSets, Functions

CONSTANTS
  ThreadCount,   \* threadCount of the constructor
  Callers,       \* threads of the application
  BulkCallers,   \* the callers that may call insertUnwrittenData
  Admins,        \* the callers that may call getUnwrittenData and
                 \* waitForThreadCompletion
  Keys,          \* hash values and partition keys of the rows, -1 included
  PerBlock,      \* perBlockSize_
  BatchSize,     \* batchSize_
  Throttled,     \* throttleMilsecond_ > 0
  WithCallback,  \* callbackFunc_ != nullptr
  Faults,        \* what may go wrong, a subset of FaultKinds
  MaxRows,       \* bound: rows passed to insert in one behaviour
  MaxBulk,       \* bound: rows of one insertUnwrittenData
  Nobody         \* the holder of a free lock

(* "reject": the server refuses the block; "lost": it stores the block but *)
(* the reply never arrives; "throw": callbackFunc_ throws on a success.    *)
FaultKinds == {"reject", "lost", "throw"}

Threads == 0 .. ThreadCount - 1

ASSUME ThreadAssumption ==
  /\ ThreadCount \in Nat \ {0}
  /\ BulkCallers \subseteq Callers
  /\ Admins \subseteq Callers
  /\ Nobody \notin Callers
  /\ Callers \cap Threads = {}
  /\ Nobody \notin Threads
ASSUME SizeAssumption ==
  /\ Keys \subseteq Int
  /\ PerBlock \in Nat \ {0}
  /\ BatchSize \in Nat \ {0}
  /\ BatchSize <= PerBlock      \* perBlockSize_ = max(batchSize_, 65535)
  /\ MaxRows \in Nat
  /\ MaxBulk \in Nat \ {0}
ASSUME ModeAssumption ==
  /\ WithCallback \in BOOLEAN
  /\ Throttled \in BOOLEAN
  /\ Faults \subseteq FaultKinds

VARIABLES
  insertRWLock,  \* holder of insertRWLock_, only ever taken exclusively
  hasError,      \* hasError_
  errorInfo,     \* what errorInfo_ holds: "none", "server" or "closed"
  exited,        \* exited_
  submitted,     \* rows passed to insert so far, bounded by MaxRows
  (* per caller *)
  callPc,        \* where the caller is in the API call it makes
  callTodo,      \* rows of the call that are not appended yet
  callIndex,     \* thread the call's loop over threads_ has reached, or
                 \* the thread the last row was routed to
  copied,        \* rows getUnwrittenData has copied from the current thread
  report,        \* the Status getStatus fills in
  (* per writer thread *)
  writeQueue,    \* writeQueue_: a sequence of blocks, each a sequence of rows
  failedQueue,   \* failedQueue_
  sentRows,      \* sentRows
  exit,          \* exit
  signaled,      \* nonemptySignal.signaled_
  mutex,         \* holder of mutex_
  pc,            \* where SendExecutor::run is
  loop,          \* which loop of run() called writeAllData
  items,         \* the block writeAllData has popped
  (* history *)
  accepted,      \* rows ever appended to writeQueue_
  handed,        \* rows handed back by getUnwrittenData
  stored,        \* the rows the server has stored through this thread
  okRows,        \* rows reported to callbackFunc_ as written
  badRows        \* rows reported to callbackFunc_ as not written

callerVars == <<callPc, callTodo, callIndex, copied, report>>
errorVars  == <<hasError, errorInfo>>
writerVars == <<pc, loop, items, stored, sentRows>>
reportVars == <<okRows, badRows>>
vars == <<insertRWLock, hasError, errorInfo, exited, submitted, callPc,
          callTodo, callIndex, copied, report, writeQueue, failedQueue,
          sentRows, exit, signaled, mutex, pc, loop, items, accepted,
          handed, stored, okRows, badRows>>

-----------------------------------------------------------------------------
(* The write queue: a list of column blocks. *)

EmptyQueue == << <<>> >>             \* one block from createColumnBlock()

Back(q) == q[Len(q)]

(* Rows in a queue whose blocks, the last one excepted, are full.  Blocks   *)
(* are opened when size() > perBlockSize_, so a full one holds one row more *)
(* than perBlockSize_.                                                      *)
BlockStart(i) == (i - 1) * (PerBlock + 1)   \* rows in the blocks before i
QueueRows(q) == BlockStart(Len(q)) + Len(Back(q))

(* The number of rows getStatus and run() compute for the queue. *)
CountedRows(q) == (Len(q) - 1) * PerBlock + Len(Back(q))

(* The shape the queue is meant to have; see BlockShape. *)
WellShaped(q) ==
  /\ \A i \in 1 .. Len(q) - 1 : Len(q[i]) = PerBlock + 1
  /\ Len(Back(q)) <= PerBlock + 1
  /\ Len(q) > 1 => Len(Back(q)) > 0

BackIsFull(q) == Len(Back(q)) > PerBlock

(* insertThreadWrite: append to the last block, or open one when it is full *)
AppendRow(q, row) ==
  IF BackIsFull(q) THEN Append(q, <<row>>)
                   ELSE [q EXCEPT ![Len(q)] = Append(@, row)]

(* Mutants: forget to push an empty block; forget to pop the block. *)
PopBlockOnly(q) == Tail(q)
KeepBlock(q) == q

(* writeAllData: take the first block, and never leave the list empty *)
PopBlock(q) == IF Len(q) = 1 THEN EmptyQueue ELSE Tail(q)

(* insertThreadWrite: the thread that a key selects *)
ThreadOf(key) == (IF key < 0 THEN 0 ELSE key) % ThreadCount

(* The rows of a queue, block after block. *)
RowsOf(q) ==
  [n \in 1 .. QueueRows(q) |->
     q[((n - 1) \div (PerBlock + 1)) + 1][((n - 1) % (PerBlock + 1)) + 1]]

EmptyReport == [sent |-> 0, unsent |-> 0, failed |-> 0, blocks |-> 0]

IsExit(t) == hasError \/ exit[t]

(* The loop that writes what is left stops for an error alone.  Mutant: it  *)
(* uses isExit() like the loop before it.                                   *)
StopsOnExit(t) == IsExit(t)
StopsOnError(t) == hasError

(* Signal::set().  Mutant: set it for the first row of a queue only.        *)
SetForFirstRow(t) ==
  signaled' = [signaled EXCEPT ![t] = @ \/ QueueRows(writeQueue[t]) = 1]
SetSignal(t) == signaled' = [signaled EXCEPT ![t] = TRUE]

(* LockGuard<Mutex> on mutex_ of the thread.  Mutant: no lock is taken.     *)
MutexNotTaken(t) == TRUE
MutexIsFree(t) == mutex[t] = Nobody

(* failedQueue_ once getUnwrittenData has copied it.  Mutant: not cleared.  *)
FailedKept(t) == failedQueue[t]
FailedAfterCopy(t) == <<>>

(* What the last statement of run() reports: the rows of every block left.  *)
RowsLeft(t) == RowsOf(writeQueue[t])

-----------------------------------------------------------------------------
Init ==
  /\ insertRWLock = Nobody
  /\ hasError = FALSE
  /\ errorInfo = "none"
  /\ exited = FALSE
  /\ submitted = 0
  /\ callPc = [c \in Callers |-> "idle"]
  /\ callTodo = [c \in Callers |-> 0]
  /\ callIndex = [c \in Callers |-> 0]
  /\ copied = [c \in Callers |-> 0]
  /\ report = [c \in Callers |-> EmptyReport]
  /\ writeQueue = [t \in Threads |-> EmptyQueue]
  /\ failedQueue = [t \in Threads |-> <<>>]
  /\ sentRows = [t \in Threads |-> 0]
  /\ exit = [t \in Threads |-> FALSE]
  /\ signaled = [t \in Threads |-> FALSE]
  /\ mutex = [t \in Threads |-> Nobody]
  /\ pc = [t \in Threads |-> "top"]
  /\ loop = [t \in Threads |-> "drain"]
  /\ items = [t \in Threads |-> <<>>]
  /\ accepted = [t \in Threads |-> 0]
  /\ handed = [t \in Threads |-> 0]
  /\ stored = [t \in Threads |-> <<>>]
  /\ okRows = [t \in Threads |-> <<>>]
  /\ badRows = [t \in Threads |-> <<>>]

-----------------------------------------------------------------------------
(* insert() and insertUnwrittenData()                                       *)

(* The thread the next row of the call goes to: callIndex of the caller.    *)
RouteRow(c) ==
  \E key \in Keys : callIndex' = [callIndex EXCEPT ![c] = ThreadOf(key)]

(* insert(): take insertRWLock_, give up if hasError_ (a rejected call      *)
(* changes nothing and is not a step).                                      *)
Insert(c) ==
  /\ callPc[c] = "idle"
  /\ insertRWLock = Nobody
  /\ ~hasError
  /\ submitted < MaxRows
  /\ insertRWLock' = c
  /\ submitted' = submitted + 1
  /\ callTodo' = [callTodo EXCEPT ![c] = 1]
  /\ RouteRow(c)
  /\ callPc' = [callPc EXCEPT ![c] = "append"]
  /\ UNCHANGED <<errorVars, exited, copied, report, writeQueue,
                 failedQueue, exit, signaled, mutex, writerVars, accepted,
                 handed, reportVars>>

(* insertUnwrittenData(): calls the private insert() directly, so it checks *)
(* hasError_ but does not take insertRWLock_.                               *)
InsertUnwrittenData(c) ==
  /\ c \in BulkCallers
  /\ callPc[c] = "idle"
  /\ ~hasError
  /\ \E rows \in 1 .. MaxBulk :
       /\ submitted + rows <= MaxRows
       /\ submitted' = submitted + rows
       /\ callTodo' = [callTodo EXCEPT ![c] = rows]
  /\ RouteRow(c)
  /\ callPc' = [callPc EXCEPT ![c] = "append"]
  /\ UNCHANGED <<insertRWLock, errorVars, exited, copied, report,
                 writeQueue, failedQueue, exit, signaled, mutex, writerVars,
                 accepted, handed, reportVars>>

(* insertThreadWrite(), the part under writeQueueMutex_. *)
InsertThreadWrite(c) ==
  LET t == callIndex[c]
  IN /\ callPc[c] = "append"
     /\ writeQueue' = [writeQueue EXCEPT ![t] = AppendRow(@, accepted[t] + 1)]
     /\ accepted' = [accepted EXCEPT ![t] = @ + 1]
     /\ callTodo' = [callTodo EXCEPT ![c] = @ - 1]
     /\ callPc' = [callPc EXCEPT ![c] = "signal"]
     /\ UNCHANGED <<insertRWLock, errorVars, exited, submitted, callIndex,
                    copied, report, failedQueue, exit, signaled, mutex,
                    writerVars, handed, reportVars>>

(* insertThreadWrite(): nonemptySignal.set() after the mutex is released;   *)
(* the last row of the call ends it and releases insertRWLock_ if the call  *)
(* took it.                                                                 *)
SignalNonempty(c) ==
  /\ callPc[c] = "signal"
  /\ SetSignal(callIndex[c])
  /\ IF callTodo[c] > 0
     THEN /\ callPc' = [callPc EXCEPT ![c] = "append"]
          /\ RouteRow(c)
          /\ UNCHANGED insertRWLock
     ELSE /\ callPc' = [callPc EXCEPT ![c] = "idle"]
          /\ callIndex' = [callIndex EXCEPT ![c] = 0]
          /\ insertRWLock' = IF insertRWLock = c THEN Nobody ELSE insertRWLock
  /\ UNCHANGED <<errorVars, exited, submitted, callTodo, copied, report,
                 writeQueue, failedQueue, exit, mutex, writerVars, accepted,
                 handed, reportVars>>

-----------------------------------------------------------------------------
(* getStatus(): under insertRWLock_, one writer thread after the other      *)
(* under that thread's mutex_.                                              *)

GetStatus(c) ==
  /\ callPc[c] = "idle"
  /\ insertRWLock = Nobody
  /\ insertRWLock' = c
  /\ callPc' = [callPc EXCEPT ![c] = "status"]
  /\ UNCHANGED <<errorVars, exited, submitted, callTodo, callIndex, copied,
                 report, writeQueue, failedQueue, exit, signaled, mutex,
                 writerVars, accepted, handed, reportVars>>

StatusOfThread(c) ==
  LET t == callIndex[c]
      q == writeQueue[t]
  IN /\ callPc[c] = "status"
     /\ MutexIsFree(t)
     /\ report' = [report EXCEPT ![c] =
          [sent   |-> @.sent + sentRows[t],
           unsent |-> @.unsent + CountedRows(q),
           failed |-> @.failed + Len(failedQueue[t]),
           blocks |-> @.blocks + Len(q)]]
     /\ IF t = ThreadCount - 1
        THEN /\ callPc' = [callPc EXCEPT ![c] = "statusDone"]
             /\ callIndex' = [callIndex EXCEPT ![c] = 0]
        ELSE /\ callIndex' = [callIndex EXCEPT ![c] = t + 1]
             /\ UNCHANGED callPc
     /\ UNCHANGED <<insertRWLock, errorVars, exited, submitted, callTodo,
                    copied, writeQueue, failedQueue, exit, signaled, mutex,
                    writerVars, accepted, handed, reportVars>>

(* getStatus() returns and its guard releases insertRWLock_. *)
StatusReturn(c) ==
  /\ callPc[c] = "statusDone"
  /\ insertRWLock' = Nobody
  /\ callPc' = [callPc EXCEPT ![c] = "idle"]
  /\ report' = [report EXCEPT ![c] = EmptyReport]
  /\ UNCHANGED <<errorVars, exited, submitted, callTodo, callIndex, copied,
                 writeQueue, failedQueue, exit, signaled, mutex, writerVars,
                 accepted, handed, reportVars>>

-----------------------------------------------------------------------------
(* getUnwrittenData(): under insertRWLock_; for each writer thread, under   *)
(* its mutex_ but not under its writeQueueMutex_, the failed rows are moved *)
(* out, the queued rows are copied, and then the queue is replaced.         *)

GetUnwrittenData(c) ==
  /\ c \in Admins
  /\ ~WithCallback                  \* throws when callbackFunc_ is set
  /\ callPc[c] = "idle"
  /\ insertRWLock = Nobody
  /\ insertRWLock' = c
  /\ callPc' = [callPc EXCEPT ![c] = "copy"]
  /\ UNCHANGED <<errorVars, exited, submitted, callTodo, callIndex, copied,
                 report, writeQueue, failedQueue, exit, signaled, mutex,
                 writerVars, accepted, handed, reportVars>>

CopyUnwritten(c) ==
  LET t == callIndex[c]
  IN /\ callPc[c] = "copy"
     /\ MutexIsFree(t)
     /\ mutex' = [mutex EXCEPT ![t] = c]
     /\ handed' = [handed EXCEPT ![t] = @ + Len(failedQueue[t])]
     /\ failedQueue' = [failedQueue EXCEPT ![t] = FailedAfterCopy(t)]
     /\ copied' = [copied EXCEPT ![c] = QueueRows(writeQueue[t])]
     /\ callPc' = [callPc EXCEPT ![c] = "clear"]
     /\ UNCHANGED <<insertRWLock, errorVars, exited, submitted, callTodo,
                    callIndex, report, writeQueue, exit, signaled,
                    writerVars, accepted, reportVars>>

ClearUnwritten(c) ==
  LET t == callIndex[c]
  IN /\ callPc[c] = "clear"
     /\ writeQueue' = [writeQueue EXCEPT ![t] = EmptyQueue]
     /\ handed' = [handed EXCEPT ![t] = @ + copied[c]]
     /\ copied' = [copied EXCEPT ![c] = 0]
     /\ mutex' = [mutex EXCEPT ![t] = Nobody]
     /\ IF t = ThreadCount - 1
        THEN /\ callPc' = [callPc EXCEPT ![c] = "idle"]
             /\ callIndex' = [callIndex EXCEPT ![c] = 0]
             /\ insertRWLock' = Nobody
        ELSE /\ callPc' = [callPc EXCEPT ![c] = "copy"]
             /\ callIndex' = [callIndex EXCEPT ![c] = t + 1]
             /\ UNCHANGED insertRWLock
     /\ UNCHANGED <<errorVars, exited, submitted, callTodo, report,
                    failedQueue, exit, signaled, writerVars, accepted,
                    reportVars>>

-----------------------------------------------------------------------------
(* waitForThreadCompletion(): under insertRWLock_ for its whole duration.   *)

WaitForThreadCompletion(c) ==
  /\ c \in Admins
  /\ callPc[c] = "idle"
  /\ insertRWLock = Nobody
  /\ ~exited
  /\ insertRWLock' = c
  /\ callPc' = [callPc EXCEPT ![c] = "exit"]
  /\ UNCHANGED <<errorVars, exited, submitted, callTodo, callIndex, copied,
                 report, writeQueue, failedQueue, exit, signaled, mutex,
                 writerVars, accepted, handed, reportVars>>

SetExit(c) ==
  /\ callPc[c] = "exit"
  /\ exit' = [exit EXCEPT ![callIndex[c]] = TRUE]
  /\ callPc' = [callPc EXCEPT ![c] = "exitSignal"]
  /\ UNCHANGED <<insertRWLock, errorVars, exited, submitted, callTodo,
                 callIndex, copied, report, writeQueue, failedQueue,
                 signaled, mutex, writerVars, accepted, handed, reportVars>>

SignalExit(c) ==
  LET t == callIndex[c]
  IN /\ callPc[c] = "exitSignal"
     /\ SetSignal(t)
     /\ IF t = ThreadCount - 1
        THEN /\ callPc' = [callPc EXCEPT ![c] = "join"]
             /\ callIndex' = [callIndex EXCEPT ![c] = 0]
        ELSE /\ callPc' = [callPc EXCEPT ![c] = "exit"]
             /\ callIndex' = [callIndex EXCEPT ![c] = t + 1]
     /\ UNCHANGED <<insertRWLock, errorVars, exited, submitted, callTodo,
                    copied, report, writeQueue, failedQueue, exit, mutex,
                    writerVars, accepted, handed, reportVars>>

(* Join one thread; after the last one, setError(0, "") and exited_.        *)
JoinThread(c) ==
  LET t == callIndex[c]
  IN /\ callPc[c] = "join"
     /\ pc[t] = "done"
     /\ IF t = ThreadCount - 1
        THEN /\ callPc' = [callPc EXCEPT ![c] = "idle"]
             /\ callIndex' = [callIndex EXCEPT ![c] = 0]
             /\ insertRWLock' = Nobody
             /\ exited' = TRUE
             /\ hasError' = TRUE
             /\ errorInfo' = IF hasError THEN errorInfo ELSE "closed"
        ELSE /\ callIndex' = [callIndex EXCEPT ![c] = t + 1]
             /\ UNCHANGED <<callPc, insertRWLock, exited, errorVars>>
     /\ UNCHANGED <<submitted, callTodo, copied, report, writeQueue,
                    failedQueue, exit, signaled, mutex, writerVars,
                    accepted, handed, reportVars>>

-----------------------------------------------------------------------------
(* SendExecutor::run(), the body of a writer thread.                        *)

(* run() looks at writeQueue_.back()->front()->size() without any lock.     *)
(* While insertThreadWrite() opens a block, it can see the new block before *)
(* the row is in it.                                                        *)
SeesEmptyBack(t) ==
  \/ Back(writeQueue[t]) = <<>>
  \/ /\ BackIsFull(writeQueue[t])
     /\ \E c \in Callers : callPc[c] = "append" /\ callIndex[c] = t

SeesRows(t) == Back(writeQueue[t]) # <<>>

WriterUnchanged ==
  UNCHANGED <<insertRWLock, exited, submitted, callerVars, exit, accepted,
              handed>>

Goto(t, label) == pc' = [pc EXCEPT ![t] = label]

(* while(isExit() == false) *)
RunTop(t) ==
  /\ pc[t] = "top"
  /\ IF IsExit(t) THEN /\ Goto(t, "check")
                       /\ loop' = [loop EXCEPT ![t] = "left"]
                  ELSE Goto(t, "first") /\ UNCHANGED loop
  /\ UNCHANGED <<errorVars, writeQueue, failedQueue, sentRows, signaled,
                 mutex, items, stored, reportVars>>
  /\ WriterUnchanged

(* Wait for first data, or go on. *)
RunFirst(t) ==
  /\ pc[t] = "first"
  /\ \/ SeesEmptyBack(t) /\ Goto(t, "wait")
     \/ SeesRows(t) /\ Goto(t, "woken")
  /\ UNCHANGED <<errorVars, writeQueue, failedQueue, signaled, mutex, loop,
                 items, stored, sentRows, reportVars>>
  /\ WriterUnchanged

(* nonemptySignal.wait() returns because the signal is set; it is reset.    *)
Wakeup(t) ==
  /\ pc[t] = "wait"
  /\ signaled[t]
  /\ signaled' = [signaled EXCEPT ![t] = FALSE]
  /\ Goto(t, "woken")
  /\ UNCHANGED <<errorVars, writeQueue, failedQueue, mutex, loop, items,
                 stored, sentRows, reportVars>>
  /\ WriterUnchanged

(* nonemptySignal.wait() tests signaled_ once and does not loop, so that a  *)
(* spurious wakeup of the condition variable returns too.                   *)
SpuriousWakeup(t) ==
  /\ pc[t] = "wait"
  /\ ~signaled[t]
  /\ Goto(t, "woken")
  /\ UNCHANGED <<errorVars, writeQueue, failedQueue, signaled, mutex, loop,
                 items, stored, sentRows, reportVars>>
  /\ WriterUnchanged

(* isExit() leaves the loop; otherwise wait for a batch if configured to.   *)
AfterWakeup(t) ==
  /\ pc[t] = "woken"
  /\ IF IsExit(t) THEN /\ Goto(t, "check")
                       /\ loop' = [loop EXCEPT ![t] = "left"]
     ELSE IF BatchSize > 1 /\ Throttled
          THEN Goto(t, "batch") /\ UNCHANGED loop
          ELSE /\ Goto(t, "check")
               /\ loop' = [loop EXCEPT ![t] = "drain"]
  /\ UNCHANGED <<errorVars, writeQueue, failedQueue, sentRows, signaled,
                 mutex, items, stored, reportVars>>
  /\ WriterUnchanged

(* The batch loop ends because of isExit(), a full batch or the throttle    *)
(* time, which may run out at any moment, in tryWait or between two calls.  *)
BatchDone(t) ==
  /\ pc[t] = "batch"
  /\ \/ UNCHANGED signaled
     \/ /\ ~IsExit(t)
        /\ CountedRows(writeQueue[t]) < BatchSize
        /\ signaled' = [signaled EXCEPT ![t] = FALSE]
  /\ Goto(t, "check")
  /\ loop' = [loop EXCEPT ![t] = "drain"]
  /\ UNCHANGED <<errorVars, writeQueue, failedQueue, sentRows, mutex, items,
                 stored, reportVars>>
  /\ WriterUnchanged

(* tryWait() returns before the throttle time because the signal is set;    *)
(* the loop tests the batch size again.                                     *)
BatchWakeup(t) ==
  /\ pc[t] = "batch"
  /\ ~IsExit(t)
  /\ CountedRows(writeQueue[t]) < BatchSize
  /\ signaled[t]
  /\ signaled' = [signaled EXCEPT ![t] = FALSE]
  /\ UNCHANGED <<errorVars, writeQueue, failedQueue, mutex, writerVars,
                 reportVars>>
  /\ WriterUnchanged

(* The condition of the two loops around writeAllData(): isExit() in the    *)
(* main loop, hasError_ alone in the loop that writes what is left.         *)
LoopCheck(t) ==
  /\ pc[t] = "check"
  /\ IF loop[t] = "drain"
     THEN Goto(t, IF IsExit(t) THEN "top" ELSE "pop")
     ELSE Goto(t, IF StopsOnError(t) THEN "final" ELSE "pop")
  /\ UNCHANGED <<errorVars, writeQueue, failedQueue, signaled, mutex, loop,
                 items, stored, sentRows, reportVars>>
  /\ WriterUnchanged

-----------------------------------------------------------------------------
(* writeAllData(): holds mutex_ from the pop to its return.                 *)

PopItems(t) ==
  LET first == Head(writeQueue[t])
  IN /\ pc[t] = "pop"
     /\ MutexIsFree(t)
     /\ IF first = <<>>
        THEN /\ Goto(t, IF loop[t] = "drain" THEN "top" ELSE "final")
             /\ UNCHANGED <<writeQueue, mutex, items>>
        ELSE /\ mutex' = [mutex EXCEPT ![t] = t]
             /\ writeQueue' = [writeQueue EXCEPT ![t] = PopBlock(@)]
             /\ items' = [items EXCEPT ![t] = first]
             /\ Goto(t, "send")
     /\ UNCHANGED <<errorVars, failedQueue, signaled, loop, stored, sentRows,
                    reportVars>>
     /\ WriterUnchanged

(* conn->run(): the server stores the block and the call returns, or it     *)
(* throws, with the block stored ("lost") or not ("reject").                *)
ServerCall(t) ==
  /\ pc[t] = "send"
  /\ \/ stored' = [stored EXCEPT ![t] = @ \o items[t]] /\ Goto(t, "ok")
     \/ /\ "lost" \in Faults
        /\ stored' = [stored EXCEPT ![t] = @ \o items[t]]
        /\ Goto(t, "failed")
     \/ "reject" \in Faults /\ Goto(t, "failed") /\ UNCHANGED stored
  /\ UNCHANGED <<errorVars, writeQueue, failedQueue, signaled, mutex, loop,
                 items, sentRows, reportVars>>
  /\ WriterUnchanged

(* sentRows is advanced and the rows are reported as written. *)
BlockWritten(t) ==
  /\ pc[t] = "ok"
  /\ sentRows' = [sentRows EXCEPT ![t] = @ + Len(items[t])]
  /\ okRows' = IF WithCallback
               THEN [okRows EXCEPT ![t] = @ \o items[t]] ELSE okRows
  /\ items' = [items EXCEPT ![t] = <<>>]
  /\ mutex' = [mutex EXCEPT ![t] = Nobody]
  /\ Goto(t, "check")
  /\ UNCHANGED <<errorVars, writeQueue, failedQueue, signaled, loop, stored,
                 badRows>>
  /\ WriterUnchanged

(* The same, but the callback throws: the handler of the failed server call *)
(* catches the exception.                                                   *)
CallbackThrows(t) ==
  /\ pc[t] = "ok"
  /\ WithCallback
  /\ "throw" \in Faults
  /\ sentRows' = [sentRows EXCEPT ![t] = @ + Len(items[t])]
  /\ okRows' = [okRows EXCEPT ![t] = @ \o items[t]]
  /\ Goto(t, "failed")
  /\ UNCHANGED <<errorVars, writeQueue, failedQueue, signaled, mutex, loop,
                 items, stored, badRows>>
  /\ WriterUnchanged

(* The exception handler: the rows become failed rows and are reported ... *)
BlockFailed(t) ==
  /\ pc[t] = "failed"
  /\ failedQueue' = [failedQueue EXCEPT ![t] = @ \o items[t]]
  /\ badRows' = IF WithCallback
                THEN [badRows EXCEPT ![t] = @ \o items[t]] ELSE badRows
  /\ items' = [items EXCEPT ![t] = <<>>]
  /\ Goto(t, "setError")
  /\ UNCHANGED <<errorVars, writeQueue, signaled, mutex, loop, stored,
                 sentRows, okRows>>
  /\ WriterUnchanged

(* ... and only then hasError_ is set, once and for all threads.            *)
SetError(t) ==
  /\ pc[t] = "setError"
  /\ hasError' = TRUE
  /\ errorInfo' = IF hasError THEN errorInfo ELSE "server"
  /\ mutex' = [mutex EXCEPT ![t] = Nobody]
  /\ Goto(t, "check")
  /\ UNCHANGED <<writeQueue, failedQueue, signaled, loop, items, stored,
                 sentRows, reportVars>>
  /\ WriterUnchanged

(* The last statement of run(): report whatever is still queued as not      *)
(* written.                                                                 *)
FinalCallbacks(t) ==
  /\ pc[t] = "final"
  /\ badRows' = IF WithCallback
                THEN [badRows EXCEPT ![t] = @ \o RowsLeft(t)] ELSE badRows
  /\ Goto(t, "done")
  /\ UNCHANGED <<errorVars, writeQueue, failedQueue, signaled, mutex, loop,
                 items, stored, sentRows, okRows>>
  /\ WriterUnchanged

-----------------------------------------------------------------------------
InsertStep(c) ==
  \/ Insert(c)
  \/ InsertUnwrittenData(c)
  \/ InsertThreadWrite(c)
  \/ SignalNonempty(c)

(* The steps of a call that has begun. *)
QueryStep(c) ==
  \/ StatusOfThread(c) \/ StatusReturn(c)
  \/ CopyUnwritten(c) \/ ClearUnwritten(c)
  \/ SetExit(c) \/ SignalExit(c) \/ JoinThread(c)

CallBegin(c) ==
  \/ GetStatus(c) \/ GetUnwrittenData(c) \/ WaitForThreadCompletion(c)

RunStep(t) ==
  \/ RunTop(t) \/ RunFirst(t) \/ Wakeup(t) \/ AfterWakeup(t)
  \/ BatchDone(t) \/ BatchWakeup(t) \/ LoopCheck(t) \/ FinalCallbacks(t)

WriteStep(t) ==
  \/ PopItems(t) \/ ServerCall(t) \/ BlockWritten(t) \/ CallbackThrows(t)
  \/ BlockFailed(t) \/ SetError(t)

Next ==
  \/ \E c \in Callers : InsertStep(c) \/ CallBegin(c) \/ QueryStep(c)
  \/ \E t \in Threads : RunStep(t) \/ WriteStep(t) \/ SpuriousWakeup(t)

Spec == Init /\ [][Next]_vars

(* Writer threads are scheduled, a server call returns, and a call that has *)
(* begun goes on; nothing obliges the application to make a call.           *)
Fairness ==
  /\ \A t \in Threads : WF_vars(RunStep(t)) /\ WF_vars(WriteStep(t))
  /\ \A c \in Callers : /\ WF_vars(QueryStep(c))
                        /\ WF_vars(InsertThreadWrite(c))
                        /\ WF_vars(SignalNonempty(c))

FairSpec == Spec /\ Fairness

-----------------------------------------------------------------------------
(* Type invariant. *)

Rows == Nat
CallLabels == {"idle", "append", "signal", "status", "statusDone", "copy",
               "clear", "exit", "exitSignal", "join"}
LockedLabels == {"status", "statusDone", "copy", "clear", "exit",
                 "exitSignal", "join"}
RunLabels == {"top", "first", "wait", "woken", "batch", "check", "pop",
              "send", "ok", "failed", "setError", "final", "done"}

GlobalTypeOK ==
  /\ insertRWLock \in Callers \cup {Nobody}
  /\ hasError \in BOOLEAN
  /\ errorInfo \in {"none", "server", "closed"}
  /\ exited \in BOOLEAN
  /\ submitted \in Nat

CallerTypeOK ==
  /\ callPc \in [Callers -> CallLabels]
  /\ callTodo \in [Callers -> Nat]
  /\ \A c \in Callers : callPc[c] = "append" => callTodo[c] > 0
  /\ callIndex \in [Callers -> Threads]
  /\ copied \in [Callers -> Nat]
  /\ report \in [Callers -> [sent : Nat, unsent : Nat, failed : Nat,
                              blocks : Nat]]

QueueTypeOK ==
  /\ writeQueue \in [Threads -> Seq(Seq(Rows))]
  /\ \A t \in Threads : writeQueue[t] # <<>>
  /\ failedQueue \in [Threads -> Seq(Rows)]
  /\ items \in [Threads -> Seq(Rows)]

ControlTypeOK ==
  /\ sentRows \in [Threads -> Nat]
  /\ exit \in [Threads -> BOOLEAN]
  /\ signaled \in [Threads -> BOOLEAN]
  /\ mutex \in [Threads -> Callers \cup Threads \cup {Nobody}]
  /\ pc \in [Threads -> RunLabels]
  /\ loop \in [Threads -> {"drain", "left"}]

HistoryTypeOK ==
  /\ accepted \in [Threads -> Nat]
  /\ handed \in [Threads -> Nat]
  /\ stored \in [Threads -> Seq(Rows)]
  /\ okRows \in [Threads -> Seq(Rows)]
  /\ badRows \in [Threads -> Seq(Rows)]

(* Every variable has its type; a queue is a nonempty list of blocks. *)
TypeOK ==
  GlobalTypeOK /\ CallerTypeOK /\ QueueTypeOK /\ ControlTypeOK /\ HistoryTypeOK

-----------------------------------------------------------------------------
(* Safety. *)

(* insertUnwrittenData() does not take insertRWLock_, so that it races with *)
(* getUnwrittenData() and waitForThreadCompletion() of another caller.  The *)
(* application avoids it by leaving the three calls to one caller, or by    *)
(* not calling insertUnwrittenData() at all.                                *)
SingleOwner ==
  \/ BulkCallers = {}
  \/ \A a, b \in BulkCallers \cup Admins : a = b

(* Only the last block of a queue may hold fewer than perBlockSize_ + 1     *)
(* rows, and only a lone block may be empty: QueueRows counts the rows.     *)
BlockShape == \A t \in Threads : WellShaped(writeQueue[t])

(* No row is lost or counted twice on its way through insertThreadWrite,    *)
(* writeAllData and getUnwrittenData: every row ever accepted is sent,      *)
(* failed, in flight, handed back to the application or still queued.       *)
RowAccounting ==
  SingleOwner /\ (WithCallback => "throw" \notin Faults) =>
    \A t \in Threads :
      accepted[t] = sentRows[t] + Len(failedQueue[t]) + Len(items[t])
                    + handed[t] + QueueRows(writeQueue[t])

(* The queue q holds the rows before + 1, before + 2, ... *)
InOrder(q, before) ==
  \A i \in 1 .. Len(q) : \A j \in 1 .. Len(q[i]) :
    q[i][j] = before + BlockStart(i) + j

(* The rows that have left the queue of a thread. *)
RowsGone(t) == accepted[t] - QueueRows(writeQueue[t])

(* The queue holds exactly the last rows accepted, in the order accepted,   *)
(* and the block in flight the rows just before them.                       *)
RowOrder ==
  \A t \in Threads :
    /\ InOrder(writeQueue[t], RowsGone(t))
    /\ \A k \in 1 .. Len(items[t]) :
         items[t][k] = RowsGone(t) - Len(items[t]) + k

(* The server stores the rows of a thread in the order insert accepted them *)
(* and none twice, whatever else happens to the writer.                     *)
StoredInOrder ==
  \A t \in Threads : \A i, j \in 1 .. Len(stored[t]) :
    i < j => stored[t][i] < stored[t][j]

(* When waitForThreadCompletion() closes the writer without an error, every *)
(* row accepted by then has been stored or handed back.                     *)
CompletionMeansWritten ==
  SingleOwner /\ errorInfo = "closed" =>
    \A t \in Threads : accepted[t] = Len(stored[t]) + handed[t]

(* A writer thread blocked in nonemptySignal.wait() without a signal has    *)
(* nothing to do, or the caller that gives it something to do has yet to    *)
(* set the signal.                                                          *)
NoLostWakeup ==
  \A t \in Threads :
    pc[t] = "wait" /\ ~signaled[t] =>
      /\ QueueRows(writeQueue[t]) > 0 =>
           \E c \in Callers : /\ callPc[c] \in {"append", "signal"}
                              /\ callIndex[c] = t
      /\ exit[t] => \E c \in Callers : /\ callPc[c] = "exitSignal"
                                       /\ callIndex[c] = t

(* The rows of a thread that callbackFunc_ was told are written and that    *)
(* count as failed, because it threw.                                       *)
CountedTwice(t) ==
  {r \in Range(okRows[t]) : /\ r \in Range(stored[t])
                            /\ r \in Range(failedQueue[t]) \cup Range(items[t])}
NoneTwice == \A t \in Threads : CountedTwice(t) = {}

(* What getStatus() reports adds up to the rows accepted and not handed     *)
(* back, although the threads go on writing while it visits them one by     *)
(* one; its unsentRows falls short by one for every block after the first.  *)
(* insertUnwrittenData() is left out: it does not wait for insertRWLock_.   *)
StatusAddsUp ==
  \A c \in Callers :
    callPc[c] = "statusDone" /\ BulkCallers = {} /\ NoneTwice =>
      LET r == report[c]
      IN r.sent + r.unsent + r.failed + (r.blocks - ThreadCount)
           = SumFunction(accepted) - SumFunction(handed)

(* callbackFunc_ is told about a row at most once, by writeAllData or by    *)
(* the last statement of run(), unless it throws; and when a thread has     *)
(* ended it was told about every row of the thread.  The one exception is   *)
(* an insert() that had passed its test of hasError_ when another step      *)
(* failed: it appends a row nobody will ever report, and there can be only  *)
(* one such insert().                                                       *)
ReportedOnce ==
  WithCallback =>
    \A t \in Threads :
      LET told == okRows[t] \o badRows[t]
          missing == accepted[t] - Cardinality(Range(told))
      IN /\ CountedTwice(t) = {} => IsInjective(told)
         /\ pc[t] = "done" /\ BulkCallers = {} =>
              missing = 0 \/ (missing = 1 /\ errorInfo = "server")

(* callbackFunc_ is called inside the try block that handles failed server  *)
(* calls: when it throws on a success, the rows stored are counted and      *)
(* reported as failed as well.  That happens to one block of a thread at    *)
(* most, because the thread then stops.                                     *)
DoubleCountIsOneBlock ==
  WithCallback /\ SingleOwner =>
    \A t \in Threads :
      LET counted == sentRows[t] + Len(failedQueue[t]) + Len(items[t])
                     + QueueRows(writeQueue[t])
      IN /\ counted = accepted[t] + Cardinality(CountedTwice(t))
         /\ Cardinality(CountedTwice(t)) <= PerBlock + 1

(* A call inside its critical section holds insertRWLock_, except an        *)
(* insertUnwrittenData().                                                   *)
CallLocks ==
  \A c \in Callers :
    /\ callPc[c] \in LockedLabels => insertRWLock = c
    /\ callPc[c] \in {"append", "signal"} => insertRWLock = c \/ c \in BulkCallers
    /\ callPc[c] \in {"copy", "clear"} => c \in Admins

(* getUnwrittenData() holds mutex_ of a thread between its copy of the      *)
(* queue and the replacement.                                               *)
CopyLocks ==
  \A c \in Callers : callPc[c] = "clear" => mutex[callIndex[c]] = c

(* A writer thread holds its mutex_ while a block is in flight, no longer.  *)
FlightLocks ==
  \A t \in Threads :
    /\ mutex[t] = t <=> pc[t] \in {"send", "ok", "failed", "setError"}
    /\ items[t] # <<>> => pc[t] \in {"send", "ok", "failed"}

LockDiscipline == CallLocks /\ CopyLocks /\ FlightLocks

(* The rows getUnwrittenData() has copied are those it is about to drop.    *)
CopyIsCurrent ==
  SingleOwner => \A c \in Callers :
    callPc[c] = "clear" => copied[c] = QueueRows(writeQueue[callIndex[c]])

(* The server has stored no row that is still queued or yet to be sent.     *)
StoredRowsLeft ==
  \A t \in Threads : \A i \in 1 .. Len(stored[t]) :
    stored[t][i] <= RowsGone(t) - (IF pc[t] = "send" THEN Len(items[t]) ELSE 0)

(* A thread about to wait, or waiting, has not missed the signal that goes  *)
(* with its exit flag.                                                      *)
ExitIsSignaled ==
  \A t \in Threads :
    pc[t] \in {"first", "wait"} /\ ~signaled[t] /\ exit[t] =>
      \E c \in Callers : callPc[c] = "exitSignal" /\ callIndex[c] = t

(* The inductive invariant behind the safety properties of rows and locks.  *)
WriterInv ==
  /\ TypeOK
  /\ BlockShape
  /\ LockDiscipline
  /\ CopyIsCurrent
  /\ RowAccounting
  /\ RowOrder
  /\ StoredInOrder
  /\ StoredRowsLeft
  /\ NoLostWakeup
  /\ ExitIsSignaled

(* errorInfo_ says which error came first, and a closed writer is exited.   *)
ErrorLatched ==
  /\ hasError <=> errorInfo # "none"
  /\ errorInfo = "closed" => exited
  /\ exited => hasError

(* Who sets exit is waitForThreadCompletion(), which has not returned or    *)
(* has left the writer exited; no insert() is under way beside it, nor      *)
(* after it.                                                                *)
ExitLabels == {"exit", "exitSignal", "join"}
CompletionExcludes ==
  SingleOwner =>
    /\ \A c \in Callers : callPc[c] \in ExitLabels => c \in Admins
    /\ \A t \in Threads :
         exit[t] => exited \/ \E c \in Callers : callPc[c] \in ExitLabels
    /\ exited => \A c \in Callers : callPc[c] \notin {"append", "signal"}

(* The threads before the one that is joined have ended, and all when the   *)
(* writer is closed.                                                        *)
JoinedHaveEnded ==
  /\ \A c \in Callers : callPc[c] = "join" =>
       \A t \in Threads : t < callIndex[c] => pc[t] = "done"
  /\ exited => \A t \in Threads : pc[t] = "done"

(* A thread leaves its main loop for exit or an error, and without an error *)
(* it ends only when nothing is left in its queue.                          *)
EndsForExit ==
  \A t \in Threads :
    /\ loop[t] = "left" \/ pc[t] \in {"final", "done"} => IsExit(t)
    /\ SingleOwner /\ pc[t] \in {"final", "done"} /\ errorInfo # "server" =>
         QueueRows(writeQueue[t]) = 0

(* While nothing has failed, the rows that are not queued or yet to be sent *)
(* are stored or handed back.                                               *)
NothingFailed(t) == errorInfo # "server" /\ pc[t] \notin {"failed", "setError"}
CleanAccounting ==
  SingleOwner => \A t \in Threads :
    NothingFailed(t) =>
      /\ failedQueue[t] = <<>>
      /\ accepted[t] = Len(stored[t]) + handed[t] + QueueRows(writeQueue[t])
                       + (IF pc[t] = "send" THEN Len(items[t]) ELSE 0)

(* The inductive invariant behind CompletionMeansWritten, beside WriterInv. *)
CompletionInv ==
  /\ ErrorLatched
  /\ CompletionExcludes
  /\ JoinedHaveEnded
  /\ EndsForExit
  /\ CleanAccounting

(* With a callback: a thread that has failed does not take another block.   *)
FailsOnce ==
  WithCallback => \A t \in Threads :
    /\ pc[t] \in {"send", "ok", "failed"} <=> items[t] # <<>>
    /\ Len(items[t]) <= PerBlock + 1 /\ Len(failedQueue[t]) <= PerBlock + 1
    /\ failedQueue[t] # <<>> =>
         /\ pc[t] \in {"setError", "top", "check", "final", "done"}
         /\ pc[t] # "setError" => hasError
    /\ pc[t] = "setError" => failedQueue[t] # <<>>
    /\ handed[t] = 0

(* The rows that have left the queue were told to be written, from the      *)
(* first on, and the last of them maybe not to be; the rows that are told   *)
(* to be both are those of the block whose callback threw.                  *)
Consecutive(rows, before) == \A n \in 1 .. Len(rows) : rows[n] = before + n
ReportLedger ==
  WithCallback => \A t \in Threads :
    LET failed == Len(failedQueue[t])
        written == Len(okRows[t])
    IN /\ written = sentRows[t]
       /\ Consecutive(okRows[t], 0)
       /\ Consecutive(failedQueue[t], RowsGone(t) - failed)
       /\ Consecutive(badRows[t], RowsGone(t) - failed)
       /\ failed <= Len(badRows[t])
       /\ pc[t] # "done" => Len(badRows[t]) = failed
       /\ \/ written = RowsGone(t) - failed - Len(items[t])
          \/ /\ written = RowsGone(t) /\ failed + Len(items[t]) <= written
             /\ failed > 0 \/ pc[t] = "failed"
       /\ Range(okRows[t]) \subseteq Range(stored[t])
       /\ pc[t] = "ok" => Range(items[t]) \subseteq Range(stored[t])

(* Without insertUnwrittenData() a call appends one row.                    *)
InsertsOneRow ==
  BulkCallers = {} => \A c \in Callers :
    /\ callPc[c] = "append" => callTodo[c] = 1
    /\ callPc[c] = "signal" => callTodo[c] = 0

(* The last row of a thread that callbackFunc_ was told about.              *)
LastTold(t) == RowsGone(t) - Len(failedQueue[t]) + Len(badRows[t])

(* After the end of a thread one insert() may append a row, one that was    *)
(* under way when another thread failed.                                    *)
LateRow ==
  WithCallback /\ BulkCallers = {} =>
    \A t \in Threads : pc[t] = "done" =>
      \/ accepted[t] = LastTold(t)
      \/ /\ accepted[t] = LastTold(t) + 1
         /\ errorInfo = "server"
         /\ \A c \in Callers : callPc[c] # "append"

(* The inductive invariant behind DoubleCountIsOneBlock and ReportedOnce,   *)
(* beside WriterInv and CompletionInv.                                      *)
ReportInv == FailsOnce /\ ReportLedger /\ InsertsOneRow /\ LateRow

(* A caller that is in no call has no loop under way, and only getStatus()  *)
(* has something to report.                                                 *)
StatusStart ==
  \A c \in Callers :
    /\ callPc[c] \in {"idle", "statusDone"} => callIndex[c] = 0
    /\ callPc[c] \notin {"status", "statusDone"} => report[c] = EmptyReport

(* The rows that the threads before the k-th have in f.                     *)
SumBefore(f, k) == SumFunctionOnSet(f, 0 .. k - 1)

(* What getStatus() has added up so far is what the threads it has visited  *)
(* had accepted and not handed back, and that stays so until it returns.    *)
StatusSoFar ==
  BulkCallers = {} /\ (WithCallback => NoneTwice) =>
    \A c \in Callers : callPc[c] \in {"status", "statusDone"} =>
      LET r == report[c]
          visited == IF callPc[c] = "status" THEN callIndex[c] ELSE ThreadCount
      IN r.sent + r.unsent + r.failed + (r.blocks - visited)
           = SumBefore(accepted, visited) - SumBefore(handed, visited)

(* The inductive invariant behind StatusAddsUp, beside the other three.     *)
StatusInv == StatusStart /\ StatusSoFar

-----------------------------------------------------------------------------
(* Liveness. *)

(* waitForThreadCompletion() returns once every server call does. *)
CompletionReturns ==
  \A c \in Admins : callPc[c] = "exit" ~> callPc[c] = "idle"

(* Rows do not stay in a queue: the thread takes them without a further     *)
(* insert and without waitForThreadCompletion(), unless an error stops it;  *)
(* and who waits for the completion is let go.                              *)
RowsLeaveQueue ==
  /\ \A t \in Threads :
       QueueRows(writeQueue[t]) > 0 ~> (writeQueue[t] = EmptyQueue \/ hasError)
  /\ CompletionReturns

=============================================================================
