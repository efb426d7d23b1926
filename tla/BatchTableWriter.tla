-------------------------- MODULE BatchTableWriter --------------------------
(***************************************************************************)
(* The batch table writer of the C++ API (src/include/BatchTableWriter.h,  *)
(* src/src/BatchTableWriter.cpp).                                          *)
(*                                                                         *)
(* Application threads ("callers") add tables, insert rows into them, ask  *)
(* for the rows that were not written and remove the tables again.  Every  *)
(* addTable() makes a DestTable with a queue and a writer thread of its    *)
(* own; the thread sends what the queue holds and then waits on a          *)
(* condition variable that has neither a predicate nor a lock in common    *)
(* with those who notify it.                                               *)
(*                                                                         *)
(* A DestTable is named by a number, in the order of creation.  Row n of a *)
(* DestTable is the n-th row that was ever pushed on its writeQueue.       *)
(***************************************************************************)
EXTENDS Integers, Sequences, FiniteSets, Functions

CONSTANTS
  Callers,      \* threads of the application
  Tables,       \* names of tables (database and table)
  MaxDests,     \* bound: DestTables made in one behaviour
  MaxRows,      \* bound: rows pushed in one behaviour
  BatchFaults,  \* what may go wrong in a server call, a subset of FaultKinds
  Nil           \* no caller, no table

(* "reject": the rows are refused; "lost": they are stored but the call     *)
(* fails all the same (the reply or saveTable is lost).                     *)
FaultKinds == {"reject", "lost"}

ASSUME BatchAssumption ==
  /\ Nil \notin Callers
  /\ Nil \notin Tables
  /\ MaxDests \in Nat
  /\ MaxRows \in Nat
  /\ BatchFaults \subseteq FaultKinds

Dests == 1 .. MaxDests
NoDest == 0

VARIABLES
  destTables,   \* destTables_: the DestTable of a name, or NoDest
  nameOf,       \* the names of the DestTables made so far, oldest first
  rwLock,       \* the caller that holds rwLock exclusively
  alive,        \* the destructor has not begun
  (* per caller *)
  callPc,       \* where the caller is in the API call it makes
  callTable,    \* the table of the call
  callDest,     \* the DestTable the call has looked up
  (* per DestTable *)
  destroy,      \* destroy
  finished,     \* finished
  sendedRows,   \* sendedRows
  writeQueue,   \* writeQueue
  saveQueue,    \* saveQueue
  pc,           \* where the writer thread is
  leaving,      \* the thread is in the loop that writes incomplete data
  size,         \* rows writeTableAllData has decided to pop
  items,        \* rows it has popped and not yet sent or saved
  (* history *)
  accepted,     \* rows ever pushed on writeQueue
  stored,       \* the rows the server has stored
  handed,       \* the rows getUnwrittenData has returned
  missed        \* since it last woke up, the thread has missed a notify()

callVars   == <<callPc, callTable, callDest>>
mapVars    == <<destTables, nameOf, rwLock, alive>>
flagVars   == <<destroy, finished>>
queueVars  == <<writeQueue, saveQueue>>
threadVars == <<pc, leaving, size>>
rowVars    == <<sendedRows, items, stored>>
vars == <<mapVars, callVars, flagVars, queueVars, threadVars, rowVars,
          accepted, handed, missed>>

Smaller(m, n) == IF m <= n THEN m ELSE n
RowsPushed == FoldFunction(+, 0, accepted)

Init ==
  /\ destTables = [k \in Tables |-> NoDest]
  /\ nameOf = <<>>
  /\ rwLock = Nil
  /\ alive = TRUE
  /\ callPc = [c \in Callers |-> "idle"]
  /\ callTable = [c \in Callers |-> Nil]
  /\ callDest = [c \in Callers |-> NoDest]
  /\ destroy = [d \in Dests |-> FALSE]
  /\ finished = [d \in Dests |-> FALSE]
  /\ sendedRows = [d \in Dests |-> 0]
  /\ writeQueue = [d \in Dests |-> <<>>]
  /\ saveQueue = [d \in Dests |-> <<>>]
  /\ pc = [d \in Dests |-> "new"]
  /\ leaving = [d \in Dests |-> FALSE]
  /\ size = [d \in Dests |-> 0]
  /\ items = [d \in Dests |-> <<>>]
  /\ accepted = [d \in Dests |-> 0]
  /\ stored = [d \in Dests |-> <<>>]
  /\ handed = [d \in Dests |-> <<>>]
  /\ missed = [d \in Dests |-> FALSE]

(* RWLockGuard on rwLock: an insert holds it shared between its push and    *)
(* its notify(); the other shared sections are a step of their own.         *)
MayRead == rwLock = Nil
MayWrite == MayRead /\ \A c \in Callers : callPc[c] # "notify"

Call(c, label, table, dest) ==
  /\ callPc' = [callPc EXCEPT ![c] = label]
  /\ callTable' = [callTable EXCEPT ![c] = table]
  /\ callDest' = [callDest EXCEPT ![c] = dest]

Return(c) == Call(c, "idle", Nil, NoDest)
Proceed(c, label) == Call(c, label, callTable[c], callDest[c])

(* The DestTable a call may use.  addTable() puts it into the map before it *)
(* is initialised; the application waits for addTable() to return.          *)
Known(k) == destTables[k] # NoDest
Ready(k) == Known(k) /\ pc[destTables[k]] # "new"

(* writeNotifier.notify(): wakes the thread if it waits, and is lost if it  *)
(* does not; missed records a notify() that came too late to be seen.       *)
(* Mutant: nothing is notified.                                             *)
NotWoken(label) == label
Woken(label) == IF label = "wait" THEN "loop" ELSE label

Notify(d) ==
  /\ pc' = [pc EXCEPT ![d] = Woken(@)]
  /\ missed' = [missed EXCEPT ![d] = pc[d] # "wait" /\ (@ \/
                 IF destroy'[d] THEN pc[d] # "loop" /\ ~leaving[d]
                                ELSE pc[d] = "window")]

-----------------------------------------------------------------------------
(* addTable() *)

(* Look the table up, connect and read the schema; any of them may throw.   *)
AddTable(c, k) ==
  /\ alive
  /\ callPc[c] = "idle"
  /\ MayRead
  /\ ~Known(k)
  /\ Call(c, "add", k, NoDest)
  /\ UNCHANGED <<mapVars, flagVars, queueVars, threadVars, rowVars, accepted,
                 handed, missed>>

(* Look the table up again under the exclusive lock.  Mutant: do not.  At   *)
(* the bound on DestTables the call ends as if it could not connect.        *)
NotLookedUp(k) == TRUE
StillMissing(k) == ~Known(k)

AddEntry(c) ==
  LET k == callTable[c]
  IN /\ callPc[c] = "add"
     /\ MayWrite
     /\ IF StillMissing(k) /\ Len(nameOf) < MaxDests
        THEN /\ nameOf' = Append(nameOf, k)
             /\ destTables' = [destTables EXCEPT ![k] = Len(nameOf) + 1]
             /\ Call(c, "start", k, Len(nameOf) + 1)
        ELSE Return(c) /\ UNCHANGED <<nameOf, destTables>>
     /\ UNCHANGED <<rwLock, alive, flagVars, queueVars, threadVars, rowVars,
                    accepted, handed, missed>>

StartThread(c) ==
  /\ callPc[c] = "start"
  /\ pc' = [pc EXCEPT ![callDest[c]] = "loop"]
  /\ Return(c)
  /\ UNCHANGED <<mapVars, flagVars, queueVars, leaving, size, rowVars,
                 accepted, handed, missed>>

-----------------------------------------------------------------------------
(* insert() *)

(* Look the table up under the shared lock, and give up if it is being      *)
(* removed; the lock is released before that test.                          *)
Insert(c, k) ==
  /\ alive
  /\ callPc[c] = "idle"
  /\ MayRead
  /\ Ready(k)
  /\ ~destroy[destTables[k]]
  /\ RowsPushed < MaxRows
  /\ Call(c, "insert", k, destTables[k])
  /\ UNCHANGED <<mapVars, flagVars, queueVars, threadVars, rowVars, accepted,
                 handed, missed>>

(* SynchronizedQueue::push.  Mutant: at the wrong end.                      *)
PushFront(q, row) == <<row>> \o q
Push(q, row) == Append(q, row)

(* insertRecursive(): throw if finished, else push the row.                 *)
InsertRow(c) ==
  LET d == callDest[c]
  IN /\ callPc[c] = "insert"
     /\ MayRead
     /\ IF finished[d]
        THEN Return(c) /\ UNCHANGED <<writeQueue, accepted>>
        ELSE /\ writeQueue' = [writeQueue EXCEPT ![d] = Push(@, accepted[d] + 1)]
             /\ accepted' = [accepted EXCEPT ![d] = @ + 1]
             /\ Proceed(c, "notify")
     /\ UNCHANGED <<mapVars, flagVars, saveQueue, threadVars, rowVars, handed,
                    missed>>

InsertNotify(c) ==
  /\ callPc[c] = "notify"
  /\ UNCHANGED flagVars
  /\ Notify(callDest[c])
  /\ Return(c)
  /\ UNCHANGED <<mapVars, queueVars, leaving, size, rowVars, accepted, handed>>

-----------------------------------------------------------------------------
(* getUnwrittenData(): under the exclusive lock, first the saved rows, then *)
(* the queued ones.  The lock keeps every insert and every other call of    *)
(* its kind out, so that pop(items, n) of the n rows counted before takes   *)
(* the rows that were saved at the start, and those still queued at the end.*)

GetUnwrittenData(c, k) ==
  /\ alive
  /\ callPc[c] = "idle"
  /\ MayWrite
  /\ Ready(k)
  /\ rwLock' = c
  /\ Call(c, "unwritten", k, destTables[k])
  /\ handed' = [handed EXCEPT ![destTables[k]] = @ \o saveQueue[destTables[k]]]
  /\ saveQueue' = [saveQueue EXCEPT ![destTables[k]] = <<>>]
  /\ UNCHANGED <<destTables, nameOf, alive, flagVars, writeQueue, threadVars,
                 rowVars, accepted, missed>>

(* What pop() leaves in the queue.  Mutant: the rows are copied, not popped. *)
QueueKept(d) == writeQueue[d]
QueueAfterTake(d) == <<>>

TakeQueued(c) ==
  LET d == callDest[c]
  IN /\ callPc[c] = "unwritten"
     /\ handed' = [handed EXCEPT ![d] = @ \o writeQueue[d]]
     /\ writeQueue' = [writeQueue EXCEPT ![d] = QueueAfterTake(d)]
     /\ rwLock' = Nil
     /\ Return(c)
     /\ UNCHANGED <<destTables, nameOf, alive, flagVars, saveQueue, threadVars,
                    rowVars, accepted, missed>>

-----------------------------------------------------------------------------
(* removeTable() and the destructor *)

(* Only the first removeTable() of a table goes on.                         *)
RemoveTable(c, k) ==
  /\ alive
  /\ callPc[c] = "idle"
  /\ MayWrite
  /\ Ready(k)
  /\ ~destroy[destTables[k]]
  /\ destroy' = [destroy EXCEPT ![destTables[k]] = TRUE]
  /\ rwLock' = c
  /\ Call(c, "remove", k, destTables[k])
  /\ UNCHANGED <<destTables, nameOf, alive, finished, queueVars, threadVars,
                 rowVars, accepted, handed, missed>>

RemoveNotify(c) ==
  /\ callPc[c] = "remove"
  /\ UNCHANGED flagVars
  /\ Notify(callDest[c])
  /\ rwLock' = Nil
  /\ Proceed(c, "join")
  /\ UNCHANGED <<destTables, nameOf, alive, queueVars, leaving, size, rowVars,
                 accepted, handed>>

(* writeThread->join(), conn->close().                                      *)
ThreadEnded(d) == pc[d] = "done"

RemoveJoin(c) ==
  /\ callPc[c] = "join"
  /\ ThreadEnded(callDest[c])
  /\ Proceed(c, "erase")
  /\ UNCHANGED <<mapVars, flagVars, queueVars, threadVars, rowVars, accepted,
                 handed, missed>>

(* destTables_.erase() by name. *)
RemoveErase(c) ==
  /\ callPc[c] = "erase"
  /\ MayWrite
  /\ destTables' = [destTables EXCEPT ![callTable[c]] = NoDest]
  /\ Return(c)
  /\ UNCHANGED <<nameOf, rwLock, alive, flagVars, queueVars, threadVars,
                 rowVars, accepted, handed, missed>>

(* The destructor runs when no other call does. *)
Destruct(c) ==
  /\ alive
  /\ \A e \in Callers : callPc[e] = "idle"
  /\ alive' = FALSE
  /\ Call(c, "destruct", Nil, NoDest)
  /\ UNCHANGED <<destTables, nameOf, rwLock, flagVars, queueVars, threadVars,
                 rowVars, accepted, handed, missed>>

DestructTable(c, k) ==
  LET d == destTables[k]
  IN /\ callPc[c] = "destruct"
     /\ Known(k)
     /\ ~destroy[d]
     /\ destroy' = [destroy EXCEPT ![d] = TRUE]
     /\ Notify(d)
     /\ UNCHANGED <<mapVars, callVars, finished, queueVars, leaving, size,
                    rowVars, accepted, handed>>

DestructJoin(c) ==
  /\ callPc[c] = "destruct"
  /\ \A k \in Tables : Known(k) => destroy[destTables[k]] /\ ThreadEnded(destTables[k])
  /\ destTables' = [k \in Tables |-> NoDest]
  /\ Return(c)
  /\ UNCHANGED <<nameOf, rwLock, alive, flagVars, queueVars, threadVars,
                 rowVars, accepted, handed, missed>>

-----------------------------------------------------------------------------
(* The writer thread of a DestTable *)

ThreadKeeps == UNCHANGED <<mapVars, callVars, destroy, accepted, handed>>
Goto(d, label) == pc' = [pc EXCEPT ![d] = label]

(* while(destroy == false) *)
LoopTest(d) ==
  /\ pc[d] = "loop"
  /\ Goto(d, IF destroy[d] THEN "left" ELSE "size")
  /\ leaving' = [leaving EXCEPT ![d] = destroy[d]]
  /\ missed' = [missed EXCEPT ![d] = FALSE]
  /\ UNCHANGED <<finished, queueVars, size, rowVars>>
  /\ ThreadKeeps

(* What follows writeTableAllData() when it returns false and true: wait,   *)
(* or call it again; or, in the loop that writes incomplete data, end or go *)
(* on.  Mutant: that loop is left after one block.                          *)
AfterFalse(d) == IF leaving[d] THEN "done" ELSE "window"
AfterOneBlock(d) == IF leaving[d] THEN "done" ELSE "size"
AfterTrue(d) == IF leaving[d] THEN "left" ELSE "size"

(* while(writeQueue.size() > 0 && ...) *)
LeftTest(d) ==
  /\ pc[d] = "left"
  /\ Goto(d, IF writeQueue[d] = <<>> THEN "done" ELSE "size")
  /\ UNCHANGED <<finished, queueVars, leaving, size, rowVars, missed>>
  /\ ThreadKeeps

(* writeTableAllData(): false after an error or when there is nothing.      *)
NothingToWrite(d) == finished[d] \/ writeQueue[d] = <<>>

SizeTest(d) ==
  /\ pc[d] = "size"
  /\ IF NothingToWrite(d)
     THEN Goto(d, AfterFalse(d)) /\ UNCHANGED size
     ELSE Goto(d, "pop") /\ size' = [size EXCEPT ![d] = Len(writeQueue[d])]
  /\ UNCHANGED <<finished, queueVars, leaving, rowVars, missed>>
  /\ ThreadKeeps

(* writeQueue.pop(items, size), which may find fewer rows by now.           *)
PopItems(d) ==
  LET q == writeQueue[d]
      n == Smaller(size[d], Len(q))
  IN /\ pc[d] = "pop"
     /\ items' = [items EXCEPT ![d] = SubSeq(q, 1, n)]
     /\ writeQueue' = [writeQueue EXCEPT ![d] = SubSeq(q, n + 1, Len(q))]
     /\ size' = [size EXCEPT ![d] = 0]
     /\ Goto(d, "send")
     /\ UNCHANGED <<finished, saveQueue, leaving, sendedRows, stored, missed>>
     /\ ThreadKeeps

(* The server calls succeed. *)
SendItems(d) ==
  /\ pc[d] = "send"
  /\ stored' = [stored EXCEPT ![d] = @ \o items[d]]
  /\ sendedRows' = [sendedRows EXCEPT ![d] = @ + Len(items[d])]
  /\ items' = [items EXCEPT ![d] = <<>>]
  /\ Goto(d, AfterTrue(d))
  /\ UNCHANGED <<finished, queueVars, leaving, size, missed>>
  /\ ThreadKeeps

(* One of them throws, or a row does not fit the table: finished is set.    *)
SendFails(d) ==
  /\ pc[d] = "send"
  /\ \/ "reject" \in BatchFaults /\ UNCHANGED stored
     \/ "lost" \in BatchFaults /\ stored' = [stored EXCEPT ![d] = @ \o items[d]]
  /\ finished' = [finished EXCEPT ![d] = TRUE]
  /\ Goto(d, "save")
  /\ UNCHANGED <<queueVars, leaving, size, sendedRows, items, missed>>
  /\ ThreadKeeps

(* The rows are saved one by one, after finished is set.                    *)
SaveRow(d) ==
  /\ pc[d] = "save"
  /\ items[d] # <<>>
  /\ saveQueue' = [saveQueue EXCEPT ![d] = Append(@, Head(items[d]))]
  /\ items' = [items EXCEPT ![d] = Tail(@)]
  /\ UNCHANGED <<finished, writeQueue, threadVars, sendedRows, stored, missed>>
  /\ ThreadKeeps

SaveDone(d) ==
  /\ pc[d] = "save"
  /\ items[d] = <<>>
  /\ Goto(d, AfterFalse(d))
  /\ UNCHANGED <<finished, queueVars, leaving, size, rowVars, missed>>
  /\ ThreadKeeps

(* writeMutex.lock(), writeNotifier.wait(writeMutex): nothing is tested     *)
(* between the last look at the queue and the wait.                         *)
BeginWait(d) ==
  /\ pc[d] = "window"
  /\ Goto(d, "wait")
  /\ UNCHANGED <<finished, queueVars, leaving, size, rowVars, missed>>
  /\ ThreadKeeps

(* A condition variable may wake up for nothing. *)
SpuriousWakeup(d) ==
  /\ pc[d] = "wait"
  /\ Goto(d, "loop")
  /\ UNCHANGED <<finished, queueVars, leaving, size, rowVars, missed>>
  /\ ThreadKeeps

-----------------------------------------------------------------------------
CallBegins(c) ==
  \E k \in Tables :
    \/ AddTable(c, k) \/ Insert(c, k) \/ GetUnwrittenData(c, k)
    \/ RemoveTable(c, k)

CallGoesOn(c) ==
  \/ AddEntry(c) \/ StartThread(c) \/ InsertRow(c) \/ InsertNotify(c)
  \/ TakeQueued(c) \/ RemoveNotify(c) \/ RemoveJoin(c) \/ RemoveErase(c)
  \/ \E k \in Tables : DestructTable(c, k)
  \/ DestructJoin(c)

ThreadStep(d) ==
  \/ LoopTest(d) \/ LeftTest(d) \/ SizeTest(d) \/ PopItems(d) \/ SendItems(d)
  \/ SendFails(d) \/ SaveRow(d) \/ SaveDone(d) \/ BeginWait(d)

Next ==
  \/ \E c \in Callers : CallBegins(c) \/ CallGoesOn(c) \/ Destruct(c)
  \/ \E d \in Dests : ThreadStep(d) \/ SpuriousWakeup(d)

Spec == Init /\ [][Next]_vars

(* Threads run and begun calls go on.  Nothing obliges a caller to begin a  *)
(* call, or a condition variable to wake up for nothing.                    *)
Fairness ==
  /\ \A d \in Dests : WF_vars(ThreadStep(d))
  /\ \A c \in Callers : WF_vars(CallGoesOn(c))

FairSpec == Spec /\ Fairness

-----------------------------------------------------------------------------
(* Type invariant. *)

CallLabels == {"idle", "add", "start", "insert", "notify", "unwritten",
               "remove", "join", "erase", "destruct"}
ThreadLabels == {"new", "loop", "left", "size", "pop", "send", "save",
                 "window", "wait", "done"}

MapTypeOK ==
  /\ destTables \in [Tables -> Dests \cup {NoDest}]
  /\ nameOf \in Seq(Tables) /\ Len(nameOf) <= MaxDests
  /\ rwLock \in Callers \cup {Nil}
  /\ alive \in BOOLEAN

CallTypeOK ==
  /\ callPc \in [Callers -> CallLabels]
  /\ callTable \in [Callers -> Tables \cup {Nil}]
  /\ callDest \in [Callers -> Dests \cup {NoDest}]

ThreadTypeOK ==
  /\ destroy \in [Dests -> BOOLEAN]
  /\ finished \in [Dests -> BOOLEAN]
  /\ pc \in [Dests -> ThreadLabels]
  /\ leaving \in [Dests -> BOOLEAN]
  /\ size \in [Dests -> Nat] /\ \A d \in Dests : pc[d] = "pop" => size[d] > 0
  /\ missed \in [Dests -> BOOLEAN]

RowTypeOK ==
  /\ writeQueue \in [Dests -> Seq(Nat)]
  /\ saveQueue \in [Dests -> Seq(Nat)]
  /\ items \in [Dests -> Seq(Nat)]
  /\ sendedRows \in [Dests -> Nat]
  /\ accepted \in [Dests -> Nat]
  /\ stored \in [Dests -> Seq(Nat)]
  /\ handed \in [Dests -> Seq(Nat)]

(* Every variable has its type, the map names DestTables that exist, and    *)
(* the writer thread never pops a block of no rows.                         *)
TypeOK == MapTypeOK /\ CallTypeOK /\ ThreadTypeOK /\ RowTypeOK

-----------------------------------------------------------------------------
(* Safety. *)

(* No row accepted by insert() is lost or counted twice: it is sent, saved, *)
(* in flight, handed back or queued.                                        *)
RowAccounting ==
  \A d \in Dests :
    accepted[d] = sendedRows[d] + Len(saveQueue[d]) + Len(items[d])
                  + Len(handed[d]) + Len(writeQueue[d])

Increasing(s) == \A i, j \in 1 .. Len(s) : i < j => s[i] < s[j]

InOrder ==
  \A d \in Dests :
    /\ Increasing(stored[d])
    /\ Increasing(items[d] \o writeQueue[d])
    /\ pc[d] = "send" => Increasing(stored[d] \o items[d] \o writeQueue[d])

(* Rows that were handed back may be stored, too: the reply of the server   *)
(* call that wrote them was lost, and there was at most one such call.      *)
StoredAndHanded ==
  \A d \in Dests :
    ~IsInjective(stored[d] \o handed[d]) => "lost" \in BatchFaults /\ finished[d]

(* The server stores the rows of a table in the order of insertion, the     *)
(* rows in flight come after them and the queued ones after those; and a    *)
(* row is either stored or handed back to the application, never both,      *)
(* unless the reply of the server call that stored it was lost.             *)
StoredInOrder == InOrder /\ StoredAndHanded

(* A table has one writer thread at a time, however addTable(),             *)
(* removeTable() and the destructor overlap, and the entry of the map that  *)
(* removeTable() erases by name is the DestTable it has joined.             *)
OneWriterPerTable ==
  /\ \A d, e \in 1 .. Len(nameOf) :
       nameOf[d] = nameOf[e] /\ pc[d] # "done" /\ pc[e] # "done" => d = e
  /\ \A c \in Callers :
       callPc[c] = "erase" => destTables[callTable[c]] = callDest[c]

(* Every variable has its type, no thread pops a block of no rows, and a    *)
(* table has one writer thread at a time.                                   *)
WritersInOrder == TypeOK /\ OneWriterPerTable

(* A call that has looked a table up uses a DestTable of that name; one     *)
(* that is about to start a thread does so alone, and the first time.       *)
DestLabels == {"start", "insert", "notify", "unwritten", "remove", "join", "erase"}
CallsKnow ==
  \A c \in Callers :
    /\ callPc[c] \in DestLabels => /\ callDest[c] \in 1 .. Len(nameOf)
                                   /\ callTable[c] = nameOf[callDest[c]]
    /\ callPc[c] = "add" => callTable[c] \in Tables
    /\ callPc[c] = "start" =>
         /\ pc[callDest[c]] = "new"
         /\ \A e \in Callers : callPc[e] = "start" /\ callDest[e] = callDest[c] => e = c

(* The map leads from a name to a DestTable of that name, and to every one  *)
(* whose thread may still run.                                              *)
MapKnows ==
  /\ \A k \in Tables : Known(k) => /\ destTables[k] \in 1 .. Len(nameOf)
                                   /\ nameOf[destTables[k]] = k
  /\ \A d \in 1 .. Len(nameOf) : pc[d] # "done" => destTables[nameOf[d]] = d
  /\ \A d \in Dests : d > Len(nameOf) => pc[d] = "new"

(* A DestTable is removed by one call, and no call runs beside the          *)
(* destructor.                                                              *)
RemoveLabels == {"remove", "join", "erase"}
RemovesOnce ==
  /\ \A c \in Callers : callPc[c] \in RemoveLabels =>
       /\ destroy[callDest[c]] /\ destTables[callTable[c]] = callDest[c]
       /\ callPc[c] = "erase" => pc[callDest[c]] = "done"
       /\ \A e \in Callers :
            callPc[e] \in RemoveLabels /\ callDest[e] = callDest[c] => e = c
  /\ \A c \in Callers : callPc[c] # "idle" => (alive <=> callPc[c] # "destruct")

(* The inductive invariant behind WritersInOrder.                           *)
WritersInv == TypeOK /\ CallsKnow /\ MapKnows /\ RemovesOnce

(* A thread holds rows only while it sends or saves them, and it sends none *)
(* after an error.                                                          *)
ThreadHolds ==
  \A d \in Dests :
    /\ items[d] # <<>> => pc[d] \in {"send", "save"}
    /\ pc[d] \in {"pop", "send"} => ~finished[d]
    /\ pc[d] = "save" => finished[d]

(* The rows of s come before those of r; no row is in both.                 *)
Before(s, r) == \A i \in 1 .. Len(s), j \in 1 .. Len(r) : s[i] < r[j]
Apart(s, r) == Range(s) \cap Range(r) = {}

(* The rows of a DestTable stand in the order of insertion, until an error; *)
(* and no row is in two places.  Only a server call whose reply is lost     *)
(* leaves rows stored that it holds for failed.                             *)
RowsApart ==
  \A d \in Dests :
    LET done == stored[d]
        kept == saveQueue[d]
        back == handed[d]
    IN /\ \A s \in {done, kept, back, items[d], writeQueue[d]} :
            \A i \in 1 .. Len(s) : s[i] <= accepted[d]
       /\ Increasing(done) /\ Increasing(items[d]) /\ Increasing(writeQueue[d])
       /\ Before(items[d], writeQueue[d])
       /\ ~finished[d] => Before(done, items[d]) /\ Before(done, writeQueue[d])
       /\ IsInjective(kept) /\ IsInjective(back) /\ Apart(kept, back)
       /\ \A s \in {items[d], writeQueue[d]} : Apart(kept, s) /\ Apart(back, s)
       /\ ~("lost" \in BatchFaults /\ finished[d]) =>
            \A s \in {kept, back, items[d], writeQueue[d]} : Apart(done, s)

(* The inductive invariant behind the properties of rows, beside WritersInv. *)
RowsInv == ThreadHolds /\ RowAccounting /\ RowsApart

(* A writer thread ends only when every row that was queued by then is      *)
(* written, unless it met an error.                                         *)
EndsDrained ==
  [][\A d \in Dests : pc[d] # "done" /\ pc'[d] = "done" /\ ~finished'[d] =>
       writeQueue[d] = <<>> /\ items[d] = <<>>]_vars

-----------------------------------------------------------------------------
(* Liveness. *)

NothingMissed == [](\A d \in Dests : ~missed[d])

RowsAreTaken ==
  \A d \in Dests :
    writeQueue[d] # <<>> ~> (writeQueue[d] = <<>> \/ finished[d] \/ pc[d] = "done")

JoinsReturn == \A c \in Callers : callPc[c] = "join" ~> callPc[c] # "join"

(* As long as no notify() comes between a thread's last look at the queue   *)
(* and at destroy and its wait, queued rows are taken, and removeTable()    *)
(* gets past its join.                                                      *)
RowsAreWritten == NothingMissed => RowsAreTaken /\ JoinsReturn

(* BatchTableWriter.h says that removeTable() releases the resources of the *)
(* table, the write thread included.                                        *)
RemoveReleases == JoinsReturn

=============================================================================
