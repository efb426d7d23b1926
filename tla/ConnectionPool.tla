--------------------------- MODULE ConnectionPool ---------------------------
(***************************************************************************)
(* The connection pool of the C++ API and the appender built on it         *)
(* (src/include/DBConnectionPoolImpl.h, src/src/AsynWorker.cpp,             *)
(* src/src/TaskStatusMgmt.cpp, src/src/DolphinDB.cpp).                      *)
(*                                                                         *)
(* A caller puts a task on the queue of the pool under an identity of its  *)
(* choice, and then asks the status map for the result of that identity.   *)
(* A worker thread per connection takes tasks and writes their results     *)
(* into the map.  A user of the pool runs one task at a time; a            *)
(* PartitionedTableAppender runs one per chunk of the table it appends.    *)
(*                                                                         *)
(* A task has a number, counted in the order of the pushes.                *)
(***************************************************************************)
EXTENDS Integers, Sequences, FiniteSets, Functions

CONSTANTS
  Users,        \* threads that call DBConnectionPool::run()
  Appenders,    \* threads with a PartitionedTableAppender of their own
  Workers,      \* the connections of the pool, with a thread each
  UserIds,      \* identities the users choose, numbers that are not negative
  EmptyScripts, \* whether users may run an empty script
  MaxTasks,     \* bound: tasks pushed in one behaviour
  Answers,      \* what the server may answer, a subset of AnswerKinds
  Nil           \* no task

(* "rows": a result; "null": an empty one; "error": an IOException.         *)
AnswerKinds == {"rows", "null", "error"}

ASSUME PoolAssumption ==
  /\ Users \cap Appenders = {}
  /\ IsFiniteSet(Workers)
  /\ UserIds \subseteq Nat
  /\ EmptyScripts \in BOOLEAN
  /\ MaxTasks \in Nat
  /\ Answers \subseteq AnswerKinds
  /\ Answers # {}

Callers == Users \cup Appenders
Identities == UserIds \cup {-i : i \in 2 .. MaxTasks + 1}
Tasks == [identity : Identities, n : 1 .. MaxTasks, empty : BOOLEAN]

(* The task a destructor pushes, whose script is empty. *)
EmptyTask == [identity |-> 0, n |-> 0, empty |-> TRUE]

VARIABLES
  queue,        \* queue_
  results,      \* TaskStatusMgmt::results: identity to stage, answer, task
  shutDownFlag, \* shutDownFlag_
  latch,        \* the count of latch_
  alive,        \* the destructor has not begun
  (* per caller *)
  callPc,       \* where the caller is in the call it makes
  identity,     \* the identity of its next task (identity_ of an appender)
  chunks,       \* tasks its call has yet to push
  tasks,        \* those pushed whose results its call has yet to fetch
  affected,     \* results counted so far by append()
  firstId,      \* history: the first identity its call has used
  (* per worker *)
  pc,           \* where the worker is in AsynWorker::run
  task,         \* the task it has taken
  answer,       \* what the server answered
  open,         \* its connection is open
  (* history *)
  pushed,       \* tasks pushed so far
  started,      \* the numbers of the tasks taken by workers
  outcome,      \* the answer to each task, or "none"
  overwritten   \* a result was replaced by a late WAITING

poolVars   == <<shutDownFlag, latch, alive>>
callVars   == <<callPc, identity, chunks, tasks, affected, firstId>>
workerVars == <<pc, task, answer, open>>
histVars   == <<pushed, started, outcome>>
vars == <<queue, results, poolVars, callVars, workerVars, histVars, overwritten>>

NoResult == [stage |-> "none", answer |-> "none", n |-> 0]
Waiting(n) == [stage |-> "waiting", answer |-> "none", n |-> n]

(* The constructors have returned; that of an appender has used up -1.      *)
Init ==
  /\ queue = <<>>
  /\ results = [i \in Identities |-> NoResult]
  /\ shutDownFlag = FALSE
  /\ latch = Cardinality(Workers)
  /\ alive = TRUE
  /\ callPc = [c \in Callers |-> "idle"]
  /\ identity = [c \in Callers |-> -2]
  /\ chunks = [c \in Callers |-> 0]
  /\ tasks = [c \in Callers |-> <<>>]
  /\ affected = [c \in Callers |-> 0]
  /\ firstId = [c \in Callers |-> -2]
  /\ pc = [w \in Workers |-> "top"]
  /\ task = [w \in Workers |-> Nil]
  /\ answer = [w \in Workers |-> "none"]
  /\ open = [w \in Workers |-> TRUE]
  /\ pushed = 0
  /\ started = <<>>
  /\ outcome = [n \in 1 .. MaxTasks |-> "none"]
  /\ overwritten = FALSE

(* Tasks pushed, and those the calls under way have yet to push. *)
Asked == pushed + FoldFunction(+, 0, chunks)

Goto(c, label) == callPc' = [callPc EXCEPT ![c] = label]

-----------------------------------------------------------------------------
(* The calls *)

(* DBConnectionPool::run().  Users share identities only one after the      *)
(* other: an identity in use is not chosen again.                           *)
Run(c, i) ==
  /\ alive
  /\ callPc[c] = "idle"
  /\ \A u \in Users : callPc[u] # "idle" => identity[u] # i
  /\ Asked < MaxTasks
  /\ Goto(c, "push")
  /\ identity' = [identity EXCEPT ![c] = i]
  /\ chunks' = [chunks EXCEPT ![c] = 1]
  /\ UNCHANGED <<queue, results, poolVars, tasks, affected, firstId, workerVars,
                 histVars, overwritten>>

(* PartitionedTableAppender::append() of rows that fall into k chunks.      *)
AppendTable(c, k) ==
  /\ alive
  /\ callPc[c] = "idle"
  /\ Asked + k <= MaxTasks
  /\ Goto(c, "push")
  /\ chunks' = [chunks EXCEPT ![c] = k]
  /\ affected' = [affected EXCEPT ![c] = 0]
  /\ firstId' = [firstId EXCEPT ![c] = identity[c]]
  /\ UNCHANGED <<queue, results, poolVars, identity, tasks, workerVars,
                 histVars, overwritten>>

(* run(): the task first.  The script may be empty ...  (The bound is the   *)
(* one of Run and AppendTable: it keeps no push back that they let begin.)  *)
PushTask(c) ==
  /\ callPc[c] = "push"
  /\ pushed < MaxTasks
  /\ \E empty \in {FALSE, EmptyScripts /\ c \in Users} :
       LET t == [identity |-> identity[c], n |-> pushed + 1, empty |-> empty]
       IN /\ queue' = Append(queue, t)
          /\ tasks' = [tasks EXCEPT ![c] = Append(@, t)]
  /\ pushed' = pushed + 1
  /\ Goto(c, "status")
  /\ UNCHANGED <<results, poolVars, identity, chunks, affected, firstId, workerVars,
                 started, outcome, overwritten>>

(* ... and its status afterwards.  Mutant: the status is not set.           *)
StatusKept(i, n) == results
StatusSet(i, n) == [results EXCEPT ![i] = Waiting(n)]

SetWaiting(c) ==
  LET i == identity[c]
      t == tasks[c][Len(tasks[c])]
  IN /\ callPc[c] = "status"
     /\ results' = StatusSet(i, t.n)
     /\ overwritten' = (overwritten \/ (results[i].n = t.n /\ results[i].stage # "none"))
     /\ identity' = [identity EXCEPT ![c] = IF c \in Appenders THEN i - 1 ELSE i]
     /\ chunks' = [chunks EXCEPT ![c] = @ - 1]
     /\ Goto(c, IF chunks[c] = 1 THEN "poll" ELSE "push")
     /\ UNCHANGED <<queue, poolVars, tasks, affected, firstId, workerVars, histVars>>

(* isFinished(): throws if there is no result or an error.                  *)
Poll(c) ==
  LET r == results[Head(tasks[c]).identity]
  IN /\ callPc[c] = "poll"
     /\ r.stage # "waiting"
     /\ IF r.stage = "finished"
        THEN Goto(c, "fetch") /\ UNCHANGED tasks
        ELSE Goto(c, "idle") /\ tasks' = [tasks EXCEPT ![c] = <<>>]
     /\ UNCHANGED <<queue, results, poolVars, identity, chunks, affected, firstId,
                    workerVars, histVars, overwritten>>

(* How append() adds a result up.  Mutant: the last one only.               *)
LastCounted(sum, a) == IF a = "null" THEN 0 ELSE 1
Counted(sum, a) == IF a = "null" THEN 0 ELSE sum + 1

(* getData(): a result is fetched once.                                     *)
GetData(c) ==
  LET t == Head(tasks[c])
  IN /\ callPc[c] = "fetch"
     /\ results' = [results EXCEPT ![t.identity] = NoResult]
     /\ affected' = [affected EXCEPT ![c] = Counted(@, results[t.identity].answer)]
     /\ tasks' = [tasks EXCEPT ![c] = Tail(@)]
     /\ Goto(c, IF Len(tasks[c]) = 1 THEN "idle" ELSE "poll")
     /\ UNCHANGED <<queue, poolVars, identity, chunks, firstId, workerVars, histVars,
                    overwritten>>

ShutDown(c) ==
  /\ alive
  /\ callPc[c] = "idle"
  /\ shutDownFlag' = TRUE
  /\ Goto(c, "latch")
  /\ UNCHANGED <<queue, results, latch, alive, identity, chunks, tasks,
                 affected, firstId, workerVars, histVars, overwritten>>

(* CountDownLatch::wait().                                                  *)
IsCountedDown(n) == n = 0

ShutDownReturns(c) ==
  /\ callPc[c] = "latch"
  /\ IsCountedDown(latch)
  /\ Goto(c, IF alive THEN "idle" ELSE "join")
  /\ queue' = IF alive THEN queue
              ELSE queue \o [i \in 1 .. Cardinality(Workers) |-> EmptyTask]
  /\ UNCHANGED <<results, poolVars, identity, chunks, tasks, affected, firstId,
                 workerVars, histVars, overwritten>>

(* The destructor, once no call is under way. *)
Destruct(c) ==
  /\ alive
  /\ \A d \in Callers : callPc[d] = "idle"
  /\ alive' = FALSE
  /\ shutDownFlag' = TRUE
  /\ Goto(c, "latch")
  /\ UNCHANGED <<queue, results, latch, identity, chunks, tasks, affected, firstId,
                 workerVars, histVars, overwritten>>

JoinWorkers(c) ==
  /\ callPc[c] = "join"
  /\ \A w \in Workers : pc[w] = "done"
  /\ Goto(c, "idle")
  /\ UNCHANGED <<queue, results, poolVars, identity, chunks, tasks, affected, firstId,
                 workerVars, histVars, overwritten>>

-----------------------------------------------------------------------------
(* AsynWorker::run *)

WorkerKeeps == UNCHANGED <<poolVars, callVars, pushed>>
Work(w, label) == pc' = [pc EXCEPT ![w] = label]

CheckShutDown(w) ==
  /\ pc[w] = "top"
  /\ Work(w, IF shutDownFlag THEN "close" ELSE "pop")
  /\ UNCHANGED <<queue, results, latch, task, answer, open, started, outcome,
                 overwritten>>
  /\ WorkerKeeps

CloseConnection(w) ==
  /\ pc[w] = "close"
  /\ open' = [open EXCEPT ![w] = FALSE]
  /\ Work(w, "count")
  /\ UNCHANGED <<queue, results, task, answer, started, outcome, overwritten>>
  /\ WorkerKeeps

NextCount(n) == n - 1

CountDown(w) ==
  /\ pc[w] = "count"
  /\ latch' = NextCount(latch)
  /\ Work(w, "done")
  /\ UNCHANGED <<queue, results, shutDownFlag, alive, callVars, task, answer,
                 open, histVars, overwritten>>

(* What blockingPop() leaves.                                               *)
QueuePopped == Tail(queue)

(* blockingPop(task, 1000): a task, or wait for one.  A task with an empty  *)
(* script is dropped.                                                       *)
PopTask(w) ==
  /\ pc[w] = "pop"
  /\ IF queue = <<>>
     THEN Work(w, "wait") /\ UNCHANGED <<queue, task, started>>
     ELSE LET t == Head(queue)
          IN /\ queue' = QueuePopped
             /\ started' = IF t = EmptyTask THEN started ELSE Append(started, t.n)
             /\ IF t.empty THEN Work(w, "top") /\ UNCHANGED task
                           ELSE Work(w, "run") /\ task' = [task EXCEPT ![w] = t]
  /\ UNCHANGED <<results, latch, answer, open, outcome, overwritten>>
  /\ WorkerKeeps

WokenUp(w) ==
  /\ pc[w] = "wait"
  /\ queue # <<>>
  /\ Work(w, "pop")
  /\ UNCHANGED <<queue, results, latch, task, answer, open, started, outcome,
                 overwritten>>
  /\ WorkerKeeps

PopTimesOut(w) ==
  /\ pc[w] = "wait"
  /\ Work(w, "top")
  /\ UNCHANGED <<queue, results, latch, task, answer, open, started, outcome,
                 overwritten>>
  /\ WorkerKeeps

(* conn_->run() *)
RunTask(w) ==
  /\ pc[w] = "run"
  /\ \E a \in Answers :
       /\ answer' = [answer EXCEPT ![w] = a]
       /\ outcome' = [outcome EXCEPT ![task[w].n] = a]
  /\ Work(w, "report")
  /\ UNCHANGED <<queue, results, latch, task, open, started, overwritten>>
  /\ WorkerKeeps

(* taskStatus_.setResult(), and on to the next task.  Mutant: the worker    *)
(* ends after an IOException.                                               *)
EndsOnError(a) == IF a = "error" THEN "done" ELSE "top"
AfterAnswer(a) == "top"

ReportResult(w) ==
  /\ pc[w] = "report"
  /\ results' = [results EXCEPT ![task[w].identity] =
       [stage |-> IF answer[w] = "error" THEN "errored" ELSE "finished",
        answer |-> answer[w], n |-> task[w].n]]
  /\ task' = [task EXCEPT ![w] = Nil]
  /\ answer' = [answer EXCEPT ![w] = "none"]
  /\ Work(w, AfterAnswer(answer[w]))
  /\ UNCHANGED <<queue, latch, open, started, outcome, overwritten>>
  /\ WorkerKeeps

-----------------------------------------------------------------------------
CallBegins(c) ==
  \/ c \in Users /\ \E i \in UserIds : Run(c, i)
  \/ c \in Users /\ ShutDown(c)
  \/ c \in Appenders /\ \E k \in 1 .. Cardinality(Workers) : AppendTable(c, k)
  \/ Destruct(c)

CallGoesOn(c) ==
  \/ PushTask(c) \/ SetWaiting(c) \/ Poll(c) \/ GetData(c)
  \/ ShutDownReturns(c) \/ JoinWorkers(c)

WorkerStep(w) ==
  \/ CheckShutDown(w) \/ CloseConnection(w) \/ CountDown(w) \/ PopTask(w)
  \/ WokenUp(w) \/ PopTimesOut(w) \/ RunTask(w) \/ ReportResult(w)

Next ==
  \/ \E c \in Callers : CallBegins(c) \/ CallGoesOn(c)
  \/ \E w \in Workers : WorkerStep(w)

Spec == Init /\ [][Next]_vars

(* Workers run, wait at most a second, and the server answers; begun calls  *)
(* go on.  Nobody has to begin one.                                         *)
Fairness ==
  /\ \A w \in Workers : WF_vars(WorkerStep(w))
  /\ \A c \in Callers : WF_vars(CallGoesOn(c))

FairSpec == Spec /\ Fairness

-----------------------------------------------------------------------------
(* Type invariant. *)

CallLabels == {"idle", "push", "status", "poll", "fetch", "latch", "join"}
WorkerLabels == {"top", "pop", "wait", "run", "report", "close", "count", "done"}
Results == [stage : {"none", "waiting", "finished", "errored"},
            answer : {"none"} \cup Answers, n : 0 .. MaxTasks]

QueueTypeOK ==
  /\ queue \in Seq(Tasks \cup {EmptyTask})
  /\ results \in [Identities -> Results]
  /\ overwritten \in BOOLEAN

CallTypeOK ==
  /\ callPc \in [Callers -> CallLabels]
  /\ identity \in [Callers -> Int]
  /\ chunks \in [Callers -> Nat]
  /\ tasks \in [Callers -> Seq(Tasks)]
  /\ affected \in [Callers -> Nat]
  /\ firstId \in [Callers -> Int]

WorkerTypeOK ==
  /\ pc \in [Workers -> WorkerLabels]
  /\ task \in [Workers -> Tasks \cup {Nil}]
  /\ answer \in [Workers -> {"none"} \cup Answers]
  /\ open \in [Workers -> BOOLEAN]

HistoryTypeOK ==
  /\ pushed \in 0 .. MaxTasks
  /\ started \in Seq(1 .. MaxTasks)
  /\ outcome \in [1 .. MaxTasks -> {"none"} \cup Answers]

LatchTypeOK ==
  /\ shutDownFlag \in BOOLEAN
  /\ alive \in BOOLEAN
  /\ latch = Cardinality({w \in Workers : pc[w] # "done"})

(* Every variable has its type, and the latch counts the workers that have  *)
(* not yet counted it down.                                                 *)
TypeOK == QueueTypeOK /\ CallTypeOK /\ WorkerTypeOK /\ HistoryTypeOK /\ LatchTypeOK

-----------------------------------------------------------------------------
(* Safety. *)

(* The numbers of the tasks taken count up from 1; those left are on the    *)
(* queue, in order, before the empty tasks of the destructor.               *)
Left == pushed - Len(started)
TakenInOrder ==
  /\ \A i \in 1 .. Len(started) : started[i] = i
  /\ Left \in 0 .. Len(queue)
  /\ \A i \in 1 .. Len(queue) : IF i <= Left THEN queue[i].n = Len(started) + i
                                             ELSE queue[i] = EmptyTask

ToldOfOwnTask ==
  \A c \in Callers :
    /\ callPc[c] \in {"poll", "fetch"} =>
         LET t == Head(tasks[c])
             r == results[t.identity]
         IN r.n = t.n /\ (r.stage # "waiting" => r.answer = outcome[t.n])
    /\ callPc[c] = "fetch" => results[Head(tasks[c]).identity].stage = "finished"

(* Every task that was pushed is taken by one worker, once, in the order of *)
(* the pushes, or is still on the queue; and what a caller is told of an    *)
(* identity is what became of the task it has pushed, never of an earlier   *)
(* task of that identity; what getData() then finds is a finished result,   *)
(* as TaskStatusMgmt asserts.                                               *)
ReportsOwnTask == TakenInOrder /\ ToldOfOwnTask

(* The latch counts the workers that are left, tasks are taken once and in  *)
(* order, and a caller is told of its own task.                             *)
TasksInOrder == TypeOK /\ ReportsOwnTask

(* The identities of two appenders of one pool are the same numbers.        *)
OneAppender == \A a, b \in Appenders : a = b

(* A task is live while it is on the queue or a worker runs it.             *)
Running(w) == pc[w] \in {"run", "report"}
OnQueue(t) == \E i \in 1 .. Len(queue) : queue[i] = t
Live(t) == OnQueue(t) \/ \E w \in Workers : Running(w) /\ task[w] = t

(* Workers run different tasks that were taken, and no call runs beside the *)
(* destructor, which alone pushes empty tasks.                              *)
TakenOnce ==
  /\ TakenInOrder
  /\ Len(queue) > Left => ~alive
  /\ ~alive => \A c \in Callers : callPc[c] \in {"idle", "latch", "join"}
  /\ \A w \in Workers :
       /\ Running(w) => task[w] \in Tasks /\ task[w].n \in 1 .. Len(started)
       /\ pc[w] = "report" => answer[w] \in Answers /\ answer[w] = outcome[task[w].n]
       /\ \A v \in Workers :
            Running(w) /\ Running(v) /\ task[w].n = task[v].n => v = w

(* How far a call has come: the tasks it has pushed and not yet fetched,    *)
(* with the identities they have.                                           *)
Pending(c) == 1 .. Len(tasks[c])
StatusDue(c) == IF callPc[c] = "status" THEN 0 ELSE 1
CallShape ==
  \A c \in Callers :
    /\ callPc[c] \in {"idle", "latch", "join"} => tasks[c] = <<>>
    /\ callPc[c] \in {"push", "status"} => chunks[c] > 0
    /\ callPc[c] \in {"status", "poll", "fetch"} => tasks[c] # <<>>
    /\ \A k \in Pending(c) :
         /\ tasks[c][k].n <= pushed
         /\ \A l \in Pending(c) : k < l => tasks[c][k].n < tasks[c][l].n

UserShape ==
  \A c \in Users :
    /\ callPc[c] \in {"push", "status", "poll", "fetch"} => identity[c] \in UserIds
    /\ callPc[c] \in {"push", "status"} => chunks[c] = 1
    /\ callPc[c] = "push" => tasks[c] = <<>>
    /\ \A k \in Pending(c) : k = 1 /\ tasks[c][k].identity = identity[c]
    /\ \A u \in Users : callPc[c] \in {"push", "status", "poll", "fetch"}
         /\ callPc[u] \in {"push", "status", "poll", "fetch"}
         /\ identity[c] = identity[u] => u = c

AppenderShape ==
  \A c \in Appenders :
    /\ identity[c] <= -2
    /\ -identity[c] - 1 - StatusDue(c) <= pushed
    /\ \A k \in Pending(c) :
         /\ tasks[c][k].identity = identity[c] + Len(tasks[c]) - k + StatusDue(c)
         /\ tasks[c][k].identity <= -2

(* A number belongs to one task.                                            *)
NumbersApart ==
  \A c \in Callers : \A k \in Pending(c) :
    /\ \A d \in Callers : \A l \in Pending(d) :
         tasks[c][k].n = tasks[d][l].n => d = c
    /\ \A t \in Tasks : Live(t) /\ t.n = tasks[c][k].n => t = tasks[c][k]

(* An identity that a call waits for belongs to one live task, and those    *)
(* still to be used belong to none.                                         *)
IdentitiesApart ==
  /\ \A c \in Callers : \A k \in Pending(c) :
       /\ \A d \in Callers : \A l \in Pending(d) :
            tasks[c][k].identity = tasks[d][l].identity => d = c
       /\ \A t \in Tasks : Live(t) /\ t.identity = tasks[c][k].identity => t = tasks[c][k]
  /\ \A t \in Tasks : Live(t) =>
       /\ t.identity >= 0 => \E c \in Users : tasks[c] = <<t>>
       /\ t.identity < 0 => \A a \in Appenders : t.identity >= identity[a] + StatusDue(a)

(* The status map holds, for each task whose status was set, what has       *)
(* become of it, and says WAITING as long as it is live.                    *)
ResultsOwn ==
  \A c \in Callers :
    /\ \A k \in Pending(c) :
         LET t == tasks[c][k]
             r == results[t.identity]
         IN \/ callPc[c] = "status" /\ k = Len(tasks[c])
            \/ /\ r.n = t.n
               /\ r.stage # "waiting" => r.answer = outcome[t.n] /\ ~Live(t)
    /\ callPc[c] = "fetch" => results[Head(tasks[c]).identity].stage = "finished"

(* The inductive invariants behind TasksInOrder: for any callers, and for   *)
(* pools with at most one appender.                                         *)
PoolInv == TypeOK /\ TakenOnce /\ CallShape /\ UserShape /\ AppenderShape /\ NumbersApart
OwnInv == IdentitiesApart /\ ResultsOwn

(* An append() has counted or will fetch a result for each identity it has  *)
(* used, an empty result is what the server answered, and it answers a task *)
(* once.                                                                    *)
NullAnswered == \E n \in 1 .. MaxTasks : outcome[n] = "null"
AffectedInv ==
  /\ \A c \in Appenders : callPc[c] \in {"push", "status", "poll", "fetch"} =>
       \/ affected[c] + Len(tasks[c]) + StatusDue(c) = firstId[c] - identity[c] + 1
       \/ NullAnswered
  /\ \A i \in Identities : results[i].answer = "null" => NullAnswered
  /\ \A n \in 1 .. MaxTasks : n > Len(started) => outcome[n] = "none"
  /\ \A w \in Workers : pc[w] = "run" => outcome[task[w].n] = "none"

(* An append() that returns has counted one result for each identity it has *)
(* used, if no result was empty: it passes over none and takes none twice.  *)
AffectedCountsChunks ==
  [][\A c \in Appenders :
       callPc[c] = "fetch" /\ callPc'[c] = "idle" =>
         affected'[c] = firstId[c] - identity[c] \/ NullAnswered]_vars

-----------------------------------------------------------------------------
(* Liveness. *)

NothingRuns == \A w \in Workers : ~open[w] /\ pc[w] = "done"

(* shutDown() returns, and not before every connection is closed and every  *)
(* task has ended.                                                          *)
ShutDownEnds ==
  /\ \A c \in Callers : callPc[c] = "latch" ~> callPc[c] # "latch"
  /\ [][\A c \in Callers : callPc[c] = "latch" /\ callPc'[c] # "latch" => NothingRuns]_vars

(* As long as no result is overwritten by a late WAITING, every task is     *)
(* taken by a worker and who polls for it is told of its end, unless its    *)
(* script was empty or the pool shuts down ...                              *)
PollEndsUnlessOverwritten ==
  []~overwritten =>
    \A c \in Callers :
      callPc[c] = "poll" /\ ~Head(tasks[c]).empty ~> (callPc[c] # "poll" \/ shutDownFlag)

(* Nobody waits for the pool for ever but for that.                         *)
WaitsEnd == ShutDownEnds /\ PollEndsUnlessOverwritten

(* ... and the tests poll until they are told, in any case.                 *)
PollEnds ==
  \A c \in Callers : callPc[c] = "poll" ~> (callPc[c] # "poll" \/ shutDownFlag)

=============================================================================
