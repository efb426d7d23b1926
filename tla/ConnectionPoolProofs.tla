------------------------ MODULE ConnectionPoolProofs ------------------------
(***************************************************************************)
(* Proofs about the connection pool, for any number of users, appenders,   *)
(* workers and tasks, any identities of the users and any answers.         *)
(***************************************************************************)
EXTENDS ConnectionPool, TLAPS, SequenceTheorems, FiniteSetTheorems

Calling == {"push", "status", "poll", "fetch"}
Aside == {"idle", "latch", "join"}

LEMMA TaskFacts ==
  /\ MaxTasks \in Nat /\ IsFiniteSet(Workers)
  /\ \A i \in UserIds : i \in Nat /\ i \in Int /\ i \in Identities
  /\ \A i \in Identities : i \in Int /\ (i >= 0 <=> i \in UserIds)
  /\ \A i \in 2 .. MaxTasks + 1 : -i \in Identities
  /\ \A t \in Tasks : /\ t.identity \in Identities /\ t.identity \in Int
                      /\ t.n \in 1 .. MaxTasks /\ t.n \in Nat /\ t.n > 0
  /\ EmptyTask \notin Tasks /\ EmptyTask.empty
  /\ \A i \in Identities, n \in 1 .. MaxTasks, e \in BOOLEAN :
       [identity |-> i, n |-> n, empty |-> e] \in Tasks
<1>1. MaxTasks \in Nat /\ IsFiniteSet(Workers) /\ UserIds \subseteq Nat
  BY PoolAssumption
<1>2. \A i \in Identities : i \in Int /\ (i >= 0 <=> i \in UserIds)
  BY <1>1 DEF Identities
<1>3. \A t \in Tasks : t.identity \in Identities /\ t.n \in 1 .. MaxTasks /\ t.n \in Nat /\ t.n > 0
  BY <1>1 DEF Tasks
<1>4. EmptyTask.n = 0 /\ EmptyTask.empty
  BY DEF EmptyTask
<1>5. EmptyTask \notin Tasks
  BY <1>3, <1>4
<1>6. \A i \in UserIds : i \in Nat /\ i \in Int /\ i \in Identities
  <2>1. \A i \in UserIds : i \in Nat /\ i \in Int
    BY <1>1
  <2>2. UserIds \subseteq Identities
    BY DEF Identities
  <2>3. QED
    BY <2>1, <2>2
<1>7. \A i \in 2 .. MaxTasks + 1 : -i \in Identities
  BY DEF Identities
<1>8. \A i \in Identities, n \in 1 .. MaxTasks, e \in BOOLEAN :
        [identity |-> i, n |-> n, empty |-> e] \in Tasks
  BY DEF Tasks
<1>9. QED
  BY <1>1, <1>2, <1>3, <1>4, <1>5, <1>6, <1>7, <1>8

-----------------------------------------------------------------------------
(* What a step of a caller does to its own variables.                       *)

UserBegins(c) ==
  /\ c \in Users /\ alive /\ callPc[c] = "idle" /\ callPc'[c] = "push"
  /\ identity'[c] \in UserIds /\ chunks'[c] = 1
  /\ \A u \in Users : callPc[u] # "idle" => identity[u] # identity'[c]
  /\ UNCHANGED <<tasks[c], affected[c], firstId[c], queue, results, pushed, alive>>

AppendBegins(c) ==
  /\ c \in Appenders /\ alive /\ callPc[c] = "idle" /\ callPc'[c] = "push"
  /\ chunks'[c] \in Nat /\ chunks'[c] > 0 /\ affected'[c] = 0 /\ firstId'[c] = identity[c]
  /\ UNCHANGED <<tasks[c], identity[c], queue, results, pushed, alive>>

Pushes(c, t) ==
  /\ callPc[c] = "push" /\ callPc'[c] = "status"
  /\ t.identity = identity[c] /\ t.n = pushed + 1 /\ pushed < MaxTasks
  /\ queue' = Append(queue, t) /\ tasks'[c] = Append(tasks[c], t) /\ pushed' = pushed + 1
  /\ UNCHANGED <<identity[c], chunks[c], affected[c], firstId[c], results, alive>>

Sets(c, t) ==
  /\ callPc[c] = "status" /\ t = tasks[c][Len(tasks[c])]
  /\ results' = [results EXCEPT ![identity[c]] = Waiting(t.n)]
  /\ identity'[c] = IF c \in Appenders THEN identity[c] - 1 ELSE identity[c]
  /\ chunks'[c] = chunks[c] - 1
  /\ callPc'[c] = IF chunks[c] = 1 THEN "poll" ELSE "push"
  /\ UNCHANGED <<tasks[c], affected[c], firstId[c], queue, pushed, alive>>

Polls(c) ==
  /\ callPc[c] = "poll" /\ results[Head(tasks[c]).identity].stage # "waiting"
  /\ \/ /\ results[Head(tasks[c]).identity].stage = "finished"
        /\ callPc'[c] = "fetch" /\ tasks'[c] = tasks[c]
     \/ callPc'[c] = "idle" /\ tasks'[c] = <<>>
  /\ UNCHANGED <<identity[c], chunks[c], affected[c], firstId[c], queue, results,
                 pushed, alive>>

Fetches(c) ==
  /\ callPc[c] = "fetch"
  /\ results' = [results EXCEPT ![Head(tasks[c]).identity] = NoResult]
  /\ affected'[c] = Counted(affected[c], results[Head(tasks[c]).identity].answer)
  /\ tasks'[c] = Tail(tasks[c])
  /\ callPc'[c] = IF Len(tasks[c]) = 1 THEN "idle" ELSE "poll"
  /\ UNCHANGED <<identity[c], chunks[c], firstId[c], queue, pushed, alive>>

StandsAside(c) ==
  /\ callPc[c] \in Aside /\ callPc'[c] \in Aside
  /\ UNCHANGED <<identity[c], chunks[c], tasks[c], affected[c], firstId[c], results, pushed>>
  /\ \/ queue' = queue
     \/ /\ ~alive
        /\ queue' = queue \o [i \in 1 .. Cardinality(Workers) |-> EmptyTask]
  /\ \/ alive' = alive
     \/ ~alive' /\ \A d \in Callers : callPc[d] = "idle"

CallStep(c) ==
  \/ UserBegins(c) \/ AppendBegins(c) \/ (\E t \in Tasks : Pushes(c, t))
  \/ (\E t \in Tasks : Sets(c, t)) \/ Polls(c) \/ Fetches(c) \/ StandsAside(c)

(* A call touches its own variables only, and none of the workers'.         *)
LEMMA CallFrame ==
  ASSUME CallTypeOK, NEW c \in Callers, CallBegins(c) \/ CallGoesOn(c)
  PROVE  /\ UNCHANGED <<pc, task, answer, open, latch, started, outcome>>
         /\ \A d \in Callers : d # c =>
              UNCHANGED <<callPc[d], identity[d], chunks[d], tasks[d], affected[d], firstId[d]>>
<1> USE DEF workerVars, poolVars, histVars
<1>1. /\ callPc \in [Callers -> CallLabels] /\ identity \in [Callers -> Int]
      /\ chunks \in [Callers -> Nat] /\ tasks \in [Callers -> Seq(Tasks)]
      /\ affected \in [Callers -> Nat] /\ firstId \in [Callers -> Int]
  BY DEF CallTypeOK
<1>2. CASE (\E i \in UserIds : Run(c, i))
           \/ (\E k \in 1 .. Cardinality(Workers) : AppendTable(c, k))
  BY <1>1, <1>2 DEF Run, AppendTable, Goto
<1>3. CASE PushTask(c)
  BY <1>1, <1>3 DEF PushTask, Goto
<1>4. CASE SetWaiting(c)
  BY <1>1, <1>4 DEF SetWaiting, Goto
<1>5. CASE Poll(c)
  BY <1>1, <1>5 DEF Poll, Goto
<1>6. CASE GetData(c)
  BY <1>1, <1>6 DEF GetData, Goto
<1>7. CASE ShutDown(c) \/ ShutDownReturns(c) \/ Destruct(c) \/ JoinWorkers(c)
  BY <1>1, <1>7 DEF ShutDown, ShutDownReturns, Destruct, JoinWorkers, Goto
<1>8. QED
  BY <1>2, <1>3, <1>4, <1>5, <1>6, <1>7 DEF CallBegins, CallGoesOn

LEMMA WorkerFrame ==
  ASSUME NEW w \in Workers, WorkerStep(w)
  PROVE  UNCHANGED <<callPc, identity, chunks, tasks, affected, firstId, pushed,
                     shutDownFlag, alive>>
BY DEF WorkerStep, CheckShutDown, CloseConnection, CountDown, PopTask, WokenUp,
       PopTimesOut, RunTask, ReportResult, WorkerKeeps, poolVars, callVars, histVars

(* The identity of a task that is pushed is one of those in use.            *)
LEMMA NextIdentity ==
  ASSUME TypeOK, UserShape, AppenderShape, NEW c \in Callers, callPc[c] = "push",
         pushed < MaxTasks
  PROVE  identity[c] \in Identities
<1>1. identity[c] \in Int /\ pushed \in Nat /\ MaxTasks \in Nat
  BY TaskFacts DEF TypeOK, CallTypeOK, HistoryTypeOK
<1>2. CASE c \in Users
  BY <1>2, TaskFacts DEF UserShape
<1>3. CASE c \in Appenders
  <2>1. identity[c] <= -2 /\ -identity[c] - 1 - 1 <= pushed
    BY <1>3 DEF AppenderShape, StatusDue
  <2>2. -identity[c] \in 2 .. MaxTasks + 1 /\ -(-identity[c]) = identity[c]
    BY <1>1, <2>1
  <2>3. QED
    BY <2>2, TaskFacts
<1>4. QED
  BY <1>2, <1>3 DEF Callers

LEMMA CallEffects ==
  ASSUME TypeOK, CallShape, UserShape, AppenderShape,
         NEW c \in Callers, CallBegins(c) \/ CallGoesOn(c)
  PROVE  CallStep(c)
<1>1. /\ callPc \in [Callers -> CallLabels] /\ identity \in [Callers -> Int]
      /\ chunks \in [Callers -> Nat] /\ tasks \in [Callers -> Seq(Tasks)]
      /\ affected \in [Callers -> Nat] /\ firstId \in [Callers -> Int]
      /\ pushed \in Nat
  BY DEF TypeOK, CallTypeOK, HistoryTypeOK
<1> USE DEF poolVars, histVars
<1>2. CASE c \in Users /\ \E i \in UserIds : Run(c, i)
  <2>1. UserBegins(c)
    BY <1>1, <1>2 DEF Run, Goto, UserBegins
  <2>2. QED
    BY <2>1 DEF CallStep
<1>3. CASE c \in Appenders /\ \E k \in 1 .. Cardinality(Workers) : AppendTable(c, k)
  <2>1. Cardinality(Workers) \in Nat
    BY TaskFacts, FS_CardinalityType
  <2>2. AppendBegins(c)
    BY <1>1, <1>3, <2>1 DEF AppendTable, Goto, AppendBegins
  <2>3. QED
    BY <2>2 DEF CallStep
<1>4. CASE PushTask(c)
  <2>1. callPc[c] = "push" /\ pushed < MaxTasks
    BY <1>4 DEF PushTask
  <2>2. identity[c] \in Identities /\ pushed + 1 \in 1 .. MaxTasks
    BY <1>1, <2>1, NextIdentity, TaskFacts
  <2>3. PICK empty \in {FALSE, EmptyScripts /\ c \in Users} :
          /\ queue' = Append(queue, [identity |-> identity[c], n |-> pushed + 1, empty |-> empty])
          /\ tasks' = [tasks EXCEPT ![c] =
               Append(@, [identity |-> identity[c], n |-> pushed + 1, empty |-> empty])]
    BY <1>4 DEF PushTask
  <2> DEFINE t == [identity |-> identity[c], n |-> pushed + 1, empty |-> empty]
  <2>4. empty \in BOOLEAN
    BY PoolAssumption
  <2>5. t \in Tasks
    BY <2>2, <2>4, TaskFacts
  <2>6. t.identity = identity[c] /\ t.n = pushed + 1
    OBVIOUS
  <2>7. queue' = Append(queue, t) /\ tasks'[c] = Append(tasks[c], t)
    BY <1>1, <2>3
  <2> HIDE DEF t
  <2>8. Pushes(c, t)
    BY <1>1, <1>4, <2>1, <2>6, <2>7 DEF PushTask, Goto, Pushes
  <2>9. QED
    BY <2>5, <2>8 DEF CallStep
<1>5. CASE SetWaiting(c)
  <2>1. tasks[c] # <<>>
    BY <1>5 DEF SetWaiting, CallShape
  <2>2. tasks[c][Len(tasks[c])] \in Tasks
    BY <1>1, <2>1
  <2>3. Sets(c, tasks[c][Len(tasks[c])])
    BY <1>1, <1>5 DEF SetWaiting, StatusSet, Goto, Sets
  <2>4. QED
    BY <2>2, <2>3 DEF CallStep
<1>6. CASE Poll(c)
  <2>1. Polls(c)
    BY <1>1, <1>6 DEF Poll, Goto, Polls
  <2>2. QED
    BY <2>1 DEF CallStep
<1>7. CASE GetData(c)
  <2>1. Fetches(c)
    BY <1>1, <1>7 DEF GetData, Goto, Fetches
  <2>2. QED
    BY <2>1 DEF CallStep
<1>8. CASE ShutDown(c) \/ ShutDownReturns(c) \/ Destruct(c) \/ JoinWorkers(c)
  <2>1. StandsAside(c)
    BY <1>1, <1>8 DEF ShutDown, ShutDownReturns, Destruct, JoinWorkers, Goto, StandsAside, Aside
  <2>2. QED
    BY <2>1 DEF CallStep
<1>9. QED
  BY <1>2, <1>3, <1>4, <1>5, <1>6, <1>7, <1>8 DEF CallBegins, CallGoesOn

-----------------------------------------------------------------------------
(* Types                                                                    *)

LEMMA TypeInit == Init => TypeOK
<1> SUFFICES ASSUME Init PROVE TypeOK
  OBVIOUS
<1>1. QueueTypeOK
  <2>1. NoResult \in Results
    BY TaskFacts DEF NoResult, Results
  <2>2. queue = <<>> /\ results = [i \in Identities |-> NoResult] /\ overwritten = FALSE
    BY DEF Init
  <2>3. queue \in Seq(Tasks \cup {EmptyTask})
    BY <2>2
  <2>4. results \in [Identities -> Results]
    BY <2>1, <2>2
  <2>5. QED
    BY <2>2, <2>3, <2>4 DEF QueueTypeOK
<1>2. CallTypeOK
  BY DEF Init, CallTypeOK, CallLabels
<1>3. WorkerTypeOK
  BY DEF Init, WorkerTypeOK, WorkerLabels
<1>4. HistoryTypeOK
  BY TaskFacts DEF Init, HistoryTypeOK
<1>5. LatchTypeOK
  <2>1. {w \in Workers : pc[w] # "done"} = Workers
    BY DEF Init
  <2>2. QED
    BY <2>1 DEF Init, LatchTypeOK
<1>6. QED
  BY <1>1, <1>2, <1>3, <1>4, <1>5 DEF TypeOK

LEMMA CallDomains ==
  ASSUME CallTypeOK, NEW c \in Callers, CallBegins(c) \/ CallGoesOn(c)
  PROVE  /\ callPc' = [d \in Callers |-> callPc'[d]]
         /\ identity' = [d \in Callers |-> identity'[d]]
         /\ chunks' = [d \in Callers |-> chunks'[d]]
         /\ tasks' = [d \in Callers |-> tasks'[d]]
         /\ affected' = [d \in Callers |-> affected'[d]]
         /\ firstId' = [d \in Callers |-> firstId'[d]]
<1> DEFINE Fun(f) == f = [d \in Callers |-> f[d]]
<1>1. /\ Fun(callPc) /\ Fun(identity) /\ Fun(chunks) /\ Fun(tasks)
      /\ Fun(affected) /\ Fun(firstId)
  BY DEF CallTypeOK
<1>2. CASE (\E i \in UserIds : Run(c, i))
           \/ (\E k \in 1 .. Cardinality(Workers) : AppendTable(c, k))
  BY <1>1, <1>2 DEF Run, AppendTable, Goto
<1>3. CASE PushTask(c)
  BY <1>1, <1>3 DEF PushTask, Goto
<1>4. CASE SetWaiting(c)
  BY <1>1, <1>4 DEF SetWaiting, Goto
<1>5. CASE Poll(c)
  BY <1>1, <1>5 DEF Poll, Goto
<1>6. CASE GetData(c)
  BY <1>1, <1>6 DEF GetData, Goto
<1>7. CASE ShutDown(c) \/ ShutDownReturns(c) \/ Destruct(c) \/ JoinWorkers(c)
  BY <1>1, <1>7 DEF ShutDown, ShutDownReturns, Destruct, JoinWorkers, Goto
<1>8. QED
  BY <1>2, <1>3, <1>4, <1>5, <1>6, <1>7 DEF CallBegins, CallGoesOn

LEMMA CallTypeNext ==
  ASSUME TypeOK, CallShape, UserShape, AppenderShape, [Next]_vars
  PROVE  CallTypeOK'
<1>a. CallTypeOK
  BY DEF TypeOK
<1>1. ASSUME NEW c \in Callers, CallBegins(c) \/ CallGoesOn(c)
      PROVE  CallTypeOK'
  <2>1. /\ callPc[c] \in CallLabels /\ identity[c] \in Int /\ chunks[c] \in Nat
        /\ tasks[c] \in Seq(Tasks) /\ affected[c] \in Nat /\ firstId[c] \in Int
    BY <1>a DEF CallTypeOK
  <2>2. /\ callPc'[c] \in CallLabels /\ identity'[c] \in Int /\ chunks'[c] \in Nat
        /\ tasks'[c] \in Seq(Tasks) /\ affected'[c] \in Nat /\ firstId'[c] \in Int
    <3>1. CASE UserBegins(c) \/ AppendBegins(c)
      BY <2>1, <3>1, TaskFacts DEF UserBegins, AppendBegins, CallLabels
    <3>2. CASE \E t \in Tasks : Pushes(c, t)
      BY <2>1, <3>2 DEF Pushes, CallLabels
    <3>3. CASE \E t \in Tasks : Sets(c, t)
      <4>1. callPc[c] = "status"
        BY <3>3 DEF Sets
      <4>2. chunks[c] > 0
        BY <4>1 DEF CallShape
      <4>3. chunks[c] - 1 \in Nat /\ identity[c] - 1 \in Int
        BY <2>1, <4>2
      <4>4. QED
        BY <2>1, <3>3, <4>3 DEF Sets, CallLabels
    <3>4. CASE Polls(c)
      <4>1. /\ callPc'[c] \in {"fetch", "idle"} /\ tasks'[c] \in {tasks[c], <<>>}
            /\ UNCHANGED <<identity[c], chunks[c], affected[c], firstId[c]>>
        BY <3>4 DEF Polls
      <4>2. <<>> \in Seq(Tasks)
        OBVIOUS
      <4>3. QED
        BY <2>1, <4>1, <4>2 DEF CallLabels
    <3>5. CASE Fetches(c)
      <4>1. tasks[c] # <<>>
        BY <3>5 DEF Fetches, CallShape
      <4>2. Tail(tasks[c]) \in Seq(Tasks)
        BY <2>1, <4>1
      <4>3. Counted(affected[c], results[Head(tasks[c]).identity].answer) \in Nat
        BY <2>1 DEF Counted
      <4>4. QED
        BY <2>1, <3>5, <4>2, <4>3 DEF Fetches, CallLabels
    <3>6. CASE StandsAside(c)
      BY <2>1, <3>6 DEF StandsAside, Aside, CallLabels
    <3>7. QED
      BY <1>1, <3>1, <3>2, <3>3, <3>4, <3>5, <3>6, CallEffects DEF CallStep
  <2>3. ASSUME NEW d \in Callers
        PROVE  /\ callPc'[d] \in CallLabels /\ identity'[d] \in Int /\ chunks'[d] \in Nat
               /\ tasks'[d] \in Seq(Tasks) /\ affected'[d] \in Nat /\ firstId'[d] \in Int
    <3>1. CASE d = c
      BY <2>2, <3>1
    <3>2. CASE d # c
      BY <1>1, <1>a, <3>2, CallFrame DEF CallTypeOK
    <3>3. QED
      BY <3>1, <3>2
  <2>4. QED
    BY <1>1, <1>a, <2>3, CallDomains DEF CallTypeOK
<1>2. ASSUME NEW w \in Workers, WorkerStep(w) PROVE CallTypeOK'
  BY <1>2, <1>a, WorkerFrame DEF CallTypeOK
<1>3. CASE UNCHANGED vars
  BY <1>3, <1>a DEF vars, callVars, CallTypeOK
<1>4. QED
  BY <1>1, <1>2, <1>3 DEF Next

LEMMA QueueTypeNext ==
  ASSUME TypeOK, TakenOnce, CallShape, UserShape, AppenderShape, [Next]_vars
  PROVE  QueueTypeOK'
<1>a. QueueTypeOK
  BY DEF TypeOK
<1>b. NoResult \in Results /\ \A n \in 0 .. MaxTasks : Waiting(n) \in Results
  BY TaskFacts DEF NoResult, Waiting, Results
<1>1. ASSUME NEW c \in Callers, CallBegins(c) \/ CallGoesOn(c)
      PROVE  QueueTypeOK'
  <2>1. overwritten' \in BOOLEAN
    BY <1>1, <1>a DEF CallBegins, CallGoesOn, Run, AppendTable, PushTask, SetWaiting, Poll,
           GetData, ShutDown, ShutDownReturns, Destruct, JoinWorkers, QueueTypeOK
  <2>2. queue' \in Seq(Tasks \cup {EmptyTask})
    <3>1. CASE queue' = queue
      BY <1>a, <3>1 DEF QueueTypeOK
    <3>2. CASE \E t \in Tasks : queue' = Append(queue, t)
      BY <1>a, <3>2 DEF QueueTypeOK
    <3>3. CASE queue' = queue \o [i \in 1 .. Cardinality(Workers) |-> EmptyTask]
      <4>1. Cardinality(Workers) \in Nat
        BY TaskFacts, FS_CardinalityType
      <4>2. [i \in 1 .. Cardinality(Workers) |-> EmptyTask] \in Seq(Tasks \cup {EmptyTask})
        BY <4>1
      <4>3. \A r \in Seq(Tasks \cup {EmptyTask}) : queue \o r \in Seq(Tasks \cup {EmptyTask})
        BY <1>a DEF QueueTypeOK
      <4>4. QED
        BY <3>3, <4>2, <4>3
    <3>4. QED
      BY <1>1, <3>1, <3>2, <3>3, CallEffects DEF CallStep, UserBegins, AppendBegins, Pushes,
             Sets, Polls, Fetches, StandsAside
  <2>3. results' \in [Identities -> Results]
    <3>1. CASE results' = results
      BY <1>a, <3>1 DEF QueueTypeOK
    <3>2. CASE \E i, r : r \in Results /\ results' = [results EXCEPT ![i] = r]
      BY <1>a, <3>2 DEF QueueTypeOK
    <3>3. ASSUME NEW t \in Tasks, Sets(c, t)
          PROVE  results' = [results EXCEPT ![identity[c]] = Waiting(t.n)] /\ Waiting(t.n) \in Results
      <4>1. t.n \in 0 .. MaxTasks
        BY TaskFacts
      <4>2. QED
        BY <1>b, <3>3, <4>1 DEF Sets
    <3>4. QED
      BY <1>1, <1>b, <3>1, <3>2, <3>3, CallEffects DEF CallStep, UserBegins, AppendBegins, Pushes,
             Polls, Fetches, StandsAside
  <2>4. QED
    BY <2>1, <2>2, <2>3 DEF QueueTypeOK
<1>2. ASSUME NEW w \in Workers, WorkerStep(w) PROVE QueueTypeOK'
  <2>1. CASE PopTask(w)
    <3>1. queue # <<>> => Tail(queue) \in Seq(Tasks \cup {EmptyTask})
      BY <1>a DEF QueueTypeOK
    <3>2. /\ queue' = queue \/ (queue # <<>> /\ queue' = Tail(queue))
          /\ results' = results /\ overwritten' = overwritten
      BY <2>1 DEF PopTask, QueuePopped
    <3>3. QED
      BY <1>a, <3>1, <3>2 DEF QueueTypeOK
  <2>2. CASE ReportResult(w)
    <3>1. task[w] \in Tasks /\ answer[w] \in Answers
      BY <2>2 DEF ReportResult, TakenOnce, Running
    <3>2. task[w].n \in 0 .. MaxTasks
      BY <3>1, TaskFacts
    <3>3. [stage |-> IF answer[w] = "error" THEN "errored" ELSE "finished",
           answer |-> answer[w], n |-> task[w].n] \in Results
      BY <3>1, <3>2 DEF Results
    <3>4. QED
      BY <1>a, <2>2, <3>3 DEF ReportResult, QueueTypeOK
  <2>3. CASE ~PopTask(w) /\ ~ReportResult(w)
    BY <1>2, <1>a, <2>3 DEF WorkerStep, CheckShutDown, CloseConnection, CountDown, WokenUp,
           PopTimesOut, RunTask, QueueTypeOK
  <2>4. QED
    BY <2>1, <2>2, <2>3
<1>3. CASE UNCHANGED vars
  BY <1>3, <1>a DEF vars, QueueTypeOK
<1>4. QED
  BY <1>1, <1>2, <1>3 DEF Next

LEMMA WorkerTypeNext ==
  ASSUME TypeOK, TakenOnce, [Next]_vars
  PROVE  WorkerTypeOK' /\ HistoryTypeOK'
<1>a. WorkerTypeOK /\ HistoryTypeOK /\ QueueTypeOK /\ CallTypeOK
  BY DEF TypeOK
<1>1. ASSUME NEW c \in Callers, CallBegins(c) \/ CallGoesOn(c)
      PROVE  WorkerTypeOK' /\ HistoryTypeOK'
  <2>1. UNCHANGED <<pc, task, answer, open, started, outcome>>
    BY <1>1, <1>a, CallFrame
  <2>2. pushed' \in 0 .. MaxTasks
    <3>1. pushed' = pushed \/ (pushed < MaxTasks /\ pushed' = pushed + 1)
      <4>1. CASE PushTask(c)
        BY <4>1 DEF PushTask
      <4>2. ASSUME CallBegins(c) PROVE UNCHANGED histVars
        BY <4>2 DEF CallBegins, Run, AppendTable, ShutDown, Destruct
      <4>3. ASSUME SetWaiting(c) \/ Poll(c) \/ GetData(c) \/ ShutDownReturns(c) \/ JoinWorkers(c)
            PROVE  UNCHANGED histVars
        BY <4>3 DEF SetWaiting, Poll, GetData, ShutDownReturns, JoinWorkers
      <4>4. UNCHANGED histVars => pushed' = pushed
        BY DEF histVars
      <4>5. QED
        BY <1>1, <4>1, <4>2, <4>3, <4>4 DEF CallGoesOn
    <3>2. QED
      BY <1>a, <3>1, TaskFacts DEF HistoryTypeOK
  <2>3. QED
    BY <1>a, <2>1, <2>2 DEF WorkerTypeOK, HistoryTypeOK
<1>2. ASSUME NEW w \in Workers, WorkerStep(w)
      PROVE  WorkerTypeOK' /\ HistoryTypeOK'
  <2>a. pushed' = pushed
    BY <1>2, WorkerFrame
  <2>1. CASE CheckShutDown(w) \/ CloseConnection(w) \/ CountDown(w) \/ WokenUp(w) \/ PopTimesOut(w)
    BY <1>a, <2>a, <2>1 DEF CheckShutDown, CloseConnection, CountDown, WokenUp, PopTimesOut, Work,
           WorkerTypeOK, HistoryTypeOK, WorkerLabels, histVars
  <2>2. CASE PopTask(w) /\ queue = <<>>
    BY <1>a, <2>a, <2>2 DEF PopTask, Work, WorkerTypeOK, HistoryTypeOK, WorkerLabels
  <2>3. CASE PopTask(w) /\ queue # <<>>
    <3>1. Head(queue) \in Tasks \cup {EmptyTask}
      BY <1>a, <2>3 DEF QueueTypeOK
    <3>2. HistoryTypeOK'
      <4>1. CASE Head(queue) = EmptyTask
        BY <1>a, <2>a, <2>3, <4>1 DEF PopTask, HistoryTypeOK
      <4>2. CASE Head(queue) # EmptyTask
        <5>1. Head(queue).n \in 1 .. MaxTasks
          BY <3>1, <4>2, TaskFacts
        <5>2. started' = Append(started, Head(queue).n) /\ outcome' = outcome
          BY <2>3, <4>2 DEF PopTask
        <5>3. QED
          BY <1>a, <2>a, <5>1, <5>2 DEF HistoryTypeOK
      <4>3. QED
        BY <4>1, <4>2
    <3>3. WorkerTypeOK'
      <4>1. ~Head(queue).empty => Head(queue) \in Tasks
        BY <3>1, TaskFacts
      <4>2. QED
        BY <1>a, <2>3, <4>1 DEF PopTask, Work, WorkerTypeOK, WorkerLabels
    <3>4. QED
      BY <3>2, <3>3
  <2>4. CASE RunTask(w)
    BY <1>a, <2>a, <2>4 DEF RunTask, Work, WorkerTypeOK, HistoryTypeOK, WorkerLabels
  <2>5. CASE ReportResult(w)
    BY <1>a, <2>a, <2>5 DEF ReportResult, AfterAnswer, Work, WorkerTypeOK, HistoryTypeOK, WorkerLabels
  <2>6. QED
    BY <1>2, <2>1, <2>2, <2>3, <2>4, <2>5 DEF WorkerStep
<1>3. CASE UNCHANGED vars
  BY <1>3, <1>a DEF vars, workerVars, histVars, WorkerTypeOK, HistoryTypeOK
<1>4. QED
  BY <1>1, <1>2, <1>3 DEF Next

(* The latch is counted down once by each worker.                           *)
LEMMA LatchTypeNext ==
  ASSUME TypeOK, [Next]_vars
  PROVE  LatchTypeOK'
<1> DEFINE S == {w \in Workers : pc[w] # "done"}
<1>a. /\ pc \in [Workers -> WorkerLabels] /\ shutDownFlag \in BOOLEAN /\ alive \in BOOLEAN
      /\ latch = Cardinality(S)
  BY DEF TypeOK, WorkerTypeOK, LatchTypeOK
<1>b. IsFiniteSet(S)
  BY TaskFacts, FS_Subset
<1>1. ASSUME NEW c \in Callers, CallBegins(c) \/ CallGoesOn(c)
      PROVE  LatchTypeOK'
  <2>1. UNCHANGED <<pc, latch>>
    BY <1>1, CallFrame DEF TypeOK
  <2>2. shutDownFlag' \in BOOLEAN /\ alive' \in BOOLEAN
    BY <1>1, <1>a DEF CallBegins, CallGoesOn, Run, AppendTable, PushTask, SetWaiting, Poll,
           GetData, ShutDown, ShutDownReturns, Destruct, JoinWorkers, poolVars
  <2>3. QED
    BY <1>a, <2>1, <2>2 DEF LatchTypeOK
<1>2. ASSUME NEW w \in Workers, WorkerStep(w)
      PROVE  LatchTypeOK'
  <2>1. UNCHANGED <<shutDownFlag, alive>>
    BY <1>2, WorkerFrame
  <2>2. CASE CountDown(w)
    <3>1. w \in S /\ {v \in Workers : pc'[v] # "done"} = S \ {w}
      BY <1>a, <2>2 DEF CountDown, Work
    <3>2. Cardinality(S \ {w}) = Cardinality(S) - 1
      BY <1>b, <3>1, FS_RemoveElement
    <3>3. latch' = latch - 1
      BY <2>2 DEF CountDown, NextCount
    <3>4. QED
      BY <1>a, <2>1, <3>1, <3>2, <3>3 DEF LatchTypeOK
  <2>3. CASE ~CountDown(w)
    <3>1. latch' = latch
      <4>1. CASE PopTask(w) \/ RunTask(w) \/ ReportResult(w)
        BY <4>1 DEF PopTask, RunTask, ReportResult
      <4>2. CASE CheckShutDown(w) \/ CloseConnection(w) \/ WokenUp(w) \/ PopTimesOut(w)
        BY <4>2 DEF CheckShutDown, CloseConnection, WokenUp, PopTimesOut, WorkerKeeps, poolVars
      <4>3. QED
        BY <1>2, <2>3, <4>1, <4>2 DEF WorkerStep
    <3>2. /\ pc[w] # "done"
          /\ \E label \in WorkerLabels : label # "done" /\ pc' = [pc EXCEPT ![w] = label]
      <4>1. pc[w] # "done" /\ (Work(w, "top") \/ Work(w, "pop") \/ Work(w, "wait") \/ Work(w, "run")
                               \/ Work(w, "report") \/ Work(w, "close") \/ Work(w, "count"))
        <5>1. CASE PopTask(w)
          BY <5>1 DEF PopTask
        <5>2. CASE ~PopTask(w)
          BY <1>2, <2>3, <5>2 DEF WorkerStep, CheckShutDown, CloseConnection, WokenUp,
                 PopTimesOut, RunTask, ReportResult, AfterAnswer
        <5>3. QED
          BY <5>1, <5>2
      <4>2. QED
        BY <4>1 DEF Work, WorkerLabels
    <3>3. {v \in Workers : pc'[v] # "done"} = S
      BY <1>a, <3>2
    <3>4. QED
      BY <1>a, <2>1, <3>1, <3>3 DEF LatchTypeOK
  <2>4. QED
    BY <2>2, <2>3
<1>3. CASE UNCHANGED vars
  BY <1>3, <1>a DEF vars, workerVars, poolVars, LatchTypeOK
<1>4. QED
  BY <1>1, <1>2, <1>3 DEF Next

-----------------------------------------------------------------------------
(* How far the calls have come                                              *)

LEMMA AppendTask ==
  ASSUME NEW s \in Seq(Tasks), NEW t \in Tasks
  PROVE  /\ Append(s, t) \in Seq(Tasks) /\ Append(s, t) # <<>>
         /\ Len(s) \in Nat /\ Len(Append(s, t)) = Len(s) + 1
         /\ \A k \in 1 .. Len(s) : Append(s, t)[k] = s[k] /\ s[k] \in Tasks
         /\ Append(s, t)[Len(s) + 1] = t
<1>1. Append(s, t) \in Seq(Tasks) /\ Append(s, t) # <<>>
  BY SMTT(30)
<1>2. Len(s) \in Nat /\ Len(Append(s, t)) = Len(s) + 1 /\ Append(s, t)[Len(s) + 1] = t
  OBVIOUS
<1>3. \A k \in 1 .. Len(s) : Append(s, t)[k] = s[k] /\ s[k] \in Tasks
  OBVIOUS
<1>4. QED
  BY <1>1, <1>2, <1>3

LEMMA TailTask ==
  ASSUME NEW s \in Seq(Tasks), s # <<>>
  PROVE  /\ Tail(s) \in Seq(Tasks) /\ Len(s) \in Nat /\ Len(s) >= 1
         /\ Len(Tail(s)) = Len(s) - 1
         /\ \A k \in 1 .. Len(s) - 1 : Tail(s)[k] = s[k + 1]
         /\ Len(s) = 1 => Tail(s) = <<>>
         /\ Len(s) # 1 => Tail(s) # <<>>
         /\ Head(s) = s[1] /\ Head(s) \in Tasks /\ 1 \in 1 .. Len(s)
<1>1. Tail(s) \in Seq(Tasks) /\ Len(s) \in Nat /\ Len(s) >= 1
  OBVIOUS
<1>2. Len(Tail(s)) = Len(s) - 1
  OBVIOUS
<1>3. \A k \in 1 .. Len(s) - 1 : Tail(s)[k] = s[k + 1]
  OBVIOUS
<1>4. (Len(s) = 1 => Tail(s) = <<>>) /\ (Len(s) # 1 => Tail(s) # <<>>)
  <2>1. \A r \in Seq(Tasks) : r = <<>> <=> Len(r) = 0
    OBVIOUS
  <2>2. Tail(s) = <<>> <=> Len(s) - 1 = 0
    BY <1>1, <1>2, <2>1
  <2>3. QED
    BY <1>1, <2>2
<1>5. Head(s) = s[1] /\ 1 \in 1 .. Len(s)
  BY <1>1
<1>6. s[1] \in Tasks
  BY <1>1, <1>5
<1>7. QED
  BY <1>1, <1>2, <1>3, <1>4, <1>5, <1>6

LEMMA PendingFacts ==
  ASSUME CallTypeOK, NEW c \in Callers
  PROVE  /\ tasks[c] \in Seq(Tasks) /\ Len(tasks[c]) \in Nat
         /\ \A k \in Pending(c) : /\ tasks[c][k] \in Tasks /\ k \in Nat
                                  /\ tasks[c][k].identity \in Int /\ tasks[c][k].n \in Nat
         /\ tasks[c] = <<>> => Pending(c) = {}
         /\ identity[c] \in Int /\ chunks[c] \in Nat
<1>1. tasks[c] \in Seq(Tasks)
  BY DEF CallTypeOK
<1>2. \A k \in Pending(c) : tasks[c][k] \in Tasks
  BY <1>1 DEF Pending
<1>3. QED
  BY <1>1, <1>2, TaskFacts DEF Pending, CallTypeOK

LEMMA PushedGrows ==
  ASSUME TypeOK, CallShape, UserShape, AppenderShape, [Next]_vars
  PROVE  pushed \in Nat /\ pushed' \in Nat /\ pushed <= pushed'
<1>1. pushed \in Nat
  BY TaskFacts DEF TypeOK, HistoryTypeOK
<1>2. pushed' = pushed \/ pushed' = pushed + 1
  <2>1. ASSUME NEW c \in Callers, CallBegins(c) \/ CallGoesOn(c)
        PROVE  pushed' = pushed \/ pushed' = pushed + 1
    BY <2>1, CallEffects DEF CallStep, UserBegins, AppendBegins, Pushes, Sets, Polls,
           Fetches, StandsAside
  <2>2. ASSUME NEW w \in Workers, WorkerStep(w) PROVE pushed' = pushed
    BY <2>2, WorkerFrame
  <2>3. UNCHANGED vars => pushed' = pushed
    BY DEF vars, histVars
  <2>4. QED
    BY <2>1, <2>2, <2>3 DEF Next
<1>3. QED
  BY <1>1, <1>2

ShapeOf(c) ==
  /\ callPc[c] \in {"idle", "latch", "join"} => tasks[c] = <<>>
  /\ callPc[c] \in {"push", "status"} => chunks[c] > 0
  /\ callPc[c] \in {"status", "poll", "fetch"} => tasks[c] # <<>>

CountsUp(s, n) ==
  \A k \in 1 .. Len(s) : /\ s[k].n <= n
                         /\ \A l \in 1 .. Len(s) : k < l => s[k].n < s[l].n

LEMMA ShapeParts ==
  /\ CallShape <=> \A c \in Callers : ShapeOf(c) /\ CountsUp(tasks[c], pushed)
  /\ CallShape' <=> \A c \in Callers : ShapeOf(c)' /\ CountsUp(tasks'[c], pushed')
BY DEF CallShape, ShapeOf, CountsUp, Pending

LEMMA CountsUpMore ==
  ASSUME NEW s \in Seq(Tasks), NEW n \in Nat, CountsUp(s, n)
  PROVE  /\ \A m \in Nat : n <= m => CountsUp(s, m)
         /\ \A t \in Tasks : t.n = n + 1 => CountsUp(Append(s, t), n + 1)
         /\ s # <<>> => CountsUp(Tail(s), n)
<1>1. \A k \in 1 .. Len(s) : s[k] \in Tasks /\ s[k].n \in Nat /\ s[k].n <= n
  BY TaskFacts DEF CountsUp
<1>2. ASSUME NEW m \in Nat, n <= m PROVE CountsUp(s, m)
  BY <1>1, <1>2 DEF CountsUp
<1>3. ASSUME NEW t \in Tasks, t.n = n + 1 PROVE CountsUp(Append(s, t), n + 1)
  <2> DEFINE r == Append(s, t)
             m == Len(s)
  <2>1. /\ m \in Nat /\ Len(r) = m + 1 /\ r[m + 1] = t
        /\ \A k \in 1 .. m : r[k] = s[k]
    BY AppendTask
  <2> HIDE DEF r, m
  <2>2. ASSUME NEW k \in 1 .. m + 1 PROVE r[k].n <= n + 1
    <3>1. k = m + 1 \/ k \in 1 .. m
      BY <2>1
    <3>2. QED
      BY <1>1, <1>3, <2>1, <3>1 DEF m
  <2>3. ASSUME NEW k \in 1 .. m + 1, NEW l \in 1 .. m + 1, k < l PROVE r[k].n < r[l].n
    <3>1. k \in 1 .. m /\ (l = m + 1 \/ l \in 1 .. m)
      BY <2>1, <2>3
    <3>2. CASE l = m + 1
      BY <1>1, <1>3, <2>1, <3>1, <3>2 DEF m
    <3>3. CASE l \in 1 .. m
      BY <2>1, <2>3, <3>1, <3>3 DEF m, CountsUp
    <3>4. QED
      BY <3>1, <3>2, <3>3
  <2>4. QED
    BY <2>1, <2>2, <2>3 DEF CountsUp, r
<1>4. ASSUME s # <<>> PROVE CountsUp(Tail(s), n)
  <2> DEFINE r == Tail(s)
             m == Len(s)
  <2>1. /\ m \in Nat /\ m >= 1 /\ Len(r) = m - 1 /\ \A k \in 1 .. m - 1 : r[k] = s[k + 1]
    BY <1>4, TailTask
  <2> HIDE DEF r, m
  <2>2. \A k \in 1 .. m - 1 : k + 1 \in 1 .. m
    BY <2>1
  <2>3. \A k, l \in 1 .. m - 1 : k < l => k + 1 < l + 1
    BY <2>1
  <2>4. /\ \A k \in 1 .. m : s[k].n <= n
        /\ \A k, l \in 1 .. m : k < l => s[k].n < s[l].n
    BY DEF CountsUp, m
  <2>5. /\ \A k \in 1 .. m - 1 : r[k].n <= n
        /\ \A k, l \in 1 .. m - 1 : k < l => r[k].n < r[l].n
    BY <2>1, <2>2, <2>3, <2>4
  <2>6. QED
    BY <2>1, <2>5 DEF CountsUp, r
<1>5. QED
  BY <1>2, <1>3, <1>4

LEMMA CallShapeNext ==
  ASSUME TypeOK, CallShape, UserShape, AppenderShape, [Next]_vars
  PROVE  CallShape'
<1>a. CallTypeOK
  BY DEF TypeOK
<1>b. pushed \in Nat /\ pushed' \in Nat /\ pushed <= pushed'
  BY PushedGrows
<1>c. ASSUME NEW d \in Callers, UNCHANGED <<callPc[d], chunks[d], tasks[d]>>
      PROVE  ShapeOf(d)' /\ CountsUp(tasks'[d], pushed')
  <2>1. ShapeOf(d) /\ CountsUp(tasks[d], pushed) /\ tasks[d] \in Seq(Tasks)
    BY <1>a, ShapeParts, PendingFacts
  <2>2. CountsUp(tasks[d], pushed')
    BY <1>b, <2>1, CountsUpMore
  <2>3. QED
    BY <1>c, <2>1, <2>2 DEF ShapeOf
<1>1. ASSUME NEW c \in Callers, CallBegins(c) \/ CallGoesOn(c)
      PROVE  ShapeOf(c)' /\ CountsUp(tasks'[c], pushed')
  <2>1. /\ tasks[c] \in Seq(Tasks) /\ chunks[c] \in Nat
        /\ ShapeOf(c) /\ CountsUp(tasks[c], pushed)
    BY <1>a, ShapeParts, PendingFacts
  <2>2. CASE UserBegins(c) \/ AppendBegins(c)
    BY <1>c, <2>1, <2>2 DEF UserBegins, AppendBegins, ShapeOf
  <2>3. ASSUME NEW t \in Tasks, Pushes(c, t)
        PROVE  ShapeOf(c)' /\ CountsUp(tasks'[c], pushed')
    <3>1. CountsUp(tasks'[c], pushed') /\ tasks'[c] # <<>>
      BY <1>b, <2>1, <2>3, CountsUpMore, AppendTask DEF Pushes
    <3>2. ShapeOf(c)'
      BY <2>1, <2>3, <3>1 DEF Pushes, ShapeOf
    <3>3. QED
      BY <3>1, <3>2
  <2>4. ASSUME NEW t \in Tasks, Sets(c, t)
        PROVE  ShapeOf(c)' /\ CountsUp(tasks'[c], pushed')
    BY <2>1, <2>4 DEF Sets, ShapeOf
  <2>5. CASE Polls(c)
    <3>1. CountsUp(<<>>, pushed)
      BY DEF CountsUp
    <3>2. QED
      BY <2>1, <2>5, <3>1 DEF Polls, ShapeOf
  <2>6. CASE Fetches(c)
    <3>1. tasks[c] # <<>>
      BY <2>1, <2>6 DEF Fetches, ShapeOf
    <3>2. CountsUp(tasks'[c], pushed')
      BY <1>b, <2>1, <2>6, <3>1, CountsUpMore DEF Fetches
    <3>3. ShapeOf(c)'
      BY <2>1, <2>6, <3>1, TailTask DEF Fetches, ShapeOf
    <3>4. QED
      BY <3>2, <3>3
  <2>7. CASE StandsAside(c)
    BY <2>1, <2>7 DEF StandsAside, Aside, ShapeOf
  <2>8. QED
    BY <1>1, <2>2, <2>3, <2>4, <2>5, <2>6, <2>7, CallEffects DEF CallStep
<1>2. ASSUME NEW c \in Callers, CallBegins(c) \/ CallGoesOn(c), NEW d \in Callers
      PROVE  ShapeOf(d)' /\ CountsUp(tasks'[d], pushed')
  BY <1>1, <1>2, <1>a, <1>c, CallFrame
<1>3. ASSUME UNCHANGED <<callPc, chunks, tasks>>, NEW d \in Callers
      PROVE  ShapeOf(d)' /\ CountsUp(tasks'[d], pushed')
  BY <1>3, <1>c
<1>4. ASSUME NEW w \in Workers, WorkerStep(w) PROVE UNCHANGED <<callPc, chunks, tasks>>
  BY <1>4, WorkerFrame
<1>5. UNCHANGED vars => UNCHANGED <<callPc, chunks, tasks>>
  BY DEF vars, callVars
<1>6. QED
  BY <1>2, <1>3, <1>4, <1>5, ShapeParts DEF Next

(* A call holds a task from its push until the result is fetched.           *)
Holds(c, t) == \E k \in Pending(c) : tasks[c][k] = t

LEMMA HoldSteps ==
  ASSUME TypeOK, CallShape, UserShape, AppenderShape, [Next]_vars,
         NEW c \in Callers, NEW t \in Tasks, Holds(c, t)'
  PROVE  Holds(c, t) \/ Pushes(c, t)
<1>a. CallTypeOK
  BY DEF TypeOK
<1>b. tasks[c] \in Seq(Tasks)
  BY <1>a, PendingFacts
<1>1. ASSUME UNCHANGED tasks[c] PROVE Holds(c, t)
  BY <1>1 DEF Holds, Pending
<1>2. ASSUME NEW d \in Callers, CallBegins(d) \/ CallGoesOn(d)
      PROVE  Holds(c, t) \/ Pushes(c, t)
  <2>1. CallStep(d) /\ (c # d => tasks'[c] = tasks[c])
    BY <1>2, <1>a, CallEffects, CallFrame
  <2>2. CASE c # d
    BY <1>1, <2>1, <2>2
  <2>3. ASSUME NEW u \in Tasks, Pushes(c, u) PROVE Holds(c, t) \/ t = u
    <3>1. tasks'[c] = Append(tasks[c], u)
      BY <2>3 DEF Pushes
    <3>2. /\ Len(tasks[c]) \in Nat /\ Len(tasks'[c]) = Len(tasks[c]) + 1
          /\ \A k \in 1 .. Len(tasks[c]) : tasks'[c][k] = tasks[c][k]
          /\ tasks'[c][Len(tasks[c]) + 1] = u
      BY <1>b, <3>1, AppendTask
    <3>3. PICK k \in 1 .. Len(tasks'[c]) : tasks'[c][k] = t
      BY DEF Holds, Pending
    <3>4. k \in 1 .. Len(tasks[c]) \/ k = Len(tasks[c]) + 1
      BY <3>2, <3>3
    <3>5. QED
      BY <3>2, <3>3, <3>4 DEF Holds, Pending
  <2>4. CASE Fetches(c)
    <3>1. tasks[c] # <<>> /\ tasks'[c] = Tail(tasks[c])
      BY <2>4 DEF Fetches, CallShape
    <3>2. /\ Len(tasks[c]) \in Nat /\ Len(tasks'[c]) = Len(tasks[c]) - 1
          /\ \A k \in 1 .. Len(tasks[c]) - 1 : tasks'[c][k] = tasks[c][k + 1]
      BY <1>b, <3>1, TailTask
    <3>3. PICK k \in 1 .. Len(tasks'[c]) : tasks'[c][k] = t
      BY DEF Holds, Pending
    <3>4. k + 1 \in 1 .. Len(tasks[c]) /\ tasks[c][k + 1] = t
      BY <3>2, <3>3
    <3>5. QED
      BY <3>4 DEF Holds, Pending
  <2>5. CASE Polls(c)
    <3>1. tasks'[c] # <<>>
      BY DEF Holds, Pending
    <3>2. tasks'[c] = tasks[c]
      BY <2>5, <3>1 DEF Polls
    <3>3. QED
      BY <1>1, <3>2
  <2>6. CASE UserBegins(c) \/ AppendBegins(c) \/ (\E u \in Tasks : Sets(c, u)) \/ StandsAside(c)
    BY <1>1, <2>6 DEF UserBegins, AppendBegins, Sets, StandsAside
  <2>7. QED
    BY <2>1, <2>2, <2>3, <2>4, <2>5, <2>6 DEF CallStep
<1>3. ASSUME NEW w \in Workers, WorkerStep(w) PROVE tasks' = tasks
  BY <1>3, WorkerFrame
<1>4. UNCHANGED vars => tasks' = tasks
  BY DEF vars, callVars
<1>5. QED
  BY <1>1, <1>2, <1>3, <1>4 DEF Next

LEMMA UserShapeNext ==
  ASSUME TypeOK, CallShape, UserShape, AppenderShape, [Next]_vars
  PROVE  UserShape'
<1> DEFINE Own(c) ==
      /\ callPc'[c] \in Calling => identity'[c] \in UserIds
      /\ callPc'[c] \in {"push", "status"} => chunks'[c] = 1
      /\ callPc'[c] = "push" => tasks'[c] = <<>>
      /\ \A k \in 1 .. Len(tasks'[c]) : k = 1 /\ tasks'[c][k].identity = identity'[c]
<1> DEFINE Alone(c) ==
      \A u \in Users : callPc'[c] \in Calling /\ callPc'[u] \in Calling
                       /\ identity'[c] = identity'[u] => u = c
<1>a. CallTypeOK
  BY DEF TypeOK
<1>b. Users \subseteq Callers /\ Users \cap Appenders = {}
  BY PoolAssumption DEF Callers
<1>c. ASSUME NEW d \in Users, UNCHANGED <<callPc[d], identity[d], chunks[d], tasks[d]>>
      PROVE  Own(d)
  BY <1>c DEF UserShape, Calling, Pending
<1>1. ASSUME NEW c \in Users, CallBegins(c) \/ CallGoesOn(c)
      PROVE  Own(c) /\ Alone(c) /\ (\A u \in Users : u # c => Alone(u))
  <2>1. /\ c \in Callers /\ c \notin Appenders
        /\ tasks[c] \in Seq(Tasks) /\ Len(tasks[c]) \in Nat /\ chunks[c] \in Nat
        /\ callPc[c] \in Calling => identity[c] \in UserIds
        /\ callPc[c] \in {"push", "status"} => chunks[c] = 1
        /\ callPc[c] = "push" => tasks[c] = <<>>
        /\ \A k \in 1 .. Len(tasks[c]) : k = 1 /\ tasks[c][k].identity = identity[c]
        /\ callPc[c] \in Aside => tasks[c] = <<>>
    BY <1>a, <1>b, PendingFacts DEF UserShape, Calling, Pending, CallShape, Aside
  <2>2. CallStep(c)
    BY <1>1, <2>1, CallEffects
  <2>3. ~AppendBegins(c)
    BY <2>1 DEF AppendBegins
  <2>4. Own(c)
    <3>1. CASE UserBegins(c)
      BY <2>1, <3>1 DEF UserBegins, Aside
    <3>2. ASSUME NEW t \in Tasks, Pushes(c, t) PROVE Own(c)
      <4>1. tasks[c] = <<>> /\ tasks'[c] = Append(tasks[c], t) /\ t.identity = identity[c]
        BY <2>1, <3>2 DEF Pushes
      <4>2. Len(tasks'[c]) = 1 /\ tasks'[c][1] = t
        BY <4>1
      <4>3. QED
        BY <2>1, <3>2, <4>1, <4>2 DEF Pushes, Calling
    <3>3. ASSUME NEW t \in Tasks, Sets(c, t) PROVE Own(c)
      BY <2>1, <3>3 DEF Sets, Calling
    <3>4. CASE Polls(c)
      <4>1. Len(<<>>) = 0
        OBVIOUS
      <4>2. QED
        BY <2>1, <3>4, <4>1 DEF Polls, Calling
    <3>5. CASE Fetches(c)
      <4>1. tasks[c] # <<>>
        BY <2>1, <3>5 DEF Fetches, CallShape
      <4>2. Len(tasks[c]) = 1
        <5>1. Len(tasks[c]) >= 1 /\ Len(tasks[c]) \in 1 .. Len(tasks[c])
          BY <2>1, <4>1, TailTask
        <5>2. QED
          BY <2>1, <5>1
      <4>3. tasks'[c] = <<>> /\ callPc'[c] = "idle" /\ Len(<<>>) = 0
        BY <2>1, <3>5, <4>1, <4>2, TailTask DEF Fetches
      <4>4. QED
        BY <4>3 DEF Calling
    <3>6. CASE StandsAside(c)
      BY <2>1, <3>6 DEF StandsAside, Aside, Calling
    <3>7. QED
      BY <2>2, <2>3, <3>1, <3>2, <3>3, <3>4, <3>5, <3>6 DEF CallStep
  <2>5. ASSUME NEW u \in Users, u # c
        PROVE  callPc'[u] = callPc[u] /\ identity'[u] = identity[u]
    BY <1>1, <1>a, <1>b, <2>1, <2>5, CallFrame
  <2>6. ASSUME NEW u \in Users, u # c, callPc'[c] \in Calling, callPc'[u] \in Calling
        PROVE  identity'[c] # identity'[u]
    <3>1. CASE UserBegins(c)
      BY <2>5, <2>6, <3>1 DEF UserBegins, Calling
    <3>2. CASE ~UserBegins(c)
      <4>1. callPc[c] \in Calling /\ identity'[c] = identity[c]
        BY <2>1, <2>2, <2>3, <2>6, <3>2 DEF CallStep, Pushes, Sets, Polls, Fetches, StandsAside,
               Calling, Aside
      <4>2. QED
        BY <2>5, <2>6, <4>1 DEF UserShape, Calling
    <3>3. QED
      BY <3>1, <3>2
  <2>7. Alone(c)
    BY <2>6
  <2>8. ASSUME NEW u \in Users, u # c PROVE Alone(u)
    BY <2>5, <2>6, <2>8 DEF UserShape, Calling
  <2>9. QED
    BY <2>4, <2>7, <2>8
<1>2. ASSUME NEW c \in Callers, CallBegins(c) \/ CallGoesOn(c), NEW u \in Users
      PROVE  Own(u) /\ Alone(u)
  <2>1. CASE c \in Users
    BY <1>1, <1>2, <1>a, <1>b, <1>c, <2>1, CallFrame
  <2>2. CASE c \notin Users
    <3>1. ASSUME NEW v \in Users
          PROVE  UNCHANGED <<callPc[v], identity[v], chunks[v], tasks[v]>>
      BY <1>2, <1>a, <1>b, <2>2, <3>1, CallFrame
    <3>2. QED
      BY <1>c, <3>1 DEF UserShape, Calling
  <2>3. QED
    BY <2>1, <2>2
<1>3. ASSUME UNCHANGED <<callPc, identity, chunks, tasks>>, NEW u \in Users
      PROVE  Own(u) /\ Alone(u)
  BY <1>3, <1>c DEF UserShape, Calling
<1>4. ASSUME NEW w \in Workers, WorkerStep(w) PROVE UNCHANGED <<callPc, identity, chunks, tasks>>
  BY <1>4, WorkerFrame
<1>5. UNCHANGED vars => UNCHANGED <<callPc, identity, chunks, tasks>>
  BY DEF vars, callVars
<1>6. \A u \in Users : Own(u) /\ Alone(u)
  BY <1>2, <1>3, <1>4, <1>5 DEF Next
<1>7. QED
  BY <1>6 DEF UserShape, Calling, Pending

LEMMA AppenderShapeNext ==
  ASSUME TypeOK, CallShape, UserShape, AppenderShape, [Next]_vars
  PROVE  AppenderShape'
<1> DEFINE Own(c) ==
      /\ identity'[c] <= -2
      /\ -identity'[c] - 1 - StatusDue(c)' <= pushed'
      /\ \A k \in 1 .. Len(tasks'[c]) :
           tasks'[c][k].identity = identity'[c] + Len(tasks'[c]) - k + StatusDue(c)'
<1>a. CallTypeOK /\ Appenders \subseteq Callers /\ Users \cap Appenders = {}
  BY PoolAssumption DEF TypeOK, Callers
<1>b. pushed \in Nat /\ pushed' \in Nat /\ pushed <= pushed'
  BY PushedGrows
<1>c. ASSUME NEW d \in Appenders, UNCHANGED <<callPc[d], identity[d], tasks[d]>>
      PROVE  Own(d)
  <2>1. StatusDue(d)' = StatusDue(d) /\ StatusDue(d) \in {0, 1} /\ identity[d] \in Int
    BY <1>a, <1>c, PendingFacts DEF StatusDue
  <2>2. -identity[d] - 1 - StatusDue(d) <= pushed
    BY DEF AppenderShape
  <2>3. -identity[d] - 1 - StatusDue(d) <= pushed'
    BY <1>b, <2>1, <2>2
  <2>4. QED
    BY <1>c, <2>1, <2>3 DEF AppenderShape, Pending
<1>1. ASSUME NEW c \in Appenders, CallBegins(c) \/ CallGoesOn(c)
      PROVE  Own(c)
  <2> DEFINE i == identity[c]
             m == Len(tasks[c])
  <2>1. /\ c \in Callers /\ c \notin Users /\ tasks[c] \in Seq(Tasks) /\ m \in Nat /\ i \in Int
        /\ i <= -2
        /\ -i - 1 - StatusDue(c) <= pushed
        /\ \A k \in 1 .. m : tasks[c][k].identity = i + m - k + StatusDue(c)
        /\ callPc[c] \in Aside => tasks[c] = <<>>
    BY <1>a, PendingFacts DEF AppenderShape, Pending, CallShape, Aside
  <2>2. CallStep(c) /\ ~UserBegins(c)
    BY <1>1, <2>1, CallEffects DEF UserBegins
  <2>3. CASE AppendBegins(c) \/ StandsAside(c)
    <3>1. StatusDue(c) = 1 /\ StatusDue(c)' = 1
      BY <2>3 DEF AppendBegins, StandsAside, StatusDue, Aside
    <3>2. identity'[c] = i /\ tasks'[c] = tasks[c] /\ pushed' = pushed
      BY <2>3 DEF AppendBegins, StandsAside
    <3> HIDE DEF i
    <3>3. \A k \in 1 .. Len(tasks'[c]) :
            tasks'[c][k].identity = i + Len(tasks'[c]) - k + StatusDue(c)'
      BY <2>1, <3>1, <3>2
    <3>4. i <= -2 /\ -i - 1 - StatusDue(c)' <= pushed'
      BY <2>1, <3>1, <3>2
    <3>5. QED
      BY <3>2, <3>3, <3>4
  <2>4. ASSUME NEW t \in Tasks, Pushes(c, t) PROVE Own(c)
    <3>1. /\ StatusDue(c) = 1 /\ StatusDue(c)' = 0 /\ identity'[c] = i /\ t.identity = i
          /\ tasks'[c] = Append(tasks[c], t) /\ pushed' = pushed + 1
      BY <2>4 DEF Pushes, StatusDue
    <3>2. /\ Len(tasks'[c]) = m + 1 /\ tasks'[c][m + 1] = t
          /\ \A k \in 1 .. m : tasks'[c][k] = tasks[c][k]
      BY <2>1, <3>1, AppendTask
    <3> HIDE DEF i, m
    <3>3. ASSUME NEW k \in 1 .. m + 1
          PROVE  tasks'[c][k].identity = i + (m + 1) - k + 0
      <4>1. CASE k = m + 1
        BY <2>1, <3>1, <3>2, <4>1
      <4>2. CASE k # m + 1
        <5>1. k \in 1 .. m
          BY <2>1, <4>2
        <5>2. tasks'[c][k].identity = i + m - k + 1
          BY <2>1, <3>1, <3>2, <5>1
        <5>3. QED
          BY <2>1, <5>1, <5>2
      <4>3. QED
        BY <4>1, <4>2
    <3>4. -i - 1 - 0 <= pushed + 1
      BY <1>b, <2>1, <3>1
    <3>5. QED
      BY <2>1, <3>1, <3>2, <3>3, <3>4
  <2>5. ASSUME NEW t \in Tasks, Sets(c, t) PROVE Own(c)
    <3>1. /\ StatusDue(c) = 0 /\ StatusDue(c)' = 1 /\ identity'[c] = i - 1
          /\ tasks'[c] = tasks[c] /\ pushed' = pushed
      BY <2>5 DEF Sets, StatusDue
    <3> HIDE DEF i
    <3>2. i - 1 <= -2 /\ -(i - 1) - 1 - 1 <= pushed
      BY <1>b, <2>1, <3>1
    <3>3. \A k \in 1 .. Len(tasks[c]) : (i - 1) + Len(tasks[c]) - k + 1 = i + Len(tasks[c]) - k + 0
      BY <2>1
    <3>4. QED
      BY <2>1, <3>1, <3>2, <3>3
  <2>6. CASE Polls(c)
    <3>1. StatusDue(c) = 1 /\ StatusDue(c)' = 1 /\ identity'[c] = i /\ pushed' = pushed
      BY <2>6 DEF Polls, StatusDue
    <3>2. tasks'[c] = tasks[c] \/ (tasks'[c] = <<>> /\ Len(<<>>) = 0)
      BY <2>6 DEF Polls
    <3> HIDE DEF i
    <3>3. \A k \in 1 .. Len(tasks'[c]) :
            tasks'[c][k].identity = i + Len(tasks'[c]) - k + StatusDue(c)'
      <4>1. CASE tasks'[c] = tasks[c]
        BY <2>1, <3>1, <4>1
      <4>2. CASE tasks'[c] = <<>> /\ Len(<<>>) = 0
        BY <4>2
      <4>3. QED
        BY <3>2, <4>1, <4>2
    <3>4. i <= -2 /\ -i - 1 - StatusDue(c)' <= pushed'
      BY <2>1, <3>1
    <3>5. QED
      BY <3>1, <3>3, <3>4
  <2>7. CASE Fetches(c)
    <3>1. /\ StatusDue(c) = 1 /\ StatusDue(c)' = 1 /\ identity'[c] = i /\ pushed' = pushed
          /\ tasks'[c] = Tail(tasks[c])
      BY <2>7 DEF Fetches, StatusDue
    <3>2. tasks[c] # <<>>
      BY <2>1, <2>7 DEF Fetches, CallShape
    <3>3. /\ m >= 1 /\ Len(tasks'[c]) = m - 1
          /\ \A k \in 1 .. m - 1 : tasks'[c][k] = tasks[c][k + 1]
      BY <2>1, <3>1, <3>2, TailTask
    <3> HIDE DEF i, m
    <3>4. ASSUME NEW k \in 1 .. m - 1
          PROVE  tasks'[c][k].identity = i + (m - 1) - k + 1
      <4>1. k + 1 \in 1 .. m
        BY <2>1
      <4>2. tasks'[c][k].identity = i + m - (k + 1) + 1
        BY <2>1, <3>1, <3>3, <4>1
      <4>3. QED
        BY <2>1, <4>2
    <3>5. QED
      BY <2>1, <3>1, <3>3, <3>4
  <2>8. QED
    BY <2>2, <2>3, <2>4, <2>5, <2>6, <2>7 DEF CallStep
<1>2. ASSUME NEW c \in Callers, CallBegins(c) \/ CallGoesOn(c), NEW d \in Appenders
      PROVE  Own(d)
  BY <1>1, <1>2, <1>a, <1>c, CallFrame
<1>3. ASSUME UNCHANGED <<callPc, identity, tasks>>, NEW d \in Appenders PROVE Own(d)
  BY <1>3, <1>c
<1>4. ASSUME NEW w \in Workers, WorkerStep(w) PROVE UNCHANGED <<callPc, identity, tasks>>
  BY <1>4, WorkerFrame
<1>5. UNCHANGED vars => UNCHANGED <<callPc, identity, tasks>>
  BY DEF vars, callVars
<1>6. \A d \in Appenders : Own(d)
  BY <1>2, <1>3, <1>4, <1>5 DEF Next
<1>7. ASSUME NEW d \in Appenders, NEW k \in Pending(d)'
      PROVE  tasks'[d][k].identity <= -2
  <2>1. PICK t \in Tasks : t = tasks'[d][k] /\ Holds(d, t)'
    <3>1. CallTypeOK'
      BY CallTypeNext
    <3>2. tasks'[d][k] \in Tasks
      BY <1>a, <3>1 DEF CallTypeOK, Pending
    <3>3. QED
      BY <3>2 DEF Holds
  <2>2. CASE Holds(d, t)
    BY <2>1, <2>2 DEF Holds, AppenderShape
  <2>3. CASE Pushes(d, t)
    BY <2>1, <2>3 DEF Pushes, AppenderShape
  <2>4. QED
    BY <1>a, <2>1, <2>2, <2>3, HoldSteps
<1>8. QED
  BY <1>6, <1>7 DEF AppenderShape, Pending

-----------------------------------------------------------------------------
(* Tasks are taken once and in order                                        *)

LEMMA QueueFacts ==
  ASSUME TypeOK
  PROVE  /\ pushed \in Nat /\ Len(started) \in Nat /\ Len(queue) \in Nat /\ Left \in Int
         /\ Left = pushed - Len(started)
         /\ \A i \in 1 .. Len(queue) : queue[i] \in Tasks \cup {EmptyTask}
         /\ \A w \in Workers : pc[w] \in WorkerLabels
BY TaskFacts DEF TypeOK, QueueTypeOK, HistoryTypeOK, WorkerTypeOK, Left

(* Queues whose tasks count up from one number, before the empty tasks.     *)
CountsFrom(s, n, left) ==
  /\ left \in 0 .. Len(s)
  /\ \A i \in 1 .. Len(s) : IF i <= left THEN s[i].n = n + i ELSE s[i] = EmptyTask

LEMMA CountsFromMore ==
  ASSUME NEW s \in Seq(Tasks \cup {EmptyTask}), NEW n \in Nat, NEW left \in Nat,
         CountsFrom(s, n, left)
  PROVE  /\ \A t \in Tasks : left = Len(s) /\ t.n = n + left + 1 =>
              CountsFrom(Append(s, t), n, left + 1)
         /\ \A k \in Nat : CountsFrom(s \o [i \in 1 .. k |-> EmptyTask], n, left)
         /\ s # <<>> /\ left > 0 => CountsFrom(Tail(s), n + 1, left - 1)
         /\ s # <<>> /\ left = 0 => CountsFrom(Tail(s), n, 0)
<1> DEFINE m == Len(s)
<1>1. m \in Nat /\ left \in 0 .. m
  BY DEF CountsFrom
<1>2. \A i \in 1 .. m : IF i <= left THEN s[i].n = n + i ELSE s[i] = EmptyTask
  BY DEF CountsFrom
<1>3. ASSUME NEW t \in Tasks, left = m, t.n = n + left + 1
      PROVE  CountsFrom(Append(s, t), n, left + 1)
  <2> DEFINE r == Append(s, t)
  <2>1. Len(r) = m + 1 /\ r[m + 1] = t /\ \A i \in 1 .. m : r[i] = s[i]
    OBVIOUS
  <2> HIDE DEF r, m
  <2>2. ASSUME NEW i \in 1 .. m + 1 PROVE i <= left + 1 /\ r[i].n = n + i
    <3>1. i = m + 1 \/ i \in 1 .. m
      BY <1>1
    <3>2. QED
      BY SMTT(30), <1>1, <1>2, <1>3, <2>1, <3>1
  <2>3. left + 1 \in 0 .. m + 1
    BY <1>1
  <2>4. QED
    BY <2>1, <2>2, <2>3 DEF CountsFrom, r
<1>4. ASSUME NEW k \in Nat
      PROVE  CountsFrom(s \o [i \in 1 .. k |-> EmptyTask], n, left)
  <2> DEFINE e == [i \in 1 .. k |-> EmptyTask]
             r == s \o e
  <2>1. e \in Seq({EmptyTask}) /\ Len(e) = k /\ \A i \in 1 .. k : e[i] = EmptyTask
    OBVIOUS
  <2> HIDE DEF e
  <2>2. /\ Len(r) = m + k /\ \A i \in 1 .. m : r[i] = s[i]
        /\ \A i \in m + 1 .. m + k : r[i] = e[i - m]
    BY <2>1
  <2> HIDE DEF r, m
  <2>3. ASSUME NEW i \in 1 .. m + k
        PROVE  IF i <= left THEN r[i].n = n + i ELSE r[i] = EmptyTask
    <3>1. CASE i \in 1 .. m
      BY <1>2, <2>2, <3>1
    <3>2. CASE i \notin 1 .. m
      <4>1. i \in m + 1 .. m + k /\ i - m \in 1 .. k /\ ~(i <= left)
        BY <1>1, <3>2
      <4>2. QED
        BY <2>1, <2>2, <4>1
    <3>3. QED
      BY <3>1, <3>2
  <2>4. left \in 0 .. m + k
    BY <1>1
  <2>5. QED
    BY <2>2, <2>3, <2>4 DEF CountsFrom, r, e
<1>5. ASSUME s # <<>>
      PROVE  /\ left > 0 => CountsFrom(Tail(s), n + 1, left - 1)
             /\ left = 0 => CountsFrom(Tail(s), n, 0)
  <2> DEFINE r == Tail(s)
  <2>1. m >= 1 /\ Len(r) = m - 1
    BY <1>5
  <2>2. \A i \in 1 .. m - 1 : r[i] = s[i + 1]
    BY <1>5
  <2> HIDE DEF r, m
  <2>3. ASSUME NEW i \in 1 .. m - 1
        PROVE  IF i + 1 <= left THEN r[i].n = n + 1 + i ELSE r[i] = EmptyTask
    <3>1. i + 1 \in 1 .. m
      BY <1>1
    <3>2. IF i + 1 <= left THEN s[i + 1].n = n + (i + 1) ELSE s[i + 1] = EmptyTask
      BY <1>2, <3>1
    <3>3. QED
      BY <2>2, <3>2
  <2>4. ASSUME left > 0 PROVE CountsFrom(r, n + 1, left - 1)
    <3>1. left - 1 \in 0 .. m - 1
      BY <1>1, <2>1, <2>4
    <3>2. \A i \in 1 .. m - 1 : IF i <= left - 1 THEN r[i].n = (n + 1) + i ELSE r[i] = EmptyTask
      BY <1>1, <2>3
    <3>3. QED
      BY <2>1, <3>1, <3>2 DEF CountsFrom
  <2>5. ASSUME left = 0 PROVE CountsFrom(r, n, 0)
    <3>1. 0 \in 0 .. m - 1
      BY <1>1, <2>1
    <3>2. \A i \in 1 .. m - 1 : ~(i <= 0) /\ r[i] = EmptyTask
      BY <1>1, <2>3, <2>5
    <3>3. QED
      BY <2>1, <3>1, <3>2 DEF CountsFrom
  <2>6. QED
    BY <2>4, <2>5 DEF r
<1>6. QED
  BY <1>3, <1>4, <1>5

LEMMA OrderParts ==
  /\ TakenInOrder <=> /\ \A i \in 1 .. Len(started) : started[i] = i
                      /\ CountsFrom(queue, Len(started), Left)
  /\ TakenInOrder' <=> /\ \A i \in 1 .. Len(started') : started'[i] = i
                       /\ CountsFrom(queue', Len(started'), Left')
BY DEF TakenInOrder, CountsFrom

LEMMA TakenInOrderNext ==
  ASSUME TypeOK, TakenOnce, CallShape, UserShape, AppenderShape, [Next]_vars
  PROVE  TakenInOrder' /\ (Len(queue') > Left' => ~alive')
<1>1. /\ queue \in Seq(Tasks \cup {EmptyTask}) /\ pushed \in Nat /\ started \in Seq(1 .. MaxTasks)
      /\ MaxTasks \in Nat
  BY QueueFacts, TaskFacts DEF TypeOK, QueueTypeOK, HistoryTypeOK
<1>2. /\ Len(started) \in Nat /\ Len(queue) \in Nat /\ Left = pushed - Len(started)
      /\ Left' = pushed' - Len(started')
  BY QueueFacts DEF Left
<1>3. /\ \A i \in 1 .. Len(started) : started[i] = i
      /\ CountsFrom(queue, Len(started), Left)
      /\ Len(queue) > Left => ~alive
  BY OrderParts DEF TakenOnce
<1>4. Left \in Nat /\ Left <= Len(queue)
  BY <1>2, <1>3 DEF CountsFrom
<1>5. ASSUME UNCHANGED <<queue, pushed, started>>, alive' => alive
      PROVE  TakenInOrder' /\ (Len(queue') > Left' => ~alive')
  BY <1>2, <1>3, <1>5, OrderParts
<1>6. ASSUME NEW c \in Callers, CallBegins(c) \/ CallGoesOn(c)
      PROVE  TakenInOrder' /\ (Len(queue') > Left' => ~alive')
  <2>1. CallStep(c) /\ started' = started
    BY <1>6, CallEffects, CallFrame DEF TypeOK
  <2>2. ASSUME NEW t \in Tasks, Pushes(c, t)
        PROVE  TakenInOrder' /\ (Len(queue') > Left' => ~alive')
    <3>1. alive
      BY <2>2 DEF TakenOnce, Pushes
    <3>2. Left = Len(queue) /\ t.n = Len(started) + Left + 1 /\ Left' = Left + 1
      <4>1. t.n = pushed + 1 /\ pushed' = pushed + 1
        BY <2>2 DEF Pushes
      <4>2. QED
        BY SMTT(30), <1>1, <1>2, <1>3, <1>4, <2>1, <3>1, <4>1
    <3>3. queue' = Append(queue, t) /\ Len(queue') = Len(queue) + 1
      BY <1>1, <2>2 DEF Pushes
    <3>4. CountsFrom(queue', Len(started'), Left')
      BY <1>1, <1>2, <1>3, <1>4, <2>1, <3>2, <3>3, CountsFromMore
    <3>5. QED
      BY <1>2, <1>3, <2>1, <3>2, <3>3, <3>4, OrderParts
  <2>3. CASE StandsAside(c)
    <3>1. pushed' = pushed /\ (alive' => alive)
      BY <2>3 DEF StandsAside
    <3>2. CASE queue' = queue
      BY <1>5, <2>1, <3>1, <3>2
    <3>3. CASE queue' # queue
      <4>1. ~alive /\ queue' = queue \o [i \in 1 .. Cardinality(Workers) |-> EmptyTask]
        BY <2>3, <3>3 DEF StandsAside
      <4>2. Cardinality(Workers) \in Nat
        BY TaskFacts, FS_CardinalityType
      <4>3. CountsFrom(queue', Len(started'), Left')
        BY <1>1, <1>2, <1>3, <1>4, <2>1, <3>1, <4>1, <4>2, CountsFromMore
      <4>4. QED
        BY <1>3, <2>1, <3>1, <4>1, <4>3, OrderParts
    <3>4. QED
      BY <3>2, <3>3
  <2>4. CASE ~StandsAside(c) /\ ~(\E t \in Tasks : Pushes(c, t))
    <3>1. UNCHANGED <<queue, pushed, alive>>
      BY <2>1, <2>4 DEF CallStep, UserBegins, AppendBegins, Sets, Polls, Fetches
    <3>2. QED
      BY <1>5, <2>1, <3>1
  <2>5. QED
    BY <2>2, <2>3, <2>4
<1>7. ASSUME NEW w \in Workers, WorkerStep(w)
      PROVE  TakenInOrder' /\ (Len(queue') > Left' => ~alive')
  <2>1. pushed' = pushed /\ alive' = alive
    BY <1>7, WorkerFrame
  <2>2. CASE PopTask(w) /\ queue # <<>>
    <3>1. queue' = Tail(queue) /\ Len(queue') = Len(queue) - 1 /\ Head(queue) = queue[1]
          /\ 1 \in 1 .. Len(queue)
      BY <1>1, <2>2 DEF PopTask, QueuePopped
    <3>2. CASE Left > 0
      <4>1. Head(queue).n = Len(started) + 1
        BY <1>2, <1>3, <1>4, <3>1, <3>2 DEF CountsFrom
      <4>2. started' = Append(started, Head(queue).n)
        BY <1>2, <2>2, <4>1 DEF PopTask, EmptyTask
      <4>3. /\ Len(started') = Len(started) + 1
            /\ started'[Len(started) + 1] = Len(started) + 1
            /\ \A i \in 1 .. Len(started) : started'[i] = started[i]
        <5>1. Head(queue).n \in Nat
          BY <1>2, <4>1
        <5>2. started \in Seq(Nat)
          BY <1>1
        <5>3. QED
          BY <4>1, <4>2, <5>1, <5>2
      <4>4. \A i \in 1 .. Len(started') : started'[i] = i
        BY <1>2, <1>3, <4>3
      <4>5. Left' = Left - 1
        BY <1>1, <1>2, <2>1, <4>3
      <4>6. CountsFrom(queue', Len(started'), Left')
        <5>1. queue \in Seq(Tasks \cup {EmptyTask}) /\ Len(started) \in Nat /\ Left \in Nat
          BY <1>1, <1>2, <1>4
        <5>2. CountsFrom(queue, Len(started), Left) /\ queue # <<>> /\ Left > 0
          BY <1>3, <2>2, <3>2
        <5>3. CountsFrom(Tail(queue), Len(started) + 1, Left - 1)
          BY <5>1, <5>2, CountsFromMore
        <5>4. QED
          BY <3>1, <4>3, <4>5, <5>3
      <4>7. QED
        BY <1>2, <1>3, <1>4, <2>1, <3>1, <4>4, <4>5, <4>6, OrderParts
    <3>3. CASE Left = 0
      <4>1. Head(queue) = EmptyTask
        BY <1>2, <1>3, <3>1, <3>3 DEF CountsFrom
      <4>2. started' = started
        BY <2>2, <4>1 DEF PopTask
      <4>3. Left' = 0
        BY <1>2, <2>1, <3>3, <4>2
      <4>4. CountsFrom(queue', Len(started'), Left')
        BY <1>1, <1>2, <1>3, <1>4, <2>2, <3>1, <3>3, <4>2, <4>3, CountsFromMore
      <4>5. Len(queue) > Left
        BY <1>1, <2>2, <3>3
      <4>6. QED
        BY <1>3, <2>1, <4>2, <4>4, <4>5, OrderParts
    <3>4. QED
      BY <1>4, <3>2, <3>3
  <2>3. CASE ~(PopTask(w) /\ queue # <<>>)
    <3>1. queue' = queue /\ started' = started
      BY <1>7, <2>3 DEF WorkerStep, CheckShutDown, CloseConnection, CountDown, PopTask, WokenUp,
             PopTimesOut, RunTask, ReportResult, histVars
    <3>2. QED
      BY <1>5, <2>1, <3>1
  <2>4. QED
    BY <2>2, <2>3
<1>8. CASE UNCHANGED vars
  BY <1>5, <1>8 DEF vars, poolVars, histVars
<1>9. QED
  BY <1>6, <1>7, <1>8 DEF Next

LEMMA DestructAlone ==
  ASSUME TypeOK, TakenOnce, CallShape, UserShape, AppenderShape, [Next]_vars, ~alive',
         NEW c \in Callers
  PROVE  callPc'[c] \in Aside
<1>1. ~alive => callPc[c] \in Aside
  BY DEF TakenOnce, Aside
<1>2. ASSUME UNCHANGED <<callPc, alive>> PROVE callPc'[c] \in Aside
  BY <1>1, <1>2
<1>3. ASSUME NEW d \in Callers, CallBegins(d) \/ CallGoesOn(d)
      PROVE  callPc'[c] \in Aside
  <2>1. CallStep(d) /\ (c # d => callPc'[c] = callPc[c])
    BY <1>3, CallEffects, CallFrame DEF TypeOK
  <2>2. CASE StandsAside(d)
    <3>1. callPc[c] \in Aside
      BY <1>1, <2>2 DEF StandsAside, Aside
    <3>2. QED
      BY <2>1, <2>2, <3>1 DEF StandsAside
  <2>3. CASE ~StandsAside(d)
    <3>1. ~alive /\ (alive \/ callPc[d] \in Calling)
      BY <2>1, <2>3 DEF CallStep, UserBegins, AppendBegins, Pushes, Sets, Polls, Fetches, Calling
    <3>2. callPc[d] \in Aside
      BY <3>1 DEF TakenOnce, Aside
    <3>3. QED
      BY <3>1, <3>2 DEF Aside, Calling
  <2>4. QED
    BY <2>2, <2>3
<1>4. ASSUME NEW w \in Workers, WorkerStep(w) PROVE UNCHANGED <<callPc, alive>>
  BY <1>4, WorkerFrame
<1>5. UNCHANGED vars => UNCHANGED <<callPc, alive>>
  BY DEF vars, callVars, poolVars
<1>6. QED
  BY <1>2, <1>3, <1>4, <1>5 DEF Next

(* What a worker does to the task it runs.                                  *)
WorkerTask(w) ==
  /\ Running(w) => task[w] \in Tasks /\ task[w].n \in 1 .. Len(started)
  /\ pc[w] = "report" => answer[w] \in Answers /\ answer[w] = outcome[task[w].n]

TasksApart ==
  \A v, w \in Workers : Running(w) /\ Running(v) /\ task[w].n = task[v].n => v = w

Takes(w, t) ==
  /\ ~Running(w) /\ queue # <<>> /\ t = Head(queue) /\ queue' = Tail(queue)
  /\ started' = Append(started, t.n) /\ UNCHANGED <<outcome, results>>
  /\ \/ pc'[w] = "run" /\ task'[w] = t /\ answer'[w] = answer[w]
     \/ pc'[w] = "top" /\ t.empty

Runs(w) ==
  /\ pc[w] = "run" /\ pc'[w] = "report" /\ task'[w] = task[w] /\ answer'[w] \in Answers
  /\ outcome' = [outcome EXCEPT ![task[w].n] = answer'[w]]
  /\ UNCHANGED <<queue, started, results>>

Reports(w) ==
  /\ pc[w] = "report" /\ pc'[w] = "top"
  /\ results' = [results EXCEPT ![task[w].identity] =
       [stage |-> IF answer[w] = "error" THEN "errored" ELSE "finished",
        answer |-> answer[w], n |-> task[w].n]]
  /\ UNCHANGED <<queue, started, outcome>>

Rests(w) ==
  /\ ~Running(w) /\ pc'[w] \notin {"run", "report"}
  /\ UNCHANGED <<started, outcome, results>>
  /\ \/ queue' = queue
     \/ queue # <<>> /\ Head(queue) = EmptyTask /\ queue' = Tail(queue)

LEMMA WorkerEffects ==
  ASSUME TypeOK, NEW w \in Workers, WorkerStep(w)
  PROVE  /\ (\E t \in Tasks : Takes(w, t)) \/ Runs(w) \/ Reports(w) \/ Rests(w)
         /\ \A v \in Workers : v # w => UNCHANGED <<pc[v], task[v], answer[v]>>
<1>1. /\ pc \in [Workers -> WorkerLabels] /\ task \in [Workers -> Tasks \cup {Nil}]
      /\ answer \in [Workers -> {"none"} \cup Answers]
  BY DEF TypeOK, WorkerTypeOK
<1>2. queue \in Seq(Tasks \cup {EmptyTask})
  BY DEF TypeOK, QueueTypeOK
<1>3. CASE CheckShutDown(w) \/ CloseConnection(w) \/ CountDown(w) \/ WokenUp(w) \/ PopTimesOut(w)
  <2>1. Rests(w)
    BY <1>1, <1>3 DEF CheckShutDown, CloseConnection, CountDown, WokenUp, PopTimesOut, Work,
           Rests, Running, histVars
  <2>2. QED
    BY <1>1, <1>3, <2>1 DEF CheckShutDown, CloseConnection, CountDown, WokenUp, PopTimesOut, Work
<1>4. CASE PopTask(w)
  <2>1. CASE queue = <<>>
    <3>1. Rests(w)
      BY <1>1, <1>4, <2>1 DEF PopTask, Work, Rests, Running
    <3>2. QED
      BY <1>1, <1>4, <2>1, <3>1 DEF PopTask, Work
  <2>2. CASE queue # <<>> /\ Head(queue) = EmptyTask
    <3>1. Rests(w)
      BY <1>1, <1>4, <2>2, TaskFacts DEF PopTask, QueuePopped, Work, Rests, Running
    <3>2. QED
      BY <1>1, <1>4, <2>2, <3>1, TaskFacts DEF PopTask, Work
  <2>3. CASE queue # <<>> /\ Head(queue) # EmptyTask
    <3>1. Head(queue) \in Tasks
      BY <1>2, <2>3
    <3>2. Takes(w, Head(queue))
      BY <1>1, <1>4, <2>3 DEF PopTask, QueuePopped, Work, Takes, Running
    <3>3. \A v \in Workers : v # w => UNCHANGED <<pc[v], task[v], answer[v]>>
      BY <1>1, <1>4, <2>3 DEF PopTask, Work
    <3>4. QED
      BY <3>1, <3>2, <3>3
  <2>4. QED
    BY <2>1, <2>2, <2>3
<1>5. CASE RunTask(w)
  <2>1. Runs(w)
    BY <1>1, <1>5 DEF RunTask, Work, Runs
  <2>2. QED
    BY <1>1, <1>5, <2>1 DEF RunTask, Work
<1>6. CASE ReportResult(w)
  <2>1. Reports(w)
    BY <1>1, <1>6 DEF ReportResult, AfterAnswer, Work, Reports
  <2>2. QED
    BY <1>1, <1>6, <2>1 DEF ReportResult, AfterAnswer, Work
<1>7. QED
  BY <1>3, <1>4, <1>5, <1>6 DEF WorkerStep

LEMMA TakenParts ==
  /\ TakenOnce <=> /\ TakenInOrder /\ (Len(queue) > Left => ~alive)
                   /\ (~alive => \A c \in Callers : callPc[c] \in Aside)
                   /\ (\A w \in Workers : WorkerTask(w)) /\ TasksApart
  /\ TakenOnce' <=> /\ TakenInOrder' /\ (Len(queue') > Left' => ~alive')
                    /\ (~alive' => \A c \in Callers : callPc'[c] \in Aside)
                    /\ (\A w \in Workers : WorkerTask(w)') /\ TasksApart'
BY DEF TakenOnce, WorkerTask, TasksApart, Aside

(* The head of the queue is the next task.                                  *)
LEMMA HeadIsNext ==
  ASSUME TypeOK, TakenOnce, queue # <<>>, Head(queue) \in Tasks
  PROVE  /\ Head(queue).n = Len(started) + 1 /\ Left > 0
         /\ \A i \in 1 .. Len(queue) : queue[i] \in Tasks =>
              i <= Left /\ queue[i].n = Len(started) + i
<1>1. queue \in Seq(Tasks \cup {EmptyTask})
  BY DEF TypeOK, QueueTypeOK
<1>2. 1 \in 1 .. Len(queue) /\ Head(queue) = queue[1]
  BY <1>1
<1>3. \A i \in 1 .. Len(queue) : IF i <= Left THEN queue[i].n = Len(started) + i
                                              ELSE queue[i] = EmptyTask
  BY DEF TakenOnce, TakenInOrder
<1>4. \A i \in 1 .. Len(queue) : queue[i] \in Tasks => i <= Left
  BY <1>3, TaskFacts
<1>5. QED
  BY <1>2, <1>3, <1>4, QueueFacts

LEMMA TakenOnceNext ==
  ASSUME TypeOK, TakenOnce, CallShape, UserShape, AppenderShape, [Next]_vars
  PROVE  TakenOnce'
<1>1. TakenInOrder' /\ (Len(queue') > Left' => ~alive')
  BY TakenInOrderNext
<1>2. ~alive' => \A c \in Callers : callPc'[c] \in Aside
  BY DestructAlone
<1>3. (\A w \in Workers : WorkerTask(w)) /\ TasksApart
  BY TakenParts
<1>4. ASSUME UNCHANGED <<pc, task, answer, started, outcome>>
      PROVE  (\A w \in Workers : WorkerTask(w)') /\ TasksApart'
  BY <1>3, <1>4 DEF WorkerTask, TasksApart, Running
<1>5. ASSUME NEW c \in Callers, CallBegins(c) \/ CallGoesOn(c)
      PROVE  UNCHANGED <<pc, task, answer, started, outcome>>
  BY <1>5, CallFrame DEF TypeOK
<1>6. ASSUME NEW w \in Workers, WorkerStep(w)
      PROVE  (\A v \in Workers : WorkerTask(v)') /\ TasksApart'
  <2>1. /\ (\E t \in Tasks : Takes(w, t)) \/ Runs(w) \/ Reports(w) \/ Rests(w)
        /\ \A v \in Workers : v # w => UNCHANGED <<pc[v], task[v], answer[v]>>
    BY <1>6, WorkerEffects
  <2>2. Len(started) \in Nat /\ MaxTasks \in Nat
    BY QueueFacts, TaskFacts
  <2>3. ASSUME NEW t \in Tasks, Takes(w, t)
        PROVE  (\A v \in Workers : WorkerTask(v)') /\ TasksApart'
    <3>1. t.n = Len(started) + 1 /\ t.n \in Nat
      BY <2>3, HeadIsNext, TaskFacts DEF Takes
    <3>2. Len(started') = Len(started) + 1
      BY <2>3 DEF Takes, TypeOK, HistoryTypeOK
    <3>3. ASSUME NEW v \in Workers PROVE WorkerTask(v)'
      <4>1. CASE v = w
        BY <2>2, <2>3, <3>1, <3>2, <4>1 DEF Takes, WorkerTask, Running
      <4>2. CASE v # w
        BY <1>3, <2>1, <2>2, <2>3, <3>2, <4>2 DEF Takes, WorkerTask, Running
      <4>3. QED
        BY <4>1, <4>2
    <3>4. ASSUME NEW v \in Workers, Running(w)', Running(v)', task'[w].n = task'[v].n
          PROVE  v = w
      <4>1. v # w => Running(v) /\ task'[v] = task[v]
        BY <2>1, <3>4 DEF Running
      <4>2. task'[w] = t
        BY <2>3, <3>4 DEF Takes, Running
      <4>3. v # w => task[v].n \in 1 .. Len(started)
        BY <1>3, <4>1 DEF WorkerTask
      <4>4. QED
        BY <2>2, <3>1, <3>4, <4>1, <4>2, <4>3
    <3>5. ASSUME NEW u \in Workers, NEW v \in Workers, u # w, v # w,
                 Running(u)', Running(v)', task'[u].n = task'[v].n
          PROVE  v = u
      BY <1>3, <2>1, <3>5 DEF TasksApart, Running
    <3>6. TasksApart'
      BY <3>4, <3>5 DEF TasksApart
    <3>7. QED
      BY <3>3, <3>6
  <2>4. ASSUME Runs(w) \/ Reports(w) \/ Rests(w), NEW v \in Workers, Running(v)'
        PROVE  Running(v) /\ task'[v] = task[v]
    <3>1. CASE v = w
      BY <2>4, <3>1 DEF Runs, Reports, Rests, Running
    <3>2. CASE v # w
      BY <2>1, <2>4, <3>2 DEF Running
    <3>3. QED
      BY <3>1, <3>2
  <2>5. ASSUME Runs(w) \/ Reports(w) \/ Rests(w), NEW v \in Workers
        PROVE  WorkerTask(v)'
    <3>1. started' = started
      BY <2>5 DEF Runs, Reports, Rests
    <3>2. Running(v)' => task'[v] \in Tasks /\ task'[v].n \in 1 .. Len(started')
      BY <1>3, <2>4, <2>5, <3>1 DEF WorkerTask
    <3>3. ASSUME pc'[v] = "report"
          PROVE  answer'[v] \in Answers /\ answer'[v] = outcome'[task'[v].n]
      <4>1. /\ Running(v) /\ task'[v] = task[v] /\ task[v] \in Tasks
            /\ pc[v] = "report" => answer[v] \in Answers /\ answer[v] = outcome[task[v].n]
        BY <1>3, <2>4, <2>5, <3>3 DEF WorkerTask, Running
      <4>2. task[v].n \in 1 .. MaxTasks /\ outcome \in [1 .. MaxTasks -> {"none"} \cup Answers]
        BY <4>1, TaskFacts DEF TypeOK, HistoryTypeOK
      <4>3. CASE v = w
        <5>1. Runs(w)
          BY <2>5, <3>3, <4>3 DEF Reports, Rests
        <5>2. QED
          BY <4>1, <4>2, <4>3, <5>1 DEF Runs
      <4>4. CASE v # w
        <5>1. pc[v] = "report" /\ answer'[v] = answer[v]
          BY <2>1, <3>3, <4>4
        <5>2. Runs(w) => task[w].n # task[v].n
          BY <1>3, <4>1, <4>4 DEF Runs, Running, TasksApart
        <5>3. outcome'[task[v].n] = outcome[task[v].n]
          BY <2>5, <4>2, <5>2 DEF Runs, Reports, Rests
        <5>4. QED
          BY <4>1, <5>1, <5>3
      <4>5. QED
        BY <4>3, <4>4
    <3>4. QED
      BY <3>2, <3>3 DEF WorkerTask
  <2>6. ASSUME Runs(w) \/ Reports(w) \/ Rests(w)
        PROVE  TasksApart'
    BY <1>3, <2>4, <2>6 DEF TasksApart
  <2>7. QED
    BY <2>1, <2>3, <2>5, <2>6
<1>7. UNCHANGED vars => UNCHANGED <<pc, task, answer, started, outcome>>
  BY DEF vars, workerVars, histVars
<1>8. (\A w \in Workers : WorkerTask(w)') /\ TasksApart'
  BY <1>4, <1>5, <1>6, <1>7 DEF Next
<1>9. QED
  BY <1>1, <1>2, <1>8, TakenParts

-----------------------------------------------------------------------------
(* Which tasks are live                                                     *)

LEMMA LiveFacts ==
  ASSUME TypeOK, TakenOnce, NEW t \in Tasks, Live(t)
  PROVE  t.n \in Nat /\ t.n <= pushed
<1>1. CASE OnQueue(t)
  <2>1. PICK i \in 1 .. Len(queue) : queue[i] = t
    BY <1>1 DEF OnQueue
  <2>2. i <= Left /\ t.n = Len(started) + i
    BY <2>1, TaskFacts DEF TakenOnce, TakenInOrder
  <2>3. QED
    BY <2>1, <2>2, QueueFacts
<1>2. CASE \E w \in Workers : Running(w) /\ task[w] = t
  <2>1. t.n \in 1 .. Len(started)
    BY <1>2, TakenParts DEF WorkerTask
  <2>2. Left >= 0
    BY QueueFacts DEF TakenOnce, TakenInOrder
  <2>3. QED
    BY <2>1, <2>2, QueueFacts
<1>3. QED
  BY <1>1, <1>2 DEF Live

LEMMA TailOnQueue ==
  ASSUME TypeOK, queue # <<>>, queue' = Tail(queue), NEW t \in Tasks, OnQueue(t)'
  PROVE  OnQueue(t)
<1>1. queue \in Seq(Tasks \cup {EmptyTask})
  BY DEF TypeOK, QueueTypeOK
<1>2. /\ Len(queue) \in Nat /\ Len(queue') = Len(queue) - 1
      /\ \A i \in 1 .. Len(queue) - 1 : queue'[i] = queue[i + 1]
  BY <1>1
<1>3. PICK i \in 1 .. Len(queue') : queue'[i] = t
  BY DEF OnQueue
<1>4. i + 1 \in 1 .. Len(queue) /\ queue[i + 1] = t
  BY <1>2, <1>3
<1>5. QED
  BY <1>4 DEF OnQueue

LEMMA LiveSteps ==
  ASSUME TypeOK, TakenOnce, CallShape, UserShape, AppenderShape, [Next]_vars,
         NEW t \in Tasks, Live(t)'
  PROVE  Live(t) \/ \E c \in Callers : (CallBegins(c) \/ CallGoesOn(c)) /\ Pushes(c, t)
<1>1. ASSUME UNCHANGED <<queue, pc, task>> PROVE Live(t)
  BY <1>1 DEF Live, OnQueue, Running
<1>2. ASSUME NEW c \in Callers, CallBegins(c) \/ CallGoesOn(c)
      PROVE  Live(t) \/ Pushes(c, t)
  <2>1. CallStep(c) /\ UNCHANGED <<pc, task>>
    BY <1>2, CallEffects, CallFrame DEF TypeOK
  <2>2. queue \in Seq(Tasks \cup {EmptyTask})
    BY DEF TypeOK, QueueTypeOK
  <2>3. CASE ~OnQueue(t)'
    BY <2>1, <2>3 DEF Live, Running
  <2>5. ASSUME NEW u \in Tasks, Pushes(c, u), OnQueue(t)' PROVE OnQueue(t) \/ t = u
    <3>0. PICK i \in 1 .. Len(queue') : queue'[i] = t
      BY <2>5 DEF OnQueue
    <3>1. queue' = Append(queue, u)
      BY <2>5 DEF Pushes
    <3>2. /\ Len(queue) \in Nat /\ Len(queue') = Len(queue) + 1 /\ queue'[Len(queue) + 1] = u
          /\ \A j \in 1 .. Len(queue) : queue'[j] = queue[j]
      BY <2>2, <3>1
    <3>3. i \in 1 .. Len(queue) \/ i = Len(queue) + 1
      BY <3>0, <3>2
    <3>4. QED
      BY <3>0, <3>2, <3>3 DEF OnQueue
  <2>6. ASSUME StandsAside(c), OnQueue(t)' PROVE OnQueue(t)
    <3>0. PICK i \in 1 .. Len(queue') : queue'[i] = t
      BY <2>6 DEF OnQueue
    <3>1. CASE queue' = queue
      BY <2>6, <3>1 DEF OnQueue
    <3>2. CASE queue' = queue \o [j \in 1 .. Cardinality(Workers) |-> EmptyTask]
      <4> DEFINE k == Cardinality(Workers)
                 e == [j \in 1 .. k |-> EmptyTask]
      <4>1. k \in Nat
        BY TaskFacts, FS_CardinalityType
      <4> HIDE DEF k
      <4>2. e \in Seq({EmptyTask}) /\ Len(e) = k /\ \A j \in 1 .. k : e[j] = EmptyTask
        BY <4>1
      <4>3. queue' = queue \o e
        BY <3>2 DEF k
      <4> HIDE DEF e
      <4>4. /\ Len(queue) \in Nat /\ Len(queue') = Len(queue) + k
            /\ \A j \in 1 .. Len(queue) : queue'[j] = queue[j]
            /\ \A j \in Len(queue) + 1 .. Len(queue) + k : queue'[j] = e[j - Len(queue)]
        BY <2>2, <4>2, <4>3
      <4>5. CASE i \in 1 .. Len(queue)
        BY <3>0, <4>4, <4>5 DEF OnQueue
      <4>6. CASE i \notin 1 .. Len(queue)
        <5>1. i \in Len(queue) + 1 .. Len(queue) + k /\ i - Len(queue) \in 1 .. k
          BY <3>0, <4>1, <4>4, <4>6
        <5>2. t = EmptyTask
          BY <3>0, <4>2, <4>4, <5>1
        <5>3. QED
          BY <5>2, TaskFacts
      <4>7. QED
        BY <4>5, <4>6
    <3>3. QED
      BY <2>6, <3>1, <3>2 DEF StandsAside
  <2>7. ASSUME ~StandsAside(c), ~(\E u \in Tasks : Pushes(c, u)) PROVE queue' = queue
    BY <2>1, <2>7 DEF CallStep, UserBegins, AppendBegins, Sets, Polls, Fetches
  <2>8. QED
    BY <1>1, <2>1, <2>3, <2>5, <2>6, <2>7 DEF Live
<1>3. ASSUME NEW w \in Workers, WorkerStep(w) PROVE Live(t)
  <2>1. /\ (\E u \in Tasks : Takes(w, u)) \/ Runs(w) \/ Reports(w) \/ Rests(w)
        /\ \A v \in Workers : v # w => UNCHANGED <<pc[v], task[v], answer[v]>>
    BY <1>3, WorkerEffects
  <2>2. queue' = queue \/ (queue # <<>> /\ queue' = Tail(queue))
    BY <2>1 DEF Takes, Runs, Reports, Rests
  <2>3. OnQueue(t)' => OnQueue(t)
    BY <2>2, TailOnQueue DEF OnQueue
  <2>4. ASSUME NEW v \in Workers, Running(v)', task'[v] = t
        PROVE  Live(t)
    <3>1. CASE v # w \/ Runs(w)
      BY <2>1, <2>4, <3>1 DEF Live, Running, Runs
    <3>2. CASE v = w /\ ~Runs(w)
      <4>1. \E u \in Tasks : Takes(w, u) /\ t = u
        BY <2>1, <2>4, <3>2 DEF Takes, Reports, Rests, Running
      <4>2. t = Head(queue) /\ queue # <<>>
        BY <4>1 DEF Takes
      <4>3. 1 \in 1 .. Len(queue) /\ queue[1] = t
        BY <4>2 DEF TypeOK, QueueTypeOK
      <4>4. QED
        BY <4>3 DEF Live, OnQueue
    <3>3. QED
      BY <3>1, <3>2
  <2>5. QED
    BY <2>3, <2>4 DEF Live
<1>4. UNCHANGED vars => UNCHANGED <<queue, pc, task>>
  BY DEF vars, workerVars
<1>5. QED
  BY <1>1, <1>2, <1>3, <1>4 DEF Next

-----------------------------------------------------------------------------
(* A number belongs to one task                                             *)

LEMMA Acts ==
  ASSUME TypeOK, [Next]_vars, NEW c \in Callers, callPc'[c] # callPc[c]
  PROVE  CallBegins(c) \/ CallGoesOn(c)
<1>1. ASSUME NEW d \in Callers, CallBegins(d) \/ CallGoesOn(d) PROVE d = c
  BY <1>1, CallFrame DEF TypeOK
<1>2. ASSUME NEW w \in Workers, WorkerStep(w) PROVE callPc' = callPc
  BY <1>2, WorkerFrame
<1>3. UNCHANGED vars => callPc' = callPc
  BY DEF vars, callVars
<1>4. QED
  BY <1>1, <1>2, <1>3 DEF Next

LEMMA PushesOnce ==
  ASSUME TypeOK, [Next]_vars, NEW c \in Callers, NEW d \in Callers, NEW t \in Tasks,
         NEW u \in Tasks, Pushes(c, t), Pushes(d, u)
  PROVE  c = d /\ t = u
<1>1. callPc'[c] # callPc[c] /\ callPc'[d] # callPc[d]
  BY DEF Pushes
<1>2. c = d
  BY <1>1, Acts, CallFrame DEF TypeOK
<1>3. queue' = Append(queue, t) /\ queue' = Append(queue, u)
  BY DEF Pushes
<1>4. queue \in Seq(Tasks \cup {EmptyTask})
  BY DEF TypeOK, QueueTypeOK
<1>5. \A x \in Tasks : Append(queue, x)[Len(queue) + 1] = x
  BY <1>4
<1>6. t = u
  BY <1>3, <1>5
<1>7. QED
  BY <1>2, <1>6

LEMMA HoldFacts ==
  ASSUME TypeOK, CallShape
  PROVE  /\ \A c \in Callers : \A k \in Pending(c) : Holds(c, tasks[c][k]) /\ tasks[c][k] \in Tasks
         /\ \A c \in Callers, t \in Tasks : Holds(c, t) => t.n \in Nat /\ t.n <= pushed
         /\ \A c \in Callers, t, u \in Tasks : Holds(c, t) /\ Holds(c, u) /\ t.n = u.n => t = u
<1>1. ASSUME NEW c \in Callers, NEW k \in Pending(c) PROVE Holds(c, tasks[c][k]) /\ tasks[c][k] \in Tasks
  BY PendingFacts DEF Holds, TypeOK
<1>2. ASSUME NEW c \in Callers, NEW t \in Tasks, Holds(c, t) PROVE t.n \in Nat /\ t.n <= pushed
  BY <1>2, TaskFacts DEF Holds, CallShape
<1>3. ASSUME NEW c \in Callers, NEW t \in Tasks, NEW u \in Tasks, Holds(c, t), Holds(c, u), t.n = u.n
      PROVE  t = u
  <2>1. PICK k \in Pending(c) : tasks[c][k] = t
    BY <1>3 DEF Holds
  <2>2. PICK l \in Pending(c) : tasks[c][l] = u
    BY <1>3 DEF Holds
  <2>3. k \in Int /\ l \in Int
    BY <2>1, <2>2 DEF Pending
  <2>4. ~(k < l) /\ ~(l < k)
    BY <1>2, <1>3, <2>1, <2>2 DEF CallShape
  <2>5. QED
    BY <2>1, <2>2, <2>3, <2>4
<1>4. QED
  BY <1>1, <1>2, <1>3

(* The parts of NumbersApart, of the tasks that calls hold.                 *)
HeldApart ==
  \A c, d \in Callers, t, u \in Tasks : Holds(c, t) /\ Holds(d, u) /\ t.n = u.n => d = c
LiveApart ==
  \A c \in Callers, t, u \in Tasks : Holds(c, t) /\ Live(u) /\ t.n = u.n => u = t

LEMMA NumberParts ==
  ASSUME CallTypeOK
  PROVE  NumbersApart <=> HeldApart /\ LiveApart
<1>1. \A c \in Callers : \A k \in Pending(c) : tasks[c][k] \in Tasks
  BY PendingFacts
<1>2. QED
  BY <1>1 DEF NumbersApart, HeldApart, LiveApart, Holds

LEMMA NumbersApartNext ==
  ASSUME TypeOK, TakenOnce, CallShape, UserShape, AppenderShape, NumbersApart, [Next]_vars
  PROVE  NumbersApart'
<1>1. HeldApart /\ LiveApart
  BY NumberParts DEF TypeOK
<1>2. CallTypeOK'
  BY CallTypeNext
<1>3. pushed \in Nat
  BY QueueFacts
<1>4. ASSUME NEW c \in Callers, NEW t \in Tasks, Holds(c, t)'
      PROVE  (Holds(c, t) /\ t.n <= pushed) \/ (Pushes(c, t) /\ t.n = pushed + 1)
  BY <1>4, HoldSteps, HoldFacts DEF Pushes
<1>5. ASSUME NEW t \in Tasks, Live(t)'
      PROVE  (Live(t) /\ t.n <= pushed) \/ \E c \in Callers : Pushes(c, t) /\ t.n = pushed + 1
  BY <1>5, LiveSteps, LiveFacts DEF Pushes
<1>6. ASSUME NEW c \in Callers, NEW d \in Callers, NEW t \in Tasks, NEW u \in Tasks,
             Holds(c, t)', Holds(d, u)', t.n = u.n
      PROVE  d = c
  <2>1. CASE Holds(c, t) /\ Holds(d, u)
    BY <1>1, <1>6, <2>1 DEF HeldApart
  <2>2. CASE Pushes(c, t) /\ Pushes(d, u)
    BY <2>2, PushesOnce
  <2>3. QED
    BY <1>3, <1>4, <1>6, <2>1, <2>2
<1>7. ASSUME NEW c \in Callers, NEW t \in Tasks, NEW u \in Tasks,
             Holds(c, t)', Live(u)', t.n = u.n
      PROVE  u = t
  <2>1. CASE Holds(c, t) /\ Live(u)
    BY <1>1, <1>7, <2>1 DEF LiveApart
  <2>2. CASE Pushes(c, t) /\ \E d \in Callers : Pushes(d, u)
    BY <2>2, PushesOnce
  <2>3. QED
    BY <1>3, <1>4, <1>5, <1>7, <2>1, <2>2
<1>8. HeldApart' /\ LiveApart'
  BY <1>6, <1>7 DEF HeldApart, LiveApart
<1>9. (NumbersApart <=> HeldApart /\ LiveApart)'
  <2>1. \A c \in Callers : \A k \in Pending(c)' : tasks'[c][k] \in Tasks
    BY <1>2 DEF CallTypeOK, Pending
  <2>2. QED
    BY <2>1 DEF NumbersApart, HeldApart, LiveApart, Holds
<1>10. QED
  BY <1>8, <1>9

-----------------------------------------------------------------------------
(* The invariant of any pool                                                *)

LEMMA PoolInit == Init => PoolInv
<1> SUFFICES ASSUME Init PROVE PoolInv
  OBVIOUS
<1>1. TypeOK
  BY TypeInit
<1>2. /\ queue = <<>> /\ started = <<>> /\ pushed = 0 /\ alive = TRUE
      /\ \A c \in Callers : callPc[c] = "idle" /\ identity[c] = -2 /\ tasks[c] = <<>>
      /\ \A w \in Workers : pc[w] = "top"
  BY DEF Init
<1>3. Len(queue) = 0 /\ Len(started) = 0 /\ Left = 0 /\ \A c \in Callers : Pending(c) = {}
  <2>1. Len(queue) = 0 /\ Len(started) = 0
    BY <1>2
  <2>2. ASSUME NEW c \in Callers PROVE Pending(c) = {}
    BY <1>2 DEF Pending
  <2>3. Left = 0
    <3>1. Left = 0 - 0
      BY <1>2, <2>1, Zenon DEF Left
    <3>2. QED
      BY <3>1
  <2>4. QED
    BY <2>1, <2>2, <2>3
<1>4. TakenOnce
  <2>1. TakenInOrder
    BY <1>3 DEF TakenInOrder
  <2>2. QED
    BY <1>2, <1>3, <2>1 DEF TakenOnce, Running
<1>5. CallShape
  BY <1>2, <1>3 DEF CallShape
<1>6. UserShape
  <2>1. \A c \in Users : callPc[c] = "idle" /\ Pending(c) = {}
    BY <1>2, <1>3 DEF Callers
  <2>2. QED
    BY <2>1 DEF UserShape
<1>7. AppenderShape
  <2>1. \A c \in Appenders : callPc[c] = "idle" /\ identity[c] = -2 /\ Pending(c) = {}
    BY <1>2, <1>3 DEF Callers
  <2>2. QED
    BY <1>2, <2>1 DEF AppenderShape, StatusDue
<1>8. NumbersApart
  BY <1>3 DEF NumbersApart
<1>9. QED
  BY <1>1, <1>4, <1>5, <1>6, <1>7, <1>8 DEF PoolInv

LEMMA PoolNext == PoolInv /\ [Next]_vars => PoolInv'
<1> SUFFICES ASSUME PoolInv, [Next]_vars PROVE PoolInv'
  OBVIOUS
<1>1. TypeOK /\ TakenOnce /\ CallShape /\ UserShape /\ AppenderShape /\ NumbersApart
  BY DEF PoolInv
<1>2. TypeOK'
  BY <1>1, CallTypeNext, QueueTypeNext, WorkerTypeNext, LatchTypeNext DEF TypeOK
<1>3. TakenOnce'
  BY <1>1, TakenOnceNext
<1>4. CallShape' /\ UserShape' /\ AppenderShape'
  BY <1>1, CallShapeNext, UserShapeNext, AppenderShapeNext
<1>5. NumbersApart'
  BY <1>1, NumbersApartNext
<1>6. QED
  BY <1>2, <1>3, <1>4, <1>5 DEF PoolInv

(* The inductive invariant of the pool holds in every state, whatever the   *)
(* users, the appenders, the workers and their number.                      *)
THEOREM PoolInvCorrect == Spec => []PoolInv
<1>1. Init => PoolInv
  BY PoolInit
<1>2. PoolInv /\ [Next]_vars => PoolInv'
  BY PoolNext
<1>3. QED
  BY <1>1, <1>2, PTL DEF Spec

(* The latch counts the workers that have not ended, and every task that    *)
(* was pushed is taken by one worker, once, in the order of the pushes, or  *)
(* is still on the queue (AsynWorker::run, SynchronizedQueue).              *)
THEOREM TakenInOrderCorrect == Spec => [](TypeOK /\ TakenInOrder)
<1>1. PoolInv => TypeOK /\ TakenInOrder
  BY DEF PoolInv, TakenOnce
<1>2. QED
  BY <1>1, PoolInvCorrect, PTL

-----------------------------------------------------------------------------
(* An identity belongs to one task, where the pool has one appender: two    *)
(* appenders count down through the same identities.                        *)

LEMMA HeldIdentity ==
  ASSUME TypeOK, CallShape, UserShape, AppenderShape,
         NEW c \in Callers, NEW t \in Tasks, Holds(c, t)
  PROVE  /\ t.identity \in Int /\ identity[c] \in Int /\ callPc[c] \in Calling
         /\ c \in Users => /\ t.identity >= 0 /\ t.identity = identity[c]
                           /\ tasks[c] = <<t>> /\ callPc[c] # "push"
         /\ c \in Appenders => t.identity < 0 /\ t.identity >= identity[c] + StatusDue(c)
         /\ c \in Users \/ c \in Appenders
<1>1. PICK k \in Pending(c) : tasks[c][k] = t
  BY DEF Holds
<1>2. /\ tasks[c] \in Seq(Tasks) /\ Len(tasks[c]) \in Nat /\ k \in 1 .. Len(tasks[c])
      /\ t.identity \in Int /\ identity[c] \in Int /\ (c \in Users \/ c \in Appenders)
      /\ StatusDue(c) \in {0, 1}
  BY <1>1, PendingFacts, TaskFacts DEF TypeOK, Pending, Callers, StatusDue
<1>3. tasks[c] # <<>>
  BY <1>1 DEF Pending
<1>4. callPc[c] \in Calling
  BY <1>2, <1>3 DEF CallShape, TypeOK, CallTypeOK, CallLabels, Calling
<1>5. ASSUME c \in Users
      PROVE  /\ t.identity >= 0 /\ t.identity = identity[c]
             /\ tasks[c] = <<t>> /\ callPc[c] # "push"
  <2>1. \A l \in Pending(c) : l = 1 /\ tasks[c][l].identity = identity[c]
    BY <1>5 DEF UserShape
  <2>2. Len(tasks[c]) = 1 /\ tasks[c][1] = t
    <3>1. Len(tasks[c]) \in Pending(c) /\ k = 1
      BY <1>1, <1>2, <2>1 DEF Pending
    <3>2. QED
      BY <1>1, <2>1, <3>1
  <2>3. tasks[c] = <<t>>
    <3>1. \A s \in Seq(Tasks) : Len(s) = 1 => s = <<s[1]>>
      OBVIOUS
    <3>2. QED
      BY <1>2, <2>2, <3>1
  <2>4. identity[c] \in UserIds /\ callPc[c] # "push"
    BY <1>3, <1>4, <1>5 DEF UserShape, Calling
  <2>5. QED
    BY <1>1, <2>1, <2>3, <2>4, TaskFacts
<1>6. ASSUME c \in Appenders
      PROVE  t.identity < 0 /\ t.identity >= identity[c] + StatusDue(c)
  <2>1. /\ t.identity = identity[c] + Len(tasks[c]) - k + StatusDue(c)
        /\ t.identity <= -2
    BY <1>1, <1>6 DEF AppenderShape
  <2>2. QED
    BY <1>2, <2>1
<1>7. QED
  BY <1>2, <1>4, <1>5, <1>6

LEMMA OwnApart ==
  ASSUME TypeOK, CallShape, UserShape, AppenderShape, NEW c \in Callers,
         NEW k \in Pending(c), NEW l \in Pending(c), tasks[c][k].identity = tasks[c][l].identity
  PROVE  k = l
<1>1. k \in Int /\ l \in Int /\ Len(tasks[c]) \in Int /\ identity[c] \in Int /\ StatusDue(c) \in Int
  BY PendingFacts DEF TypeOK, Pending, StatusDue
<1>2. CASE c \in Users
  BY <1>2 DEF UserShape
<1>3. CASE c \in Appenders
  <2>1. /\ tasks[c][k].identity = identity[c] + Len(tasks[c]) - k + StatusDue(c)
        /\ tasks[c][l].identity = identity[c] + Len(tasks[c]) - l + StatusDue(c)
    BY <1>3 DEF AppenderShape
  <2>2. \A a, m, s, x, y \in Int : a + m - x + s = a + m - y + s => x = y
    OBVIOUS
  <2>3. identity[c] + Len(tasks[c]) - k + StatusDue(c) = identity[c] + Len(tasks[c]) - l + StatusDue(c)
    BY <2>1
  <2>4. QED
    BY <1>1, <2>2, <2>3
<1>4. QED
  BY <1>2, <1>3 DEF Callers

LEMMA HeldOnce ==
  ASSUME OneAppender, TypeOK, CallShape, UserShape, AppenderShape,
         NEW c \in Callers, NEW d \in Callers, NEW t \in Tasks, NEW u \in Tasks,
         Holds(c, t), Holds(d, u), t.identity = u.identity
  PROVE  d = c /\ u = t
<1>1. d = c
  <2>1. CASE c \in Users
    <3>1. t.identity >= 0
      BY <2>1, HeldIdentity
    <3>2. d \in Users
      BY <3>1, HeldIdentity
    <3>3. callPc[c] \in Calling /\ callPc[d] \in Calling /\ identity[c] = identity[d]
      BY <2>1, <3>2, HeldIdentity
    <3>4. QED
      BY <2>1, <3>2, <3>3 DEF UserShape, Calling
  <2>2. CASE c \in Appenders
    <3>1. t.identity < 0
      BY <2>2, HeldIdentity
    <3>2. d \in Appenders
      BY <3>1, HeldIdentity
    <3>3. QED
      BY <2>2, <3>2 DEF OneAppender
  <2>3. QED
    BY <2>1, <2>2 DEF Callers
<1>2. PICK k \in Pending(c) : tasks[c][k] = t
  BY DEF Holds
<1>3. PICK l \in Pending(c) : tasks[c][l] = u
  BY <1>1 DEF Holds
<1>4. k = l
  BY <1>2, <1>3, OwnApart
<1>5. QED
  BY <1>1, <1>2, <1>3, <1>4

(* A task that is pushed has an identity of its own.                        *)
LEMMA PushedIdentity ==
  ASSUME TypeOK, CallShape, UserShape, AppenderShape,
         NEW c \in Callers, NEW t \in Tasks, Pushes(c, t)
  PROVE  /\ t.identity = identity[c] /\ t.identity \in Int /\ callPc[c] = "push"
         /\ c \in Users => t.identity >= 0 /\ tasks[c] = <<>> /\ tasks'[c] = <<t>>
         /\ c \in Appenders => t.identity < 0 /\ StatusDue(c) = 1 /\ StatusDue(c)' = 0
                               /\ identity'[c] = identity[c]
<1>1. t.identity = identity[c] /\ t.identity \in Int /\ callPc[c] = "push"
  BY TaskFacts DEF Pushes
<1>2. ASSUME c \in Users
      PROVE  t.identity >= 0 /\ tasks[c] = <<>> /\ tasks'[c] = <<t>>
  <2>1. identity[c] \in UserIds /\ tasks[c] = <<>>
    BY <1>1, <1>2 DEF UserShape
  <2>2. tasks'[c] = Append(<<>>, t)
    BY <2>1 DEF Pushes
  <2>3. Append(<<>>, t) = <<t>>
    OBVIOUS
  <2>4. QED
    BY <1>1, <2>1, <2>2, <2>3, TaskFacts
<1>3. ASSUME c \in Appenders
      PROVE  /\ t.identity < 0 /\ StatusDue(c) = 1 /\ StatusDue(c)' = 0
             /\ identity'[c] = identity[c]
  <2>1. identity[c] <= -2
    BY <1>3 DEF AppenderShape
  <2>2. StatusDue(c) = 1 /\ StatusDue(c)' = 0 /\ identity'[c] = identity[c]
    BY DEF Pushes, StatusDue
  <2>3. QED
    BY <1>1, <2>1, <2>2
<1>4. QED
  BY <1>1, <1>2, <1>3

LEMMA PushedApart ==
  ASSUME OneAppender, TypeOK, CallShape, UserShape, AppenderShape,
         NEW c \in Callers, NEW d \in Callers, NEW t \in Tasks, NEW u \in Tasks,
         Pushes(c, t), Holds(d, u)
  PROVE  t.identity # u.identity
<1> SUFFICES ASSUME t.identity = u.identity PROVE FALSE
  OBVIOUS
<1>a. /\ d \in Users => u.identity >= 0
      /\ d \in Appenders => u.identity < 0
      /\ u.identity \in Int /\ (d \in Users \/ d \in Appenders)
  BY HeldIdentity
<1>1. CASE c \in Users
  <2>1. t.identity = identity[c] /\ t.identity >= 0 /\ callPc[c] = "push"
    BY <1>1, PushedIdentity
  <2>2. d \in Users
    BY <1>a, <2>1
  <2>3. callPc[d] \in Calling /\ callPc[d] # "push" /\ identity[d] = identity[c]
    BY <2>1, <2>2, HeldIdentity
  <2>4. d = c
    BY <1>1, <2>1, <2>2, <2>3 DEF UserShape, Calling
  <2>5. QED
    BY <2>1, <2>3, <2>4
<1>2. CASE c \in Appenders
  <2>1. t.identity = identity[c] /\ t.identity < 0 /\ StatusDue(c) = 1
    BY <1>2, PushedIdentity
  <2>2. d \in Appenders
    BY <1>a, <2>1
  <2>3. d = c
    BY <1>2, <2>2 DEF OneAppender
  <2>4. u.identity >= identity[c] + 1 /\ identity[c] \in Int
    BY <2>1, <2>2, <2>3, HeldIdentity
  <2>5. QED
    BY <2>1, <2>4
<1>3. QED
  BY <1>1, <1>2 DEF Callers

(* The parts of IdentitiesApart and ResultsOwn, of the tasks calls hold.    *)
LiveIdentities ==
  \A c \in Callers, t, u \in Tasks : Holds(c, t) /\ Live(u) /\ t.identity = u.identity => u = t
LiveOfUsers ==
  \A t \in Tasks : Live(t) /\ t.identity >= 0 => \E c \in Users : tasks[c] = <<t>>
LiveOfAppenders ==
  \A t \in Tasks, a \in Appenders :
    Live(t) /\ t.identity < 0 => t.identity >= identity[a] + StatusDue(a)

Last(s) == s[Len(s)]
StatusKnown(c, t) == callPc[c] = "status" => t # Last(tasks[c])
Claim(t) ==
  /\ results[t.identity].n = t.n
  /\ results[t.identity].stage # "waiting" =>
       results[t.identity].answer = outcome[t.n] /\ ~Live(t)
Claims == \A c \in Callers, t \in Tasks : Holds(c, t) /\ StatusKnown(c, t) => Claim(t)
Finished ==
  \A c \in Callers :
    callPc[c] = "fetch" => results[Head(tasks[c]).identity].stage = "finished"

LEMMA IdentityParts ==
  ASSUME OneAppender, TypeOK, CallShape, UserShape, AppenderShape
  PROVE  IdentitiesApart <=> LiveIdentities /\ LiveOfUsers /\ LiveOfAppenders
<1>1. \A c \in Callers : \A k \in Pending(c) : tasks[c][k] \in Tasks /\ Holds(c, tasks[c][k])
  BY HoldFacts
<1>2. \A c, d \in Callers : \A k \in Pending(c), l \in Pending(d) :
        tasks[c][k].identity = tasks[d][l].identity => d = c
  BY <1>1, HeldOnce
<1>3. LiveIdentities <=>
        \A c \in Callers : \A k \in Pending(c) : \A t \in Tasks :
          Live(t) /\ t.identity = tasks[c][k].identity => t = tasks[c][k]
  BY <1>1 DEF LiveIdentities, Holds
<1>4. LiveOfUsers /\ LiveOfAppenders <=>
        \A t \in Tasks : Live(t) =>
          /\ t.identity >= 0 => \E c \in Users : tasks[c] = <<t>>
          /\ t.identity < 0 => \A a \in Appenders : t.identity >= identity[a] + StatusDue(a)
  BY DEF LiveOfUsers, LiveOfAppenders
<1>5. QED
  BY <1>2, <1>3, <1>4 DEF IdentitiesApart

LEMMA ResultParts ==
  ASSUME TypeOK, CallShape
  PROVE  ResultsOwn <=> Claims /\ Finished
<1>1. \A c \in Callers : \A k \in Pending(c) : tasks[c][k] \in Tasks /\ Holds(c, tasks[c][k])
  BY HoldFacts
<1>2. ASSUME NEW c \in Callers, NEW k \in Pending(c)
      PROVE  k = Len(tasks[c]) <=> tasks[c][k] = Last(tasks[c])
  <2>1. Len(tasks[c]) \in Pending(c) /\ k \in Int /\ Len(tasks[c]) \in Int
        /\ (k < Len(tasks[c]) \/ k = Len(tasks[c]))
    BY PendingFacts DEF Pending, TypeOK
  <2>2. k < Len(tasks[c]) => tasks[c][k].n < tasks[c][Len(tasks[c])].n
    BY <2>1 DEF CallShape
  <2>3. tasks[c][k].n \in Nat /\ tasks[c][Len(tasks[c])].n \in Nat
    BY <2>1, PendingFacts DEF TypeOK
  <2>4. QED
    BY <2>1, <2>2, <2>3 DEF Last
<1>3. \A c \in Callers : \A k \in Pending(c) :
        (callPc[c] = "status" /\ k = Len(tasks[c])) <=> ~StatusKnown(c, tasks[c][k])
  BY <1>2 DEF StatusKnown
<1>4. Claims <=> \A c \in Callers : \A k \in Pending(c) :
                   ~StatusKnown(c, tasks[c][k]) \/ Claim(tasks[c][k])
  BY <1>1 DEF Claims, Holds
<1>5. ResultsOwn <=>
        \A c \in Callers :
          /\ \A k \in Pending(c) : (callPc[c] = "status" /\ k = Len(tasks[c])) \/ Claim(tasks[c][k])
          /\ callPc[c] = "fetch" => results[Head(tasks[c]).identity].stage = "finished"
  BY DEF ResultsOwn, Claim
<1>6. QED
  BY <1>3, <1>4, <1>5 DEF Finished

(* What is asked of a held task whose status was set, at the polls.         *)
LEMMA FirstHeld ==
  ASSUME TypeOK, CallShape, Claims, NEW c \in Callers, callPc[c] \in {"poll", "fetch"}
  PROVE  Holds(c, Head(tasks[c])) /\ Head(tasks[c]) \in Tasks /\ Claim(Head(tasks[c]))
         /\ tasks[c] # <<>>
<1>1. tasks[c] # <<>> /\ tasks[c] \in Seq(Tasks)
  BY PendingFacts DEF CallShape, TypeOK
<1>2. Head(tasks[c]) = tasks[c][1] /\ 1 \in Pending(c) /\ Head(tasks[c]) \in Tasks
  BY <1>1, TailTask DEF Pending
<1>3. Holds(c, Head(tasks[c])) /\ StatusKnown(c, Head(tasks[c]))
  BY <1>2 DEF Holds, StatusKnown
<1>4. QED
  BY <1>1, <1>2, <1>3 DEF Claims

LEMMA IdentitiesApartNext ==
  ASSUME OneAppender, TypeOK, TakenOnce, CallShape, UserShape, AppenderShape,
         LiveIdentities, LiveOfUsers, LiveOfAppenders, Claims, Finished, [Next]_vars
  PROVE  LiveIdentities' /\ LiveOfUsers' /\ LiveOfAppenders'
<1>0. Users \subseteq Callers /\ Appenders \subseteq Callers /\ CallTypeOK
  BY DEF Callers, TypeOK
<1>1. ASSUME NEW c \in Callers, NEW t \in Tasks, NEW u \in Tasks,
             Holds(c, t)', Live(u)', t.identity = u.identity
      PROVE  u = t
  <2>1. /\ Holds(c, t) \/ Pushes(c, t)
        /\ Live(u) \/ \E d \in Callers : Pushes(d, u)
    BY <1>1, HoldSteps, LiveSteps
  <2>2. CASE Holds(c, t) /\ Live(u)
    BY <1>1, <2>2 DEF LiveIdentities
  <2>3. CASE Pushes(c, t) /\ \E d \in Callers : Pushes(d, u)
    BY <2>3, PushesOnce
  <2>4. CASE Holds(c, t) /\ \E d \in Callers : Pushes(d, u)
    BY <1>1, <2>4, PushedApart
  <2>5. CASE Pushes(c, t) /\ Live(u)
    <3>1. CASE c \in Users
      <4>1. u.identity >= 0
        BY <1>1, <2>5, <3>1, PushedIdentity
      <4>2. PICK d \in Users : tasks[d] = <<u>>
        BY <2>5, <4>1 DEF LiveOfUsers
      <4>3. Holds(d, u)
        <5>1. Len(<<u>>) = 1 /\ <<u>>[1] = u
          OBVIOUS
        <5>2. QED
          BY <4>2, <5>1 DEF Holds, Pending
      <4>4. QED
        BY <1>0, <1>1, <2>5, <4>3, PushedApart
    <3>2. CASE c \in Appenders
      <4>1. /\ t.identity = identity[c] /\ t.identity < 0 /\ t.identity \in Int
            /\ StatusDue(c) = 1
        BY <2>5, <3>2, PushedIdentity
      <4>2. u.identity >= identity[c] + 1
        BY <1>1, <2>5, <3>2, <4>1 DEF LiveOfAppenders
      <4>3. QED
        BY <1>1, <4>1, <4>2
    <3>3. QED
      BY <3>1, <3>2 DEF Callers
  <2>6. QED
    BY <2>1, <2>2, <2>3, <2>4, <2>5
<1>2. ASSUME NEW t \in Tasks, Live(t)', t.identity >= 0
      PROVE  \E c \in Users : tasks'[c] = <<t>>
  <2>1. CASE \E c \in Callers : Pushes(c, t)
    <3>1. PICK c \in Callers : Pushes(c, t)
      BY <2>1
    <3>2. c \in Users
      BY <1>2, <3>1, PushedIdentity DEF Callers
    <3>3. QED
      BY <3>1, <3>2, PushedIdentity
  <2>2. CASE Live(t)
    <3>1. PICK c \in Users : tasks[c] = <<t>>
      BY <1>2, <2>2 DEF LiveOfUsers
    <3>2. c \in Callers /\ Head(tasks[c]) = t /\ tasks[c] # <<>>
      BY <1>0, <3>1
    <3>3. ASSUME callPc[c] \in {"poll", "fetch"}
          PROVE  results[t.identity].stage = "waiting"
      BY <2>2, <3>2, <3>3, FirstHeld DEF Claim
    <3>4. ASSUME CallBegins(c) \/ CallGoesOn(c) PROVE tasks'[c] = tasks[c]
      <4>1. CallStep(c)
        BY <3>2, <3>4, CallEffects
      <4>2. ~Polls(c)
        BY <3>2, <3>3 DEF Polls
      <4>3. ~Fetches(c)
        BY <3>2, <3>3 DEF Fetches, Finished
      <4>4. ASSUME NEW u \in Tasks PROVE ~Pushes(c, u)
        BY <3>1, <3>2, PushedIdentity
      <4>5. QED
        BY <4>1, <4>2, <4>3, <4>4 DEF CallStep, UserBegins, AppendBegins, Sets, StandsAside
    <3>5. ASSUME NEW d \in Callers, d # c, CallBegins(d) \/ CallGoesOn(d) PROVE tasks'[c] = tasks[c]
      BY <1>0, <3>2, <3>5, CallFrame
    <3>6. ASSUME NEW w \in Workers, WorkerStep(w) PROVE tasks'[c] = tasks[c]
      BY <3>6, WorkerFrame
    <3>7. UNCHANGED vars => tasks' = tasks
      BY DEF vars, callVars
    <3>8. tasks'[c] = tasks[c]
      BY <3>4, <3>5, <3>6, <3>7 DEF Next
    <3>9. QED
      BY <3>1, <3>8
  <2>3. QED
    BY <1>2, <2>1, <2>2, LiveSteps
<1>3. ASSUME NEW a \in Appenders
      PROVE  identity'[a] + StatusDue(a)' <= identity[a] + StatusDue(a)
  <2>0. a \in Callers /\ identity[a] \in Int /\ StatusDue(a) \in Int /\ a \notin Users
    BY <1>0, PendingFacts, PoolAssumption DEF StatusDue
  <2>1. ASSUME UNCHANGED <<identity[a], callPc[a]>>
        PROVE  identity'[a] + StatusDue(a)' <= identity[a] + StatusDue(a)
    BY <2>0, <2>1 DEF StatusDue
  <2>2. ASSUME CallBegins(a) \/ CallGoesOn(a)
        PROVE  identity'[a] + StatusDue(a)' <= identity[a] + StatusDue(a)
    <3>1. CallStep(a) /\ ~UserBegins(a)
      BY <2>0, <2>2, CallEffects DEF UserBegins
    <3>2. ASSUME NEW t \in Tasks, Pushes(a, t)
          PROVE  identity'[a] = identity[a] /\ StatusDue(a) = 1 /\ StatusDue(a)' = 0
      BY <3>2 DEF Pushes, StatusDue
    <3>3. ASSUME NEW t \in Tasks, Sets(a, t)
          PROVE  identity'[a] = identity[a] - 1 /\ StatusDue(a) = 0 /\ StatusDue(a)' = 1
      BY <3>3 DEF Sets, StatusDue
    <3>4. ASSUME AppendBegins(a) \/ Polls(a) \/ Fetches(a) \/ StandsAside(a)
          PROVE  identity'[a] = identity[a] /\ StatusDue(a) = 1 /\ StatusDue(a)' = 1
      BY <3>4 DEF AppendBegins, Polls, Fetches, StandsAside, StatusDue, Aside
    <3>5. QED
      BY <2>0, <3>1, <3>2, <3>3, <3>4 DEF CallStep
  <2>3. ASSUME NEW d \in Callers, d # a, CallBegins(d) \/ CallGoesOn(d)
        PROVE  UNCHANGED <<identity[a], callPc[a]>>
    BY <1>0, <2>0, <2>3, CallFrame
  <2>4. ASSUME NEW w \in Workers, WorkerStep(w) PROVE UNCHANGED <<identity[a], callPc[a]>>
    BY <2>4, WorkerFrame
  <2>5. UNCHANGED vars => UNCHANGED <<identity[a], callPc[a]>>
    BY DEF vars, callVars
  <2>6. QED
    BY <2>1, <2>2, <2>3, <2>4, <2>5 DEF Next
<1>4. ASSUME NEW t \in Tasks, NEW a \in Appenders, Live(t)', t.identity < 0
      PROVE  t.identity >= identity'[a] + StatusDue(a)'
  <2>0. /\ a \in Callers /\ identity[a] \in Int /\ StatusDue(a) \in Int /\ t.identity \in Int
        /\ StatusDue(a)' \in Int
    BY <1>0, PendingFacts, TaskFacts DEF StatusDue
  <2>1. CASE Live(t)
    <3>1. t.identity >= identity[a] + StatusDue(a)
      BY <1>4, <2>1 DEF LiveOfAppenders
    <3>2. identity'[a] \in Int
      <4>1. CallTypeOK'
        BY CallTypeNext
      <4>2. QED
        BY <2>0, <4>1 DEF CallTypeOK
    <3>3. QED
      BY <1>3, <2>0, <3>1, <3>2
  <2>2. CASE \E c \in Callers : Pushes(c, t)
    <3>1. PICK c \in Callers : Pushes(c, t)
      BY <2>2
    <3>2. c \in Appenders
      BY <1>4, <2>0, <3>1, PushedIdentity DEF Callers
    <3>3. c = a
      BY <3>2 DEF OneAppender
    <3>4. t.identity = identity[a] /\ identity'[a] = identity[a] /\ StatusDue(a)' = 0
      BY <3>1, <3>2, <3>3, PushedIdentity
    <3>5. QED
      BY <2>0, <3>4
  <2>3. QED
    BY <1>4, <2>1, <2>2, LiveSteps
<1>5. QED
  BY <1>1, <1>2, <1>4 DEF LiveIdentities, LiveOfUsers, LiveOfAppenders

(* A task whose result is reported is live no more.                         *)
LEMMA ReportedGone ==
  ASSUME TypeOK, TakenOnce, NEW w \in Workers, WorkerStep(w), Reports(w),
         NEW t \in Tasks, t = task[w]
  PROVE  Live(t) /\ ~Live(t)'
<1>1. /\ Running(w) /\ t.n \in 1 .. Len(started)
      /\ \A v \in Workers : Running(v) /\ task[v] = t => v = w
  BY DEF Reports, TakenOnce, Running
<1>2. ASSUME NEW i \in 1 .. Len(queue), queue[i] = t PROVE FALSE
  <2>1. i <= Left /\ t.n = Len(started) + i
    BY <1>2, TaskFacts DEF TakenOnce, TakenInOrder
  <2>2. QED
    BY <1>1, <2>1, QueueFacts
<1>3. ~OnQueue(t)'
  BY <1>2 DEF OnQueue, Reports
<1>4. ASSUME NEW v \in Workers, Running(v)', task'[v] = t PROVE FALSE
  <2>1. v # w
    BY <1>4 DEF Reports, Running
  <2>2. pc'[v] = pc[v] /\ task'[v] = task[v]
    BY <2>1, WorkerEffects
  <2>3. QED
    BY <1>1, <1>4, <2>1, <2>2 DEF Running
<1>5. QED
  BY <1>1, <1>3, <1>4 DEF Live

LEMMA ClaimsNext ==
  ASSUME OneAppender, TypeOK, TakenOnce, CallShape, UserShape, AppenderShape, LiveApart,
         LiveIdentities, Claims, [Next]_vars,
         NEW c \in Callers, NEW t \in Tasks, Holds(c, t)', StatusKnown(c, t)'
  PROVE  Claim(t)'
<1>0. pushed \in Nat /\ t.n \in Nat /\ CallTypeOK
  BY QueueFacts, TaskFacts DEF TypeOK
<1>1. ASSUME Holds(c, t), StatusKnown(c, t), outcome' = outcome,
             results'[t.identity] = results[t.identity], Live(t)' => Live(t)
      PROVE  Claim(t)'
  BY <1>1 DEF Claims, Claim
<1>2. ASSUME NEW d \in Callers, CallBegins(d) \/ CallGoesOn(d) PROVE Claim(t)'
  <2>1. /\ CallStep(d) /\ outcome' = outcome
        /\ c # d => tasks'[c] = tasks[c] /\ callPc'[c] = callPc[c]
    BY <1>2, <1>0, CallEffects, CallFrame
  <2>2. c # d => StatusKnown(c, t)
    BY <2>1 DEF StatusKnown
  <2>3. ASSUME NEW u \in Tasks, Pushes(d, u) PROVE Claim(t)'
    <3>1. t # u
      <4>1. ASSUME t = u PROVE FALSE
        <5>1. t.n = pushed + 1
          BY <2>3, <4>1 DEF Pushes
        <5>2. Pushes(c, t)
          BY <1>0, <5>1, HoldSteps, HoldFacts
        <5>3. c = d
          BY <2>3, <5>2, PushesOnce
        <5>4. /\ tasks'[c] = Append(tasks[c], t) /\ callPc'[c] = "status"
              /\ tasks[c] \in Seq(Tasks)
          BY <1>0, <5>2, PendingFacts DEF Pushes
        <5>5. Len(tasks'[c]) = Len(tasks[c]) + 1 /\ tasks'[c][Len(tasks[c]) + 1] = t
          BY <5>4, AppendTask
        <5>6. QED
          BY <5>4, <5>5 DEF StatusKnown, Last
      <4>2. QED
        BY <4>1
    <3>2. \A x \in Callers : ~Pushes(x, t)
      BY <2>3, <3>1, PushesOnce
    <3>3. Holds(c, t) /\ (Live(t)' => Live(t))
      BY <3>2, HoldSteps, LiveSteps
    <3>4. StatusKnown(c, t) /\ results' = results
      BY <2>2, <2>3 DEF StatusKnown, Pushes
    <3>5. QED
      BY <1>1, <2>1, <3>3, <3>4
  <2>4. ASSUME pushed' = pushed
        PROVE  Holds(c, t) /\ (Live(t)' => Live(t))
    <3>1. \A x \in Callers : ~Pushes(x, t)
      BY <1>0, <2>4 DEF Pushes
    <3>2. QED
      BY <3>1, HoldSteps, LiveSteps
  <2>5. ASSUME NEW u \in Tasks, Sets(d, u) PROVE Claim(t)'
    <3>1. /\ pushed' = pushed /\ callPc[d] = "status" /\ u = Last(tasks[d])
          /\ results' = [results EXCEPT ![identity[d]] = Waiting(u.n)]
      BY <2>5 DEF Sets, Last
    <3>2. Holds(c, t) /\ (Live(t)' => Live(t))
      BY <2>4, <3>1
    <3>3. u.identity = identity[d] /\ Holds(d, u)
      <4>1. tasks[d] # <<>> /\ tasks[d] \in Seq(Tasks) /\ Len(tasks[d]) \in Nat
        BY <1>0, <3>1, PendingFacts DEF CallShape
      <4>2. Len(tasks[d]) \in Pending(d) /\ tasks[d][Len(tasks[d])] = u
        BY <3>1, <4>1 DEF Pending, Last
      <4>3. d \in Users => u.identity = identity[d]
        BY <4>2 DEF UserShape
      <4>4. d \in Appenders => u.identity = identity[d] + Len(tasks[d]) - Len(tasks[d]) + 0
        BY <3>1, <4>2 DEF AppenderShape, StatusDue
      <4>5. identity[d] \in Int
        BY <1>0, PendingFacts
      <4>6. QED
        BY <4>1, <4>2, <4>3, <4>4, <4>5 DEF Holds, Callers
    <3>4. results \in [Identities -> Results] /\ t.identity \in Identities
      BY TaskFacts DEF TypeOK, QueueTypeOK
    <3>5. CASE t.identity = u.identity
      <4>1. t = u
        BY <3>2, <3>3, <3>5, HeldOnce
      <4>2. results'[t.identity] = Waiting(t.n)
        BY <3>1, <3>3, <3>4, <4>1
      <4>3. QED
        BY <4>2 DEF Claim, Waiting
    <3>6. CASE t.identity # u.identity
      <4>1. results'[t.identity] = results[t.identity]
        BY <3>1, <3>3, <3>4, <3>6
      <4>2. StatusKnown(c, t)
        BY <2>2, <3>1, <3>6 DEF StatusKnown
      <4>3. QED
        BY <1>1, <2>1, <3>2, <4>1, <4>2
    <3>7. QED
      BY <3>5, <3>6
  <2>6. CASE Fetches(d)
    <3> DEFINE h == Head(tasks[d])
    <3>1. pushed' = pushed /\ callPc[d] = "fetch" /\ results' = [results EXCEPT ![h.identity] = NoResult]
          /\ tasks'[d] = Tail(tasks[d])
      BY <2>6 DEF Fetches
    <3>2. Holds(c, t) /\ (Live(t)' => Live(t)) /\ StatusKnown(c, t)
      BY <2>2, <2>4, <3>1 DEF StatusKnown
    <3>3. Holds(d, h) /\ h \in Tasks /\ tasks[d] # <<>>
      BY <3>1, FirstHeld
    <3>4. t.identity # h.identity
      <4>1. ASSUME t.identity = h.identity PROVE FALSE
        <5>1. c = d /\ t = h
          BY <3>2, <3>3, <4>1, HeldOnce
        <5>2. /\ tasks[d] \in Seq(Tasks) /\ Len(tasks[d]) \in Nat
              /\ Len(tasks'[d]) = Len(tasks[d]) - 1 /\ h = tasks[d][1] /\ 1 \in 1 .. Len(tasks[d])
              /\ \A k \in 1 .. Len(tasks[d]) - 1 : tasks'[d][k] = tasks[d][k + 1]
          BY <1>0, <3>1, <3>3, PendingFacts, TailTask
        <5>3. PICK k \in 1 .. Len(tasks'[d]) : tasks'[d][k] = t
          BY <5>1 DEF Holds, Pending
        <5>4. k \in Nat /\ k + 1 \in Pending(d) /\ 1 \in Pending(d) /\ tasks[d][k + 1] = tasks[d][1]
              /\ k + 1 # 1
          BY <5>1, <5>2, <5>3 DEF Pending
        <5>5. QED
          BY <5>4, OwnApart
      <4>2. QED
        BY <4>1
    <3>5. results'[t.identity] = results[t.identity]
      BY <3>1, <3>4, TaskFacts DEF TypeOK, QueueTypeOK
    <3>6. QED
      BY <1>1, <2>1, <3>2, <3>5
  <2>7. CASE UserBegins(d) \/ AppendBegins(d) \/ Polls(d) \/ StandsAside(d)
    <3>1. pushed' = pushed /\ results' = results /\ callPc[d] # "status"
      BY <2>7 DEF UserBegins, AppendBegins, Polls, StandsAside, Aside
    <3>2. StatusKnown(c, t)
      BY <2>2, <3>1 DEF StatusKnown
    <3>3. QED
      BY <1>1, <2>1, <2>4, <3>1, <3>2
  <2>8. QED
    BY <2>1, <2>3, <2>5, <2>6, <2>7 DEF CallStep
<1>3. ASSUME UNCHANGED <<callPc, tasks, pushed>>
      PROVE  Holds(c, t) /\ StatusKnown(c, t) /\ (Live(t)' => Live(t))
  <2>1. \A x \in Callers : ~Pushes(x, t)
    BY <1>0, <1>3 DEF Pushes
  <2>2. QED
    BY <1>3, <2>1, HoldSteps, LiveSteps DEF StatusKnown
<1>4. ASSUME NEW w \in Workers, WorkerStep(w) PROVE Claim(t)'
  <2>1. Holds(c, t) /\ StatusKnown(c, t) /\ (Live(t)' => Live(t)) /\ Claim(t)
    BY <1>3, <1>4, WorkerFrame DEF Claims
  <2>2. (\E u \in Tasks : Takes(w, u)) \/ Runs(w) \/ Reports(w) \/ Rests(w)
    BY <1>4, WorkerEffects
  <2>3. CASE (\E u \in Tasks : Takes(w, u)) \/ Rests(w)
    BY <1>1, <2>1, <2>3 DEF Takes, Rests
  <2>4. CASE Runs(w)
    <3>1. Running(w) /\ task[w] \in Tasks
      BY <2>4 DEF Runs, Running, TakenOnce
    <3>2. results' = results
      BY <2>4 DEF Runs
    <3>3. CASE task[w].n = t.n
      <4>1. Live(task[w])
        BY <3>1 DEF Live
      <4>2. task[w] = t
        BY <2>1, <3>1, <3>3, <4>1 DEF LiveApart
      <4>3. results[t.identity].stage = "waiting" /\ results[t.identity].n = t.n
        BY <2>1, <4>1, <4>2 DEF Claim
      <4>4. QED
        BY <3>2, <4>3 DEF Claim
    <3>4. CASE task[w].n # t.n
      <4>1. outcome'[t.n] = outcome[t.n]
        <5>1. t.n \in 1 .. MaxTasks /\ outcome \in [1 .. MaxTasks -> {"none"} \cup Answers]
          BY TaskFacts DEF TypeOK, HistoryTypeOK
        <5>2. QED
          BY <2>4, <3>4, <5>1 DEF Runs
      <4>2. QED
        BY <2>1, <3>2, <4>1 DEF Claim
    <3>5. QED
      BY <3>3, <3>4
  <2>5. CASE Reports(w)
    <3>1. /\ task[w] \in Tasks /\ answer[w] = outcome[task[w].n] /\ outcome' = outcome
          /\ results' = [results EXCEPT ![task[w].identity] =
               [stage |-> IF answer[w] = "error" THEN "errored" ELSE "finished",
                answer |-> answer[w], n |-> task[w].n]]
      BY <2>5 DEF Reports, TakenOnce, Running
    <3>2. results \in [Identities -> Results] /\ t.identity \in Identities
      BY TaskFacts DEF TypeOK, QueueTypeOK
    <3>3. CASE task[w].identity = t.identity
      <4>1. Live(task[w])
        BY <1>4, <2>5, <3>1, ReportedGone
      <4>2. task[w] = t
        BY <2>1, <3>1, <3>3, <4>1 DEF LiveIdentities
      <4>3. ~Live(t)'
        BY <1>4, <2>5, <4>2, ReportedGone
      <4>4. results'[t.identity].n = t.n /\ results'[t.identity].answer = outcome'[t.n]
        BY <3>1, <3>2, <4>2
      <4>5. QED
        BY <4>3, <4>4 DEF Claim
    <3>4. CASE task[w].identity # t.identity
      <4>1. results'[t.identity] = results[t.identity]
        BY <3>1, <3>2, <3>4
      <4>2. QED
        BY <1>1, <2>1, <3>1, <4>1
    <3>5. QED
      BY <3>3, <3>4
  <2>6. QED
    BY <2>2, <2>3, <2>4, <2>5
<1>5. CASE UNCHANGED vars
  <2>1. UNCHANGED <<callPc, tasks, pushed, outcome, results>>
    BY <1>5 DEF vars, callVars, histVars
  <2>2. QED
    BY <1>1, <1>3, <2>1
<1>6. QED
  BY <1>2, <1>4, <1>5 DEF Next

LEMMA FinishedNext ==
  ASSUME OneAppender, TypeOK, TakenOnce, CallShape, UserShape, AppenderShape,
         LiveIdentities, Claims, Finished, [Next]_vars,
         NEW c \in Callers, callPc'[c] = "fetch"
  PROVE  results'[Head(tasks'[c]).identity].stage = "finished"
<1> DEFINE h == Head(tasks[c])
<1>0. CallTypeOK /\ results \in [Identities -> Results]
  BY DEF TypeOK, QueueTypeOK
<1>1. ASSUME callPc[c] = "fetch"
      PROVE  /\ Holds(c, h) /\ h \in Tasks /\ h.identity \in Identities
             /\ results[h.identity].stage = "finished" /\ ~Live(h)
  BY <1>1, FirstHeld, TaskFacts DEF Finished, Claim
<1>2. ASSUME CallBegins(c) \/ CallGoesOn(c)
      PROVE  results'[Head(tasks'[c]).identity].stage = "finished"
  <2>1. CallStep(c)
    BY <1>2, CallEffects
  <2>2. Polls(c)
    BY <2>1 DEF CallStep, UserBegins, AppendBegins, Pushes, Sets, Fetches, StandsAside, Aside
  <2>3. QED
    BY <2>2 DEF Polls
<1>3. ASSUME NEW d \in Callers, d # c, CallBegins(d) \/ CallGoesOn(d)
      PROVE  results'[Head(tasks'[c]).identity].stage = "finished"
  <2>1. CallStep(d) /\ tasks'[c] = tasks[c] /\ callPc[c] = "fetch"
    BY <1>0, <1>3, CallEffects, CallFrame
  <2>2. ASSUME NEW u \in Tasks, Sets(d, u)
        PROVE  results'[h.identity] = results[h.identity]
    <3>1. /\ callPc[d] = "status" /\ u = tasks[d][Len(tasks[d])]
          /\ results' = [results EXCEPT ![identity[d]] = Waiting(u.n)]
      BY <2>2 DEF Sets
    <3>2. tasks[d] # <<>> /\ tasks[d] \in Seq(Tasks) /\ Len(tasks[d]) \in Nat
      BY <1>0, <3>1, PendingFacts DEF CallShape
    <3>3. Len(tasks[d]) \in Pending(d) /\ tasks[d][Len(tasks[d])] = u
      BY <3>1, <3>2 DEF Pending
    <3>4. d \in Users => u.identity = identity[d]
      BY <3>3 DEF UserShape
    <3>5. d \in Appenders => u.identity = identity[d] + Len(tasks[d]) - Len(tasks[d]) + 0
      BY <3>1, <3>3 DEF AppenderShape, StatusDue
    <3>6. identity[d] \in Int
      BY <1>0, PendingFacts
    <3>7. u.identity = identity[d] /\ Holds(d, u)
      BY <3>2, <3>3, <3>4, <3>5, <3>6 DEF Holds, Callers
    <3>8. h.identity # u.identity
      BY <1>1, <1>3, <2>1, <3>7, HeldOnce
    <3>9. QED
      BY <1>0, <1>1, <2>1, <3>1, <3>7, <3>8
  <2>3. ASSUME Fetches(d)
        PROVE  results'[h.identity] = results[h.identity]
    <3>1. Holds(d, Head(tasks[d])) /\ Head(tasks[d]) \in Tasks
      BY <2>3, FirstHeld DEF Fetches
    <3>2. h.identity # Head(tasks[d]).identity
      BY <1>1, <1>3, <2>1, <3>1, HeldOnce
    <3>3. QED
      BY <1>0, <1>1, <2>1, <2>3, <3>2 DEF Fetches
  <2>4. ASSUME ~(\E u \in Tasks : Sets(d, u)), ~Fetches(d) PROVE results' = results
    BY <2>1, <2>4 DEF CallStep, UserBegins, AppendBegins, Pushes, Polls, StandsAside
  <2>5. QED
    BY <1>1, <2>1, <2>2, <2>3, <2>4
<1>4. ASSUME NEW w \in Workers, WorkerStep(w)
      PROVE  results'[Head(tasks'[c]).identity].stage = "finished"
  <2>1. tasks' = tasks /\ callPc[c] = "fetch"
    BY <1>4, WorkerFrame
  <2>2. results' = results \/ Reports(w)
    BY <1>4, WorkerEffects DEF Takes, Runs, Rests
  <2>3. ASSUME Reports(w) PROVE results'[h.identity] = results[h.identity]
    <3>1. task[w] \in Tasks
      BY <2>3 DEF Reports, TakenOnce, Running
    <3>2. Live(task[w])
      BY <1>4, <2>3, <3>1, ReportedGone
    <3>3. task[w].identity # h.identity
      BY <1>1, <2>1, <3>1, <3>2 DEF LiveIdentities
    <3>4. QED
      BY <1>0, <1>1, <2>1, <2>3, <3>3 DEF Reports
  <2>4. QED
    BY <1>1, <2>1, <2>2, <2>3
<1>5. CASE UNCHANGED vars
  <2>1. UNCHANGED <<callPc, tasks, results>>
    BY <1>5 DEF vars, callVars
  <2>2. QED
    BY <1>1, <2>1
<1>6. QED
  BY <1>2, <1>3, <1>4, <1>5 DEF Next

LEMMA OwnInit ==
  ASSUME Init
  PROVE  OwnInv
<1>1. /\ \A c \in Callers : callPc[c] = "idle" /\ tasks[c] = <<>>
      /\ queue = <<>> /\ \A w \in Workers : pc[w] = "top"
  BY DEF Init
<1>2. ASSUME NEW c \in Callers PROVE Pending(c) = {}
  BY <1>1 DEF Pending
<1>3. \A t \in Tasks : ~Live(t)
  BY <1>1 DEF Live, OnQueue, Running
<1>4. IdentitiesApart
  BY <1>2, <1>3 DEF IdentitiesApart
<1>5. ResultsOwn
  BY <1>1, <1>2 DEF ResultsOwn
<1>6. QED
  BY <1>4, <1>5 DEF OwnInv

LEMMA OwnNext ==
  ASSUME OneAppender, PoolInv, PoolInv', OwnInv, [Next]_vars
  PROVE  OwnInv'
<1>1. TypeOK /\ TakenOnce /\ CallShape /\ UserShape /\ AppenderShape /\ NumbersApart
  BY DEF PoolInv
<1>2. (TypeOK /\ CallShape /\ UserShape /\ AppenderShape)'
  BY DEF PoolInv
<1>3. /\ LiveApart /\ LiveIdentities /\ LiveOfUsers /\ LiveOfAppenders /\ Claims /\ Finished
  BY <1>1, NumberParts, IdentityParts, ResultParts DEF OwnInv, TypeOK
<1>4. LiveIdentities' /\ LiveOfUsers' /\ LiveOfAppenders'
  BY <1>1, <1>3, IdentitiesApartNext
<1>5. Claims'
  BY <1>1, <1>3, ClaimsNext DEF Claims
<1>6. Finished'
  BY <1>1, <1>3, FinishedNext DEF Finished
<1>7. IdentitiesApart'
  <2>1. (OneAppender /\ TypeOK /\ CallShape /\ UserShape /\ AppenderShape
         => (IdentitiesApart <=> LiveIdentities /\ LiveOfUsers /\ LiveOfAppenders))'
    BY IdentityParts, PTL
  <2>2. OneAppender'
    BY DEF OneAppender
  <2>3. QED
    BY <1>2, <1>4, <2>1, <2>2
<1>8. ResultsOwn'
  <2>1. (TypeOK /\ CallShape => (ResultsOwn <=> Claims /\ Finished))'
    BY ResultParts, PTL
  <2>2. QED
    BY <1>2, <1>5, <1>6, <2>1
<1>9. QED
  BY <1>7, <1>8 DEF OwnInv

LEMMA OwnTold ==
  ASSUME PoolInv, OwnInv
  PROVE  TasksInOrder
<1>1. TypeOK /\ TakenInOrder /\ CallShape
  BY DEF PoolInv, TakenOnce
<1>2. Claims /\ Finished
  BY <1>1, ResultParts DEF OwnInv
<1>3. ToldOfOwnTask
  BY <1>1, <1>2, FirstHeld DEF ToldOfOwnTask, Claim, Finished
<1>4. QED
  BY <1>1, <1>3 DEF TasksInOrder, ReportsOwnTask

(* Where at most one appender works on the pool, what a caller is told of   *)
(* an identity is what became of the task it has pushed, never of an        *)
(* earlier task of that identity, and what getData() finds is finished      *)
(* (TaskStatusMgmt, DBConnectionPoolImpl); the latch and the order of the   *)
(* tasks are as TakenInOrderCorrect says.                                   *)
THEOREM TasksInOrderCorrect ==
  ASSUME OneAppender
  PROVE  Spec => []TasksInOrder
<1>1. Init => PoolInv /\ OwnInv
  BY PoolInit, OwnInit
<1>2. PoolInv /\ OwnInv /\ [Next]_vars => PoolInv' /\ OwnInv'
  BY PoolNext, OwnNext
<1>3. PoolInv /\ OwnInv => TasksInOrder
  BY OwnTold
<1>4. QED
  BY <1>1, <1>2, <1>3, PTL DEF Spec

-----------------------------------------------------------------------------
(* What append() counts                                                     *)

Counting(c) == affected[c] + Len(tasks[c]) + StatusDue(c) = firstId[c] - identity[c] + 1
CountsRight == \A c \in Appenders : callPc[c] \in Calling => Counting(c) \/ NullAnswered
NullsAnswered == \A i \in Identities : results[i].answer = "null" => NullAnswered
AnswersOnce ==
  /\ \A n \in 1 .. MaxTasks : n > Len(started) => outcome[n] = "none"
  /\ \A w \in Workers : pc[w] = "run" => outcome[task[w].n] = "none"

LEMMA AffectedParts ==
  /\ AffectedInv <=> CountsRight /\ NullsAnswered /\ AnswersOnce
  /\ AffectedInv' <=> CountsRight' /\ NullsAnswered' /\ AnswersOnce'
BY DEF AffectedInv, CountsRight, NullsAnswered, AnswersOnce, Counting, Calling

LEMMA AffectedInit == Init => AffectedInv
<1> SUFFICES ASSUME Init PROVE AffectedInv
  OBVIOUS
<1>1. /\ \A c \in Callers : callPc[c] = "idle"
      /\ results = [i \in Identities |-> NoResult]
      /\ outcome = [n \in 1 .. MaxTasks |-> "none"]
      /\ \A w \in Workers : pc[w] = "top"
  BY DEF Init
<1>2. QED
  BY <1>1 DEF AffectedInv, Callers, NoResult

LEMMA AnswersOnceNext ==
  ASSUME PoolInv, AnswersOnce, [Next]_vars
  PROVE  AnswersOnce' /\ (NullAnswered => NullAnswered')
<1>0. TypeOK /\ TakenOnce /\ TasksApart /\ Len(started) \in Nat
      /\ outcome \in [1 .. MaxTasks -> {"none"} \cup Answers]
      /\ started \in Seq(1 .. MaxTasks)
  BY TakenParts, QueueFacts DEF PoolInv, TypeOK, HistoryTypeOK
<1>1. ASSUME UNCHANGED <<pc, task, started, outcome>>
      PROVE  AnswersOnce' /\ (NullAnswered => NullAnswered')
  BY <1>1 DEF AnswersOnce, NullAnswered
<1>2. ASSUME NEW c \in Callers, CallBegins(c) \/ CallGoesOn(c)
      PROVE  UNCHANGED <<pc, task, started, outcome>>
  BY <1>0, <1>2, CallFrame DEF TypeOK
<1>3. ASSUME NEW w \in Workers, WorkerStep(w)
      PROVE  AnswersOnce' /\ (NullAnswered => NullAnswered')
  <2>1. /\ (\E t \in Tasks : Takes(w, t)) \/ Runs(w) \/ Reports(w) \/ Rests(w)
        /\ \A v \in Workers : v # w => UNCHANGED <<pc[v], task[v], answer[v]>>
    BY <1>0, <1>3, WorkerEffects
  <2>2. ASSUME NEW t \in Tasks, Takes(w, t)
        PROVE  AnswersOnce' /\ (NullAnswered => NullAnswered')
    <3>1. t.n = Len(started) + 1 /\ t.n \in 1 .. MaxTasks
      BY <1>0, <2>2, HeadIsNext, TaskFacts DEF Takes
    <3>2. Len(started') = Len(started) + 1 /\ outcome' = outcome
      BY <1>0, <2>2 DEF Takes
    <3>3. \A n \in 1 .. MaxTasks : n > Len(started') => outcome'[n] = "none"
      BY <1>0, <3>2 DEF AnswersOnce
    <3>4. pc'[w] = "run" => outcome'[task'[w].n] = "none"
      BY <1>0, <2>2, <3>1, <3>2 DEF Takes, AnswersOnce
    <3>5. \A v \in Workers : pc'[v] = "run" => outcome'[task'[v].n] = "none"
      BY <2>1, <3>2, <3>4 DEF AnswersOnce
    <3>6. QED
      BY <3>2, <3>3, <3>5 DEF AnswersOnce, NullAnswered
  <2>3. CASE Runs(w)
    <3>1. /\ Running(w) /\ task[w].n \in 1 .. Len(started) /\ started' = started
          /\ outcome' = [outcome EXCEPT ![task[w].n] = answer'[w]]
          /\ outcome[task[w].n] = "none"
      BY <1>0, <2>3 DEF Runs, Running, TakenOnce, AnswersOnce
    <3>2. \A n \in 1 .. MaxTasks : n # task[w].n => outcome'[n] = outcome[n]
      BY <1>0, <3>1
    <3>3. \A n \in 1 .. MaxTasks : n > Len(started') => outcome'[n] = "none"
      BY <1>0, <3>1, <3>2 DEF AnswersOnce
    <3>4. ASSUME NEW v \in Workers, pc'[v] = "run" PROVE outcome'[task'[v].n] = "none"
      <4>1. v # w
        BY <2>3, <3>4 DEF Runs
      <4>2. pc[v] = "run" /\ task'[v] = task[v]
        BY <2>1, <3>4, <4>1
      <4>3. task[v].n # task[w].n /\ task[v].n \in 1 .. MaxTasks
        <5>1. Running(v) /\ task[v] \in Tasks
          BY <1>0, <4>2 DEF Running, TakenOnce
        <5>2. QED
          BY <1>0, <3>1, <4>1, <5>1, TaskFacts DEF TasksApart
      <4>4. QED
        BY <3>2, <4>2, <4>3 DEF AnswersOnce
    <3>5. NullAnswered => NullAnswered'
      BY <3>1, <3>2 DEF NullAnswered
    <3>6. QED
      BY <3>3, <3>4, <3>5 DEF AnswersOnce
  <2>4. CASE Reports(w) \/ Rests(w)
    <3>1. started' = started /\ outcome' = outcome /\ pc'[w] # "run"
      BY <2>4 DEF Reports, Rests
    <3>2. \A v \in Workers : pc'[v] = "run" => pc[v] = "run" /\ task'[v] = task[v]
      BY <2>1, <3>1
    <3>3. QED
      BY <3>1, <3>2 DEF AnswersOnce, NullAnswered
  <2>5. QED
    BY <2>1, <2>2, <2>3, <2>4
<1>4. UNCHANGED vars => UNCHANGED <<pc, task, started, outcome>>
  BY DEF vars, workerVars, histVars
<1>5. QED
  BY <1>1, <1>2, <1>3, <1>4 DEF Next

LEMMA NullsAnsweredNext ==
  ASSUME PoolInv, NullsAnswered, AnswersOnce, [Next]_vars
  PROVE  NullsAnswered'
<1>0. TypeOK /\ TakenOnce /\ CallShape /\ UserShape /\ AppenderShape
      /\ results \in [Identities -> Results]
  BY DEF PoolInv, TypeOK, QueueTypeOK
<1>1. NullAnswered => NullAnswered'
  BY AnswersOnceNext
<1>2. ASSUME NEW i, NEW r, r.answer = "null" => NullAnswered',
             results' = [results EXCEPT ![i] = r] \/ results' = results
      PROVE  NullsAnswered'
  <2>1. \A j \in Identities : results'[j] = results[j] \/ results'[j] = r
    BY <1>0, <1>2
  <2>2. QED
    BY <1>1, <1>2, <2>1 DEF NullsAnswered
<1>3. ASSUME results' = results PROVE NullsAnswered'
  BY <1>1, <1>3 DEF NullsAnswered
<1>4. ASSUME NEW c \in Callers, CallBegins(c) \/ CallGoesOn(c)
      PROVE  NullsAnswered'
  <2>1. CallStep(c)
    BY <1>0, <1>4, CallEffects
  <2>2. (\E i, n : results' = [results EXCEPT ![i] = Waiting(n)])
        \/ (\E i : results' = [results EXCEPT ![i] = NoResult]) \/ results' = results
    BY <2>1 DEF CallStep, UserBegins, AppendBegins, Pushes, Sets, Polls, Fetches, StandsAside
  <2>3. NoResult.answer # "null" /\ \A n : Waiting(n).answer # "null"
    BY DEF NoResult, Waiting
  <2>4. QED
    BY <1>2, <1>3, <2>2, <2>3
<1>5. ASSUME NEW w \in Workers, WorkerStep(w) PROVE NullsAnswered'
  <2>1. results' = results \/ Reports(w)
    BY <1>0, <1>5, WorkerEffects DEF Takes, Runs, Rests
  <2>2. ASSUME Reports(w) PROVE NullsAnswered'
    <3> DEFINE r == [stage |-> IF answer[w] = "error" THEN "errored" ELSE "finished",
                     answer |-> answer[w], n |-> task[w].n]
    <3>1. r.answer = answer[w] /\ results' = [results EXCEPT ![task[w].identity] = r]
      BY <2>2 DEF Reports
    <3>2. answer[w] = outcome[task[w].n] /\ task[w].n \in 1 .. MaxTasks
      BY <1>0, <2>2, TaskFacts DEF Reports, TakenOnce, Running
    <3>3. answer[w] = "null" => NullAnswered
      BY <3>2 DEF NullAnswered
    <3> HIDE DEF r
    <3>4. QED
      BY <1>1, <1>2, <3>1, <3>3
  <2>3. QED
    BY <1>3, <2>1, <2>2
<1>6. UNCHANGED vars => results' = results
  BY DEF vars
<1>7. QED
  BY <1>3, <1>4, <1>5, <1>6 DEF Next

(* What the last fetch of an append() leaves.                               *)
LEMMA LastFetch ==
  ASSUME PoolInv, CountsRight, NullsAnswered, NEW c \in Appenders, Fetches(c)
  PROVE  \/ NullAnswered
         \/ /\ affected'[c] + Len(tasks'[c]) = firstId[c] - identity[c]
            /\ Len(tasks[c]) = 1 => affected'[c] = firstId[c] - identity[c]
<1>0. TypeOK /\ CallTypeOK /\ CallShape /\ c \in Callers
  BY DEF PoolInv, TypeOK, Callers
<1>1. tasks[c] # <<>> /\ tasks[c] \in Seq(Tasks) /\ callPc[c] = "fetch"
  BY <1>0, PendingFacts DEF Fetches, CallShape
<1>2. /\ Head(tasks[c]).identity \in Identities /\ tasks'[c] = Tail(tasks[c])
      /\ Len(tasks[c]) \in Nat /\ Len(tasks'[c]) = Len(tasks[c]) - 1
  BY <1>1, TailTask, TaskFacts DEF Fetches
<1>3. CASE results[Head(tasks[c]).identity].answer = "null"
  BY <1>2, <1>3 DEF NullsAnswered
<1>4. CASE results[Head(tasks[c]).identity].answer # "null"
  <2>1. affected'[c] = affected[c] + 1 /\ StatusDue(c) = 1
    BY <1>1, <1>4 DEF Fetches, Counted, StatusDue
  <2>2. NullAnswered \/ affected[c] + Len(tasks[c]) + 1 = firstId[c] - identity[c] + 1
    BY <1>1, <2>1 DEF CountsRight, Counting, Calling
  <2>3. affected[c] \in Nat /\ firstId[c] \in Int /\ identity[c] \in Int
    BY <1>0 DEF CallTypeOK
  <2> DEFINE m == Len(tasks[c])
             k == Len(tasks'[c])
  <2>a. k = m - 1 /\ m \in Nat
    BY <1>2
  <2> HIDE DEF m, k
  <2>4. ASSUME affected[c] + m + 1 = firstId[c] - identity[c] + 1
        PROVE  affected'[c] + k = firstId[c] - identity[c]
    BY <2>a, <2>1, <2>3, <2>4
  <2>5. ASSUME affected'[c] + k = firstId[c] - identity[c], m = 1
        PROVE  affected'[c] = firstId[c] - identity[c]
    BY <2>a, <2>1, <2>3, <2>5
  <2>6. QED
    BY <2>2, <2>4, <2>5 DEF m, k
<1>5. QED
  BY <1>3, <1>4

LEMMA CountsRightNext ==
  ASSUME PoolInv, CountsRight, NullsAnswered, AnswersOnce, [Next]_vars
  PROVE  CountsRight'
<1>0. /\ TypeOK /\ CallTypeOK /\ CallShape /\ UserShape /\ AppenderShape
      /\ Appenders \subseteq Callers /\ Users \cap Appenders = {}
  BY PoolAssumption DEF PoolInv, TypeOK, Callers
<1>1. NullAnswered => NullAnswered'
  BY AnswersOnceNext
<1>2. ASSUME NEW a \in Appenders, UNCHANGED <<callPc[a], identity[a], tasks[a], affected[a], firstId[a]>>
      PROVE  callPc'[a] \in Calling => Counting(a)' \/ NullAnswered'
  BY <1>1, <1>2 DEF CountsRight, Counting, StatusDue
<1>3. ASSUME NEW a \in Appenders, CallBegins(a) \/ CallGoesOn(a), callPc'[a] \in Calling
      PROVE  Counting(a)' \/ NullAnswered'
  <2>1. /\ CallStep(a) /\ ~UserBegins(a)
        /\ tasks[a] \in Seq(Tasks) /\ Len(tasks[a]) \in Nat /\ identity[a] \in Int
        /\ affected[a] \in Nat /\ firstId[a] \in Int
    BY <1>0, <1>3, CallEffects, PendingFacts DEF UserBegins, CallTypeOK
  <2>2. CASE AppendBegins(a)
    <3>1. /\ affected'[a] = 0 /\ firstId'[a] = identity[a] /\ identity'[a] = identity[a]
          /\ StatusDue(a)' = 1 /\ tasks'[a] = tasks[a] /\ tasks[a] = <<>>
      BY <1>0, <2>2 DEF AppendBegins, StatusDue, CallShape
    <3>2. Len(tasks'[a]) = 0
      BY <3>1
    <3>3. QED
      BY <2>1, <3>1, <3>2 DEF Counting
  <2>3. ASSUME NEW t \in Tasks, Pushes(a, t) PROVE Counting(a)' \/ NullAnswered'
    <3>1. /\ affected'[a] = affected[a] /\ firstId'[a] = firstId[a] /\ identity'[a] = identity[a]
          /\ StatusDue(a)' = 0 /\ StatusDue(a) = 1 /\ callPc[a] \in Calling
          /\ tasks'[a] = Append(tasks[a], t)
      BY <2>3 DEF Pushes, StatusDue, Calling
    <3>2. Len(tasks'[a]) = Len(tasks[a]) + 1
      BY <2>1, <3>1, AppendTask
    <3>3. Counting(a) \/ NullAnswered
      BY <3>1 DEF CountsRight
    <3>4. Counting(a) => Counting(a)'
      BY <2>1, <3>1, <3>2 DEF Counting
    <3>5. QED
      BY <1>1, <3>3, <3>4
  <2>4. ASSUME NEW t \in Tasks, Sets(a, t) PROVE Counting(a)' \/ NullAnswered'
    <3>1. /\ affected'[a] = affected[a] /\ firstId'[a] = firstId[a] /\ identity'[a] = identity[a] - 1
          /\ StatusDue(a)' = 1 /\ StatusDue(a) = 0 /\ callPc[a] \in Calling
          /\ tasks'[a] = tasks[a]
      BY <2>4 DEF Sets, StatusDue, Calling
    <3>2. Counting(a) \/ NullAnswered
      BY <3>1 DEF CountsRight
    <3>3. Counting(a) => Counting(a)'
      BY SMTT(30), <2>1, <3>1 DEF Counting
    <3>4. QED
      BY <1>1, <3>2, <3>3
  <2>5. CASE Polls(a)
    <3>1. callPc'[a] # "idle" /\ callPc[a] = "poll"
      BY <1>3, <2>5 DEF Calling, Polls
    <3>2. UNCHANGED <<affected[a], firstId[a], identity[a], tasks[a]>>
      BY <2>5, <3>1 DEF Polls
    <3>3. StatusDue(a)' = 1 /\ StatusDue(a) = 1
      BY <2>5 DEF Polls, StatusDue
    <3>4. Counting(a) \/ NullAnswered
      BY <3>1 DEF CountsRight, Calling
    <3>5. Counting(a) => Counting(a)'
      BY <3>2, <3>3 DEF Counting
    <3>6. QED
      BY <1>1, <3>4, <3>5
  <2>6. CASE Fetches(a)
    <3>1. \/ NullAnswered
          \/ affected'[a] + Len(tasks'[a]) = firstId[a] - identity[a]
      BY <2>6, LastFetch
    <3>2. firstId'[a] = firstId[a] /\ identity'[a] = identity[a] /\ StatusDue(a)' = 1
      BY <2>6 DEF Fetches, StatusDue
    <3>3. ASSUME affected'[a] + Len(tasks'[a]) = firstId[a] - identity[a]
          PROVE  Counting(a)'
      BY <2>1, <3>2, <3>3 DEF Counting
    <3>4. QED
      BY <1>1, <3>1, <3>3
  <2>7. ~StandsAside(a)
    BY <1>3 DEF StandsAside, Aside, Calling
  <2>8. QED
    BY <2>1, <2>2, <2>3, <2>4, <2>5, <2>6, <2>7 DEF CallStep
<1>4. ASSUME NEW d \in Callers, CallBegins(d) \/ CallGoesOn(d), NEW a \in Appenders
      PROVE  callPc'[a] \in Calling => Counting(a)' \/ NullAnswered'
  BY <1>0, <1>2, <1>3, <1>4, CallFrame
<1>5. ASSUME NEW w \in Workers, WorkerStep(w), NEW a \in Appenders
      PROVE  callPc'[a] \in Calling => Counting(a)' \/ NullAnswered'
  BY <1>2, <1>5, WorkerFrame
<1>6. ASSUME UNCHANGED vars, NEW a \in Appenders
      PROVE  callPc'[a] \in Calling => Counting(a)' \/ NullAnswered'
  BY <1>2, <1>6 DEF vars, callVars
<1>7. QED
  BY <1>4, <1>5, <1>6 DEF Next, CountsRight

LEMMA AffectedNext == PoolInv /\ AffectedInv /\ [Next]_vars => AffectedInv'
BY AffectedParts, CountsRightNext, NullsAnsweredNext, AnswersOnceNext

(* An append() that returns counts one result for each identity it has      *)
(* used, however many appenders and users share the pool                    *)
(* (PartitionedTableAppender::append).                                      *)
THEOREM AffectedCorrect == Spec => AffectedCountsChunks
<1>1. Init => PoolInv /\ AffectedInv
  BY PoolInit, AffectedInit
<1>2. PoolInv /\ AffectedInv /\ [Next]_vars => PoolInv' /\ AffectedInv'
  BY PoolNext, AffectedNext
<1> DEFINE Returns ==
      \A c \in Appenders : callPc[c] = "fetch" /\ callPc'[c] = "idle" =>
        affected'[c] = firstId[c] - identity[c] \/ NullAnswered
<1>3. PoolInv /\ AffectedInv /\ [Next]_vars => [Returns]_vars
  <2> SUFFICES ASSUME PoolInv, AffectedInv, [Next]_vars, NEW c \in Appenders,
                      callPc[c] = "fetch", callPc'[c] = "idle"
               PROVE  affected'[c] = firstId[c] - identity[c] \/ NullAnswered
    OBVIOUS
  <2>1. c \in Callers /\ TypeOK /\ CallShape /\ UserShape /\ AppenderShape
    BY DEF Callers, PoolInv
  <2>2. CallBegins(c) \/ CallGoesOn(c)
    BY <2>1, Acts
  <2>3. CallStep(c)
    BY <2>1, <2>2, CallEffects
  <2>4. Fetches(c)
    BY <2>3 DEF CallStep, UserBegins, AppendBegins, Pushes, Sets, Polls, StandsAside, Aside
  <2>5. Len(tasks[c]) = 1
    BY <2>4 DEF Fetches
  <2>6. QED
    BY <2>4, <2>5, LastFetch, AffectedParts
<1>4. QED
  BY <1>1, <1>2, <1>3, PTL DEF Spec, AffectedCountsChunks
=============================================================================
