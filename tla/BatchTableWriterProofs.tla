----------------------- MODULE BatchTableWriterProofs -----------------------
(***************************************************************************)
(* Proofs about the batch table writer, for any number of callers, tables, *)
(* DestTables and rows, and any set of faults.                             *)
(***************************************************************************)
EXTENDS BatchTableWriter, TLAPS, SequenceTheorems

LEMMA DestFacts ==
  /\ MaxDests \in Nat /\ Dests = 1 .. MaxDests /\ NoDest = 0 /\ NoDest \notin Dests
  /\ Nil \notin Tables /\ Nil \notin Callers
BY BatchAssumption DEF Dests, NoDest

(* Every DestTable a call or the map names is one that was made.            *)
LEMMA MadeFacts ==
  ASSUME TypeOK, CallsKnow, MapKnows
  PROVE  /\ Len(nameOf) \in Nat /\ 1 .. Len(nameOf) \subseteq Dests
         /\ \A d \in 1 .. Len(nameOf) : nameOf[d] \in Tables
         /\ \A c \in Callers : callPc[c] \in DestLabels =>
              callDest[c] \in Dests /\ callTable[c] \in Tables
         /\ \A k \in Tables : Known(k) => destTables[k] \in Dests
<1>1. /\ Len(nameOf) \in Nat /\ Len(nameOf) <= MaxDests
      /\ \A d \in 1 .. Len(nameOf) : nameOf[d] \in Tables
  BY DEF TypeOK, MapTypeOK
<1>2. 1 .. Len(nameOf) \subseteq Dests
  BY <1>1, DestFacts
<1>3. QED
  BY <1>1, <1>2 DEF CallsKnow, MapKnows

-----------------------------------------------------------------------------
(* Types *)

LEMMA TypeInit == Init => TypeOK
<1> SUFFICES ASSUME Init PROVE TypeOK
  OBVIOUS
<1>1. MapTypeOK /\ CallTypeOK
  BY DestFacts DEF Init, MapTypeOK, CallTypeOK, CallLabels
<1>2. ThreadTypeOK /\ RowTypeOK
  BY DestFacts DEF Init, ThreadTypeOK, RowTypeOK, ThreadLabels
<1>3. QED
  BY <1>1, <1>2 DEF TypeOK

(* Which steps touch which part of the state.                               *)
LEMMA CallFrame ==
  ASSUME NEW c \in Callers, CallBegins(c) \/ CallGoesOn(c) \/ Destruct(c)
  PROVE  UNCHANGED <<finished, leaving, size, items, stored, sendedRows>>
BY DEF CallBegins, CallGoesOn, AddTable, Insert, GetUnwrittenData, RemoveTable,
       AddEntry, StartThread, InsertRow, InsertNotify, TakeQueued, RemoveNotify,
       RemoveJoin, RemoveErase, Destruct, DestructTable, DestructJoin, mapVars,
       flagVars, queueVars, threadVars, rowVars

LEMMA ThreadFrame ==
  ASSUME NEW d \in Dests, ThreadStep(d) \/ SpuriousWakeup(d)
  PROVE  UNCHANGED <<destTables, nameOf, rwLock, alive, callPc, callTable, callDest,
                     destroy, accepted, handed>>
BY DEF ThreadStep, LoopTest, LeftTest, SizeTest, PopItems, SendItems, SendFails,
       SaveRow, SaveDone, BeginWait, SpuriousWakeup, ThreadKeeps, mapVars, callVars

(* Where a call goes from where.                                            *)
LEMMA CallSteps ==
  ASSUME NEW c \in Callers, CallBegins(c) \/ CallGoesOn(c) \/ Destruct(c)
  PROVE  \/ \E k \in Tables : AddTable(c, k)
         \/ \E k \in Tables : Insert(c, k)
         \/ \E k \in Tables : GetUnwrittenData(c, k)
         \/ \E k \in Tables : RemoveTable(c, k)
         \/ AddEntry(c) \/ StartThread(c) \/ InsertRow(c) \/ InsertNotify(c)
         \/ TakeQueued(c) \/ RemoveNotify(c) \/ RemoveJoin(c) \/ RemoveErase(c)
         \/ \E k \in Tables : DestructTable(c, k)
         \/ DestructJoin(c) \/ Destruct(c)
BY DEF CallBegins, CallGoesOn

LEMMA MapTypeNext ==
  ASSUME TypeOK, CallsKnow, MapKnows, [Next]_vars
  PROVE  MapTypeOK'
<1> USE DEF mapVars
<1>a. MapTypeOK
  BY DEF TypeOK
<1>1. ASSUME NEW c \in Callers, AddEntry(c) PROVE MapTypeOK'
  <2>1. callTable[c] \in Tables
    BY <1>1 DEF AddEntry, CallsKnow
  <2>2. CASE StillMissing(callTable[c]) /\ Len(nameOf) < MaxDests
    <3>1. Len(nameOf) \in Nat /\ nameOf \in Seq(Tables)
      BY <1>a DEF MapTypeOK
    <3>2. Len(nameOf) + 1 \in Dests
      BY <2>2, <3>1, DestFacts
    <3>3. /\ nameOf' = Append(nameOf, callTable[c])
          /\ destTables' = [destTables EXCEPT ![callTable[c]] = Len(nameOf) + 1]
          /\ UNCHANGED <<rwLock, alive>>
      BY <1>1, <2>2 DEF AddEntry
    <3>4. nameOf' \in Seq(Tables) /\ Len(nameOf') = Len(nameOf) + 1
      BY <2>1, <3>1, <3>3
    <3>5. QED
      BY <1>a, <2>2, <3>1, <3>2, <3>3, <3>4, DestFacts DEF MapTypeOK
  <2>3. CASE ~(StillMissing(callTable[c]) /\ Len(nameOf) < MaxDests)
    BY <1>1, <1>a, <2>3 DEF AddEntry, MapTypeOK
  <2>4. QED
    BY <2>2, <2>3
<1>2. ASSUME NEW c \in Callers, CallBegins(c) \/ CallGoesOn(c) \/ Destruct(c), ~AddEntry(c)
      PROVE  /\ nameOf' = nameOf
             /\ rwLock' \in {rwLock, c, Nil} /\ alive' \in {alive, FALSE}
             /\ destTables' \in [Tables -> Dests \cup {NoDest}]
  <2>1. nameOf' = nameOf /\ rwLock' \in {rwLock, c, Nil} /\ alive' \in {alive, FALSE}
    BY <1>2, CallSteps DEF AddTable, Insert, GetUnwrittenData, RemoveTable, StartThread,
                InsertRow, InsertNotify, TakeQueued, RemoveNotify,
                RemoveJoin, RemoveErase, DestructTable, DestructJoin, Destruct
  <2>2. \/ destTables' = destTables \/ destTables' = [destTables EXCEPT ![callTable[c]] = NoDest]
        \/ destTables' = [k \in Tables |-> NoDest]
    BY <1>2, CallSteps DEF AddTable, Insert, GetUnwrittenData, RemoveTable, StartThread,
                InsertRow, InsertNotify, TakeQueued, RemoveNotify,
                RemoveJoin, RemoveErase, DestructTable, DestructJoin, Destruct
  <2>3. QED
    BY <1>a, <2>1, <2>2 DEF MapTypeOK
<1>3. ASSUME NEW d \in Dests, ThreadStep(d) \/ SpuriousWakeup(d) PROVE MapTypeOK'
  BY <1>3, <1>a, ThreadFrame DEF MapTypeOK
<1>4. CASE UNCHANGED vars
  BY <1>4, <1>a DEF vars, MapTypeOK
<1>5. QED
  BY <1>1, <1>2, <1>3, <1>4, <1>a DEF Next, MapTypeOK

LEMMA CallTypeNext ==
  ASSUME TypeOK, CallsKnow, MapKnows, [Next]_vars
  PROVE  CallTypeOK'
<1>a. CallTypeOK /\ MapTypeOK
  BY DEF TypeOK
<1>1. ASSUME NEW c \in Callers, NEW label \in CallLabels, NEW table \in Tables \cup {Nil},
             NEW dest \in Dests \cup {NoDest}, Call(c, label, table, dest)
      PROVE  CallTypeOK'
  BY <1>1, <1>a DEF CallTypeOK, Call
<1>2. ASSUME NEW c \in Callers, CallBegins(c) PROVE CallTypeOK'
  <2>1. PICK k \in Tables, label \in CallLabels, dest \in Dests \cup {NoDest} :
          Call(c, label, k, dest)
    <3>1. \A k \in Tables : destTables[k] \in Dests \cup {NoDest}
      BY <1>a DEF MapTypeOK
    <3>2. QED
      BY <1>2, <3>1 DEF CallBegins, AddTable, Insert, GetUnwrittenData, RemoveTable, CallLabels
  <2>2. QED
    BY <1>1, <2>1
<1>3. ASSUME NEW c \in Callers, CallGoesOn(c) \/ Destruct(c) PROVE CallTypeOK'
  <2>1. CASE AddEntry(c)
    <3>1. callTable[c] \in Tables /\ Len(nameOf) \in Nat
      BY <1>a, <2>1 DEF AddEntry, CallsKnow, MapTypeOK
    <3>2. \/ Call(c, "start", callTable[c], Len(nameOf) + 1) /\ Len(nameOf) + 1 \in Dests
          \/ Call(c, "idle", Nil, NoDest)
      BY <2>1, <3>1, DestFacts DEF AddEntry, Return
    <3>3. QED
      BY <1>1, <3>1, <3>2 DEF CallLabels
  <2>2. CASE StartThread(c) \/ InsertNotify(c) \/ TakeQueued(c) \/ RemoveErase(c)
             \/ DestructJoin(c)
    <3>1. Call(c, "idle", Nil, NoDest)
      BY <2>2 DEF StartThread, InsertNotify, TakeQueued, RemoveErase, DestructJoin, Return
    <3>2. QED
      BY <1>1, <3>1 DEF CallLabels
  <2>3. CASE InsertRow(c) \/ RemoveNotify(c) \/ RemoveJoin(c)
    <3>1. \/ Call(c, "idle", Nil, NoDest)
          \/ \E label \in CallLabels : Call(c, label, callTable[c], callDest[c])
      BY <2>3 DEF InsertRow, RemoveNotify, RemoveJoin, Proceed, Return, CallLabels
    <3>2. callTable[c] \in Tables \cup {Nil} /\ callDest[c] \in Dests \cup {NoDest}
      BY <1>a DEF CallTypeOK
    <3>3. QED
      BY <1>1, <3>1, <3>2 DEF CallLabels
  <2>4. CASE Destruct(c)
    BY <1>1, <2>4 DEF Destruct, CallLabels
  <2>5. CASE \E k \in Tables : DestructTable(c, k)
    BY <1>a, <2>5 DEF DestructTable, CallTypeOK, callVars
  <2>6. QED
    BY <1>3, <2>1, <2>2, <2>3, <2>4, <2>5 DEF CallGoesOn
<1>4. ASSUME NEW d \in Dests, ThreadStep(d) \/ SpuriousWakeup(d) PROVE CallTypeOK'
  BY <1>4, <1>a, ThreadFrame DEF CallTypeOK
<1>5. CASE UNCHANGED vars
  BY <1>5, <1>a DEF vars, CallTypeOK, callVars
<1>6. QED
  BY <1>2, <1>3, <1>4, <1>5 DEF Next

(* What a call does to the threads: it starts one, or wakes one up.         *)
LEMMA CallPcSteps ==
  ASSUME NEW c \in Callers, CallBegins(c) \/ CallGoesOn(c) \/ Destruct(c)
  PROVE  \/ pc' = pc
         \/ StartThread(c) /\ pc' = [pc EXCEPT ![callDest[c]] = "loop"]
         \/ \E d : pc' = [pc EXCEPT ![d] = Woken(@)]
<1>1. CASE InsertNotify(c) \/ RemoveNotify(c)
  BY <1>1 DEF InsertNotify, RemoveNotify, Notify
<1>2. CASE \E k \in Tables : DestructTable(c, k)
  BY <1>2 DEF DestructTable, Notify
<1>3. CASE /\ ~InsertNotify(c) /\ ~RemoveNotify(c)
           /\ ~\E k \in Tables : DestructTable(c, k)
  BY <1>3, CallSteps DEF AddTable, Insert, GetUnwrittenData, RemoveTable, AddEntry,
                StartThread, InsertRow, TakeQueued, RemoveJoin, RemoveErase,
                DestructJoin, Destruct, threadVars
<1>4. QED
  BY <1>1, <1>2, <1>3

LEMMA ThreadTypeNext ==
  ASSUME TypeOK, [Next]_vars
  PROVE  ThreadTypeOK'
<1> USE DEF mapVars, callVars, flagVars, queueVars, threadVars, rowVars
<1>a. ThreadTypeOK
  BY DEF TypeOK
<1>1. ASSUME NEW c \in Callers, CallBegins(c) \/ CallGoesOn(c) \/ Destruct(c)
      PROVE  ThreadTypeOK'
  <2>1. UNCHANGED <<finished, leaving, size>>
    BY <1>1, CallFrame
  <2>2. pc' \in [Dests -> ThreadLabels] /\ \A d \in Dests : pc'[d] = "pop" => pc[d] = "pop"
    <3>1. pc \in [Dests -> ThreadLabels]
      BY <1>a DEF ThreadTypeOK
    <3>2. QED
      BY <1>1, <3>1, CallPcSteps DEF Woken, ThreadLabels
  <2>3. destroy' \in [Dests -> BOOLEAN]
    <3>1. destroy' = destroy \/ \E d \in {destTables[k] : k \in Tables} : destroy' = [destroy EXCEPT ![d] = TRUE]
      <4>1. CASE \E k \in Tables : AddTable(c, k) \/ Insert(c, k) \/ GetUnwrittenData(c, k)
        BY <4>1 DEF AddTable, Insert, GetUnwrittenData
      <4>2. CASE \E k \in Tables : RemoveTable(c, k) \/ DestructTable(c, k)
        BY <4>2 DEF RemoveTable, DestructTable
      <4>3. CASE AddEntry(c) \/ StartThread(c) \/ InsertRow(c) \/ InsertNotify(c)
        BY <4>3 DEF AddEntry, StartThread, InsertRow, InsertNotify
      <4>4. CASE TakeQueued(c) \/ RemoveNotify(c) \/ RemoveJoin(c) \/ RemoveErase(c)
        BY <4>4 DEF TakeQueued, RemoveNotify, RemoveJoin, RemoveErase
      <4>5. CASE DestructJoin(c) \/ Destruct(c)
        BY <4>5 DEF DestructJoin, Destruct
      <4>6. QED
        BY <1>1, <4>1, <4>2, <4>3, <4>4, <4>5, CallSteps
    <3>2. QED
      BY <1>a, <3>1 DEF ThreadTypeOK
  <2>4. missed' \in [Dests -> BOOLEAN]
    <3>1. missed' = missed \/ \E d : missed' = [missed EXCEPT ![d] =
             pc[d] # "wait" /\ (@ \/ IF destroy'[d] THEN pc[d] # "loop" /\ ~leaving[d]
                                                    ELSE pc[d] = "window")]
      BY <1>1, CallSteps DEF AddTable, Insert, GetUnwrittenData, RemoveTable, AddEntry,
                StartThread, InsertRow, InsertNotify, TakeQueued, RemoveNotify,
                RemoveJoin, RemoveErase, DestructTable, DestructJoin, Destruct, Notify
    <3>2. QED
      BY <1>a, <2>3, <3>1 DEF ThreadTypeOK
  <2>5. QED
    BY <1>a, <2>1, <2>2, <2>3, <2>4 DEF ThreadTypeOK
<1>2. ASSUME NEW d \in Dests, ThreadStep(d) \/ SpuriousWakeup(d) PROVE ThreadTypeOK'
  <2> USE DEF ThreadKeeps, Goto
  <2>1. CASE LoopTest(d) \/ LeftTest(d) \/ SaveDone(d) \/ BeginWait(d) \/ SpuriousWakeup(d)
    BY <1>a, <2>1 DEF ThreadTypeOK, LoopTest, LeftTest, SaveDone, BeginWait, SpuriousWakeup,
                AfterFalse, ThreadLabels
  <2>2. CASE SizeTest(d)
    <3>1. writeQueue[d] # <<>> => Len(writeQueue[d]) \in Nat /\ Len(writeQueue[d]) > 0
      BY DEF TypeOK, RowTypeOK
    <3>2. QED
      BY <1>a, <2>2, <3>1 DEF ThreadTypeOK, SizeTest, NothingToWrite, AfterFalse, ThreadLabels
  <2>3. CASE PopItems(d)
    BY <1>a, <2>3 DEF ThreadTypeOK, PopItems, ThreadLabels
  <2>4. CASE SendItems(d)
    BY <1>a, <2>4 DEF ThreadTypeOK, SendItems, AfterTrue, ThreadLabels
  <2>5. CASE SendFails(d)
    BY <1>a, <2>5 DEF ThreadTypeOK, SendFails, ThreadLabels
  <2>6. CASE SaveRow(d)
    BY <1>a, <2>6 DEF ThreadTypeOK, SaveRow
  <2>7. QED
    BY <1>2, <2>1, <2>2, <2>3, <2>4, <2>5, <2>6 DEF ThreadStep
<1>3. CASE UNCHANGED vars
  BY <1>3, <1>a DEF vars, ThreadTypeOK
<1>4. QED
  BY <1>1, <1>2, <1>3 DEF Next

-----------------------------------------------------------------------------
(* What a step does to the rows of one DestTable and to its thread.         *)

Accepts(d) ==
  /\ ~finished[d]
  /\ writeQueue'[d] = Append(writeQueue[d], accepted[d] + 1)
  /\ accepted'[d] = accepted[d] + 1
  /\ UNCHANGED <<pc[d], finished[d], items[d], saveQueue[d], stored[d],
                 sendedRows[d], handed[d]>>

HandsSaved(d) ==
  /\ handed'[d] = handed[d] \o saveQueue[d]
  /\ saveQueue'[d] = <<>>
  /\ UNCHANGED <<pc[d], finished[d], items[d], writeQueue[d], stored[d],
                 sendedRows[d], accepted[d]>>

HandsQueued(d) ==
  /\ handed'[d] = handed[d] \o writeQueue[d]
  /\ writeQueue'[d] = <<>>
  /\ UNCHANGED <<pc[d], finished[d], items[d], saveQueue[d], stored[d],
                 sendedRows[d], accepted[d]>>

Pops(d) ==
  /\ pc[d] = "pop" /\ pc'[d] = "send"
  /\ \E n \in 0 .. Len(writeQueue[d]) :
       /\ items'[d] = SubSeq(writeQueue[d], 1, n)
       /\ writeQueue'[d] = SubSeq(writeQueue[d], n + 1, Len(writeQueue[d]))
  /\ UNCHANGED <<finished[d], saveQueue[d], stored[d], sendedRows[d],
                 accepted[d], handed[d]>>

Sends(d) ==
  /\ pc[d] = "send" /\ pc'[d] \in {"left", "size"}
  /\ stored'[d] = stored[d] \o items[d]
  /\ sendedRows'[d] = sendedRows[d] + Len(items[d])
  /\ items'[d] = <<>>
  /\ UNCHANGED <<finished[d], writeQueue[d], saveQueue[d], accepted[d], handed[d]>>

Fails(d) ==
  /\ pc[d] = "send" /\ pc'[d] = "save"
  /\ finished'[d] = TRUE
  /\ \/ stored'[d] = stored[d]
     \/ "lost" \in BatchFaults /\ stored'[d] = stored[d] \o items[d]
  /\ UNCHANGED <<items[d], writeQueue[d], saveQueue[d], sendedRows[d],
                 accepted[d], handed[d]>>

Saves(d) ==
  /\ pc[d] = "save" /\ pc'[d] = "save" /\ items[d] # <<>>
  /\ saveQueue'[d] = Append(saveQueue[d], Head(items[d]))
  /\ items'[d] = Tail(items[d])
  /\ UNCHANGED <<finished[d], writeQueue[d], stored[d], sendedRows[d],
                 accepted[d], handed[d]>>

KeepsRows(d) ==
  /\ \/ pc'[d] = pc[d]
     \/ /\ pc[d] \notin {"pop", "send"}
        /\ pc[d] = "save" => items[d] = <<>>
        /\ pc'[d] \notin {"send", "save"}
        /\ pc'[d] = "pop" => ~finished[d]
        /\ pc'[d] = "done" => pc[d] = "save" \/ finished[d] \/ writeQueue[d] = <<>>
  /\ UNCHANGED <<finished[d], items[d], writeQueue[d], saveQueue[d], stored[d],
                 sendedRows[d], accepted[d], handed[d]>>

RowStep(d) ==
  \/ Accepts(d) \/ HandsSaved(d) \/ HandsQueued(d) \/ Pops(d) \/ Sends(d)
  \/ Fails(d) \/ Saves(d) \/ KeepsRows(d)

(* A step of one thread leaves the others alone.                            *)
LEMMA OtherDests ==
  ASSUME TypeOK, NEW e \in Dests, ThreadStep(e) \/ SpuriousWakeup(e),
         NEW d \in Dests, d # e
  PROVE  UNCHANGED <<pc[d], finished[d], items[d], writeQueue[d], saveQueue[d],
                     stored[d], sendedRows[d], accepted[d], handed[d]>>
<1>1. /\ pc \in [Dests -> ThreadLabels] /\ finished \in [Dests -> BOOLEAN]
      /\ items \in [Dests -> Seq(Nat)] /\ writeQueue \in [Dests -> Seq(Nat)]
      /\ saveQueue \in [Dests -> Seq(Nat)] /\ stored \in [Dests -> Seq(Nat)]
      /\ sendedRows \in [Dests -> Nat]
  BY DEF TypeOK, ThreadTypeOK, RowTypeOK
<1>2. UNCHANGED <<accepted, handed>>
  BY ThreadFrame
<1>3. UNCHANGED <<pc[d], finished[d], items[d], writeQueue[d], saveQueue[d],
                  stored[d], sendedRows[d]>>
  <2> USE DEF Goto, queueVars, rowVars
  <2>1. CASE LoopTest(e) \/ LeftTest(e) \/ SizeTest(e) \/ SaveDone(e) \/ BeginWait(e)
             \/ SpuriousWakeup(e)
    BY <1>1, <2>1 DEF LoopTest, LeftTest, SizeTest, SaveDone, BeginWait, SpuriousWakeup
  <2>2. CASE PopItems(e)
    BY <1>1, <2>2 DEF PopItems
  <2>3. CASE SendItems(e)
    BY <1>1, <2>3 DEF SendItems
  <2>4. CASE SendFails(e)
    BY <1>1, <2>4 DEF SendFails
  <2>5. CASE SaveRow(e)
    BY <1>1, <2>5 DEF SaveRow, threadVars
  <2>6. QED
    BY <2>1, <2>2, <2>3, <2>4, <2>5 DEF ThreadStep
<1>4. QED
  BY <1>2, <1>3

LEMMA RowStepFacts ==
  ASSUME TypeOK, CallsKnow, MapKnows, [Next]_vars, NEW d \in Dests
  PROVE  RowStep(d)
<1>a. /\ pc \in [Dests -> ThreadLabels] /\ finished \in [Dests -> BOOLEAN]
      /\ items \in [Dests -> Seq(Nat)] /\ writeQueue \in [Dests -> Seq(Nat)]
      /\ saveQueue \in [Dests -> Seq(Nat)] /\ stored \in [Dests -> Seq(Nat)]
      /\ sendedRows \in [Dests -> Nat] /\ size \in [Dests -> Nat]
      /\ accepted \in [Dests -> Nat] /\ handed \in [Dests -> Seq(Nat)]
  BY DEF TypeOK, ThreadTypeOK, RowTypeOK
<1>1. ASSUME NEW c \in Callers, CallBegins(c) \/ CallGoesOn(c) \/ Destruct(c)
      PROVE  RowStep(d)
  <2>a. UNCHANGED <<finished, items, stored, sendedRows>>
    BY <1>1, CallFrame
  <2>1. CASE InsertRow(c) /\ callDest[c] = d /\ ~finished[d]
    <3>1. Accepts(d)
      BY <1>a, <2>a, <2>1 DEF InsertRow, Push, Accepts, threadVars
    <3>2. QED
      BY <3>1 DEF RowStep
  <2>2. CASE \E k \in Tables : GetUnwrittenData(c, k) /\ destTables[k] = d
    <3>1. HandsSaved(d)
      BY <1>a, <2>a, <2>2 DEF GetUnwrittenData, HandsSaved, threadVars
    <3>2. QED
      BY <3>1 DEF RowStep
  <2>3. CASE TakeQueued(c) /\ callDest[c] = d
    <3>1. HandsQueued(d)
      BY <1>a, <2>a, <2>3 DEF TakeQueued, QueueAfterTake, HandsQueued, threadVars
    <3>2. QED
      BY <3>1 DEF RowStep
  <2>4. CASE /\ ~(InsertRow(c) /\ callDest[c] = d /\ ~finished[d])
             /\ ~\E k \in Tables : GetUnwrittenData(c, k) /\ destTables[k] = d
             /\ ~(TakeQueued(c) /\ callDest[c] = d)
    <3>1. UNCHANGED <<writeQueue[d], saveQueue[d], accepted[d], handed[d]>>
      <4>1. CASE InsertRow(c)
        BY <1>a, <2>4, <4>1 DEF InsertRow
      <4>2. CASE \E k \in Tables : GetUnwrittenData(c, k)
        BY <1>a, <2>4, <4>2 DEF GetUnwrittenData
      <4>3. CASE TakeQueued(c)
        BY <1>a, <2>4, <4>3 DEF TakeQueued
      <4>4. CASE /\ ~InsertRow(c) /\ ~TakeQueued(c)
                 /\ ~\E k \in Tables : GetUnwrittenData(c, k)
        BY <1>1, <4>4, CallSteps DEF AddTable, Insert, RemoveTable, AddEntry,
                StartThread, InsertNotify, RemoveNotify, RemoveJoin, RemoveErase,
                DestructTable, DestructJoin, Destruct, queueVars
      <4>5. QED
        BY <4>1, <4>2, <4>3, <4>4
    <3>2. \/ pc'[d] = pc[d]
          \/ pc[d] = "wait" /\ pc'[d] = "loop"
          \/ pc[d] = "new" /\ pc'[d] = "loop"
      <4>1. StartThread(c) => pc[callDest[c]] = "new"
        BY DEF StartThread, CallsKnow
      <4>2. QED
        BY <1>1, <1>a, <4>1, CallPcSteps DEF Woken
    <3>3. KeepsRows(d)
      BY <2>a, <3>1, <3>2 DEF KeepsRows
    <3>4. QED
      BY <3>3 DEF RowStep
  <2>5. QED
    BY <2>1, <2>2, <2>3, <2>4
<1>2. ASSUME NEW e \in Dests, e # d, ThreadStep(e) \/ SpuriousWakeup(e) PROVE RowStep(d)
  <2>1. KeepsRows(d)
    BY <1>2, OtherDests DEF KeepsRows
  <2>2. QED
    BY <2>1 DEF RowStep
<1>3. ASSUME ThreadStep(d) \/ SpuriousWakeup(d) PROVE RowStep(d)
  <2> USE DEF Goto, queueVars, rowVars
  <2>a. UNCHANGED <<accepted, handed>>
    BY <1>3, ThreadFrame
  <2>1. CASE LoopTest(d) \/ LeftTest(d) \/ SizeTest(d) \/ SaveDone(d) \/ BeginWait(d)
             \/ SpuriousWakeup(d)
    <3>1. KeepsRows(d)
      BY <1>a, <2>a, <2>1 DEF LoopTest, LeftTest, SizeTest, SaveDone, BeginWait,
                SpuriousWakeup, NothingToWrite, AfterFalse, KeepsRows
    <3>2. QED
      BY <3>1 DEF RowStep
  <2>2. CASE PopItems(d)
    <3>1. Smaller(size[d], Len(writeQueue[d])) \in 0 .. Len(writeQueue[d])
      BY <1>a DEF Smaller
    <3>2. Pops(d)
      BY <1>a, <2>a, <2>2, <3>1 DEF PopItems, Pops
    <3>3. QED
      BY <3>2 DEF RowStep
  <2>3. CASE SendItems(d)
    <3>1. Sends(d)
      BY <1>a, <2>a, <2>3 DEF SendItems, AfterTrue, Sends
    <3>2. QED
      BY <3>1 DEF RowStep
  <2>4. CASE SendFails(d)
    <3>1. Fails(d)
      BY <1>a, <2>a, <2>4 DEF SendFails, Fails
    <3>2. QED
      BY <3>1 DEF RowStep
  <2>5. CASE SaveRow(d)
    <3>1. Saves(d)
      BY <1>a, <2>a, <2>5 DEF SaveRow, Saves, threadVars
    <3>2. QED
      BY <3>1 DEF RowStep
  <2>6. QED
    BY <1>3, <2>1, <2>2, <2>3, <2>4, <2>5 DEF ThreadStep
<1>4. CASE UNCHANGED vars
  <2>1. KeepsRows(d)
    BY <1>4 DEF vars, flagVars, queueVars, threadVars, rowVars, KeepsRows
  <2>2. QED
    BY <2>1 DEF RowStep
<1>5. QED
  BY <1>1, <1>2, <1>3, <1>4 DEF Next

(* Sequences of rows: concatenation, and the two parts pop() makes.         *)
LEMMA ConcatFacts ==
  ASSUME NEW s \in Seq(Nat), NEW r \in Seq(Nat)
  PROVE  /\ s \o r \in Seq(Nat)
         /\ Len(s) \in Nat /\ Len(r) \in Nat /\ Len(s \o r) = Len(s) + Len(r)
         /\ \A i \in 1 .. Len(s) : (s \o r)[i] = s[i] /\ s[i] \in Nat
         /\ \A j \in 1 .. Len(r) : (s \o r)[Len(s) + j] = r[j] /\ r[j] \in Nat
OBVIOUS

LEMMA SplitFacts ==
  ASSUME NEW q \in Seq(Nat), NEW n \in 0 .. Len(q)
  PROVE  LET s == SubSeq(q, 1, n)
             r == SubSeq(q, n + 1, Len(q))
         IN /\ s \in Seq(Nat) /\ r \in Seq(Nat)
            /\ Len(s) = n /\ Len(r) = Len(q) - n
            /\ \A i \in 1 .. n : s[i] = q[i]
            /\ \A j \in 1 .. Len(q) - n : r[j] = q[n + j]
<1>1. Len(q) \in Nat /\ n \in Nat /\ n <= Len(q)
  OBVIOUS
<1>2. /\ SubSeq(q, 1, n) \in Seq(Nat)
      /\ Len(SubSeq(q, 1, n)) = n
      /\ \A i \in 1 .. n : SubSeq(q, 1, n)[i] = q[i]
  BY <1>1
<1>3. /\ SubSeq(q, n + 1, Len(q)) \in Seq(Nat)
      /\ Len(SubSeq(q, n + 1, Len(q))) = Len(q) - n
      /\ \A j \in 1 .. Len(q) - n : SubSeq(q, n + 1, Len(q))[j] = q[n + j]
  BY <1>1
<1>4. QED
  BY <1>2, <1>3

(* The values the rows take, and that every variable stays a function.      *)
LEMMA RowValues ==
  ASSUME RowTypeOK, NEW d \in Dests, RowStep(d)
  PROVE  /\ writeQueue'[d] \in Seq(Nat) /\ saveQueue'[d] \in Seq(Nat)
         /\ items'[d] \in Seq(Nat) /\ sendedRows'[d] \in Nat
         /\ accepted'[d] \in Nat /\ stored'[d] \in Seq(Nat) /\ handed'[d] \in Seq(Nat)
<1>1. /\ writeQueue[d] \in Seq(Nat) /\ saveQueue[d] \in Seq(Nat)
      /\ items[d] \in Seq(Nat) /\ sendedRows[d] \in Nat
      /\ accepted[d] \in Nat /\ stored[d] \in Seq(Nat) /\ handed[d] \in Seq(Nat)
      /\ <<>> \in Seq(Nat)
  BY DEF RowTypeOK
<1>2. CASE Accepts(d)
  BY <1>1, <1>2 DEF Accepts
<1>3. CASE HandsSaved(d) \/ HandsQueued(d)
  <2>1. handed[d] \o saveQueue[d] \in Seq(Nat) /\ handed[d] \o writeQueue[d] \in Seq(Nat)
    BY <1>1, ConcatFacts
  <2>2. CASE HandsSaved(d)
    BY <1>1, <2>1, <2>2 DEF HandsSaved
  <2>3. CASE HandsQueued(d)
    BY <1>1, <2>1, <2>3 DEF HandsQueued
  <2>4. QED
    BY <1>3, <2>2, <2>3
<1>4. CASE Pops(d)
  <2>1. PICK n \in 0 .. Len(writeQueue[d]) :
          /\ items'[d] = SubSeq(writeQueue[d], 1, n)
          /\ writeQueue'[d] = SubSeq(writeQueue[d], n + 1, Len(writeQueue[d]))
    BY <1>4 DEF Pops
  <2>2. items'[d] \in Seq(Nat) /\ writeQueue'[d] \in Seq(Nat)
    BY <1>1, <2>1, SplitFacts
  <2>3. QED
    BY <1>1, <1>4, <2>2 DEF Pops
<1>5. CASE Sends(d) \/ Fails(d)
  <2>1. stored[d] \o items[d] \in Seq(Nat) /\ sendedRows[d] + Len(items[d]) \in Nat
    BY <1>1, ConcatFacts
  <2>2. QED
    BY <1>1, <1>5, <2>1 DEF Sends, Fails
<1>6. CASE Saves(d)
  BY SMTT(30), <1>1, <1>6 DEF Saves
<1>7. CASE KeepsRows(d)
  BY <1>1, <1>7 DEF KeepsRows
<1>8. QED
  BY <1>2, <1>3, <1>4, <1>5, <1>6, <1>7 DEF RowStep

LEMMA RowDomains ==
  ASSUME RowTypeOK, [Next]_vars
  PROVE  /\ writeQueue' = [d \in Dests |-> writeQueue'[d]]
         /\ saveQueue' = [d \in Dests |-> saveQueue'[d]]
         /\ items' = [d \in Dests |-> items'[d]]
         /\ sendedRows' = [d \in Dests |-> sendedRows'[d]]
         /\ accepted' = [d \in Dests |-> accepted'[d]]
         /\ stored' = [d \in Dests |-> stored'[d]]
         /\ handed' = [d \in Dests |-> handed'[d]]
<1> DEFINE Same == UNCHANGED <<writeQueue, saveQueue, items, sendedRows, accepted, stored, handed>>
           Kept(f) == f = [d \in Dests |-> f[d]]
<1>1. /\ Kept(writeQueue) /\ Kept(saveQueue) /\ Kept(items) /\ Kept(sendedRows)
      /\ Kept(accepted) /\ Kept(stored) /\ Kept(handed)
  BY DEF RowTypeOK
<1>2. ASSUME NEW c \in Callers, CallBegins(c) \/ CallGoesOn(c) \/ Destruct(c)
      PROVE  /\ Kept(writeQueue') /\ Kept(saveQueue') /\ Kept(items') /\ Kept(sendedRows')
             /\ Kept(accepted') /\ Kept(stored') /\ Kept(handed')
  <2>1. UNCHANGED <<items, stored, sendedRows>>
    BY <1>2, CallFrame
  <2>2. CASE InsertRow(c)
    BY <1>1, <2>1, <2>2 DEF InsertRow
  <2>3. CASE \E k \in Tables : GetUnwrittenData(c, k)
    BY <1>1, <2>1, <2>3 DEF GetUnwrittenData
  <2>4. CASE TakeQueued(c)
    BY <1>1, <2>1, <2>4 DEF TakeQueued
  <2>5. CASE /\ ~InsertRow(c) /\ ~TakeQueued(c) /\ ~\E k \in Tables : GetUnwrittenData(c, k)
    <3>1. UNCHANGED <<writeQueue, saveQueue, accepted, handed>>
      BY <1>2, <2>5, CallSteps DEF AddTable, Insert, RemoveTable, AddEntry,
                StartThread, InsertNotify, RemoveNotify, RemoveJoin, RemoveErase,
                DestructTable, DestructJoin, Destruct, queueVars
    <3>2. QED
      BY <1>1, <2>1, <3>1
  <2>6. QED
    BY <2>2, <2>3, <2>4, <2>5
<1>3. ASSUME NEW d \in Dests, ThreadStep(d) \/ SpuriousWakeup(d)
      PROVE  /\ Kept(writeQueue') /\ Kept(saveQueue') /\ Kept(items') /\ Kept(sendedRows')
             /\ Kept(accepted') /\ Kept(stored') /\ Kept(handed')
  <2> USE DEF queueVars, rowVars
  <2>1. UNCHANGED <<accepted, handed>>
    BY <1>3, ThreadFrame
  <2>2. CASE LoopTest(d) \/ LeftTest(d) \/ SizeTest(d) \/ SaveDone(d) \/ BeginWait(d)
             \/ SpuriousWakeup(d)
    BY <1>1, <2>1, <2>2 DEF LoopTest, LeftTest, SizeTest, SaveDone, BeginWait, SpuriousWakeup
  <2>3. CASE PopItems(d)
    BY <1>1, <2>1, <2>3 DEF PopItems
  <2>4. CASE SendItems(d)
    BY <1>1, <2>1, <2>4 DEF SendItems
  <2>5. CASE SendFails(d)
    BY <1>1, <2>1, <2>5 DEF SendFails
  <2>6. CASE SaveRow(d)
    BY <1>1, <2>1, <2>6 DEF SaveRow, threadVars
  <2>7. QED
    BY <1>3, <2>2, <2>3, <2>4, <2>5, <2>6 DEF ThreadStep
<1>4. CASE UNCHANGED vars
  BY <1>1, <1>4 DEF vars, queueVars, rowVars
<1>5. QED
  BY <1>2, <1>3, <1>4 DEF Next

LEMMA TypeNext ==
  ASSUME TypeOK, CallsKnow, MapKnows, [Next]_vars
  PROVE  TypeOK'
<1>1. ASSUME NEW d \in Dests
      PROVE  /\ writeQueue'[d] \in Seq(Nat) /\ saveQueue'[d] \in Seq(Nat)
             /\ items'[d] \in Seq(Nat) /\ sendedRows'[d] \in Nat
             /\ accepted'[d] \in Nat /\ stored'[d] \in Seq(Nat) /\ handed'[d] \in Seq(Nat)
  BY RowStepFacts, RowValues DEF TypeOK
<1>2. RowTypeOK'
  BY <1>1, RowDomains DEF TypeOK, RowTypeOK
<1>3. QED
  BY <1>2, MapTypeNext, CallTypeNext, ThreadTypeNext DEF TypeOK

-----------------------------------------------------------------------------
(* The map, the calls and the threads                                       *)

(* Names are only added; a call to remove is not taken back; an ended       *)
(* thread stays so, and only StartThread starts one.                        *)
LEMMA NamesGrow ==
  ASSUME TypeOK, CallsKnow, MapKnows, [Next]_vars
  PROVE  \/ nameOf' = nameOf
         \/ \E c \in Callers :
              /\ AddEntry(c) /\ StillMissing(callTable[c]) /\ callTable[c] \in Tables
              /\ nameOf' = Append(nameOf, callTable[c])
              /\ Len(nameOf') = Len(nameOf) + 1 /\ Len(nameOf) + 1 \in Dests
              /\ \A d \in 1 .. Len(nameOf) : nameOf'[d] = nameOf[d]
              /\ nameOf'[Len(nameOf) + 1] = callTable[c]
<1>a. nameOf \in Seq(Tables) /\ Len(nameOf) \in Nat
  BY DEF TypeOK, MapTypeOK
<1>1. ASSUME NEW c \in Callers, AddEntry(c), nameOf' # nameOf
      PROVE  /\ StillMissing(callTable[c]) /\ callTable[c] \in Tables
             /\ nameOf' = Append(nameOf, callTable[c])
             /\ Len(nameOf') = Len(nameOf) + 1 /\ Len(nameOf) + 1 \in Dests
             /\ \A d \in 1 .. Len(nameOf) : nameOf'[d] = nameOf[d]
             /\ nameOf'[Len(nameOf) + 1] = callTable[c]
  <2>1. callTable[c] \in Tables
    BY <1>1 DEF AddEntry, CallsKnow
  <2>2. /\ StillMissing(callTable[c]) /\ Len(nameOf) < MaxDests
        /\ nameOf' = Append(nameOf, callTable[c])
    BY <1>1 DEF AddEntry
  <2>3. Len(nameOf) + 1 \in Dests
    BY <1>a, <2>2, DestFacts
  <2>4. QED
    BY <1>a, <2>1, <2>2, <2>3
<1>2. ASSUME NEW c \in Callers, CallBegins(c) \/ CallGoesOn(c) \/ Destruct(c), ~AddEntry(c)
      PROVE  nameOf' = nameOf
  BY <1>2, CallSteps DEF AddTable, Insert, GetUnwrittenData, RemoveTable, StartThread,
              InsertRow, InsertNotify, TakeQueued, RemoveNotify, RemoveJoin,
              RemoveErase, DestructTable, DestructJoin, Destruct, mapVars
<1>3. ASSUME NEW d \in Dests, ThreadStep(d) \/ SpuriousWakeup(d) PROVE nameOf' = nameOf
  BY <1>3, ThreadFrame
<1>4. CASE UNCHANGED vars
  BY <1>4 DEF vars, mapVars
<1>5. QED
  BY <1>1, <1>2, <1>3, <1>4 DEF Next

LEMMA ThreadFacts ==
  ASSUME TypeOK, CallsKnow, [Next]_vars, NEW d \in Dests
  PROVE  /\ pc[d] = "done" => pc'[d] = "done"
         /\ pc[d] = "new" => \/ pc'[d] = "new"
                             \/ \E c \in Callers : StartThread(c) /\ callDest[c] = d
         /\ destroy[d] => destroy'[d]
<1>a. pc \in [Dests -> ThreadLabels] /\ destroy \in [Dests -> BOOLEAN]
  BY DEF TypeOK, ThreadTypeOK
<1>1. ASSUME NEW c \in Callers, CallBegins(c) \/ CallGoesOn(c) \/ Destruct(c)
      PROVE  /\ pc[d] = "done" => pc'[d] = "done"
             /\ pc[d] = "new" => pc'[d] = "new" \/ (StartThread(c) /\ callDest[c] = d)
             /\ destroy[d] => destroy'[d]
  <2>1. StartThread(c) => pc[callDest[c]] = "new"
    BY DEF StartThread, CallsKnow
  <2>2. destroy' = destroy \/ \E e : destroy' = [destroy EXCEPT ![e] = TRUE]
    BY <1>1, CallSteps DEF AddTable, Insert, GetUnwrittenData, RemoveTable, AddEntry,
              StartThread, InsertRow, InsertNotify, TakeQueued, RemoveNotify,
              RemoveJoin, RemoveErase, DestructTable, DestructJoin, Destruct, flagVars
  <2>3. destroy[d] => destroy'[d]
    BY <1>a, <2>2
  <2>4. QED
    BY <1>1, <1>a, <2>1, <2>3, CallPcSteps DEF Woken
<1>2. ASSUME NEW e \in Dests, ThreadStep(e) \/ SpuriousWakeup(e)
      PROVE  /\ pc[d] \in {"done", "new"} => pc'[d] = pc[d]
             /\ destroy' = destroy
  <2>1. destroy' = destroy
    BY <1>2, ThreadFrame
  <2>2. pc[e] \notin {"done", "new"} /\ \E label : pc' = [pc EXCEPT ![e] = label]
    <3>1. CASE SaveRow(e)
      <4>1. pc[e] = "save" /\ pc' = pc
        BY <3>1 DEF SaveRow, threadVars
      <4>2. pc' = [pc EXCEPT ![e] = "save"]
        BY <1>a, <4>1
      <4>3. QED
        BY <4>1, <4>2
    <3>2. CASE ~SaveRow(e)
      BY <1>2, <3>2 DEF ThreadStep, SpuriousWakeup, LoopTest, LeftTest, SizeTest,
                PopItems, SendItems, SendFails, SaveDone, BeginWait, Goto
    <3>3. QED
      BY <3>1, <3>2
  <2>3. QED
    BY <1>a, <2>1, <2>2
<1>3. CASE UNCHANGED vars
  BY <1>3 DEF vars, threadVars, flagVars
<1>4. QED
  BY <1>1, <1>2, <1>3 DEF Next

(* A call touches its own variables only.                                   *)
LEMMA OtherCalls ==
  ASSUME TypeOK, NEW c \in Callers, CallBegins(c) \/ CallGoesOn(c) \/ Destruct(c)
  PROVE  /\ \A e \in Callers : e # c =>
              callPc'[e] = callPc[e] /\ callTable'[e] = callTable[e] /\ callDest'[e] = callDest[e]
<1>1. /\ callPc \in [Callers -> CallLabels]
      /\ callTable \in [Callers -> Tables \cup {Nil}]
      /\ callDest \in [Callers -> Dests \cup {NoDest}]
  BY DEF TypeOK, CallTypeOK
<1>2. UNCHANGED callVars \/ \E label, table, dest : Call(c, label, table, dest)
  BY CallSteps DEF AddTable, Insert, GetUnwrittenData, RemoveTable, AddEntry,
              StartThread, InsertRow, InsertNotify, TakeQueued, RemoveNotify,
              RemoveJoin, RemoveErase, DestructTable, DestructJoin, Destruct, Proceed, Return
<1>3. QED
  BY <1>1, <1>2 DEF Call, callVars

(* What a call is about after its own step.                                 *)
LEMMA OwnCall ==
  ASSUME TypeOK, CallsKnow, MapKnows, NEW c \in Callers,
         CallBegins(c) \/ CallGoesOn(c) \/ Destruct(c)
  PROVE  \/ callPc'[c] = "idle"
         \/ callPc'[c] = "add" /\ callTable'[c] \in Tables
         \/ /\ AddEntry(c) /\ callPc'[c] = "start" /\ callTable'[c] = callTable[c]
            /\ callDest'[c] = Len(nameOf) + 1 /\ nameOf' # nameOf
         \/ \E k \in Tables :
              /\ Known(k) /\ callTable'[c] = k /\ callDest'[c] = destTables[k]
              /\ \/ Insert(c, k) /\ callPc'[c] = "insert"
                 \/ GetUnwrittenData(c, k) /\ callPc'[c] = "unwritten"
                 \/ RemoveTable(c, k) /\ callPc'[c] = "remove"
         \/ /\ callTable'[c] = callTable[c] /\ callDest'[c] = callDest[c]
            /\ \/ callPc[c] = "insert" /\ callPc'[c] = "notify"
               \/ RemoveNotify(c) /\ callPc[c] = "remove" /\ callPc'[c] = "join"
               \/ RemoveJoin(c) /\ callPc[c] = "join" /\ callPc'[c] = "erase"
               \/ callPc[c] = "destruct" /\ callPc'[c] = "destruct"
         \/ Destruct(c) /\ callPc'[c] = "destruct"
<1>1. /\ callPc \in [Callers -> CallLabels]
      /\ callTable \in [Callers -> Tables \cup {Nil}]
      /\ callDest \in [Callers -> Dests \cup {NoDest}]
  BY DEF TypeOK, CallTypeOK
<1>2. ASSUME NEW label, NEW table, NEW dest, Call(c, label, table, dest)
      PROVE  callPc'[c] = label /\ callTable'[c] = table /\ callDest'[c] = dest
  BY <1>1, <1>2 DEF Call
<1>3. CASE \E k \in Tables : AddTable(c, k) \/ Insert(c, k) \/ GetUnwrittenData(c, k)
                             \/ RemoveTable(c, k)
  <2>1. PICK k \in Tables : AddTable(c, k) \/ Insert(c, k) \/ GetUnwrittenData(c, k)
                            \/ RemoveTable(c, k)
    BY <1>3
  <2>2. CASE AddTable(c, k)
    <3>1. callPc'[c] = "add" /\ callTable'[c] = k
      BY <1>2, <2>2 DEF AddTable
    <3>2. QED
      BY <3>1
  <2>3. CASE Insert(c, k)
    <3>1. callPc'[c] = "insert" /\ callTable'[c] = k /\ callDest'[c] = destTables[k]
      BY <1>2, <2>3 DEF Insert
    <3>2. Known(k)
      BY <2>3 DEF Insert, Ready
    <3>3. QED
      BY <2>3, <3>1, <3>2
  <2>4. CASE GetUnwrittenData(c, k)
    <3>1. callPc'[c] = "unwritten" /\ callTable'[c] = k /\ callDest'[c] = destTables[k]
      BY <1>2, <2>4 DEF GetUnwrittenData
    <3>2. Known(k)
      BY <2>4 DEF GetUnwrittenData, Ready
    <3>3. QED
      BY <2>4, <3>1, <3>2
  <2>5. CASE RemoveTable(c, k)
    <3>1. callPc'[c] = "remove" /\ callTable'[c] = k /\ callDest'[c] = destTables[k]
      BY <1>2, <2>5 DEF RemoveTable
    <3>2. Known(k)
      BY <2>5 DEF RemoveTable, Ready
    <3>3. QED
      BY <2>5, <3>1, <3>2
  <2>6. QED
    BY <2>1, <2>2, <2>3, <2>4, <2>5
<1>4. CASE AddEntry(c)
  <2>1. nameOf \in Seq(Tables)
    BY DEF TypeOK, MapTypeOK
  <2>2. nameOf # Append(nameOf, callTable[c])
    <3>1. Len(Append(nameOf, callTable[c])) = Len(nameOf) + 1 /\ Len(nameOf) \in Nat
      BY <2>1
    <3>2. QED
      BY <3>1
  <2>3. QED
    BY <1>2, <1>4, <2>2 DEF AddEntry, Return
<1>5. CASE StartThread(c) \/ InsertNotify(c) \/ TakeQueued(c) \/ RemoveErase(c) \/ DestructJoin(c)
  BY <1>2, <1>5 DEF StartThread, InsertNotify, TakeQueued, RemoveErase, DestructJoin, Return
<1>6. CASE InsertRow(c) \/ RemoveNotify(c) \/ RemoveJoin(c)
  BY <1>2, <1>6 DEF InsertRow, RemoveNotify, RemoveJoin, Return, Proceed
<1>7. CASE Destruct(c) \/ \E k \in Tables : DestructTable(c, k)
  BY <1>2, <1>7 DEF Destruct, DestructTable, callVars
<1>8. QED
  BY <1>3, <1>4, <1>5, <1>6, <1>7, CallSteps

LEMMA CallsKnowNext ==
  ASSUME TypeOK, CallsKnow, MapKnows, [Next]_vars
  PROVE  CallsKnow'
<1> DEFINE Knows(c) ==
      /\ callPc'[c] \in DestLabels => /\ callDest'[c] \in 1 .. Len(nameOf')
                                      /\ callTable'[c] = nameOf'[callDest'[c]]
      /\ callPc'[c] = "add" => callTable'[c] \in Tables
      /\ callPc'[c] = "start" =>
           /\ pc'[callDest'[c]] = "new"
           /\ \A e \in Callers : callPc'[e] = "start" /\ callDest'[e] = callDest'[c] => e = c
<1>a. Len(nameOf) \in Nat /\ 1 .. Len(nameOf) \subseteq Dests
  BY MadeFacts
(* What the map says of a DestTable stays true. *)
<1>b. \A d \in 1 .. Len(nameOf) : d \in 1 .. Len(nameOf') /\ nameOf'[d] = nameOf[d]
  BY <1>a, NamesGrow
<1>c. ASSUME NEW e \in Callers,
             callPc'[e] = callPc[e] /\ callTable'[e] = callTable[e] /\ callDest'[e] = callDest[e]
      PROVE  /\ callPc'[e] \in DestLabels => /\ callDest'[e] \in 1 .. Len(nameOf')
                                             /\ callTable'[e] = nameOf'[callDest'[e]]
             /\ callPc'[e] = "add" => callTable'[e] \in Tables
             /\ callPc'[e] = "start" => callDest'[e] \in 1 .. Len(nameOf)
  BY <1>b, <1>c DEF CallsKnow, DestLabels
<1>1. ASSUME NEW c \in Callers, CallBegins(c) \/ CallGoesOn(c) \/ Destruct(c), NEW e \in Callers
      PROVE  Knows(e)
  <2>a. callPc'[c] = "start" => AddEntry(c) /\ callDest'[c] = Len(nameOf) + 1 /\ nameOf' # nameOf
    BY <1>1, OwnCall
  <2>b. ASSUME e # c, callPc'[e] = "start"
        PROVE  pc'[callDest'[e]] = "new"
    <3>1. callPc[e] = "start" /\ callDest'[e] = callDest[e] /\ callDest[e] \in Dests
      BY <1>1, <2>b, OtherCalls, MadeFacts DEF DestLabels
    <3>2. pc[callDest[e]] = "new"
      BY <3>1 DEF CallsKnow
    <3>3. ~\E f \in Callers : StartThread(f) /\ callDest[f] = callDest[e]
      <4>1. SUFFICES ASSUME NEW f \in Callers, StartThread(f), callDest[f] = callDest[e] PROVE FALSE
        OBVIOUS
      <4>2. callPc[f] = "start" /\ callPc'[f] = "idle"
        <5>1. callPc \in [Callers -> CallLabels]
          BY DEF TypeOK, CallTypeOK
        <5>2. QED
          BY <4>1, <5>1 DEF StartThread, Return, Call
      <4>3. f = e
        BY <3>1, <4>1, <4>2 DEF CallsKnow
      <4>4. QED
        BY <2>b, <4>2, <4>3
    <3>4. QED
      BY <3>1, <3>2, <3>3, ThreadFacts
  <2>c. ASSUME callPc'[c] = "start"
        PROVE  /\ callDest'[c] \in 1 .. Len(nameOf') /\ callTable'[c] = nameOf'[callDest'[c]]
               /\ pc'[callDest'[c]] = "new"
    <3>1. AddEntry(c) /\ callDest'[c] = Len(nameOf) + 1 /\ nameOf' # nameOf /\ callTable'[c] = callTable[c]
      BY <1>1, <2>c, OwnCall
    <3>2. PICK f \in Callers :
            /\ AddEntry(f) /\ nameOf' = Append(nameOf, callTable[f])
            /\ Len(nameOf') = Len(nameOf) + 1 /\ Len(nameOf) + 1 \in Dests
            /\ nameOf'[Len(nameOf) + 1] = callTable[f]
      BY <3>1, NamesGrow
    <3>3. nameOf' = Append(nameOf, callTable[c])
      BY <3>1 DEF AddEntry
    <3>4. nameOf'[Len(nameOf) + 1] = callTable[c]
      <4>1. nameOf \in Seq(Tables)
        BY DEF TypeOK, MapTypeOK
      <4>2. QED
        BY <3>3, <4>1
    <3>5. pc'[Len(nameOf) + 1] = "new"
      <4>1. pc[Len(nameOf) + 1] = "new"
        BY <1>a, <3>2 DEF MapKnows
      <4>2. pc' = pc
        BY <3>1 DEF AddEntry, threadVars
      <4>3. QED
        BY <4>1, <4>2
    <3>6. Len(nameOf) + 1 \in 1 .. Len(nameOf')
      BY <1>a, <3>2
    <3>7. QED
      BY <3>1, <3>4, <3>5, <3>6
  <2>1. CASE e # c
    <3>1. callPc'[e] = callPc[e] /\ callTable'[e] = callTable[e] /\ callDest'[e] = callDest[e]
      BY <1>1, <2>1, OtherCalls
    <3>2. ASSUME callPc'[e] = "start", NEW f \in Callers, callPc'[f] = "start",
                 callDest'[f] = callDest'[e]
          PROVE  f = e
      <4>1. callDest'[e] \in 1 .. Len(nameOf)
        BY <1>c, <3>1, <3>2
      <4>2. f # c
        BY <1>a, <2>a, <3>2, <4>1
      <4>3. callPc[f] = "start" /\ callDest[f] = callDest[e]
        BY <1>1, <3>1, <3>2, <4>2, OtherCalls
      <4>4. QED
        BY <3>1, <3>2, <4>3 DEF CallsKnow
    <3>3. QED
      BY <1>c, <2>1, <2>b, <3>1, <3>2
  <2>2. CASE e = c
    <3>1. ASSUME callPc'[c] = "start", NEW f \in Callers, callPc'[f] = "start",
                 callDest'[f] = callDest'[c]
          PROVE  f = c
      <4>1. SUFFICES ASSUME f # c PROVE FALSE
        OBVIOUS
      <4>2. callPc'[f] = callPc[f] /\ callTable'[f] = callTable[f] /\ callDest'[f] = callDest[f]
        BY <1>1, <4>1, OtherCalls
      <4>3. QED
        BY <1>a, <1>c, <2>a, <3>1, <4>2
    <3>2. callPc'[c] \in DestLabels => /\ callDest'[c] \in 1 .. Len(nameOf')
                                       /\ callTable'[c] = nameOf'[callDest'[c]]
      <4>1. CASE callPc'[c] = "start"
        BY <2>c, <4>1
      <4>2. CASE \E k \in Tables : Known(k) /\ callTable'[c] = k /\ callDest'[c] = destTables[k]
        BY <1>b, <4>2 DEF MapKnows
      <4>3. CASE callTable'[c] = callTable[c] /\ callDest'[c] = callDest[c] /\ callPc[c] \in DestLabels
        BY <1>b, <4>3 DEF CallsKnow
      <4>4. QED
        BY <1>1, <4>1, <4>2, <4>3, OwnCall DEF DestLabels
    <3>3. callPc'[c] = "add" => callTable'[c] \in Tables
      BY <1>1, OwnCall
    <3>4. QED
      BY <2>2, <2>c, <3>1, <3>2, <3>3
  <2>3. QED
    BY <2>1, <2>2
<1>2. ASSUME UNCHANGED <<callPc, callTable, callDest>>, NEW e \in Callers,
             ~\E c \in Callers : StartThread(c)
      PROVE  Knows(e)
  <2>1. callPc'[e] = "start" => pc'[callDest'[e]] = "new"
    <3>1. callPc[e] = "start" => pc[callDest[e]] = "new" /\ callDest[e] \in Dests
      BY MadeFacts DEF CallsKnow, DestLabels
    <3>2. QED
      BY <1>2, <3>1, ThreadFacts
  <2>2. QED
    BY <1>2, <1>c, <2>1 DEF CallsKnow
<1>3. ASSUME UNCHANGED <<callPc, callTable, callDest>> PROVE ~\E c \in Callers : StartThread(c)
  <2>1. callPc \in [Callers -> CallLabels]
    BY DEF TypeOK, CallTypeOK
  <2>2. QED
    BY <1>3, <2>1 DEF StartThread, Return, Call
<1>4. ASSUME NEW d \in Dests, ThreadStep(d) \/ SpuriousWakeup(d)
      PROVE  UNCHANGED <<callPc, callTable, callDest>>
  BY <1>4, ThreadFrame
<1>5. UNCHANGED vars => UNCHANGED <<callPc, callTable, callDest>>
  BY DEF vars, callVars
<1>6. \A e \in Callers : Knows(e)
  BY <1>1, <1>2, <1>3, <1>4, <1>5 DEF Next
<1>7. QED
  BY <1>6 DEF CallsKnow

(* How the map of tables changes.                                           *)
LEMMA MapSteps ==
  ASSUME TypeOK, CallsKnow, MapKnows, RemovesOnce, [Next]_vars
  PROVE  \/ destTables' = destTables /\ nameOf' = nameOf
         \/ \E c \in Callers :
              /\ callPc[c] = "add" /\ callTable[c] \in Tables /\ ~Known(callTable[c])
              /\ nameOf' = Append(nameOf, callTable[c])
              /\ Len(nameOf') = Len(nameOf) + 1 /\ Len(nameOf) + 1 \in Dests
              /\ \A d \in 1 .. Len(nameOf) : nameOf'[d] = nameOf[d]
              /\ nameOf'[Len(nameOf) + 1] = callTable[c]
              /\ destTables' = [destTables EXCEPT ![callTable[c]] = Len(nameOf) + 1]
         \/ \E c \in Callers :
              /\ callPc[c] = "erase" /\ callPc'[c] = "idle"
              /\ callTable[c] \in Tables /\ nameOf' = nameOf
              /\ destTables' = [destTables EXCEPT ![callTable[c]] = NoDest]
         \/ \E c \in Callers :
              /\ callPc[c] = "destruct"
              /\ \A k \in Tables : Known(k) => pc[destTables[k]] = "done"
              /\ destTables' = [k \in Tables |-> NoDest] /\ nameOf' = nameOf
<1>1. ASSUME NEW c \in Callers, CallBegins(c) \/ CallGoesOn(c) \/ Destruct(c), ~AddEntry(c)
      PROVE  \/ destTables' = destTables
             \/ callPc[c] = "erase" /\ callPc'[c] = "idle" /\ callTable[c] \in Tables
                /\ destTables' = [destTables EXCEPT ![callTable[c]] = NoDest]
             \/ callPc[c] = "destruct"
                /\ (\A k \in Tables : Known(k) => pc[destTables[k]] = "done")
                /\ destTables' = [k \in Tables |-> NoDest]
  <2>1. CASE RemoveErase(c)
    <3>1. callTable[c] \in Tables
      BY <2>1, MadeFacts DEF RemoveErase, DestLabels
    <3>2. callPc \in [Callers -> CallLabels]
      BY DEF TypeOK, CallTypeOK
    <3>3. QED
      BY <2>1, <3>1, <3>2 DEF RemoveErase, Return, Call
  <2>2. CASE DestructJoin(c)
    BY <2>2 DEF DestructJoin, ThreadEnded
  <2>3. CASE ~RemoveErase(c) /\ ~DestructJoin(c)
    BY <1>1, <2>3, CallSteps DEF AddTable, Insert, GetUnwrittenData, RemoveTable, StartThread,
              InsertRow, InsertNotify, TakeQueued, RemoveNotify, RemoveJoin,
              DestructTable, Destruct, mapVars
  <2>4. QED
    BY <2>1, <2>2, <2>3
<1>2. ASSUME NEW c \in Callers, AddEntry(c)
      PROVE  \/ destTables' = destTables /\ nameOf' = nameOf
             \/ /\ callPc[c] = "add" /\ callTable[c] \in Tables /\ ~Known(callTable[c])
                /\ nameOf' = Append(nameOf, callTable[c])
                /\ Len(nameOf') = Len(nameOf) + 1 /\ Len(nameOf) + 1 \in Dests
                /\ \A d \in 1 .. Len(nameOf) : nameOf'[d] = nameOf[d]
                /\ nameOf'[Len(nameOf) + 1] = callTable[c]
                /\ destTables' = [destTables EXCEPT ![callTable[c]] = Len(nameOf) + 1]
  <2>1. nameOf \in Seq(Tables) /\ callTable[c] \in Tables
    BY <1>2 DEF TypeOK, MapTypeOK, AddEntry, CallsKnow
  <2>2. CASE StillMissing(callTable[c]) /\ Len(nameOf) < MaxDests
    <3>1. /\ nameOf' = Append(nameOf, callTable[c]) /\ callPc[c] = "add"
          /\ destTables' = [destTables EXCEPT ![callTable[c]] = Len(nameOf) + 1]
      BY <1>2, <2>2 DEF AddEntry
    <3>2. Len(nameOf) \in Nat /\ Len(nameOf) + 1 \in Dests
      BY <2>1, <2>2, DestFacts
    <3>3. /\ Len(nameOf') = Len(nameOf) + 1
          /\ \A d \in 1 .. Len(nameOf) : nameOf'[d] = nameOf[d]
          /\ nameOf'[Len(nameOf) + 1] = callTable[c]
      BY <2>1, <3>1, <3>2
    <3>4. QED
      BY <2>1, <2>2, <3>1, <3>2, <3>3 DEF StillMissing
  <2>3. CASE ~(StillMissing(callTable[c]) /\ Len(nameOf) < MaxDests)
    BY <1>2, <2>3 DEF AddEntry
  <2>4. QED
    BY <2>2, <2>3
<1>3. ASSUME NEW d \in Dests, ThreadStep(d) \/ SpuriousWakeup(d)
      PROVE  destTables' = destTables /\ nameOf' = nameOf
  BY <1>3, ThreadFrame
<1>4. UNCHANGED vars => destTables' = destTables /\ nameOf' = nameOf
  BY DEF vars, mapVars
<1>5. ASSUME NEW c \in Callers, CallBegins(c) \/ CallGoesOn(c) \/ Destruct(c), ~AddEntry(c)
      PROVE  nameOf' = nameOf
  BY <1>5, CallSteps DEF AddTable, Insert, GetUnwrittenData, RemoveTable, StartThread,
              InsertRow, InsertNotify, TakeQueued, RemoveNotify, RemoveJoin,
              RemoveErase, DestructTable, DestructJoin, Destruct, mapVars
<1>6. ASSUME NEW c \in Callers, CallBegins(c) \/ CallGoesOn(c) \/ Destruct(c)
      PROVE  \/ destTables' = destTables /\ nameOf' = nameOf
             \/ /\ callPc[c] = "add" /\ callTable[c] \in Tables /\ ~Known(callTable[c])
                /\ nameOf' = Append(nameOf, callTable[c])
                /\ Len(nameOf') = Len(nameOf) + 1 /\ Len(nameOf) + 1 \in Dests
                /\ \A d \in 1 .. Len(nameOf) : nameOf'[d] = nameOf[d]
                /\ nameOf'[Len(nameOf) + 1] = callTable[c]
                /\ destTables' = [destTables EXCEPT ![callTable[c]] = Len(nameOf) + 1]
             \/ /\ callPc[c] = "erase" /\ callPc'[c] = "idle"
                /\ callTable[c] \in Tables /\ nameOf' = nameOf
                /\ destTables' = [destTables EXCEPT ![callTable[c]] = NoDest]
             \/ /\ callPc[c] = "destruct"
                /\ \A k \in Tables : Known(k) => pc[destTables[k]] = "done"
                /\ destTables' = [k \in Tables |-> NoDest] /\ nameOf' = nameOf
  BY <1>1, <1>2, <1>5, <1>6
<1>7. QED
  BY <1>3, <1>4, <1>6 DEF Next

LEMMA MapKnowsNext ==
  ASSUME TypeOK, CallsKnow, MapKnows, RemovesOnce, [Next]_vars
  PROVE  MapKnows'
<1>a. /\ Len(nameOf) \in Nat /\ 1 .. Len(nameOf) \subseteq Dests
      /\ \A d \in 1 .. Len(nameOf) : nameOf[d] \in Tables
  BY MadeFacts
<1>b. destTables \in [Tables -> Dests \cup {NoDest}]
  BY DEF TypeOK, MapTypeOK
<1>c. \A d \in Dests : pc[d] = "done" => pc'[d] = "done"
  BY ThreadFacts
(* A thread that has not been made does not start. *)
<1>d. ASSUME NEW d \in Dests, d > Len(nameOf') PROVE pc'[d] = "new"
  <2>1. d > Len(nameOf)
    BY <1>a, <1>d, NamesGrow, DestFacts
  <2>2. pc[d] = "new"
    BY <2>1 DEF MapKnows
  <2>3. \A c \in Callers : StartThread(c) => callDest[c] \in 1 .. Len(nameOf)
    BY DEF StartThread, CallsKnow, DestLabels
  <2>4. QED
    BY <1>a, <2>1, <2>2, <2>3, ThreadFacts
<1>1. CASE destTables' = destTables /\ nameOf' = nameOf
  BY <1>1, <1>a, <1>c, <1>d DEF MapKnows, Known
<1>2. ASSUME NEW c \in Callers, callTable[c] \in Tables, ~Known(callTable[c]),
             Len(nameOf') = Len(nameOf) + 1, Len(nameOf) + 1 \in Dests,
             \A d \in 1 .. Len(nameOf) : nameOf'[d] = nameOf[d],
             nameOf'[Len(nameOf) + 1] = callTable[c],
             destTables' = [destTables EXCEPT ![callTable[c]] = Len(nameOf) + 1]
      PROVE  MapKnows'
  <2>1. ASSUME NEW k \in Tables, Known(k)'
        PROVE  destTables'[k] \in 1 .. Len(nameOf') /\ nameOf'[destTables'[k]] = k
    <3>1. CASE k = callTable[c]
      BY <1>2, <1>a, <1>b, <3>1
    <3>2. CASE k # callTable[c]
      BY <1>2, <1>a, <1>b, <2>1, <3>2 DEF MapKnows, Known
    <3>3. QED
      BY <3>1, <3>2
  <2>2. ASSUME NEW d \in 1 .. Len(nameOf'), pc'[d] # "done"
        PROVE  destTables'[nameOf'[d]] = d
    <3>1. CASE d = Len(nameOf) + 1
      BY <1>2, <1>b, <3>1
    <3>2. CASE d # Len(nameOf) + 1
      <4>1. d \in 1 .. Len(nameOf)
        BY <1>2, <1>a, <3>2
      <4>2. destTables[nameOf[d]] = d /\ nameOf[d] \in Tables /\ d # NoDest
        BY <1>a, <1>c, <2>2, <4>1, DestFacts DEF MapKnows
      <4>3. nameOf[d] # callTable[c]
        BY <1>2, <4>2 DEF Known
      <4>4. QED
        BY <1>2, <1>b, <4>1, <4>2, <4>3
    <3>3. QED
      BY <3>1, <3>2
  <2>3. QED
    BY <1>d, <2>1, <2>2 DEF MapKnows
<1>3. ASSUME NEW c \in Callers, callPc[c] = "erase", callTable[c] \in Tables, nameOf' = nameOf,
             destTables' = [destTables EXCEPT ![callTable[c]] = NoDest]
      PROVE  MapKnows'
  <2>1. destTables[callTable[c]] = callDest[c] /\ pc[callDest[c]] = "done"
    BY <1>3 DEF RemovesOnce, RemoveLabels
  <2>2. ASSUME NEW k \in Tables, Known(k)'
        PROVE  destTables'[k] \in 1 .. Len(nameOf') /\ nameOf'[destTables'[k]] = k
    BY <1>3, <1>b, <2>2 DEF MapKnows, Known
  <2>3. ASSUME NEW d \in 1 .. Len(nameOf'), pc'[d] # "done"
        PROVE  destTables'[nameOf'[d]] = d
    <3>1. destTables[nameOf[d]] = d /\ nameOf[d] \in Tables /\ pc[d] # "done"
      BY <1>3, <1>a, <1>c, <2>3 DEF MapKnows
    <3>2. nameOf[d] # callTable[c]
      BY <2>1, <3>1
    <3>3. QED
      BY <1>3, <1>b, <3>1, <3>2
  <2>4. QED
    BY <1>d, <2>2, <2>3 DEF MapKnows
<1>4. ASSUME \A k \in Tables : Known(k) => pc[destTables[k]] = "done",
             destTables' = [k \in Tables |-> NoDest], nameOf' = nameOf
      PROVE  MapKnows'
  <2>1. \A k \in Tables : ~Known(k)'
    BY <1>4 DEF Known
  <2>2. ASSUME NEW d \in 1 .. Len(nameOf'), pc'[d] # "done" PROVE FALSE
    <3>1. destTables[nameOf[d]] = d /\ nameOf[d] \in Tables /\ pc[d] # "done" /\ d # NoDest
      BY <1>4, <1>a, <1>c, <2>2, DestFacts DEF MapKnows
    <3>2. QED
      BY <1>4, <3>1 DEF Known
  <2>3. QED
    BY <1>d, <2>1, <2>2 DEF MapKnows
<1>5. QED
  BY <1>1, <1>2, <1>3, <1>4, MapSteps

LEMMA RemovesOnceNext ==
  ASSUME TypeOK, CallsKnow, MapKnows, RemovesOnce, [Next]_vars
  PROVE  RemovesOnce'
<1> DEFINE Alone(c) ==
      callPc'[c] \in RemoveLabels =>
       /\ destroy'[callDest'[c]] /\ destTables'[callTable'[c]] = callDest'[c]
       /\ callPc'[c] = "erase" => pc'[callDest'[c]] = "done"
       /\ \A e \in Callers :
            callPc'[e] \in RemoveLabels /\ callDest'[e] = callDest'[c] => e = c
<1> DEFINE Lives(c) == callPc'[c] # "idle" => (alive' <=> callPc'[c] # "destruct")
<1>a. /\ destTables \in [Tables -> Dests \cup {NoDest}]
      /\ callPc \in [Callers -> CallLabels] /\ destroy \in [Dests -> BOOLEAN]
      /\ Len(nameOf) \in Nat /\ 1 .. Len(nameOf) \subseteq Dests
  BY MadeFacts DEF TypeOK, MapTypeOK, CallTypeOK, ThreadTypeOK
<1>b. \A c \in Callers : callPc[c] \in RemoveLabels =>
        /\ callDest[c] \in 1 .. Len(nameOf) /\ callDest[c] \in Dests /\ callTable[c] \in Tables
        /\ callTable[c] = nameOf[callDest[c]]
        /\ alive
  BY <1>a, MadeFacts DEF CallsKnow, RemovesOnce, RemoveLabels, DestLabels
(* What was removed before the step, by a call that does not return in it. *)
<1>c. ASSUME NEW e \in Callers, callPc[e] \in RemoveLabels, callPc'[e] # "idle",
             callTable'[e] = callTable[e], callDest'[e] = callDest[e]
      PROVE  /\ destroy'[callDest'[e]] /\ destTables'[callTable'[e]] = callDest'[e]
             /\ pc[callDest[e]] = "done" => pc'[callDest'[e]] = "done"
  <2>1. /\ destroy[callDest[e]] /\ destTables[callTable[e]] = callDest[e]
        /\ callDest[e] \in Dests /\ callTable[e] \in Tables /\ alive
        /\ callDest[e] # NoDest
    BY <1>b, <1>c, DestFacts DEF RemovesOnce
  <2>2. destTables'[callTable[e]] = destTables[callTable[e]]
    <3>1. CASE destTables' = destTables
      BY <3>1
    <3>2. ASSUME NEW c \in Callers, callTable[c] \in Tables, ~Known(callTable[c]),
                 destTables' = [destTables EXCEPT ![callTable[c]] = Len(nameOf) + 1]
          PROVE  destTables'[callTable[e]] = destTables[callTable[e]]
      BY <1>a, <2>1, <3>2 DEF Known
    <3>3. ASSUME NEW c \in Callers, callPc[c] = "erase", callPc'[c] = "idle",
                 destTables' = [destTables EXCEPT ![callTable[c]] = NoDest]
          PROVE  destTables'[callTable[e]] = destTables[callTable[e]]
      <4>1. callTable[c] = callTable[e] => c = e
        BY <1>c, <2>1, <3>3 DEF RemovesOnce, RemoveLabels
      <4>2. QED
        BY <1>a, <1>c, <2>1, <3>3, <4>1
    <3>4. ASSUME NEW c \in Callers, callPc[c] = "destruct" PROVE FALSE
      BY <2>1, <3>4 DEF RemovesOnce
    <3>5. QED
      BY <3>1, <3>2, <3>3, <3>4, MapSteps
  <2>3. QED
    BY <1>c, <2>1, <2>2, ThreadFacts
<1>1. ASSUME NEW c \in Callers, CallBegins(c) \/ CallGoesOn(c) \/ Destruct(c), NEW e \in Callers
      PROVE  Alone(e)
  <2>a. \A f \in Callers : f # c =>
          callPc'[f] = callPc[f] /\ callTable'[f] = callTable[f] /\ callDest'[f] = callDest[f]
    BY <1>1, OtherCalls
  <2>b. CASE callPc'[c] \notin RemoveLabels
    <3>1. ASSUME callPc'[e] \in RemoveLabels PROVE e # c /\ callPc[e] \in RemoveLabels /\ callPc'[e] # "idle"
      BY <2>a, <2>b, <3>1 DEF RemoveLabels
    <3>2. QED
      BY <1>c, <2>a, <2>b, <3>1 DEF RemovesOnce
  <2>c. CASE /\ callPc[c] \in RemoveLabels /\ callPc'[c] \in RemoveLabels
             /\ callTable'[c] = callTable[c] /\ callDest'[c] = callDest[c]
             /\ callPc'[c] = "erase" => pc'[callDest[c]] = "done"
    <3>1. ASSUME callPc'[e] \in RemoveLabels
          PROVE  callPc[e] \in RemoveLabels /\ callPc'[e] # "idle"
                 /\ callTable'[e] = callTable[e] /\ callDest'[e] = callDest[e]
      BY <2>a, <2>c, <3>1 DEF RemoveLabels
    <3>2. callPc'[e] = "erase" => pc'[callDest'[e]] = "done"
      <4>1. callPc'[e] = "erase" /\ e # c => pc[callDest[e]] = "done" /\ callPc[e] = "erase"
        BY <2>a DEF RemovesOnce, RemoveLabels
      <4>2. QED
        BY <1>c, <2>a, <2>c, <4>1 DEF RemoveLabels
    <3>3. ASSUME callPc'[e] \in RemoveLabels, NEW f \in Callers, callPc'[f] \in RemoveLabels,
                 callDest'[f] = callDest'[e]
          PROVE  f = e
      <4>1. callPc[f] \in RemoveLabels /\ callDest'[f] = callDest[f]
        BY <2>a, <2>c, <3>3
      <4>2. QED
        BY <3>1, <3>3, <4>1 DEF RemovesOnce
    <3>4. QED
      BY <1>c, <3>1, <3>2, <3>3
  <2>d. ASSUME NEW k \in Tables, RemoveTable(c, k), Known(k), callTable'[c] = k,
               callDest'[c] = destTables[k], callPc'[c] = "remove"
        PROVE  Alone(e)
    <3>1. /\ ~destroy[destTables[k]] /\ destTables[k] \in Dests
          /\ destroy' = [destroy EXCEPT ![destTables[k]] = TRUE] /\ destTables' = destTables
      BY <2>d, MadeFacts DEF RemoveTable
    <3>2. \A f \in Callers : callPc[f] \in RemoveLabels => callDest[f] # destTables[k]
      BY <3>1 DEF RemovesOnce
    <3>3. CASE e = c
      <4>1. destroy'[callDest'[c]] /\ destTables'[callTable'[c]] = callDest'[c]
        BY <1>a, <2>d, <3>1
      <4>2. QED
        BY <2>a, <2>d, <3>2, <3>3, <4>1 DEF RemoveLabels
    <3>4. CASE e # c
      <4>1. SUFFICES ASSUME callPc'[e] \in RemoveLabels PROVE Alone(e)
        OBVIOUS
      <4>2. callPc[e] \in RemoveLabels /\ callPc'[e] # "idle"
        BY <2>a, <3>4, <4>1 DEF RemoveLabels
      <4>3. /\ destroy'[callDest'[e]] /\ destTables'[callTable'[e]] = callDest'[e]
            /\ callPc'[e] = "erase" => pc'[callDest'[e]] = "done"
        BY <1>c, <2>a, <3>4, <4>2 DEF RemovesOnce
      <4>4. ASSUME NEW f \in Callers, callPc'[f] \in RemoveLabels, callDest'[f] = callDest'[e]
            PROVE  f = e
        BY <2>a, <2>d, <3>2, <3>4, <4>2, <4>4 DEF RemovesOnce
      <4>5. QED
        BY <4>3, <4>4
    <3>5. QED
      BY <3>3, <3>4
  <2>e. RemoveJoin(c) => callPc[c] = "join" /\ pc[callDest[c]] = "done"
    BY DEF RemoveJoin, ThreadEnded
  <2>f. RemoveJoin(c) => pc'[callDest[c]] = "done"
    <3>1. callPc[c] = "join" => callDest[c] \in Dests
      BY <1>b DEF RemoveLabels
    <3>2. QED
      BY <2>e, <3>1, ThreadFacts
  <2>g. QED
    BY <1>1, <2>b, <2>c, <2>d, <2>f, OwnCall DEF RemoveLabels
<1>2. ASSUME NEW c \in Callers, CallBegins(c) \/ CallGoesOn(c) \/ Destruct(c), NEW e \in Callers
      PROVE  Lives(e)
  <2>1. CASE Destruct(c)
    <3>1. ~alive' /\ \A f \in Callers : callPc[f] = "idle"
      BY <2>1 DEF Destruct
    <3>2. callPc'[c] = "destruct"
      BY <1>a, <2>1 DEF Destruct, Call
    <3>3. QED
      BY <1>2, <3>1, <3>2, OtherCalls
  <2>2. CASE ~Destruct(c)
    <3>1. alive' = alive
      BY <1>2, <2>2, CallSteps DEF AddTable, Insert, GetUnwrittenData, RemoveTable, AddEntry,
              StartThread, InsertRow, InsertNotify, TakeQueued, RemoveNotify, RemoveJoin,
              RemoveErase, DestructTable, DestructJoin, mapVars
    <3>2. CASE e # c
      BY <1>2, <3>1, <3>2, OtherCalls DEF RemovesOnce
    <3>3. CASE callPc[c] = "idle"
      BY <1>2, <2>2, <3>1, <3>2, <3>3, OwnCall, CallSteps DEF AddTable, Insert,
              GetUnwrittenData, RemoveTable, AddEntry, StartThread, InsertRow, InsertNotify,
              TakeQueued, RemoveNotify, RemoveJoin, RemoveErase, DestructTable, DestructJoin
    <3>4. CASE e = c /\ callPc[c] # "idle"
      <4>1. callPc[c] = "destruct" => callPc'[c] \in {"idle", "destruct"}
        BY <1>2, <2>2, <3>4, OwnCall, <1>a DEF AddEntry, Insert, GetUnwrittenData, RemoveTable, CallBegins, CallGoesOn, AddTable,
              StartThread, InsertRow, InsertNotify, TakeQueued, RemoveNotify, RemoveJoin, RemoveErase, DestructTable, DestructJoin, callVars, Return, Call
      <4>2. callPc'[c] = "destruct" => callPc[c] = "destruct"
        BY <1>2, <2>2, OwnCall
      <4>3. QED
        BY <3>1, <3>4, <4>1, <4>2 DEF RemovesOnce
    <3>5. QED
      BY <3>2, <3>3, <3>4
  <2>3. QED
    BY <2>1, <2>2
<1>3. ASSUME UNCHANGED <<callPc, callTable, callDest, alive>>, NEW e \in Callers
      PROVE  Alone(e) /\ Lives(e)
  <2>1. Lives(e)
    BY <1>3 DEF RemovesOnce
  <2>2. Alone(e)
    BY <1>3, <1>c DEF RemovesOnce, RemoveLabels
  <2>3. QED
    BY <2>1, <2>2
<1>4. ASSUME NEW d \in Dests, ThreadStep(d) \/ SpuriousWakeup(d)
      PROVE  UNCHANGED <<callPc, callTable, callDest, alive>>
  BY <1>4, ThreadFrame
<1>5. UNCHANGED vars => UNCHANGED <<callPc, callTable, callDest, alive>>
  BY DEF vars, callVars, mapVars
<1>6. \A e \in Callers : Alone(e) /\ Lives(e)
  BY <1>1, <1>2, <1>3, <1>4, <1>5 DEF Next
<1>7. QED
  BY <1>6 DEF RemovesOnce

LEMMA WritersInit == Init => WritersInv
<1> SUFFICES ASSUME Init PROVE WritersInv
  OBVIOUS
<1>1. CallsKnow /\ RemovesOnce
  BY DEF Init, CallsKnow, RemovesOnce, DestLabels, RemoveLabels
<1>2. MapKnows
  BY DEF Init, MapKnows, Known
<1>3. QED
  BY <1>1, <1>2, TypeInit DEF WritersInv

LEMMA WritersNext == WritersInv /\ [Next]_vars => WritersInv'
BY TypeNext, CallsKnowNext, MapKnowsNext, RemovesOnceNext DEF WritersInv

(* The inductive invariant of the map: calls, map and threads agree on      *)
(* which DestTable a name stands for, whatever calls overlap.               *)
THEOREM WritersInvCorrect == Spec => []WritersInv
BY WritersInit, WritersNext, PTL DEF Spec

LEMMA WritersImplies == WritersInv => WritersInOrder
<1> SUFFICES ASSUME WritersInv PROVE WritersInOrder
  OBVIOUS
<1>1. ASSUME NEW d \in 1 .. Len(nameOf), NEW e \in 1 .. Len(nameOf), nameOf[d] = nameOf[e],
             pc[d] # "done", pc[e] # "done"
      PROVE  d = e
  BY <1>1 DEF WritersInv, MapKnows
<1>2. ASSUME NEW c \in Callers, callPc[c] = "erase"
      PROVE  destTables[callTable[c]] = callDest[c]
  BY <1>2 DEF WritersInv, RemovesOnce, RemoveLabels
<1>3. QED
  BY <1>1, <1>2 DEF WritersInv, WritersInOrder, OneWriterPerTable

(* A table never has two writer threads, and removeTable() erases the entry *)
(* of the DestTable it has joined, though addTable() and removeTable() work *)
(* on the map in several steps and erase by name.                           *)
THEOREM WritersCorrect == Spec => []WritersInOrder
BY WritersInvCorrect, WritersImplies, PTL

-----------------------------------------------------------------------------
(* The rows                                                                 *)

LEMMA ThreadHoldsNext ==
  ASSUME RowTypeOK, ThreadHolds, \A d \in Dests : RowStep(d)
  PROVE  ThreadHolds'
<1> SUFFICES ASSUME NEW d \in Dests
             PROVE  /\ items'[d] # <<>> => pc'[d] \in {"send", "save"}
                    /\ pc'[d] \in {"pop", "send"} => ~finished'[d]
                    /\ pc'[d] = "save" => finished'[d]
  BY DEF ThreadHolds
<1>1. /\ items[d] # <<>> => pc[d] \in {"send", "save"}
      /\ pc[d] \in {"pop", "send"} => ~finished[d]
      /\ pc[d] = "save" => finished[d]
  BY DEF ThreadHolds
<1>2. CASE Accepts(d) \/ HandsSaved(d) \/ HandsQueued(d)
  BY <1>1, <1>2 DEF Accepts, HandsSaved, HandsQueued
<1>3. CASE Pops(d) \/ Sends(d) \/ Fails(d) \/ Saves(d)
  BY <1>1, <1>3 DEF Pops, Sends, Fails, Saves
<1>4. CASE KeepsRows(d)
  BY <1>1, <1>4 DEF KeepsRows
<1>5. QED
  BY <1>2, <1>3, <1>4 DEF RowStep

LEMMA AccountingNext ==
  ASSUME RowTypeOK, ThreadHolds, RowAccounting, \A d \in Dests : RowStep(d)
  PROVE  RowAccounting'
<1> SUFFICES ASSUME NEW d \in Dests
             PROVE  accepted'[d] = sendedRows'[d] + Len(saveQueue'[d]) + Len(items'[d])
                                   + Len(handed'[d]) + Len(writeQueue'[d])
  BY DEF RowAccounting
<1> DEFINE a == accepted[d]           an == accepted'[d]
           s == sendedRows[d]         sn == sendedRows'[d]
           k == Len(saveQueue[d])     kn == Len(saveQueue'[d])
           i == Len(items[d])         in == Len(items'[d])
           h == Len(handed[d])        hn == Len(handed'[d])
           q == Len(writeQueue[d])    qn == Len(writeQueue'[d])
<1>1. /\ writeQueue[d] \in Seq(Nat) /\ saveQueue[d] \in Seq(Nat)
      /\ items[d] \in Seq(Nat) /\ handed[d] \in Seq(Nat)
  BY DEF RowTypeOK
<1>2. a \in Nat /\ s \in Nat /\ k \in Nat /\ i \in Nat /\ h \in Nat /\ q \in Nat
  BY <1>1 DEF RowTypeOK
<1>3. an \in Nat /\ sn \in Nat /\ kn \in Nat /\ in \in Nat /\ hn \in Nat /\ qn \in Nat
  BY RowValues
<1>4. a = s + k + i + h + q
  BY DEF RowAccounting
<1>5. \/ Accepts(d) /\ an = a + 1 /\ qn = q + 1 /\ sn = s /\ kn = k /\ in = i /\ hn = h
      \/ HandsSaved(d) /\ an = a /\ kn = 0 /\ hn = h + k /\ sn = s /\ in = i /\ qn = q
      \/ HandsQueued(d) /\ an = a /\ qn = 0 /\ hn = h + q /\ sn = s /\ in = i /\ kn = k
      \/ Pops(d) /\ an = a /\ i = 0 /\ qn = q - in /\ sn = s /\ kn = k /\ hn = h
      \/ Sends(d) /\ an = a /\ sn = s + i /\ in = 0 /\ kn = k /\ hn = h /\ qn = q
      \/ Saves(d) /\ an = a /\ kn = k + 1 /\ in = i - 1 /\ sn = s /\ hn = h /\ qn = q
      \/ an = a /\ sn = s /\ kn = k /\ in = i /\ hn = h /\ qn = q
  <2>1. CASE Accepts(d)
    <3>1. qn = q + 1
      BY <1>1, <2>1 DEF Accepts
    <3>2. an = a + 1 /\ sn = s /\ kn = k /\ in = i /\ hn = h
      BY <2>1 DEF Accepts
    <3>3. QED
      BY <2>1, <3>1, <3>2
  <2>2. CASE HandsSaved(d)
    BY <1>1, <2>2, ConcatFacts DEF HandsSaved
  <2>3. CASE HandsQueued(d)
    BY <1>1, <2>3, ConcatFacts DEF HandsQueued
  <2>4. CASE Pops(d)
    <3>1. PICK n \in 0 .. Len(writeQueue[d]) :
            /\ items'[d] = SubSeq(writeQueue[d], 1, n)
            /\ writeQueue'[d] = SubSeq(writeQueue[d], n + 1, Len(writeQueue[d]))
      BY <2>4 DEF Pops
    <3>2. in = n /\ qn = q - n
      BY <1>1, <3>1, SplitFacts
    <3>3. items[d] = <<>>
      BY <2>4 DEF Pops, ThreadHolds
    <3>4. QED
      BY <2>4, <3>2, <3>3 DEF Pops
  <2>5. CASE Sends(d)
    BY <1>1, <2>5 DEF Sends
  <2>6. CASE Saves(d)
    <3>1. kn = k + 1
      BY <1>1, <2>6 DEF Saves
    <3>2. in = i - 1
      BY <1>1, <2>6 DEF Saves
    <3>3. an = a /\ sn = s /\ hn = h /\ qn = q
      BY <2>6 DEF Saves
    <3>4. QED
      BY <2>6, <3>1, <3>2, <3>3
  <2>7. CASE Fails(d) \/ KeepsRows(d)
    BY <2>7 DEF Fails, KeepsRows
  <2>8. QED
    BY <2>1, <2>2, <2>3, <2>4, <2>5, <2>6, <2>7 DEF RowStep
<1> HIDE DEF a, an, s, sn, k, kn, i, in, h, hn, q, qn
<1>6. an = sn + kn + in + hn + qn
  BY <1>2, <1>3, <1>4, <1>5
<1>7. QED
  BY <1>6 DEF an, sn, kn, in, hn, qn

(* Predicates on rows distribute over concatenation, so that a step that    *)
(* moves rows from one place to another splits them and puts them together. *)
AtMost(s, n) == \A i \in 1 .. Len(s) : s[i] <= n

LEMMA NoRows ==
  ASSUME NEW s \in Seq(Nat), NEW n \in Nat
  PROVE  /\ <<>> \in Seq(Nat) /\ AtMost(<<>>, n) /\ Increasing(<<>>) /\ IsInjective(<<>>)
         /\ Before(<<>>, s) /\ Before(s, <<>>) /\ Apart(<<>>, s) /\ Apart(s, <<>>)
BY DEF AtMost, Increasing, IsInjective, Before, Apart, Range

LEMMA ConcatBounded ==
  ASSUME NEW s \in Seq(Nat), NEW r \in Seq(Nat), NEW n \in Nat
  PROVE  AtMost(s \o r, n) <=> AtMost(s, n) /\ AtMost(r, n)
<1> DEFINE k == Len(s)
           m == Len(r)
<1>1. /\ k \in Nat /\ m \in Nat /\ Len(s \o r) = k + m
      /\ \A i \in 1 .. k : (s \o r)[i] = s[i]
      /\ \A j \in 1 .. m : (s \o r)[k + j] = r[j]
  BY ConcatFacts
<1>2. /\ \A i \in 1 .. k : i \in 1 .. k + m
      /\ \A j \in 1 .. m : k + j \in 1 .. k + m
      /\ \A i \in 1 .. k + m : i \in 1 .. k \/ (i - k \in 1 .. m /\ i = k + (i - k))
  <2> HIDE DEF k, m
  <2> QED
    BY <1>1
<1>3. QED
  <2> HIDE DEF k, m
  <2>1. AtMost(s \o r, n) <=> \A i \in 1 .. k + m : (s \o r)[i] <= n
    BY <1>1 DEF AtMost
  <2>2. (\A i \in 1 .. k + m : (s \o r)[i] <= n) <=>
          (\A i \in 1 .. k : s[i] <= n) /\ (\A j \in 1 .. m : r[j] <= n)
    <3>1. ASSUME \A i \in 1 .. k + m : (s \o r)[i] <= n
          PROVE  (\A i \in 1 .. k : s[i] <= n) /\ (\A j \in 1 .. m : r[j] <= n)
      BY <1>1, <1>2, <3>1
    <3>2. ASSUME \A i \in 1 .. k : s[i] <= n, \A j \in 1 .. m : r[j] <= n,
                 NEW i \in 1 .. k + m
          PROVE  (s \o r)[i] <= n
      BY <1>1, <1>2, <3>2
    <3>3. QED
      BY <3>1, <3>2
  <2>3. QED
    BY <2>1, <2>2 DEF AtMost, k, m

LEMMA ConcatApart ==
  ASSUME NEW s \in Seq(Nat), NEW r \in Seq(Nat), NEW t \in Seq(Nat)
  PROVE  /\ Apart(s, t) <=> Apart(t, s)
         /\ Apart(s \o r, t) <=> Apart(s, t) /\ Apart(r, t)
         /\ Apart(t, s \o r) <=> Apart(t, s) /\ Apart(t, r)
<1>1. Range(s \o r) = Range(s) \cup Range(r)
  <2>1. DOMAIN s = 1 .. Len(s) /\ DOMAIN r = 1 .. Len(r) /\ DOMAIN (s \o r) = 1 .. Len(s) + Len(r)
    OBVIOUS
  <2>2. ASSUME NEW x \in Range(s \o r) PROVE x \in Range(s) \cup Range(r)
    <3>1. PICK i \in 1 .. Len(s) + Len(r) : x = (s \o r)[i]
      BY <2>1 DEF Range
    <3>2. Len(s) \in Nat /\ Len(r) \in Nat
      OBVIOUS
    <3>3. CASE i \in 1 .. Len(s)
      <4>1. x = s[i]
        BY <3>1, <3>3, ConcatFacts
      <4>2. QED
        BY <2>1, <3>3, <4>1 DEF Range
    <3>4. CASE i \notin 1 .. Len(s)
      <4>1. i - Len(s) \in 1 .. Len(r) /\ i = Len(s) + (i - Len(s))
        BY <3>2, <3>4
      <4>2. x = r[i - Len(s)]
        BY <3>1, <4>1, ConcatFacts
      <4>3. QED
        BY <2>1, <4>1, <4>2 DEF Range
    <3>5. QED
      BY <3>3, <3>4
  <2>3. ASSUME NEW x \in Range(s) PROVE x \in Range(s \o r)
    <3>1. PICK i \in 1 .. Len(s) : x = s[i]
      BY <2>1, <2>3 DEF Range
    <3>2. i \in 1 .. Len(s) + Len(r) /\ x = (s \o r)[i]
      BY <3>1, ConcatFacts
    <3>3. QED
      BY <2>1, <3>2 DEF Range
  <2>4. ASSUME NEW x \in Range(r) PROVE x \in Range(s \o r)
    <3>1. PICK i \in 1 .. Len(r) : x = r[i]
      BY <2>1, <2>4 DEF Range
    <3>2. Len(s) + i \in 1 .. Len(s) + Len(r) /\ x = (s \o r)[Len(s) + i]
      BY <3>1, ConcatFacts
    <3>3. QED
      BY <2>1, <3>2 DEF Range
  <2>5. QED
    BY <2>2, <2>3, <2>4
<1>2. QED
  BY <1>1 DEF Apart

LEMMA ConcatBefore ==
  ASSUME NEW s \in Seq(Nat), NEW r \in Seq(Nat), NEW t \in Seq(Nat)
  PROVE  /\ Before(s \o r, t) <=> Before(s, t) /\ Before(r, t)
         /\ Before(t, s \o r) <=> Before(t, s) /\ Before(t, r)
         /\ Increasing(s \o r) <=> Increasing(s) /\ Increasing(r) /\ Before(s, r)
<1> DEFINE k == Len(s)
           m == Len(r)
<1>1. /\ k \in Nat /\ m \in Nat /\ Len(s \o r) = k + m
      /\ \A i \in 1 .. k : (s \o r)[i] = s[i] /\ s[i] \in Nat
      /\ \A j \in 1 .. m : (s \o r)[k + j] = r[j] /\ r[j] \in Nat
  BY ConcatFacts
<1>2. /\ \A i \in 1 .. k : i \in 1 .. k + m
      /\ \A j \in 1 .. m : k + j \in 1 .. k + m
      /\ \A i \in 1 .. k + m : i \in 1 .. k \/ (i - k \in 1 .. m /\ i = k + (i - k))
      /\ \A i \in 1 .. k, j \in 1 .. m : i < k + j /\ ~(k + j < i)
      /\ \A i, j \in 1 .. m : i < j <=> k + i < k + j
  <2> HIDE DEF k, m
  <2> QED
    BY <1>1
<1> DEFINE sr == s \o r
<1>3. \A i \in 1 .. k + m : \/ i \in 1 .. k /\ sr[i] = s[i]
                            \/ \E j \in 1 .. m : i = k + j /\ sr[i] = r[j]
  <2> HIDE DEF k, m
  <2> QED
    BY <1>1, <1>2
<1> HIDE DEF k, m, sr
<1>4. Before(sr, t) <=> Before(s, t) /\ Before(r, t)
  <2>1. Before(sr, t) <=> \A i \in 1 .. k + m, j \in 1 .. Len(t) : sr[i] < t[j]
    BY <1>1 DEF Before, sr
  <2>2. Before(s, t) <=> \A i \in 1 .. k, j \in 1 .. Len(t) : s[i] < t[j]
    BY DEF Before, k
  <2>3. Before(r, t) <=> \A i \in 1 .. m, j \in 1 .. Len(t) : r[i] < t[j]
    BY DEF Before, m
  <2>4. ASSUME Before(sr, t) PROVE Before(s, t) /\ Before(r, t)
    BY <1>1, <1>2, <2>1, <2>2, <2>3, <2>4 DEF sr
  <2>5. ASSUME Before(s, t), Before(r, t), NEW i \in 1 .. k + m, NEW j \in 1 .. Len(t)
        PROVE  sr[i] < t[j]
    BY <1>3, <2>2, <2>3, <2>5
  <2>6. QED
    BY <2>1, <2>4, <2>5
<1>5. Before(t, sr) <=> Before(t, s) /\ Before(t, r)
  <2>1. Before(t, sr) <=> \A i \in 1 .. Len(t), j \in 1 .. k + m : t[i] < sr[j]
    BY <1>1 DEF Before, sr
  <2>2. Before(t, s) <=> \A i \in 1 .. Len(t), j \in 1 .. k : t[i] < s[j]
    BY DEF Before, k
  <2>3. Before(t, r) <=> \A i \in 1 .. Len(t), j \in 1 .. m : t[i] < r[j]
    BY DEF Before, m
  <2>4. ASSUME Before(t, sr) PROVE Before(t, s) /\ Before(t, r)
    BY <1>1, <1>2, <2>1, <2>2, <2>3, <2>4 DEF sr
  <2>5. ASSUME Before(t, s), Before(t, r), NEW i \in 1 .. Len(t), NEW j \in 1 .. k + m
        PROVE  t[i] < sr[j]
    BY <1>3, <2>2, <2>3, <2>5
  <2>6. QED
    BY <2>1, <2>4, <2>5
<1>6. Increasing(sr) <=> Increasing(s) /\ Increasing(r) /\ Before(s, r)
  <2>1. Increasing(sr) <=> \A i, j \in 1 .. k + m : i < j => sr[i] < sr[j]
    BY <1>1 DEF Increasing, sr
  <2>2. Increasing(s) <=> \A i, j \in 1 .. k : i < j => s[i] < s[j]
    BY DEF Increasing, k
  <2>3. Increasing(r) <=> \A i, j \in 1 .. m : i < j => r[i] < r[j]
    BY DEF Increasing, m
  <2>4. Before(s, r) <=> \A i \in 1 .. k, j \in 1 .. m : s[i] < r[j]
    BY DEF Before, k, m
  <2>5. ASSUME Increasing(sr) PROVE Increasing(s) /\ Increasing(r) /\ Before(s, r)
    <3>1. Increasing(s)
      BY <1>1, <1>2, <2>1, <2>2, <2>5 DEF sr
    <3>2. Increasing(r)
      BY <1>1, <1>2, <2>1, <2>3, <2>5 DEF sr
    <3>3. Before(s, r)
      BY <1>1, <1>2, <2>1, <2>4, <2>5 DEF sr
    <3>4. QED
      BY <3>1, <3>2, <3>3
  <2>6. ASSUME Increasing(s), Increasing(r), Before(s, r),
               NEW i \in 1 .. k + m, NEW j \in 1 .. k + m, i < j
        PROVE  sr[i] < sr[j]
    <3>1. CASE i \in 1 .. k /\ sr[i] = s[i] /\ j \in 1 .. k /\ sr[j] = s[j]
      BY <2>2, <2>6, <3>1
    <3>2. ASSUME i \in 1 .. k, sr[i] = s[i], NEW b \in 1 .. m, j = k + b, sr[j] = r[b]
          PROVE  sr[i] < sr[j]
      BY <2>4, <2>6, <3>2
    <3>3. ASSUME NEW b \in 1 .. m, i = k + b, j \in 1 .. k PROVE FALSE
      BY <1>2, <2>6, <3>3
    <3>4. ASSUME NEW b \in 1 .. m, i = k + b, sr[i] = r[b], NEW e \in 1 .. m, j = k + e, sr[j] = r[e]
          PROVE  sr[i] < sr[j]
      BY <1>2, <2>3, <2>6, <3>4
    <3>5. QED
      BY <1>3, <3>1, <3>2, <3>3, <3>4
  <2>7. QED
    BY <2>1, <2>5, <2>6
<1>7. QED
  BY <1>4, <1>5, <1>6 DEF sr

LEMMA ConcatInjective ==
  ASSUME NEW s \in Seq(Nat), NEW r \in Seq(Nat)
  PROVE  /\ IsInjective(s \o r) <=> IsInjective(s) /\ IsInjective(r) /\ Apart(s, r)
         /\ Increasing(s) => IsInjective(s)
         /\ Before(s, r) => Apart(s, r)
<1> DEFINE k == Len(s)
           m == Len(r)
           sr == s \o r
<1>1. /\ k \in Nat /\ m \in Nat /\ Len(sr) = k + m /\ sr \in Seq(Nat)
      /\ \A i \in 1 .. k : sr[i] = s[i] /\ s[i] \in Nat
      /\ \A j \in 1 .. m : sr[k + j] = r[j] /\ r[j] \in Nat
  BY ConcatFacts
<1>2. DOMAIN s = 1 .. k /\ DOMAIN r = 1 .. m /\ DOMAIN sr = 1 .. k + m
  BY <1>1
<1> HIDE DEF k, m, sr
<1>3. /\ \A i \in 1 .. k : i \in 1 .. k + m
      /\ \A j \in 1 .. m : k + j \in 1 .. k + m
      /\ \A i \in 1 .. k, j \in 1 .. m : i # k + j
      /\ \A i, j \in 1 .. m : k + i = k + j => i = j
      /\ \A i \in 1 .. k + m : i \in 1 .. k \/ (i - k \in 1 .. m /\ i = k + (i - k))
  BY <1>1
<1>4. \A i \in 1 .. k + m : \/ i \in 1 .. k /\ sr[i] = s[i]
                            \/ \E j \in 1 .. m : i = k + j /\ sr[i] = r[j]
  BY <1>1, <1>3
<1>5. IsInjective(sr) <=> \A i, j \in 1 .. k + m : sr[i] = sr[j] => i = j
  BY <1>2 DEF IsInjective
<1>6. IsInjective(s) <=> \A i, j \in 1 .. k : s[i] = s[j] => i = j
  BY <1>2 DEF IsInjective
<1>7. IsInjective(r) <=> \A i, j \in 1 .. m : r[i] = r[j] => i = j
  BY <1>2 DEF IsInjective
<1>8. Apart(s, r) <=> \A i \in 1 .. k, j \in 1 .. m : s[i] # r[j]
  BY <1>2 DEF Apart, Range
<1>9. IsInjective(sr) <=> IsInjective(s) /\ IsInjective(r) /\ Apart(s, r)
  <2>1. ASSUME IsInjective(sr) PROVE IsInjective(s) /\ IsInjective(r) /\ Apart(s, r)
    <3>1. IsInjective(s)
      BY <1>1, <1>3, <1>5, <1>6, <2>1
    <3>2. IsInjective(r)
      BY <1>1, <1>3, <1>5, <1>7, <2>1
    <3>3. Apart(s, r)
      BY <1>1, <1>3, <1>5, <1>8, <2>1
    <3>4. QED
      BY <3>1, <3>2, <3>3
  <2>2. ASSUME IsInjective(s), IsInjective(r), Apart(s, r)
        PROVE  IsInjective(sr)
    <3>1. SUFFICES ASSUME NEW i \in 1 .. k + m, NEW j \in 1 .. k + m, sr[i] = sr[j] PROVE i = j
      BY <1>5
    <3>2. CASE i \in 1 .. k /\ sr[i] = s[i] /\ j \in 1 .. k /\ sr[j] = s[j]
      BY <1>6, <2>2, <3>1, <3>2
    <3>3. ASSUME NEW e \in 1 .. k, NEW b \in 1 .. m, s[e] = r[b] PROVE FALSE
      BY <1>8, <2>2, <3>3
    <3>4. ASSUME NEW b \in 1 .. m, i = k + b, sr[i] = r[b], NEW e \in 1 .. m, j = k + e, sr[j] = r[e]
          PROVE  i = j
      BY <1>7, <2>2, <3>1, <3>4
    <3>5. QED
      BY <1>4, <3>1, <3>2, <3>3, <3>4
  <2>3. QED
    BY <2>1, <2>2
<1>10. Increasing(s) => IsInjective(s)
  <2>1. Increasing(s) <=> \A i, j \in 1 .. k : i < j => s[i] < s[j]
    BY DEF Increasing, k
  <2>2. \A i, j \in 1 .. k : i # j => i < j \/ j < i
    BY <1>1
  <2>3. ASSUME Increasing(s), NEW i \in 1 .. k, NEW j \in 1 .. k, s[i] = s[j] PROVE i = j
    <3>1. s[i] \in Nat /\ ~(s[i] < s[j]) /\ ~(s[j] < s[i])
      BY <1>1, <2>3
    <3>2. QED
      BY <2>1, <2>2, <2>3, <3>1
  <2>4. QED
    BY <1>6, <2>3
<1>11. Before(s, r) => Apart(s, r)
  <2>1. Before(s, r) <=> \A i \in 1 .. k, j \in 1 .. m : s[i] < r[j]
    BY DEF Before, k, m
  <2>2. QED
    BY <1>1, <1>8, <2>1
<1>12. QED
  BY <1>9, <1>10, <1>11 DEF sr

LEMMA OneRow ==
  ASSUME NEW x \in Nat
  PROVE  <<x>> \in Seq(Nat) /\ Increasing(<<x>>) /\ IsInjective(<<x>>) /\ AtMost(<<x>>, x)
BY DEF Increasing, IsInjective, AtMost

LEMMA FreshRow ==
  ASSUME NEW s \in Seq(Nat), NEW n \in Nat, AtMost(s, n)
  PROVE  /\ AtMost(s, n + 1)
         /\ Before(s, <<n + 1>>) /\ Apart(s, <<n + 1>>)
         /\ Append(s, n + 1) = s \o <<n + 1>>
<1>1. \A i \in 1 .. Len(s) : s[i] \in Nat /\ s[i] <= n
  BY DEF AtMost
<1>2. AtMost(s, n + 1)
  BY <1>1 DEF AtMost
<1>3. Before(s, <<n + 1>>)
  <2>1. Len(<<n + 1>>) = 1 /\ <<n + 1>>[1] = n + 1
    OBVIOUS
  <2>2. QED
    BY <1>1, <2>1 DEF Before
<1>4. <<n + 1>> \in Seq(Nat)
  OBVIOUS
<1>5. Append(s, n + 1) = s \o <<n + 1>>
  OBVIOUS
<1>6. QED
  BY <1>2, <1>3, <1>4, <1>5, ConcatInjective

LEMMA HeadRow ==
  ASSUME NEW s \in Seq(Nat), s # <<>>
  PROVE  /\ Head(s) \in Nat /\ <<Head(s)>> \in Seq(Nat) /\ Tail(s) \in Seq(Nat)
         /\ s = <<Head(s)>> \o Tail(s)
         /\ \A t \in Seq(Nat) : Append(t, Head(s)) = t \o <<Head(s)>>
OBVIOUS

LEMMA PopParts ==
  ASSUME NEW q \in Seq(Nat), NEW n \in 0 .. Len(q)
  PROVE  q = SubSeq(q, 1, n) \o SubSeq(q, n + 1, Len(q))
<1> DEFINE s == SubSeq(q, 1, n)
           r == SubSeq(q, n + 1, Len(q))
<1>1. /\ s \in Seq(Nat) /\ r \in Seq(Nat) /\ Len(s) = n /\ Len(r) = Len(q) - n
      /\ \A i \in 1 .. n : s[i] = q[i]
      /\ \A j \in 1 .. Len(q) - n : r[j] = q[n + j]
  BY SplitFacts
<1>2. Len(q) \in Nat /\ n \in Nat /\ n <= Len(q)
  OBVIOUS
<1> HIDE DEF s, r
<1>3. s \o r \in Seq(Nat) /\ Len(s \o r) = Len(q)
  <2>1. s \o r \in Seq(Nat) /\ Len(s \o r) = n + (Len(q) - n)
    BY <1>1, ConcatFacts
  <2>2. QED
    BY <1>2, <2>1
<1>4. ASSUME NEW i \in 1 .. Len(q) PROVE (s \o r)[i] = q[i]
  <2>1. CASE i \in 1 .. n
    BY <1>1, <2>1, ConcatFacts
  <2>2. CASE i \notin 1 .. n
    <3>1. i - n \in 1 .. Len(q) - n /\ n + (i - n) = i
      BY <1>2, <2>2
    <3>2. (s \o r)[n + (i - n)] = r[i - n]
      <4>1. \A j \in 1 .. Len(r) : (s \o r)[Len(s) + j] = r[j]
        BY <1>1, ConcatFacts
      <4>2. QED
        BY <1>1, <3>1, <4>1
    <3>3. QED
      BY <1>1, <3>1, <3>2
  <2>3. QED
    BY <2>1, <2>2
<1>5. s \o r = q
  BY <1>3, <1>4, SeqEqual
<1>6. QED
  BY <1>5 DEF s, r

(* RowsApart, said of the five places of one DestTable's rows: done are     *)
(* stored, kept saved, back handed back, held in flight and left queued.    *)
Placed(done, kept, back, held, left, n, failed) ==
  /\ AtMost(done, n) /\ AtMost(kept, n) /\ AtMost(back, n) /\ AtMost(held, n) /\ AtMost(left, n)
  /\ Increasing(done) /\ Increasing(held) /\ Increasing(left) /\ Before(held, left)
  /\ ~failed => Before(done, held) /\ Before(done, left)
  /\ IsInjective(kept) /\ IsInjective(back) /\ Apart(kept, back)
  /\ Apart(kept, held) /\ Apart(kept, left) /\ Apart(back, held) /\ Apart(back, left)
  /\ ~("lost" \in BatchFaults /\ failed) =>
       Apart(done, kept) /\ Apart(done, back) /\ Apart(done, held) /\ Apart(done, left)

PlacedOf(d) == Placed(stored[d], saveQueue[d], handed[d], items[d], writeQueue[d],
                      accepted[d], finished[d])

LEMMA RowsArePlaced ==
  /\ RowsApart <=> \A d \in Dests : PlacedOf(d)
  /\ RowsApart' <=> \A d \in Dests : PlacedOf(d)'
<1>1. ASSUME NEW done, NEW kept, NEW back, NEW held, NEW left, NEW n, NEW failed
      PROVE  Placed(done, kept, back, held, left, n, failed) <=>
         /\ \A s \in {done, kept, back, held, left} :
            \A i \in 1 .. Len(s) : s[i] <= n
         /\ Increasing(done) /\ Increasing(held) /\ Increasing(left)
         /\ Before(held, left)
         /\ ~failed => Before(done, held) /\ Before(done, left)
         /\ IsInjective(kept) /\ IsInjective(back) /\ Apart(kept, back)
         /\ \A s \in {held, left} : Apart(kept, s) /\ Apart(back, s)
         /\ ~("lost" \in BatchFaults /\ failed) =>
              \A s \in {kept, back, held, left} : Apart(done, s)
  BY DEF Placed, AtMost
<1>2. RowsApart <=> \A d \in Dests : PlacedOf(d)
  BY <1>1 DEF RowsApart, PlacedOf
<1>3. RowsApart' <=> \A d \in Dests : PlacedOf(d)'
  BY <1>1 DEF RowsApart, PlacedOf
<1>4. QED
  BY <1>2, <1>3

LEMMA RowsApartNext ==
  ASSUME RowTypeOK, ThreadHolds, RowsApart, \A d \in Dests : RowStep(d)
  PROVE  RowsApart'
<1> SUFFICES ASSUME NEW d \in Dests
             PROVE  PlacedOf(d)'
  BY RowsArePlaced
<1> DEFINE done == stored[d]
           kept == saveQueue[d]
           back == handed[d]
           held == items[d]
           left == writeQueue[d]
           n == accepted[d]
           failed == finished[d]
<1>1. /\ done \in Seq(Nat) /\ kept \in Seq(Nat) /\ back \in Seq(Nat)
      /\ held \in Seq(Nat) /\ left \in Seq(Nat) /\ n \in Nat
  BY DEF RowTypeOK
<1>2. Placed(done, kept, back, held, left, n, failed)
  BY RowsArePlaced DEF PlacedOf
<1>3. /\ pc[d] \in {"pop", "send"} => ~failed
      /\ pc[d] = "pop" => held = <<>>
  BY DEF ThreadHolds
<1> SUFFICES Placed(stored'[d], saveQueue'[d], handed'[d], items'[d], writeQueue'[d],
                    accepted'[d], finished'[d])
  BY DEF PlacedOf
<1>4. CASE Accepts(d)
  <2>1. /\ ~failed /\ writeQueue'[d] = left \o <<n + 1>> /\ accepted'[d] = n + 1
        /\ stored'[d] = done /\ saveQueue'[d] = kept /\ handed'[d] = back
        /\ items'[d] = held /\ finished'[d] = failed
    BY <1>1, <1>2, <1>4, FreshRow DEF Accepts, Placed
  <2> DEFINE row == <<n + 1>>
  <2>2. row \in Seq(Nat) /\ Increasing(row) /\ AtMost(row, n + 1) /\ n + 1 \in Nat
    BY <1>1, OneRow
  <2>3. ASSUME NEW s \in {done, kept, back, held, left}
        PROVE  s \in Seq(Nat) /\ AtMost(s, n + 1) /\ Before(s, row) /\ Apart(s, row)
    BY <1>1, <1>2, FreshRow DEF Placed
  <2> HIDE DEF done, kept, back, held, left, n, failed, row
  <2>4. AtMost(left \o row, n + 1)
    BY <1>1, <2>2, <2>3, ConcatBounded
  <2>5. Increasing(left \o row) /\ Before(held, left \o row) /\ (~failed => Before(done, left \o row))
    BY <1>1, <1>2, <2>2, <2>3, ConcatBefore DEF Placed
  <2>6. \A s \in {done, kept, back} : Apart(s, left) => Apart(s, left \o row)
    BY <1>1, <2>2, <2>3, ConcatApart
  <2>7. Placed(done, kept, back, held, left \o row, n + 1, failed)
    BY <1>2, <2>3, <2>4, <2>5, <2>6 DEF Placed
  <2>8. QED
    BY <2>1, <2>7 DEF row
<1>5. CASE HandsSaved(d)
  <2>1. /\ handed'[d] = back \o kept /\ saveQueue'[d] = <<>>
        /\ stored'[d] = done /\ items'[d] = held /\ writeQueue'[d] = left
        /\ accepted'[d] = n /\ finished'[d] = failed
    BY <1>5 DEF HandsSaved
  <2> HIDE DEF done, kept, back, held, left, n, failed
  <2>2. AtMost(back \o kept, n) /\ AtMost(<<>>, n)
    BY <1>1, <1>2, ConcatBounded, NoRows DEF Placed
  <2>3. IsInjective(back \o kept) /\ IsInjective(<<>>) /\ Apart(<<>>, back \o kept)
    <3>1. back \o kept \in Seq(Nat)
      BY <1>1, ConcatFacts
    <3>2. Apart(back, kept)
      BY <1>1, <1>2, ConcatApart DEF Placed
    <3>3. QED
      BY <1>1, <1>2, <3>1, <3>2, ConcatInjective, NoRows DEF Placed
  <2>4. /\ Apart(back \o kept, held) /\ Apart(back \o kept, left)
        /\ Apart(<<>>, held) /\ Apart(<<>>, left) /\ Apart(done, <<>>)
    BY <1>1, <1>2, ConcatApart, NoRows DEF Placed
  <2>5. Apart(done, back) /\ Apart(done, kept) => Apart(done, back \o kept)
    BY <1>1, ConcatApart, ConcatFacts
  <2>6. Placed(done, <<>>, back \o kept, held, left, n, failed)
    BY <1>2, <2>2, <2>3, <2>4, <2>5 DEF Placed
  <2>7. QED
    BY <2>1, <2>6
<1>6. CASE HandsQueued(d)
  <2>1. /\ handed'[d] = back \o left /\ writeQueue'[d] = <<>>
        /\ stored'[d] = done /\ items'[d] = held /\ saveQueue'[d] = kept
        /\ accepted'[d] = n /\ finished'[d] = failed
    BY <1>6 DEF HandsQueued
  <2> HIDE DEF done, kept, back, held, left, n, failed
  <2>2. AtMost(back \o left, n) /\ AtMost(<<>>, n)
    BY <1>1, <1>2, ConcatBounded, NoRows DEF Placed
  <2>3. IsInjective(back \o left) /\ back \o left \in Seq(Nat)
    BY <1>1, <1>2, ConcatInjective, ConcatFacts DEF Placed
  <2>4. /\ Increasing(<<>>) /\ Before(held, <<>>) /\ Before(done, <<>>)
        /\ Apart(kept, <<>>) /\ Apart(back \o left, <<>>) /\ Apart(done, <<>>)
    BY <1>1, <2>3, NoRows
  <2>5. Apart(back \o left, held)
    <3>1. Before(held, left) => Apart(held, left)
      BY <1>1, ConcatInjective
    <3>2. Apart(held, left) <=> Apart(left, held)
      BY <1>1, ConcatApart
    <3>3. QED
      BY <1>1, <1>2, <3>1, <3>2, ConcatApart DEF Placed
  <2>6. Apart(kept, back \o left) /\ (Apart(done, back) /\ Apart(done, left) => Apart(done, back \o left))
    BY <1>1, <1>2, <2>3, ConcatApart DEF Placed
  <2>7. Placed(done, kept, back \o left, held, <<>>, n, failed)
    BY <1>2, <2>2, <2>3, <2>4, <2>5, <2>6 DEF Placed
  <2>8. QED
    BY <2>1, <2>7
<1>7. CASE Pops(d)
  <2>1. PICK k \in 0 .. Len(left) :
          /\ items'[d] = SubSeq(left, 1, k)
          /\ writeQueue'[d] = SubSeq(left, k + 1, Len(left))
    BY <1>7 DEF Pops
  <2> DEFINE one == items'[d]
             two == writeQueue'[d]
  <2>2. one \in Seq(Nat) /\ two \in Seq(Nat) /\ left = one \o two
    <3>1. left = SubSeq(left, 1, k) \o SubSeq(left, k + 1, Len(left))
      BY <1>1, PopParts
    <3>2. SubSeq(left, 1, k) \in Seq(Nat) /\ SubSeq(left, k + 1, Len(left)) \in Seq(Nat)
      BY <1>1, SplitFacts
    <3>3. QED
      BY <2>1, <3>1, <3>2
  <2>3. /\ ~failed /\ stored'[d] = done /\ saveQueue'[d] = kept /\ handed'[d] = back
        /\ accepted'[d] = n /\ finished'[d] = failed
    BY <1>3, <1>7 DEF Pops
  <2> HIDE DEF done, kept, back, held, left, n, failed, one, two
  <2>4. AtMost(one, n) /\ AtMost(two, n)
    BY <1>1, <1>2, <2>2, ConcatBounded DEF Placed
  <2>5. /\ Increasing(one) /\ Increasing(two) /\ Before(one, two)
        /\ Before(done, one) /\ Before(done, two)
    BY <1>1, <1>2, <2>2, <2>3, ConcatBefore DEF Placed
  <2>6. \A s \in {done, kept, back} : Apart(s, left) => Apart(s, one) /\ Apart(s, two)
    BY <1>1, <2>2, ConcatApart
  <2>7. Placed(done, kept, back, one, two, n, failed)
    BY <1>2, <2>3, <2>4, <2>5, <2>6 DEF Placed
  <2>8. QED
    BY <2>3, <2>7 DEF one, two
<1>8. CASE Sends(d)
  <2>1. /\ ~failed /\ stored'[d] = done \o held /\ items'[d] = <<>>
        /\ saveQueue'[d] = kept /\ handed'[d] = back /\ writeQueue'[d] = left
        /\ accepted'[d] = n /\ finished'[d] = failed
    BY <1>3, <1>8 DEF Sends
  <2> HIDE DEF done, kept, back, held, left, n, failed
  <2>2. AtMost(done \o held, n) /\ AtMost(<<>>, n) /\ done \o held \in Seq(Nat)
    BY <1>1, <1>2, ConcatBounded, ConcatFacts, NoRows DEF Placed
  <2>3. Increasing(done \o held) /\ Before(done \o held, left)
    BY <1>1, <1>2, <2>1, ConcatBefore DEF Placed
  <2>4. /\ Increasing(<<>>) /\ Before(<<>>, left) /\ Before(done \o held, <<>>)
        /\ Apart(kept, <<>>) /\ Apart(back, <<>>) /\ Apart(done \o held, <<>>)
    BY <1>1, <2>2, NoRows
  <2>5. Apart(done \o held, kept) /\ Apart(done \o held, back) /\ Apart(done \o held, left)
    <3>1. Apart(held, kept) /\ Apart(held, back) /\ Apart(held, left)
      BY <1>1, <1>2, ConcatApart, ConcatInjective DEF Placed
    <3>2. QED
      BY <1>1, <1>2, <2>1, <3>1, ConcatApart DEF Placed
  <2>6. Placed(done \o held, kept, back, <<>>, left, n, failed)
    BY <1>2, <2>2, <2>3, <2>4, <2>5 DEF Placed
  <2>7. QED
    BY <2>1, <2>6
<1>9. CASE Fails(d)
  <2>1. /\ ~failed /\ finished'[d] = TRUE
        /\ stored'[d] = done \/ ("lost" \in BatchFaults /\ stored'[d] = done \o held)
        /\ items'[d] = held /\ saveQueue'[d] = kept /\ handed'[d] = back
        /\ writeQueue'[d] = left /\ accepted'[d] = n
    BY <1>3, <1>9 DEF Fails
  <2> HIDE DEF done, kept, back, held, left, n, failed
  <2>2. Placed(done, kept, back, held, left, n, TRUE)
    BY <1>2, <2>1 DEF Placed
  <2>3. "lost" \in BatchFaults => Placed(done \o held, kept, back, held, left, n, TRUE)
    <3>1. AtMost(done \o held, n)
      BY <1>1, <1>2, ConcatBounded DEF Placed
    <3>2. Increasing(done \o held)
      BY <1>1, <1>2, <2>1, ConcatBefore DEF Placed
    <3>3. QED
      BY <1>2, <3>1, <3>2 DEF Placed
  <2>4. QED
    BY <2>1, <2>2, <2>3
<1>10. CASE Saves(d)
  <2> DEFINE row == <<Head(held)>>
             rest == Tail(held)
  <2>1. /\ held # <<>> /\ saveQueue'[d] = Append(kept, Head(held)) /\ items'[d] = rest
        /\ stored'[d] = done /\ handed'[d] = back /\ writeQueue'[d] = left
        /\ accepted'[d] = n /\ finished'[d] = failed
    BY <1>10 DEF Saves
  <2>2. /\ row \in Seq(Nat) /\ rest \in Seq(Nat) /\ held = row \o rest
        /\ Append(kept, Head(held)) = kept \o row
    BY <1>1, <2>1, HeadRow
  <2> HIDE DEF done, kept, back, held, left, n, failed, row, rest
  <2>3. AtMost(kept \o row, n) /\ AtMost(rest, n)
    BY <1>1, <1>2, <2>2, ConcatBounded DEF Placed
  <2>4. /\ Increasing(rest) /\ Increasing(row) /\ Before(rest, left) /\ Before(row, left)
        /\ Before(row, rest) /\ (~failed => Before(done, rest))
    BY <1>1, <1>2, <2>2, ConcatBefore DEF Placed
  <2>5. \A s \in {done, kept, back} : Apart(s, held) => Apart(s, row) /\ Apart(s, rest)
    BY <1>1, <2>2, ConcatApart
  <2>6. IsInjective(kept \o row) /\ kept \o row \in Seq(Nat)
    BY <1>1, <1>2, <2>2, <2>4, <2>5, ConcatInjective, ConcatFacts DEF Placed
  <2>7. Apart(kept \o row, back) /\ Apart(kept \o row, rest) /\ Apart(kept \o row, left)
    <3>1. Apart(row, rest) /\ Apart(row, left)
      BY <1>1, <2>2, <2>4, ConcatInjective
    <3>2. Apart(row, back) /\ Apart(kept, rest)
      BY <1>1, <1>2, <2>2, <2>5, ConcatApart DEF Placed
    <3>3. QED
      BY <1>1, <1>2, <2>2, <3>1, <3>2, ConcatApart DEF Placed
  <2>8. Apart(done, kept) /\ Apart(done, held) => Apart(done, kept \o row) /\ Apart(done, rest)
    BY <1>1, <2>2, <2>5, <2>6, ConcatApart
  <2>9. Placed(done, kept \o row, back, rest, left, n, failed)
    BY <1>2, <2>3, <2>4, <2>5, <2>6, <2>7, <2>8 DEF Placed
  <2>10. QED
    BY <2>1, <2>2, <2>9
<1>11. CASE KeepsRows(d)
  BY <1>2, <1>11 DEF KeepsRows
<1>12. QED
  BY <1>4, <1>5, <1>6, <1>7, <1>8, <1>9, <1>10, <1>11 DEF RowStep

LEMMA RowsInit == Init => RowsInv
<1> SUFFICES ASSUME Init PROVE RowsInv
  OBVIOUS
<1>1. ASSUME NEW d \in Dests
      PROVE  /\ stored[d] = <<>> /\ saveQueue[d] = <<>> /\ handed[d] = <<>> /\ items[d] = <<>>
             /\ writeQueue[d] = <<>> /\ accepted[d] = 0 /\ sendedRows[d] = 0
             /\ pc[d] = "new" /\ finished[d] = FALSE
  BY DEF Init
<1>2. ThreadHolds
  BY <1>1 DEF ThreadHolds
<1>3. RowAccounting
  <2>1. Len(<<>>) = 0 /\ 0 = 0 + 0 + 0 + 0 + 0
    OBVIOUS
  <2>2. QED
    BY <1>1, <2>1 DEF RowAccounting
<1>4. ASSUME NEW d \in Dests PROVE PlacedOf(d)
  <2>1. Placed(<<>>, <<>>, <<>>, <<>>, <<>>, 0, FALSE)
    <3>1. <<>> \in Seq(Nat) /\ 0 \in Nat
      OBVIOUS
    <3>2. QED
      BY <3>1, NoRows DEF Placed
  <2>2. QED
    BY <1>1, <2>1 DEF PlacedOf
<1>5. RowsApart
  BY <1>4, RowsArePlaced
<1>6. QED
  BY <1>2, <1>3, <1>5 DEF RowsInv

LEMMA RowsNext == WritersInv /\ RowsInv /\ [Next]_vars => RowsInv'
<1> SUFFICES ASSUME WritersInv, RowsInv, [Next]_vars PROVE RowsInv'
  OBVIOUS
<1>1. RowTypeOK /\ ThreadHolds /\ RowAccounting /\ RowsApart
  BY DEF WritersInv, TypeOK, RowsInv
<1>2. \A d \in Dests : RowStep(d)
  BY RowStepFacts DEF WritersInv
<1>3. ThreadHolds'
  BY <1>1, <1>2, ThreadHoldsNext
<1>4. RowAccounting'
  BY <1>1, <1>2, AccountingNext
<1>5. RowsApart'
  BY <1>1, <1>2, RowsApartNext
<1>6. QED
  BY <1>3, <1>4, <1>5 DEF RowsInv

(* The inductive invariant of the rows: where the rows of a DestTable are,  *)
(* in which order, and that none is in two places.                          *)
THEOREM RowsInvCorrect == Spec => []RowsInv
BY RowsInit, RowsNext, WritersInvCorrect, PTL DEF Spec

(* No row that insert() accepted is lost or counted twice, whatever the     *)
(* server does and however calls overlap.                                   *)
THEOREM AccountingCorrect == Spec => []RowAccounting
<1>1. RowsInv => RowAccounting
  BY DEF RowsInv
<1>2. QED
  BY <1>1, RowsInvCorrect, PTL

LEMMA RowsImply == WritersInv /\ RowsInv => StoredInOrder
<1> SUFFICES ASSUME WritersInv, RowsInv PROVE StoredInOrder
  OBVIOUS
<1> SUFFICES ASSUME NEW d \in Dests
             PROVE  /\ Increasing(stored[d])
                    /\ Increasing(items[d] \o writeQueue[d])
                    /\ pc[d] = "send" => Increasing(stored[d] \o items[d] \o writeQueue[d])
                    /\ ~IsInjective(stored[d] \o handed[d]) => "lost" \in BatchFaults /\ finished[d]
  BY DEF StoredInOrder, InOrder, StoredAndHanded
<1>1. /\ stored[d] \in Seq(Nat) /\ items[d] \in Seq(Nat) /\ writeQueue[d] \in Seq(Nat)
      /\ handed[d] \in Seq(Nat) /\ finished[d] \in BOOLEAN
  BY DEF WritersInv, TypeOK, RowTypeOK, ThreadTypeOK
<1>2. /\ Placed(stored[d], saveQueue[d], handed[d], items[d], writeQueue[d], accepted[d], finished[d])
      /\ pc[d] = "send" => ~finished[d]
  BY RowsArePlaced DEF RowsInv, PlacedOf, ThreadHolds
<1>3. Increasing(stored[d]) /\ Increasing(items[d] \o writeQueue[d])
  BY <1>1, <1>2, ConcatBefore DEF Placed
<1>4. ASSUME pc[d] = "send" PROVE Increasing(stored[d] \o items[d] \o writeQueue[d])
  <2>1. stored[d] \o items[d] \in Seq(Nat)
    BY <1>1, ConcatFacts
  <2>2. Increasing(stored[d] \o items[d]) /\ Before(stored[d] \o items[d], writeQueue[d])
    BY <1>1, <1>2, <1>4, ConcatBefore DEF Placed
  <2>3. QED
    BY <1>1, <1>2, <2>1, <2>2, ConcatBefore DEF Placed
<1>5. ASSUME ~("lost" \in BatchFaults /\ finished[d]) PROVE IsInjective(stored[d] \o handed[d])
  BY <1>1, <1>2, <1>5, ConcatInjective DEF Placed
<1>6. QED
  BY <1>3, <1>4, <1>5

(* The server stores the rows of a table in the order of insertion, and a   *)
(* row is stored or handed back, never both, but for a lost reply.          *)
THEOREM StoredCorrect == Spec => []StoredInOrder
BY RowsImply, WritersInvCorrect, RowsInvCorrect, PTL

(* A writer thread that meets no error ends only when its queue is empty    *)
(* and it holds no row.                                                     *)
THEOREM DrainedCorrect == Spec => EndsDrained
<1>1. WritersInv /\ RowsInv /\ [Next]_vars =>
        [\A d \in Dests : pc[d] # "done" /\ pc'[d] = "done" /\ ~finished'[d] =>
           writeQueue[d] = <<>> /\ items[d] = <<>>]_vars
  <2> SUFFICES ASSUME WritersInv, RowsInv, [Next]_vars, NEW d \in Dests,
                      pc[d] # "done", pc'[d] = "done", ~finished'[d]
               PROVE  writeQueue[d] = <<>> /\ items[d] = <<>>
    OBVIOUS
  <2>1. RowStep(d)
    BY RowStepFacts DEF WritersInv
  <2>2. KeepsRows(d)
    BY <2>1 DEF RowStep, Accepts, HandsSaved, HandsQueued, Pops, Sends, Fails, Saves
  <2>3. /\ items[d] # <<>> => pc[d] \in {"send", "save"}
        /\ pc[d] = "save" => finished[d]
    BY DEF RowsInv, ThreadHolds
  <2>4. QED
    BY <2>2, <2>3 DEF KeepsRows
<1>2. QED
  BY <1>1, WritersInvCorrect, RowsInvCorrect, PTL DEF Spec, EndsDrained
=============================================================================
