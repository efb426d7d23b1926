--------------------------- MODULE MessageDelivery ---------------------------
(***************************************************************************)
(* What the handlers get of the messages of a connection (parseMessage(),  *)
(* mergeTable(), newHandleThread(), handleConvertRowData() and the handler *)
(* threads of src/src/Streaming.cpp; StreamDeserializer and Message of     *)
(* StreamingUtil).  A message of the server is for all the subscriptions   *)
(* of its table: the thread that parses it makes for each, in the form it  *)
(* was subscribed in, what goes into its queue.                            *)
(*                                                                         *)
(* What is made refers to shared objects: columns, which a handler thread  *)
(* may extend, and tuples, which a deserializer uses again.  A row is its  *)
(* offset; an object holds a sequence of rows.                             *)
(***************************************************************************)
EXTENDS Integers, Sequences, FiniteSets

CONSTANTS
  TopicCount,  \* the subscriptions of the table
  Forms,       \* the forms they may have, a subset of AllForms
  Published,   \* the messages of the server: offset, rows, and whether all are known
  QueueLimit,  \* capacity of a queue
  BatchRows,   \* batchSize of a subscription that gets batches
  TupleLimit,  \* queuelimit_ of the deserializer
  MaxObjects   \* bound: objects made in one behaviour

(* "table": tables, one more merged into it; "batch": tables merged until   *)
(* there are BatchRows rows; "rows": rows out of a table; "tuple": rows;    *)
(* "blob": rows of a deserializer; "event": events.                         *)
AllForms == {"table", "batch", "rows", "tuple", "blob", "event"}
Merging == {"table", "batch"}
Columnar == {"table", "batch", "rows"}

(* The offset after a message.                                              *)
EndOf(k) == Published[k].offset + Published[k].rows

(* The messages follow each other without a gap, and so none begins before  *)
(* the end of an earlier one.                                               *)
ASSUME DeliveryAssumption ==
  /\ TopicCount \in Nat \ {0}
  /\ Forms \subseteq AllForms
  /\ Published \in Seq([offset : Nat, rows : Nat \ {0}, known : BOOLEAN])
  /\ \A k \in DOMAIN Published :
       Published[k].offset = IF k = 1 THEN 0 ELSE EndOf(k - 1)
  /\ \A j, k \in DOMAIN Published : j < k => EndOf(j) <= Published[k].offset
  /\ QueueLimit \in Nat \ {0}
  /\ BatchRows \in Nat \ {0}
  /\ TupleLimit \in Nat
  /\ MaxObjects \in Nat /\ TopicCount <= MaxObjects

Topics == 1 .. TopicCount        \* in the order of the message
Objects == 0 .. MaxObjects       \* 0: none, a Message without anything
None == [object |-> 0, size |-> 0, offset |-> -1, known |-> TRUE]

VARIABLES
  form,       \* the form of each subscription
  objects,    \* the rows of each object
  used,       \* objects made so far; those of Topics are the rows for the handlers of "rows"
  (* the thread that parses *)
  received,   \* messages received
  parsing,    \* whether it is idle, has a message, or has ended
  topic,      \* the topic that has its turn
  due,        \* what is yet to go into the queue of that topic
  columns,    \* the object of the message itself
  cache,      \* cache: the message row by row
  parsed,     \* rows: what the deserializer made of it
  pushed,     \* the row it still holds a Message of
  (* per subscription *)
  queues,     \* queue_
  msg,        \* the message the handler thread holds
  stage,      \* whether it is popped, merged or handled
  kept,       \* messages the application keeps, with the rows they had
  handed,     \* history: each row the handler got, with its offset
  (* the deserializer *)
  tuples      \* queue_ of its TableInfo

parserVars == <<received, parsing, topic, due, columns, cache, parsed, pushed>>
handlerVars == <<msg, stage, kept, handed>>
deliveryVars == <<form, objects, used, parserVars, queues, handlerVars, tuples>>

DeliveryInit ==
  /\ form \in [Topics -> Forms]
  /\ objects = [o \in Objects |-> <<>>]
  /\ used = TopicCount
  /\ received = 0
  /\ parsing = "idle"
  /\ topic = 0
  /\ due = <<>>
  /\ columns = 0
  /\ cache = <<>>
  /\ parsed = <<>>
  /\ pushed = 0
  /\ queues = [t \in Topics |-> <<>>]
  /\ msg = [t \in Topics |-> None]
  /\ stage = [t \in Topics |-> "none"]
  /\ kept = [t \in Topics |-> {}]
  /\ handed = [t \in Topics |-> <<>>]
  /\ tuples = <<>>

-----------------------------------------------------------------------------
(* The parsing thread *)

RowsOf(k) == [i \in 1 .. Published[k].rows |-> Published[k].offset + i - 1]
RowCount == Published[received].rows
StartOffset == Published[received].offset

Whole == [object |-> columns, size |-> RowCount, offset |-> StartOffset,
          known |-> Published[received].known]
RowMessage(o, i) == [object |-> o, size |-> 1, offset |-> StartOffset + i - 1, known |-> TRUE]

Room(n) == used + n <= MaxObjects

Receive ==
  /\ parsing = "idle" /\ Room(1)
  /\ received < Len(Published)
  /\ received' = received + 1
  /\ parsing' = "message"
  /\ topic' = 0
  /\ used' = used + 1
  /\ columns' = used'
  /\ objects' = [objects EXCEPT ![used'] = RowsOf(received')]
  /\ cache' = <<>>
  /\ parsed' = <<>>
  /\ UNCHANGED <<form, due, pushed, queues, handlerVars, tuples>>

(* parseBlob() takes tuples of earlier messages, the last one first, and    *)
(* makes the others.  Mutant: a tuple that is taken stays in the queue.     *)
LastStays(n) == tuples
WithoutLast(n) == SubSeq(tuples, 1, Len(tuples) - n)

NewTuples(n) ==
  [i \in 1 .. n |-> IF i <= Len(tuples) THEN tuples[Len(tuples) + 1 - i]
                                        ELSE used + i - Len(tuples)]
Taken(n) == IF n <= Len(tuples) THEN n ELSE Len(tuples)
Filled(made) ==
  [o \in Objects |-> IF \E i \in DOMAIN made : made[i] = o
                     THEN <<StartOffset + (CHOOSE i \in DOMAIN made : made[i] = o) - 1>>
                     ELSE objects[o]]

NextTopic ==
  /\ parsing = "message"
  /\ due = <<>> /\ pushed = 0
  /\ topic < TopicCount

(* A table, or the columns as they are.                                     *)
TurnOfWhole ==
  /\ NextTopic
  /\ form[topic + 1] \in Columnar \cup {"event"}
  /\ topic' = topic + 1
  /\ due' = <<Whole>>
  /\ UNCHANGED <<form, objects, used, received, parsing, columns, cache, parsed, pushed, queues,
                 handlerVars, tuples>>

(* Rows, made once for all the topics that want them so.                    *)
TurnOfTuple ==
  /\ NextTopic
  /\ form[topic + 1] = "tuple"
  /\ cache = <<>> => Room(RowCount)
  /\ topic' = topic + 1
  /\ cache' = IF cache = <<>> THEN [i \in 1 .. RowCount |-> used + i] ELSE cache
  /\ used' = IF cache = <<>> THEN used + RowCount ELSE used
  /\ objects' = IF cache = <<>> THEN Filled(cache') ELSE objects
  /\ due' = [i \in 1 .. RowCount |-> RowMessage(cache'[i], i)]
  /\ UNCHANGED <<form, received, parsing, columns, parsed, pushed, queues, handlerVars, tuples>>

(* Rows of the deserializer, made once too: each is given away when it is   *)
(* pushed.  A row it does not know ends the thread.                         *)
TurnOfBlob ==
  /\ NextTopic
  /\ form[topic + 1] = "blob"
  /\ topic' = topic + 1
  /\ IF parsed # <<>>
     THEN due' = [i \in 1 .. RowCount |-> RowMessage(parsed[i], i)]
          /\ UNCHANGED <<objects, used, parsing, parsed, tuples>>
     ELSE /\ Room(RowCount - Taken(RowCount))
          /\ parsed' = NewTuples(RowCount)
          /\ used' = used + RowCount - Taken(RowCount)
          /\ tuples' = WithoutLast(Taken(RowCount))
          /\ objects' = Filled(parsed')
          /\ IF Published[received].known
             THEN due' = [i \in 1 .. RowCount |-> RowMessage(parsed'[i], i)] /\ UNCHANGED parsing
             ELSE parsing' = "ended" /\ UNCHANGED due
  /\ UNCHANGED <<form, received, columns, cache, pushed, queues, handlerVars>>

PushDue ==
  /\ due # <<>> /\ pushed = 0
  /\ Len(queues[topic]) < QueueLimit
  /\ queues' = [queues EXCEPT ![topic] = Append(@, Head(due))]
  /\ due' = Tail(due)
  /\ IF form[topic] = "blob"
     THEN /\ pushed' = Head(due).object
          /\ parsed' = [i \in DOMAIN parsed |-> IF parsed[i] = pushed' THEN 0 ELSE parsed[i]]
     ELSE UNCHANGED <<pushed, parsed>>
  /\ UNCHANGED <<form, objects, used, received, parsing, topic, columns, cache, handlerVars, tuples>>

(* ~Message(): the last one that refers to a tuple gives it back.  Mutant:  *)
(* whether or not the application keeps a copy.                             *)
InQueue(o) == \E t \in Topics : \E i \in DOMAIN queues[t] : queues[t][i].object = o
HeldBy(o, S) == \E t \in S : msg[t].object = o
IsKept(o) == \E t \in Topics : \E m \in kept[t] : m.object = o
InClient(o, S) == InQueue(o) \/ HeldBy(o, S)
InUse(o, S) == InClient(o, S) \/ IsKept(o)

GiveBack(o, S) ==
  tuples' = IF o # 0 /\ ~InUse(o, S) /\ Len(tuples) < TupleLimit THEN Append(tuples, o)
                                                                 ELSE tuples

Release ==
  /\ pushed # 0
  /\ pushed' = 0
  /\ GiveBack(pushed, Topics)
  /\ UNCHANGED <<form, objects, used, received, parsing, topic, due, columns, cache, parsed, queues,
                 handlerVars>>

EndMessage ==
  /\ parsing = "message"
  /\ due = <<>> /\ pushed = 0
  /\ topic = TopicCount
  /\ parsing' = "idle"
  /\ cache' = <<>>
  /\ parsed' = <<>>
  /\ columns' = 0
  /\ topic' = 0
  /\ UNCHANGED <<form, objects, used, received, due, pushed, queues, handlerVars, tuples>>

-----------------------------------------------------------------------------
(* The handler threads *)

Goes(t, label) == stage' = [stage EXCEPT ![t] = label]

PopNext(t) ==
  /\ stage[t] = "none"
  /\ queues[t] # <<>>
  /\ msg' = [msg EXCEPT ![t] = Head(queues[t])]
  /\ queues' = [queues EXCEPT ![t] = Tail(@)]
  /\ Goes(t, "popped")
  /\ UNCHANGED <<form, objects, used, parserVars, kept, handed, tuples>>

(* mergeTable(): the columns of the next message go to the end of those of  *)
(* this one, if there is one by then and the rows are not enough yet.       *)
MayMerge(t) == form[t] = "table" \/ (form[t] = "batch" /\ msg[t].size < BatchRows)

Merge(t) ==
  /\ stage[t] = "popped"
  /\ MayMerge(t)
  /\ queues[t] # <<>>
  /\ LET o == msg[t].object
         all == objects[o] \o objects[Head(queues[t]).object]
     IN  /\ objects' = [objects EXCEPT ![o] = all]
         /\ msg' = [msg EXCEPT ![t].size = Len(all)]
  /\ queues' = [queues EXCEPT ![t] = Tail(@)]
  /\ IF form[t] = "table" THEN Goes(t, "merged") ELSE UNCHANGED stage
  /\ UNCHANGED <<form, used, parserVars, kept, handed, tuples>>

(* What the handler gets: rows one by one, all in one object, or what there *)
(* is; events, if the client knows them all.                                *)
RowsIn(m) == [i \in 1 .. m.size |-> [row |-> objects[m.object][i], offset |-> m.offset + i - 1]]

HandlerGets(t) ==
  LET m == msg[t]
  IN  IF m.object = 0 THEN <<[row |-> -1, offset |-> m.offset]>>
      ELSE IF form[t] = "event" /\ ~m.known THEN <<>>
      ELSE RowsIn(m)

(* The application may keep the message, or a row of those.                 *)
LastOf(seq) == seq[Len(seq)]
Copies(t) ==
  IF form[t] = "rows"
    THEN {[object |-> t, rows |-> <<LastOf(RowsIn(msg[t])).row>>]}
    ELSE {[object |-> msg[t].object, rows |-> [i \in 1 .. msg[t].size |-> objects[msg[t].object][i]]]}

Handle(t) ==
  /\ stage[t] \in {"popped", "merged"}
  /\ stage[t] = "popped" /\ form[t] = "table" => queues[t] = <<>>
  /\ handed' = [handed EXCEPT ![t] = @ \o HandlerGets(t)]
  /\ objects' = IF form[t] = "rows" THEN [objects EXCEPT ![t] = <<LastOf(RowsIn(msg[t])).row>>]
                                    ELSE objects
  /\ \/ UNCHANGED kept
     \/ /\ msg[t].object # 0 /\ form[t] # "event" /\ kept[t] = {}
        /\ kept' = [kept EXCEPT ![t] = Copies(t)]
  /\ Goes(t, "handled")
  /\ UNCHANGED <<form, used, parserVars, queues, msg, tuples>>

LetGo(t) ==
  /\ kept[t] # {}
  /\ kept' = [kept EXCEPT ![t] = {}]
  /\ UNCHANGED <<form, objects, used, parserVars, queues, msg, stage, handed, tuples>>

Done(t) ==
  /\ stage[t] = "handled"
  /\ msg' = [msg EXCEPT ![t] = None]
  /\ Goes(t, "none")
  /\ IF form[t] = "blob" /\ msg[t].object # pushed THEN GiveBack(msg[t].object, Topics \ {t})
                                                  ELSE UNCHANGED tuples
  /\ UNCHANGED <<form, objects, used, parserVars, queues, kept, handed>>

-----------------------------------------------------------------------------
(* The specification *)

Parse == Receive \/ TurnOfWhole \/ TurnOfTuple \/ TurnOfBlob \/ PushDue \/ Release \/ EndMessage
HandlerStep(t) == PopNext(t) \/ Merge(t) \/ Handle(t) \/ Done(t)

DeliveryNext == Parse \/ \E t \in Topics : HandlerStep(t) \/ LetGo(t)

DeliverySpec == DeliveryInit /\ [][DeliveryNext]_deliveryVars

-----------------------------------------------------------------------------
(* Properties *)

(* Another subscription of the same connection extends columns that this    *)
(* one gets, too.                                                           *)
OthersMerge(t) == \E u \in Topics \ {t} : form[u] \in Merging

(* The rows of a deserializer have been given away to another subscription. *)
GivenAway(t) == form[t] = "blob" /\ \E u \in 1 .. t - 1 : form[u] = "blob"

(* The rows that are due to it so far, not those of a message with an event *)
(* the client does not know.                                                *)
DueRows(t) ==
  UNION {Published[k].offset .. EndOf(k) - 1 :
           k \in {l \in 1 .. received : form[t] = "event" => Published[l].known}}

(* Each handler gets every row that was published, under its own offset, in *)
(* order and once, but for messages with an event the client does not know. *)
(* The code does not keep this for the second of two subscriptions with a   *)
(* deserializer, which gets messages with nothing in them, and for one that *)
(* shares a connection with another that merges tables.                     *)
RowsDelivered ==
  \A t \in Topics :
    \/ OthersMerge(t) \/ GivenAway(t)
    \/ /\ \A i \in DOMAIN handed[t] :
            handed[t][i].row = handed[t][i].offset /\ handed[t][i].row \in DueRows(t)
       /\ \A i, j \in DOMAIN handed[t] : i < j => handed[t][i].row < handed[t][j].row
       /\ \A i \in DOMAIN handed[t] : \A r \in DueRows(t) :
            r < handed[t][i].row => \E j \in DOMAIN handed[t] : handed[t][j].row = r

(* A message that the application keeps goes on to hold its rows: no tuple  *)
(* it still refers to is used again.  The code does not keep this for rows  *)
(* out of a table, which are all one object, and does not say when another  *)
(* thread may extend the columns of a table that is kept.                   *)
KeptRowsStay ==
  \A t \in Topics :
    \/ form[t] = "rows" \/ (form[t] \in Columnar /\ OthersMerge(t))
    \/ \A m \in kept[t] : m.rows = SubSeq(objects[m.object], 1, Len(m.rows))
=============================================================================
