--------------------------- MODULE BlockingQueue ---------------------------
(***************************************************************************)
(* BlockingQueue<T> of src/include/Concurrent.h: a ring buffer with a lock *)
(* and three condition variables.  The streaming clients hand messages to  *)
(* their handlers through it, and sockets hand blocks to the decoder.      *)
(*                                                                         *)
(* A critical section is one step.  A thread that waits leaves it; once    *)
(* notified it takes the lock again and goes on where the code does: a     *)
(* loop tests again, the batch pop does not.                               *)
(***************************************************************************)
EXTENDS Integers, Sequences, FiniteSets

CONSTANTS
  Producers, Consumers,  \* threads
  Capacity,              \* maxItems
  BatchSize,             \* batchSize
  MaxItems,              \* bound: items pushed in one behaviour
  Nil                    \* T(), what an empty slot holds

ASSUME QueueAssumption ==
  /\ Producers \cap Consumers = {}
  /\ Capacity \in Nat \ {0}
  /\ BatchSize \in Nat \ {0}
  /\ MaxItems \in Nat
  /\ Nil \notin 1 .. MaxItems

Threads == Producers \cup Consumers
Values == 1 .. MaxItems
Slots == 0 .. Capacity - 1

VARIABLES
  buf, size, head, tail, \* buf_, size_, head_, tail_
  pc,       \* the call a thread is in, or "idle"
  cond,     \* the condition variable a thread waits for, or "none"
  item,     \* what a producer pushes
  made,     \* items made so far
  taken     \* history: all that was popped, in order

ringVars == <<buf, size, head, tail>>
vars == <<ringVars, pc, cond, item, made, taken>>

Init ==
  /\ buf = [i \in Slots |-> Nil]
  /\ size = 0
  /\ head = 0
  /\ tail = 0
  /\ pc = [t \in Threads |-> "idle"]
  /\ cond = [t \in Threads |-> "none"]
  /\ item = [p \in Producers |-> Nil]
  /\ made = 0
  /\ taken = <<>>

Running(t, label) == pc[t] = label /\ cond[t] = "none"

(* notifyAll() on the condition variables in cs. *)
Notified(cs) == [t \in Threads |-> IF cond[t] \in cs THEN "none" ELSE cond[t]]

WaitFor(t, c) ==
  /\ cond' = [cond EXCEPT ![t] = c]
  /\ UNCHANGED <<ringVars, pc, item, made, taken>>

Slot(i) == i % Capacity

-----------------------------------------------------------------------------
(* push() and emplace() *)

Push(p) ==
  /\ pc[p] = "idle"
  /\ made < MaxItems
  /\ made' = made + 1
  /\ item' = [item EXCEPT ![p] = made + 1]
  /\ pc' = [pc EXCEPT ![p] = "push"]
  /\ UNCHANGED <<ringVars, cond, taken>>

(* Who is notified of a push that makes n items.  Mutant: the poppers are   *)
(* when the batch is complete.                                              *)
NotifiedAtBatch(n) == IF n = BatchSize THEN {"empty", "batch"} ELSE {}
NotifiedOfPush(n) ==
  {c \in {"empty", "batch"} : n = (IF c = "empty" THEN 1 ELSE BatchSize)}

(* Mutant: the slot before is filled, too.                                  *)
FullAtOneMore == size > Capacity
IsFull == size >= Capacity

PushFull(p) ==
  /\ Running(p, "push")
  /\ IsFull
  /\ WaitFor(p, "full")

PushItem(p) ==
  /\ Running(p, "push")
  /\ ~IsFull
  /\ buf' = [buf EXCEPT ![tail] = item[p]]
  /\ tail' = Slot(tail + 1)
  /\ size' = size + 1
  /\ cond' = Notified(NotifiedOfPush(size'))
  /\ pc' = [pc EXCEPT ![p] = "idle"]
  /\ item' = [item EXCEPT ![p] = Nil]
  /\ UNCHANGED <<head, made, taken>>

-----------------------------------------------------------------------------
(* pop(), poll(ms) and pop(items, ms) *)

Pop(c, call) ==
  /\ pc[c] = "idle"
  /\ pc' = [pc EXCEPT ![c] = call]
  /\ UNCHANGED <<ringVars, cond, item, made, taken>>

(* The first n items leave the buffer, and their slots are cleared.         *)
SlotsCleared(n) == [i \in Slots |-> IF \E k \in 0 .. n - 1 : i = Slot(head + k)
                                    THEN Nil ELSE buf[i]]

TakeItems(c, n) ==
  /\ taken' = taken \o [k \in 1 .. n |-> buf[Slot(head + k - 1)]]
  /\ buf' = SlotsCleared(n)
  /\ head' = Slot(head + n)
  /\ size' = size - n
  /\ cond' = Notified({"full"})
  /\ pc' = [pc EXCEPT ![c] = "idle"]
  /\ UNCHANGED <<tail, item, made>>

PopEmpty(c) ==
  /\ Running(c, "pop") \/ Running(c, "poll")
  /\ size = 0
  /\ WaitFor(c, "empty")

PopItem(c) ==
  /\ Running(c, "pop") \/ Running(c, "poll")
  /\ size > 0
  /\ TakeItems(c, 1)

(* poll() gives up at its timeout, even if an item has come by then. *)
PollTimesOut(c) ==
  /\ pc[c] = "poll"
  /\ cond[c] = "empty"
  /\ cond' = [cond EXCEPT ![c] = "none"]
  /\ pc' = [pc EXCEPT ![c] = "idle"]
  /\ UNCHANGED <<ringVars, item, made, taken>>

(* The batch pop waits once, for a full batch or its timeout ...            *)
BatchWait(c) ==
  /\ Running(c, "batch")
  /\ size < BatchSize
  /\ cond' = [cond EXCEPT ![c] = "batch"]
  /\ pc' = [pc EXCEPT ![c] = "take"]
  /\ UNCHANGED <<ringVars, item, made, taken>>

BatchTimesOut(c) ==
  /\ pc[c] = "take"
  /\ cond[c] = "batch"
  /\ cond' = [cond EXCEPT ![c] = "none"]
  /\ UNCHANGED <<ringVars, pc, item, made, taken>>

(* ... and takes what there is, up to a batch.                              *)
PopBatch(c) ==
  /\ \/ Running(c, "take")
     \/ Running(c, "batch") /\ size >= BatchSize
  /\ IF size = 0
     THEN /\ pc' = [pc EXCEPT ![c] = "idle"]
          /\ UNCHANGED <<ringVars, cond, item, made, taken>>
     ELSE TakeItems(c, IF BatchSize <= size THEN BatchSize ELSE size)

(* A condition variable may wake up for nothing. *)
SpuriousWakeup(t) ==
  /\ cond[t] # "none"
  /\ cond' = [cond EXCEPT ![t] = "none"]
  /\ UNCHANGED <<ringVars, pc, item, made, taken>>

-----------------------------------------------------------------------------
ProducerStep(p) == Push(p) \/ PushFull(p) \/ PushItem(p)

ConsumerStep(c) ==
  \/ \E call \in {"pop", "poll", "batch"} : Pop(c, call)
  \/ PopEmpty(c) \/ PopItem(c) \/ PollTimesOut(c)
  \/ BatchWait(c) \/ BatchTimesOut(c) \/ PopBatch(c)

Next ==
  \/ \E p \in Producers : ProducerStep(p)
  \/ \E c \in Consumers : ConsumerStep(c)
  \/ \E t \in Threads : SpuriousWakeup(t)

Spec == Init /\ [][Next]_vars

-----------------------------------------------------------------------------
(* Type invariant. *)

(* Every variable has its type; a thread waits for the condition its call   *)
(* waits for, and a producer in push() has an item.                         *)
TypeOK ==
  /\ buf \in [Slots -> Values \cup {Nil}]
  /\ size \in 0 .. Capacity
  /\ head \in Slots
  /\ tail \in Slots
  /\ pc \in [Threads -> {"idle", "push", "pop", "poll", "batch", "take"}]
  /\ cond \in [Threads -> {"none", "full", "empty", "batch"}]
  /\ item \in [Producers -> Values \cup {Nil}]
  /\ \A p \in Producers : pc[p] = "push" => item[p] \in Values
  /\ \A t \in Threads :
       /\ pc[t] = "push" <=> t \in Producers /\ pc[t] # "idle"
       /\ cond[t] = "full" => pc[t] = "push"
       /\ cond[t] = "empty" => pc[t] \in {"pop", "poll"}
       /\ cond[t] = "batch" => pc[t] = "take"
  /\ made \in 0 .. MaxItems
  /\ taken \in Seq(Values)

-----------------------------------------------------------------------------
(* Safety. *)

InRing(i) == \E k \in 0 .. size - 1 : i = Slot(head + k)

(* The items lie between head_ and tail_, and every other slot was reset to *)
(* T(): the queue keeps nothing alive that it has handed out.               *)
RingShape ==
  /\ tail = Slot(head + size)
  /\ \A i \in Slots : (buf[i] # Nil) <=> InRing(i)

(* No wakeup is lost, although push() notifies only at size_ 1 and          *)
(* batchSize_: who waits for room waits while the queue is full, who waits  *)
(* for an item while it is empty, who waits for a batch while it is short.  *)
WaitersAreRight ==
  \A t \in Threads :
    /\ cond[t] = "full" => size = Capacity
    /\ cond[t] = "empty" => size = 0
    /\ cond[t] = "batch" => size < BatchSize

(* The ring buffer is a bounded FIFO queue. *)
Contents == [k \in 1 .. size |-> buf[Slot(head + k - 1)]]

Fifo == INSTANCE FifoQueue WITH items <- Contents

FifoSpec == Fifo!Spec
=============================================================================
