------------------------- MODULE StreamQueuesProofs -------------------------
(***************************************************************************)
(* Proofs about the queues of the streaming clients.  BlockingQueue, for   *)
(* any number of threads, any capacity and any batch size: the ring keeps  *)
(* its shape, no wakeup is lost, and the queue implements FifoQueue.       *)
(* UdpStreaming: the lock of the clients, and that a handler gets the rows *)
(* of the table from some row on, in order and without gaps.               *)
(* MessageDelivery, for any number of subscriptions in any forms: a        *)
(* message that the application keeps stays as it was, and every handler   *)
(* that is promised its rows gets each of them, in order and once.         *)
(***************************************************************************)
EXTENDS BlockingQueue, UdpStreaming, MessageDelivery, SequenceTheorems, TLAPS

-----------------------------------------------------------------------------
(* Slots. *)

(* The slot of a position less than two rounds ahead. *)
LEMMA SlotValue ==
  ASSUME NEW i \in Nat, i < Capacity + Capacity
  PROVE  /\ i < Capacity => Slot(i) = i
         /\ i >= Capacity => Slot(i) = i - Capacity
         /\ Slot(i) \in Slots
<1>1. Capacity \in Nat \ {0}
  BY QueueAssumption
<1>2. i < Capacity => i % Capacity = i
  BY <1>1
<1>3. i >= Capacity => i % Capacity = i - Capacity
  BY <1>1
<1> QED
  BY <1>1, <1>2, <1>3 DEF Slot, Slots

(* Different positions of one round have different slots. *)
LEMMA SlotInjective ==
  ASSUME NEW h \in Slots, NEW j \in 0 .. Capacity - 1, NEW k \in 0 .. Capacity - 1,
         Slot(h + j) = Slot(h + k)
  PROVE  j = k
<1>1. Capacity \in Nat \ {0}
  BY QueueAssumption
<1>2. h + j \in Nat /\ h + k \in Nat /\ h + j < Capacity + Capacity /\ h + k < Capacity + Capacity
  BY <1>1 DEF Slots
<1> QED
  BY <1>1, <1>2, SlotValue DEF Slots

(* Going on from the slot of a position. *)
LEMMA SlotPlus ==
  ASSUME NEW h \in Slots, NEW n \in Nat, NEW k \in Nat, n + k <= Capacity
  PROVE  Slot(Slot(h + n) + k) = Slot(h + (n + k))
<1> DEFINE i == h + n
           j == h + (n + k)
<1>1. Capacity \in Nat \ {0}
  BY QueueAssumption
<1>2. /\ i \in Nat /\ i < Capacity + Capacity
      /\ j \in Nat /\ j < Capacity + Capacity
      /\ j = i + k
  BY <1>1 DEF Slots
<1>3. CASE i < Capacity
  <2>1. Slot(i) = i
    BY <1>2, <1>3, SlotValue
  <2> QED
    BY <1>2, <2>1
<1>4. CASE i >= Capacity
  <2>1. Slot(i) = i - Capacity
    BY <1>2, <1>4, SlotValue
  <2>2. /\ Slot(i) + k \in Nat
        /\ Slot(i) + k < Capacity
        /\ Slot(i) + k = j - Capacity
    BY <1>1, <1>2, <1>4, <2>1 DEF Slots
  <2>3. Slot(Slot(i) + k) = Slot(i) + k
    BY <1>1, <2>2, SlotValue
  <2>4. Slot(j) = j - Capacity
    BY <1>1, <1>2, <1>4, SlotValue
  <2> QED
    BY <2>2, <2>3, <2>4
<1> QED
  BY <1>1, <1>2, <1>3, <1>4

-----------------------------------------------------------------------------
(* The inductive invariant. *)

QueueInv == TypeOK /\ RingShape /\ WaitersAreRight

(* What the buffer holds in the ring are values. *)
LEMMA RingValues ==
  ASSUME QueueInv, NEW k \in 0 .. size - 1
  PROVE  /\ Slot(head + k) \in Slots
         /\ InRing(Slot(head + k))
         /\ buf[Slot(head + k)] \in Values
<1>1. Capacity \in Nat \ {0}
  BY QueueAssumption
<1>2. head \in Slots /\ size \in 0 .. Capacity
  BY DEF QueueInv, TypeOK
<1>3. Slot(head + k) \in Slots
  BY <1>1, <1>2, SlotValue DEF Slots
<1>4. InRing(Slot(head + k))
  BY DEF InRing
<1>5. buf[Slot(head + k)] # Nil
  BY <1>3, <1>4 DEF QueueInv, RingShape
<1> QED
  BY <1>3, <1>4, <1>5 DEF QueueInv, TypeOK

(* A sequence made of the first n items of the ring. *)
LEMMA FirstItems ==
  ASSUME QueueInv, NEW n \in 0 .. size
  PROVE  [k \in 1 .. n |-> buf[Slot(head + k - 1)]] \in Seq(Values)
<1>1. n \in Nat /\ size \in Nat /\ head \in Nat
  BY QueueAssumption DEF QueueInv, TypeOK, Slots
<1>2. ASSUME NEW k \in 1 .. n
      PROVE  buf[Slot(head + k - 1)] \in Values
  <2>1. k - 1 \in 0 .. size - 1 /\ head + k - 1 = head + (k - 1)
    BY <1>1
  <2> QED
    BY <2>1, RingValues
<1> QED
  BY <1>1, <1>2

-----------------------------------------------------------------------------
(* What push() and the pops do to the ring. *)

(* A push adds its item at the end of the contents. *)
LEMMA PushRing ==
  ASSUME QueueInv, NEW p \in Producers, PushItem(p)
  PROVE  /\ Contents' = Append(Contents, item[p])
         /\ RingShape'
<1>1. /\ Capacity \in Nat \ {0}
      /\ head \in Slots /\ head \in Nat /\ size \in Nat /\ size < Capacity
      /\ buf \in [Slots -> Values \cup {Nil}]
      /\ tail \in Slots /\ tail = Slot(head + size)
  BY QueueAssumption DEF QueueInv, TypeOK, RingShape, PushItem, IsFull, Slots
<1>2. item[p] \in Values /\ item[p] # Nil
  BY QueueAssumption DEF QueueInv, TypeOK, PushItem, Running, Values
<1>3. /\ buf' = [buf EXCEPT ![tail] = item[p]]
      /\ size' = size + 1
      /\ tail' = Slot(tail + 1)
      /\ head' = head
  BY DEF PushItem
<1>4. ASSUME NEW k \in 0 .. size - 1
      PROVE  Slot(head + k) # tail /\ Slot(head + k) \in Slots
  BY <1>1, SlotInjective, RingValues
<1>5. Contents' = Append(Contents, item[p])
  <2>1. Len(Contents) = size /\ Contents = [k \in 1 .. size |-> buf[Slot(head + k - 1)]]
    BY <1>1 DEF Contents
  <2>2. Contents' = [k \in 1 .. size + 1 |-> buf'[Slot(head + k - 1)]]
    BY <1>3 DEF Contents, Slot
  <2>3. ASSUME NEW k \in 1 .. size + 1
        PROVE  buf'[Slot(head + k - 1)] = IF k <= size THEN Contents[k] ELSE item[p]
    <3>1. CASE k <= size
      <4>1. k - 1 \in 0 .. size - 1 /\ head + k - 1 = head + (k - 1)
        BY <1>1, <3>1
      <4>2. Slot(head + k - 1) # tail /\ Slot(head + k - 1) \in Slots
        BY <4>1, <1>4
      <4>3. k \in 1 .. size
        BY <1>1, <3>1
      <4> QED
        BY <1>1, <1>3, <2>1, <3>1, <4>2, <4>3
    <3>2. CASE ~(k <= size)
      <4>1. head + k - 1 = head + size
        BY <1>1, <3>2
      <4> QED
        BY <1>1, <1>3, <3>2, <4>1
    <3> QED
      BY <3>1, <3>2
  <2>4. Append(Contents, item[p])
          = [k \in 1 .. size + 1 |-> IF k <= size THEN Contents[k] ELSE item[p]]
    BY <1>1, <1>2, <2>1, FirstItems, AppendProperties
  <2> HIDE DEF Contents
  <2> QED
    BY <2>2, <2>3, <2>4
<1>6. tail' = Slot(head' + size')
  BY <1>1, <1>3, SlotPlus
<1>7. ASSUME NEW i \in Slots
      PROVE  (buf'[i] # Nil) <=> InRing(i)'
  <2>1. InRing(i)' <=> \E k \in 0 .. size : i = Slot(head + k)
    BY <1>1, <1>3 DEF InRing, Slot
  <2>2. InRing(i)' <=> InRing(i) \/ i = tail
    BY <1>1, <2>1 DEF InRing
  <2>3. buf'[i] = IF i = tail THEN item[p] ELSE buf[i]
    BY <1>1, <1>3
  <2> QED
    BY <1>2, <2>2, <2>3 DEF QueueInv, RingShape
<1> QED
  BY <1>5, <1>6, <1>7 DEF RingShape, Slot, Slots

(* A pop of n items takes the first n of the contents. *)
LEMMA TakeRing ==
  ASSUME QueueInv, NEW c \in Consumers, NEW n \in 1 .. size, TakeItems(c, n)
  PROVE  /\ Contents' = SubSeq(Contents, n + 1, Len(Contents))
         /\ taken' = taken \o SubSeq(Contents, 1, n)
         /\ n \in 1 .. Len(Contents)
         /\ RingShape'
<1>1. /\ Capacity \in Nat \ {0}
      /\ head \in Slots /\ head \in Nat /\ size \in Nat /\ size <= Capacity
      /\ n \in Nat /\ 1 <= n /\ n <= size
      /\ buf \in [Slots -> Values \cup {Nil}]
      /\ tail = Slot(head + size)
  BY QueueAssumption DEF QueueInv, TypeOK, RingShape, Slots
<1>2. /\ buf' = SlotsCleared(n)
      /\ size' = size - n
      /\ tail' = tail
      /\ head' = Slot(head + n)
  BY DEF TakeItems
<1>3. ASSUME NEW i \in Slots
      PROVE  buf'[i] = IF \E k \in 0 .. n - 1 : i = Slot(head + k) THEN Nil ELSE buf[i]
  BY <1>2 DEF SlotsCleared
<1>4. ASSUME NEW k \in 0 .. size - n - 1
      PROVE  /\ Slot(head' + k) = Slot(head + (n + k))
             /\ Slot(head' + k) \in Slots
             /\ buf'[Slot(head' + k)] = buf[Slot(head + (n + k))]
             /\ buf[Slot(head + (n + k))] # Nil
  <2>1. /\ k \in Nat /\ n + k <= Capacity /\ n + k \in 0 .. size - 1
        /\ n + k \in 0 .. Capacity - 1
    BY <1>1
  <2>2. Slot(head' + k) = Slot(head + (n + k))
    BY <1>1, <1>2, <2>1, SlotPlus
  <2>3. /\ Slot(head + (n + k)) \in Slots
        /\ buf[Slot(head + (n + k))] \in Values
    BY <2>1, RingValues
  <2>4. ASSUME NEW j \in 0 .. n - 1
        PROVE  Slot(head + (n + k)) # Slot(head + j)
    <3>1. j \in 0 .. Capacity - 1 /\ j # n + k
      BY <1>1, <2>1
    <3> QED
      BY <1>1, <2>1, <3>1, SlotInjective
  <2>5. Nil \notin Values
    BY QueueAssumption DEF Values
  <2> QED
    BY <1>3, <2>2, <2>3, <2>4, <2>5
<1>5. /\ Contents \in Seq(Values) /\ Len(Contents) = size
      /\ \A k \in 1 .. size : Contents[k] = buf[Slot(head + k - 1)]
  BY <1>1, FirstItems DEF Contents
<1>6. Contents' = SubSeq(Contents, n + 1, Len(Contents))
  <2>1. Contents' = [k \in 1 .. size - n |-> buf'[Slot(head' + k - 1)]]
    BY <1>2 DEF Contents, Slot
  <2>2. ASSUME NEW k \in 1 .. size - n
        PROVE  buf'[Slot(head' + k - 1)] = Contents[k + n]
    <3>0. head' \in Nat
      BY <1>1, <1>2, SlotValue DEF Slots
    <3>1. /\ k - 1 \in 0 .. size - n - 1
          /\ head' + k - 1 = head' + (k - 1)
          /\ k + n \in 1 .. size
          /\ head + (n + (k - 1)) = head + (k + n) - 1
      BY <1>1, <3>0
    <3>2. buf'[Slot(head' + (k - 1))] = buf[Slot(head + (n + (k - 1)))]
      BY <3>1, <1>4
    <3> QED
      BY <3>1, <3>2, <1>5
  <2>3. SubSeq(Contents, n + 1, size) = [k \in 1 .. size - n |-> Contents[k + n]]
    <3>1. SubSeq(Contents, n + 1, size)
            = [k \in 1 .. (size - (n + 1) + 1) |-> Contents[k + (n + 1) - 1]]
      BY SMTT(30), <1>1, <1>5, SubSeqProperties
    <3>2. size - (n + 1) + 1 = size - n
      BY <1>1
    <3>3. \A k \in 1 .. size - n : k + (n + 1) - 1 = k + n
      BY <1>1
    <3> HIDE DEF Contents
    <3> QED
      BY <3>1, <3>2, <3>3
  <2> HIDE DEF Contents
  <2> QED
    BY <1>5, <2>1, <2>2, <2>3
<1>7. taken' = taken \o SubSeq(Contents, 1, n)
  <2>1. taken' = taken \o [k \in 1 .. n |-> buf[Slot(head + k - 1)]]
    BY DEF TakeItems
  <2>2. [k \in 1 .. n |-> buf[Slot(head + k - 1)]] = [k \in 1 .. n |-> Contents[k]]
    BY <1>1, <1>5
  <2>3. SubSeq(Contents, 1, n) = [k \in 1 .. n |-> Contents[k]]
    <3> HIDE DEF Contents
    <3> QED
      BY <1>1, <1>5
  <2> QED
    BY <2>1, <2>2, <2>3
<1>8. tail' = Slot(head' + size')
  <2>1. size - n \in Nat /\ n + (size - n) = size
    BY <1>1
  <2> QED
    BY <1>1, <1>2, <2>1, SlotPlus
<1>9. ASSUME NEW i \in Slots
      PROVE  (buf'[i] # Nil) <=> InRing(i)'
  <2>1. InRing(i)' <=> \E k \in 0 .. size - n - 1 : i = Slot(head' + k)
    BY <1>2 DEF InRing, Slot
  <2>2. ASSUME buf'[i] # Nil
        PROVE  \E k \in 0 .. size - n - 1 : i = Slot(head' + k)
    <3>1. buf[i] # Nil /\ \A k \in 0 .. n - 1 : i # Slot(head + k)
      BY <1>3, <2>2
    <3>2. PICK k \in 0 .. size - 1 : i = Slot(head + k)
      BY <3>1 DEF QueueInv, RingShape, InRing
    <3>3. k - n \in 0 .. size - n - 1 /\ n + (k - n) = k
      BY <1>1, <3>1, <3>2
    <3> QED
      BY <1>4, <3>2, <3>3
  <2>3. ASSUME NEW k \in 0 .. size - n - 1, i = Slot(head' + k)
        PROVE  buf'[i] # Nil
    BY <1>4, <2>3
  <2> QED
    BY <2>1, <2>2, <2>3
<1> QED
  BY <1>1, <1>5, <1>6, <1>7, <1>8, <1>9 DEF RingShape, Slot, Slots

-----------------------------------------------------------------------------
(* A pop takes items while it holds the lock; every step but that and a     *)
(* push leaves the ring alone.                                              *)
TakesItems(c, n) == TakeItems(c, n) /\ cond[c] = "none"

LEMMA RingSteps ==
  ASSUME QueueInv, [Next]_vars
  PROVE  \/ \E p \in Producers : PushItem(p)
         \/ \E c \in Consumers : \E n \in 1 .. size : TakesItems(c, n)
         \/ UNCHANGED <<ringVars, taken>>
<1>1. size \in Nat /\ BatchSize \in Nat \ {0}
  BY QueueAssumption DEF QueueInv, TypeOK
<1>2. ASSUME NEW c \in Consumers, PopItem(c)
      PROVE  \E n \in 1 .. size : TakesItems(c, n)
  <2>1. 1 \in 1 .. size /\ TakesItems(c, 1)
    BY <1>1, <1>2 DEF PopItem, Running, TakesItems
  <2> QED
    BY <2>1
<1>3. ASSUME NEW c \in Consumers, PopBatch(c)
      PROVE  (\E n \in 1 .. size : TakesItems(c, n)) \/ UNCHANGED <<ringVars, taken>>
  <2>1. CASE size = 0
    BY <1>3, <2>1 DEF PopBatch
  <2>2. CASE size # 0
    <3> DEFINE n == IF BatchSize <= size THEN BatchSize ELSE size
    <3>1. n \in 1 .. size
      BY <1>1, <2>2
    <3>2. TakesItems(c, n)
      BY <1>3, <2>2 DEF PopBatch, Running, TakesItems
    <3> QED
      BY <3>1, <3>2
  <2> QED
    BY <2>1, <2>2
<1>4. CASE UNCHANGED vars
  BY <1>4 DEF vars
<1>5. ASSUME NEW p \in Producers, ProducerStep(p)
      PROVE  PushItem(p) \/ UNCHANGED <<ringVars, taken>>
  BY <1>5 DEF ProducerStep, Push, PushFull, WaitFor
<1>6. ASSUME NEW c \in Consumers, ConsumerStep(c)
      PROVE  (\E n \in 1 .. size : TakesItems(c, n)) \/ UNCHANGED <<ringVars, taken>>
  BY <1>2, <1>3, <1>6
     DEF ConsumerStep, Pop, PopEmpty, WaitFor, PollTimesOut, BatchWait, BatchTimesOut
<1>7. ASSUME NEW t \in Threads, SpuriousWakeup(t)
      PROVE  UNCHANGED <<ringVars, taken>>
  BY <1>7 DEF SpuriousWakeup
<1> QED
  BY <1>4, <1>5, <1>6, <1>7 DEF Next

(* The ring keeps its shape when none of its variables changes. *)
LEMMA RingUnchanged ==
  ASSUME QueueInv, UNCHANGED <<ringVars, taken>>
  PROVE  RingShape' /\ Contents' = Contents /\ taken' = taken
BY DEF QueueInv, RingShape, InRing, Contents, Slot, ringVars

-----------------------------------------------------------------------------
(* The types, the waiters and the invariant. *)

LEMMA QueueInit == Init => QueueInv
<1> SUFFICES ASSUME Init PROVE QueueInv
  OBVIOUS
<1>1. Capacity \in Nat \ {0} /\ MaxItems \in Nat /\ BatchSize \in Nat \ {0}
  BY QueueAssumption
<1>2. TypeOK
  BY <1>1 DEF Init, TypeOK, Slots, Threads, Values
<1>3. 0 \in Nat /\ 0 < Capacity + Capacity /\ 0 < Capacity
  BY <1>1
<1>4. tail = Slot(head + size)
  <2>1. Slot(0) = 0
    BY <1>3, SlotValue
  <2> QED
    BY <2>1 DEF Init
<1>5. RingShape
  BY <1>4 DEF Init, RingShape, InRing
<1>6. WaitersAreRight
  BY DEF Init, WaitersAreRight
<1> QED
  BY <1>2, <1>5, <1>6 DEF QueueInv

(* A push keeps the types and the waiters right. *)
LEMMA PushKeeps ==
  ASSUME QueueInv, NEW p \in Producers, PushItem(p)
  PROVE  TypeOK' /\ WaitersAreRight'
<1>1. /\ Capacity \in Nat \ {0} /\ BatchSize \in Nat \ {0}
      /\ size \in Nat /\ size < Capacity /\ tail \in Nat /\ tail < Capacity
      /\ p \in Threads /\ item[p] \in Values
      /\ Producers \cap Consumers = {}
  BY QueueAssumption DEF QueueInv, TypeOK, PushItem, IsFull, Slots, Threads, Running
<1>2. tail' \in Slots
  <2>1. tail + 1 \in Nat /\ tail + 1 < Capacity + Capacity
    BY <1>1
  <2> QED
    BY <2>1, SlotValue DEF PushItem
<1>3. size' \in 0 .. Capacity /\ size' = size + 1
  BY <1>1 DEF PushItem
<1>4. buf' \in [Slots -> Values \cup {Nil}]
  BY <1>1 DEF QueueInv, TypeOK, PushItem
<1>5. /\ cond' = Notified(NotifiedOfPush(size'))
      /\ pc' = [pc EXCEPT ![p] = "idle"]
      /\ item' = [item EXCEPT ![p] = Nil]
      /\ UNCHANGED <<head, made, taken>>
      /\ cond[p] = "none"
  BY DEF PushItem, Running
<1>6. ASSUME NEW t \in Threads
      PROVE  /\ cond'[t] \in {"none", cond[t]}
             /\ cond[t] = "none" => cond'[t] = "none"
             /\ cond'[t] = "empty" => size' # 1
             /\ cond'[t] = "batch" => size' # BatchSize
  BY <1>5 DEF Notified, NotifiedOfPush
<1>7. cond' \in [Threads -> {"none", "full", "empty", "batch"}]
  BY <1>5 DEF Notified, QueueInv, TypeOK
<1>8. TypeOK'
  BY <1>1, <1>2, <1>3, <1>4, <1>5, <1>6, <1>7 DEF QueueInv, TypeOK
<1>9. WaitersAreRight'
  <2> SUFFICES ASSUME NEW t \in Threads
               PROVE  /\ cond'[t] = "full" => size' = Capacity
                      /\ cond'[t] = "empty" => size' = 0
                      /\ cond'[t] = "batch" => size' < BatchSize
    BY DEF WaitersAreRight
  <2> QED
    BY <1>1, <1>3, <1>6 DEF QueueInv, WaitersAreRight
<1> QED
  BY <1>8, <1>9

(* So does a pop. *)
LEMMA TakeKeeps ==
  ASSUME QueueInv, NEW c \in Consumers, NEW n \in 1 .. size, TakesItems(c, n)
  PROVE  TypeOK' /\ WaitersAreRight'
<1>1. /\ Capacity \in Nat \ {0} /\ BatchSize \in Nat \ {0}
      /\ size \in Nat /\ size <= Capacity /\ head \in Nat /\ head < Capacity
      /\ n \in Nat /\ 1 <= n /\ n <= size
      /\ c \in Threads
      /\ Producers \cap Consumers = {}
  BY QueueAssumption DEF QueueInv, TypeOK, Slots, Threads
<1>2. head' \in Slots
  <2>1. head + n \in Nat /\ head + n < Capacity + Capacity
    BY <1>1
  <2> QED
    BY <2>1, SlotValue DEF TakesItems, TakeItems
<1>3. size' \in 0 .. Capacity /\ size' = size - n
  BY <1>1 DEF TakesItems, TakeItems
<1>4. buf' \in [Slots -> Values \cup {Nil}]
  BY DEF QueueInv, TypeOK, TakesItems, TakeItems, SlotsCleared
<1>5. /\ cond' = Notified({"full"})
      /\ pc' = [pc EXCEPT ![c] = "idle"]
      /\ UNCHANGED <<tail, item, made>>
      /\ cond[c] = "none"
  BY DEF TakesItems, TakeItems
<1>6. taken' \in Seq(Values)
  <2>1. [k \in 1 .. n |-> buf[Slot(head + k - 1)]] \in Seq(Values)
    BY <1>1, FirstItems
  <2>2. taken' = taken \o [k \in 1 .. n |-> buf[Slot(head + k - 1)]]
    BY DEF TakesItems, TakeItems
  <2> QED
    BY <2>1, <2>2, ConcatProperties DEF QueueInv, TypeOK
<1>7. ASSUME NEW t \in Threads
      PROVE  /\ cond'[t] \in {"none", cond[t]}
             /\ cond[t] = "none" => cond'[t] = "none"
             /\ cond'[t] # "full"
  BY <1>5 DEF Notified, TakesItems
<1>8. cond' \in [Threads -> {"none", "full", "empty", "batch"}]
  BY <1>5 DEF Notified, QueueInv, TypeOK
<1>9. TypeOK'
  BY <1>1, <1>2, <1>3, <1>4, <1>5, <1>6, <1>7, <1>8 DEF QueueInv, TypeOK
<1>10. WaitersAreRight'
  <2> SUFFICES ASSUME NEW t \in Threads
               PROVE  /\ cond'[t] = "full" => size' = Capacity
                      /\ cond'[t] = "empty" => size' = 0
                      /\ cond'[t] = "batch" => size' < BatchSize
    BY DEF WaitersAreRight
  <2> QED
    BY <1>1, <1>3, <1>7 DEF QueueInv, WaitersAreRight
<1> QED
  BY <1>9, <1>10

(* So does every step that leaves the ring alone. *)
LEMMA OtherKeeps ==
  ASSUME QueueInv, [Next]_vars, UNCHANGED <<ringVars, taken>>
  PROVE  TypeOK' /\ WaitersAreRight'
<1>1. /\ Capacity \in Nat \ {0} /\ MaxItems \in Nat
      /\ size \in Nat /\ size <= Capacity
      /\ Producers \cap Consumers = {}
      /\ Threads = Producers \cup Consumers
      /\ Values = 1 .. MaxItems
  BY QueueAssumption DEF QueueInv, TypeOK, Threads, Values
<1>2. ASSUME NEW p \in Producers, NEW c \in Consumers
      PROVE  p # c
  BY <1>1
<1> USE DEF QueueInv, TypeOK, WaitersAreRight, ringVars
<1>3. CASE UNCHANGED vars
  BY <1>3 DEF vars
<1>4. ASSUME NEW p \in Producers, Push(p)
      PROVE  TypeOK' /\ WaitersAreRight'
  <2>1. made + 1 \in Values /\ made + 1 \in 0 .. MaxItems
    BY <1>1, <1>4 DEF Push
  <2> QED
    BY <1>1, <1>4, <2>1 DEF Push
<1>5. ASSUME NEW p \in Producers, PushFull(p)
      PROVE  TypeOK' /\ WaitersAreRight'
  BY <1>1, <1>5 DEF PushFull, WaitFor, IsFull, Running
<1>6. ASSUME NEW p \in Producers, PushItem(p)
      PROVE  TypeOK' /\ WaitersAreRight'
  BY <1>6, PushKeeps
<1>7. ASSUME NEW c \in Consumers, NEW call \in {"pop", "poll", "batch"}, Pop(c, call)
      PROVE  TypeOK' /\ WaitersAreRight'
  BY <1>1, <1>2, <1>7 DEF Pop
<1>8. ASSUME NEW c \in Consumers, PopEmpty(c)
      PROVE  TypeOK' /\ WaitersAreRight'
  BY <1>1, <1>8 DEF PopEmpty, WaitFor, Running
<1>9. ASSUME NEW c \in Consumers, PollTimesOut(c)
      PROVE  TypeOK' /\ WaitersAreRight'
  BY <1>1, <1>2, <1>9 DEF PollTimesOut
<1>10. ASSUME NEW c \in Consumers, BatchWait(c)
       PROVE  TypeOK' /\ WaitersAreRight'
  BY <1>1, <1>2, <1>10 DEF BatchWait, Running
<1>11. ASSUME NEW c \in Consumers, BatchTimesOut(c)
       PROVE  TypeOK' /\ WaitersAreRight'
  BY <1>1, <1>11 DEF BatchTimesOut
<1>12. ASSUME NEW c \in Consumers, NEW n \in 1 .. size, TakesItems(c, n)
       PROVE  TypeOK' /\ WaitersAreRight'
  BY <1>12, TakeKeeps
<1>13. ASSUME NEW c \in Consumers, PopBatch(c), size = 0
       PROVE  TypeOK' /\ WaitersAreRight'
  <2>1. /\ pc' = [pc EXCEPT ![c] = "idle"]
        /\ UNCHANGED <<ringVars, cond, item, made, taken>>
        /\ cond[c] = "none"
    BY <1>13 DEF PopBatch, Running
  <2> QED
    BY <1>1, <1>2, <2>1
<1>14. ASSUME NEW t \in Threads, SpuriousWakeup(t)
       PROVE  TypeOK' /\ WaitersAreRight'
  BY <1>1, <1>14 DEF SpuriousWakeup
<1>15. ASSUME NEW c \in Consumers, PopItem(c)
       PROVE  TakesItems(c, 1) /\ 1 \in 1 .. size
  BY <1>1, <1>15 DEF PopItem, Running, TakesItems
<1>16. ASSUME NEW c \in Consumers, PopBatch(c), size # 0
       PROVE  \E n \in 1 .. size : TakesItems(c, n)
  <2> DEFINE n == IF BatchSize <= size THEN BatchSize ELSE size
  <2>1. n \in 1 .. size
    BY <1>1, <1>16, QueueAssumption
  <2>2. TakesItems(c, n)
    BY <1>16 DEF PopBatch, Running, TakesItems
  <2> QED
    BY <2>1, <2>2
<1> QED
  BY <1>3, <1>4, <1>5, <1>6, <1>7, <1>8, <1>9, <1>10, <1>11, <1>12, <1>13, <1>14,
     <1>15, <1>16
     DEF Next, ProducerStep, ConsumerStep

(* The invariant is inductive. *)
LEMMA QueueNext == QueueInv /\ [Next]_vars => QueueInv'
<1> SUFFICES ASSUME QueueInv, [Next]_vars PROVE QueueInv'
  OBVIOUS
<1>1. ASSUME NEW p \in Producers, PushItem(p) PROVE QueueInv'
  BY <1>1, PushRing, PushKeeps DEF QueueInv
<1>2. ASSUME NEW c \in Consumers, NEW n \in 1 .. size, TakesItems(c, n) PROVE QueueInv'
  BY <1>2, TakeRing, TakeKeeps DEF QueueInv, TakesItems
<1>3. ASSUME UNCHANGED <<ringVars, taken>> PROVE QueueInv'
  BY <1>3, RingUnchanged, OtherKeeps DEF QueueInv
<1> QED
  BY <1>1, <1>2, <1>3, RingSteps

-----------------------------------------------------------------------------
(* The theorems. *)

(* The invariant holds of every behaviour of the queue. *)
THEOREM QueueInvariant == Spec => []QueueInv
BY QueueInit, QueueNext, PTL DEF Spec

(* Every variable has its type, whatever the capacity and the threads. *)
THEOREM QueueTypeCorrect == Spec => []TypeOK
<1>1. QueueInv => TypeOK
  BY DEF QueueInv
<1> QED
  BY <1>1, QueueInvariant, PTL

(* The items lie between head_ and tail_ and every other slot is empty. *)
THEOREM RingCorrect == Spec => []RingShape
<1>1. QueueInv => RingShape
  BY DEF QueueInv
<1> QED
  BY <1>1, QueueInvariant, PTL

(* No wakeup is lost: a thread waits only while what it waits for is absent. *)
THEOREM WaitersCorrect == Spec => []WaitersAreRight
<1>1. QueueInv => WaitersAreRight
  BY DEF QueueInv
<1> QED
  BY <1>1, QueueInvariant, PTL

(* The ring buffer implements the bounded FIFO queue. *)
THEOREM QueueIsFifo == Spec => FifoSpec
<1>1. Init => Fifo!Init
  <2> SUFFICES ASSUME Init PROVE Contents = <<>> /\ taken = <<>>
    BY DEF Fifo!Init
  <2> QED
    BY DEF Init, Contents
<1>2. QueueInv /\ [Next]_vars => [Fifo!Next]_<<Contents, taken>>
  <2> SUFFICES ASSUME QueueInv, [Next]_vars PROVE [Fifo!Next]_<<Contents, taken>>
    OBVIOUS
  <2>1. ASSUME NEW p \in Producers, PushItem(p) PROVE Fifo!Put
    <3>1. Contents' = Append(Contents, item[p]) /\ item[p] \in Values /\ taken' = taken
      BY <2>1, PushRing DEF PushItem, Running, QueueInv, TypeOK
    <3>2. Len(Contents) < Capacity
      BY <2>1, QueueAssumption DEF Contents, PushItem, IsFull, QueueInv, TypeOK
    <3> QED
      BY <3>1, <3>2 DEF Fifo!Put
  <2>2. ASSUME NEW c \in Consumers, NEW n \in 1 .. size, TakesItems(c, n) PROVE Fifo!Take
    BY <2>2, TakeRing DEF Fifo!Take, TakesItems
  <2>3. ASSUME UNCHANGED <<ringVars, taken>> PROVE UNCHANGED <<Contents, taken>>
    BY <2>3, RingUnchanged
  <2> QED
    BY <2>1, <2>2, <2>3, RingSteps DEF Fifo!Next
<1> QED
  BY <1>1, <1>2, QueueInvariant, PTL DEF Spec, FifoSpec, Fifo!Spec

-----------------------------------------------------------------------------
(* The parts of the invariant. *)

(* A message of rows; they are numbered by their offsets.                   *)
RowMessages == {m \in [offset : Nat, first : Nat, length : Nat] : m.first = m.offset}
QueueMessages == RowMessages \cup {Null}
Offsets == Nat \cup {-1}

Holding == {"subscribe", "unsubscribe", "push", "cleanup"}
Destroying == {"destroy", "destroyPush"}
CallLabels == Holding \cup Destroying \cup {"idle", "lock", "create", "insert"}

CallTypes ==
  /\ clientsMutex \in UdpThreads \cup {NoThread}
  /\ created \in 0 .. MaxClients
  /\ client \in 0 .. created
  /\ deadClients \subseteq 1 .. created
  /\ destroyed \in BOOLEAN
  /\ at \in [UdpThreads -> CallLabels]

ThreadTypes ==
  /\ exit \in [Clients -> BOOLEAN]
  /\ receive \in [Clients -> {"none", "poll", "push", "done"}]
  /\ callback \in [Clients -> {"none", "loop", "pop", "row", "done"}]

DataTypes ==
  /\ offset \in [Clients -> Offsets]
  /\ asked \in [Clients -> Offsets]
  /\ msgQueue \in [Clients -> Seq(QueueMessages)]
  /\ got \in [Clients -> QueueMessages]
  /\ rows \in [Clients -> QueueMessages]
  /\ given \in [Clients -> Seq(Nat \X Nat)]

(* clientsMutex_ is held by who is between its lock and its unlock; once    *)
(* the destructor runs, nobody else does.                                   *)
LockHeld ==
  /\ \A t \in UdpThreads : clientsMutex = t <=> at[t] \in Holding
  /\ \A t \in UdpThreads : t # App => at[t] \notin {"subscribe", "create", "insert"} \cup Destroying
  /\ at[App] \in Destroying => destroyed
  /\ destroyed => /\ \A t \in UdpThreads : t # App => at[t] = "idle"
                  /\ at[App] \in Destroying \cup {"idle"}

(* What a call works with is there.                                         *)
CallShape ==
  /\ \A t \in UdpThreads : at[t] \in {"push", "destroyPush"} => client # NoClient
  /\ at[App] \in {"subscribe", "create"} => created < MaxClients
  /\ at[App] = "insert" => created > 0

(* A client to be created has nothing yet.                                  *)
IsFresh(c) ==
  /\ receive[c] = "none" /\ callback[c] = "none"
  /\ msgQueue[c] = <<>> /\ given[c] = <<>>

Fresh == \A c \in Clients : c > created => IsFresh(c)

(* The threads of a client hold rows between two steps only.                *)
HeldRows ==
  \A c \in Clients :
    /\ receive[c] = "push" => got[c] \in RowMessages /\ got[c].first = offset[c]
    /\ callback[c] = "row" => rows[c] \in RowMessages

TypeInv == CallTypes /\ ThreadTypes /\ DataTypes /\ LockHeld /\ CallShape /\ Fresh /\ HeldRows

(* No row of the stream is from a on and before b.                          *)
Clear(a, b) == a <= b /\ \A r \in StreamRows : ~(a <= r /\ r < b)

End(m) == m.first + m.length
LastGiven(c) == given[c][Len(given[c])][1]

(* The row the handler is to get next, -1 if it may be any.                 *)
Wanted(c) == IF given[c] = <<>> THEN asked[c] ELSE LastGiven(c) + 1

(* The same, after the rows the callback thread has in hand.                *)
Reached(c) == IF callback[c] = "row" THEN End(rows[c]) ELSE Wanted(c)

(* The callback thread may give further rows to the handler.                *)
Live(c) == callback[c] \in {"pop", "row"} \/ (callback[c] = "loop" /\ ~exit[c])

(* From the handler over the message in hand and those on the queue to the  *)
(* offset that is expected next, nothing is missing.  What comes after a    *)
(* null message is never given to the handler.                              *)
HandLinks(c) ==
  Live(c) /\ callback[c] = "row" /\ Wanted(c) # -1 => Clear(Wanted(c), rows[c].first)
HeadLinks(c) ==
  Live(c) /\ Reached(c) # -1 =>
    IF msgQueue[c] = <<>> THEN Clear(Reached(c), offset[c])
    ELSE msgQueue[c][1] # Null => Clear(Reached(c), msgQueue[c][1].first)
QueueLinks(c) ==
  \A i \in 1 .. Len(msgQueue[c]) - 1 :
    msgQueue[c][i] # Null /\ msgQueue[c][i + 1] # Null
      => Clear(End(msgQueue[c][i]), msgQueue[c][i + 1].first)
TailLinks(c) ==
  msgQueue[c] # <<>> /\ msgQueue[c][Len(msgQueue[c])] # Null
    => Clear(End(msgQueue[c][Len(msgQueue[c])]), offset[c])

Given(c) ==
  /\ \A i \in DOMAIN given[c] : given[c][i][1] = given[c][i][2]
  /\ \A i \in 1 .. Len(given[c]) - 1 : NoneSkipped(given[c][i][1], given[c][i + 1][1])
  /\ asked[c] # -1 /\ given[c] # <<>> => NoneSkipped(asked[c] - 1, given[c][1][1])

Linked(c) == HandLinks(c) /\ HeadLinks(c) /\ QueueLinks(c) /\ TailLinks(c) /\ Given(c)
LinkInv == \A c \in Clients : Linked(c)

-----------------------------------------------------------------------------
(* Rows and spans. *)

LEMMA NullIsNoRow == Null \notin RowMessages
  BY DEF Null, RowMessages

LEMMA StreamRowsAreNat == UdpAssumption => StreamRows \subseteq Nat
  BY DEF UdpAssumption, StreamRows, Span

LEMMA ClearSelf == \A a \in Int : UdpAssumption => Clear(a, a)
  BY StreamRowsAreNat DEF Clear

LEMMA ClearJoins ==
  ASSUME UdpAssumption, NEW a \in Int, NEW b \in Int, NEW d \in Int, Clear(a, b), Clear(b, d)
  PROVE  Clear(a, d)
  BY StreamRowsAreNat DEF Clear

LEMMA ClearSkipsNone ==
  ASSUME UdpAssumption, NEW a \in Int, NEW b \in Int, Clear(a + 1, b)
  PROVE  NoneSkipped(a, b)
  BY StreamRowsAreNat DEF Clear, NoneSkipped

(* A datagram that is not pushed moves the expected offset over rows that   *)
(* were filtered out, if over any.                                          *)
LEMMA DatagramClear ==
  ASSUME UdpAssumption, NEW i \in DOMAIN Stream
  PROVE  /\ Stream[i].offset \in Nat /\ Stream[i].length \in Nat
         /\ OffsetAfter(Stream[i]) \in Nat
         /\ Clear(Stream[i].offset, OffsetAfter(Stream[i]))
         /\ Stream[i].kind = "rows" => OffsetAfter(Stream[i]) = Stream[i].offset
<1> DEFINE d == Stream[i]
<1>1. d \in [kind : DatagramKinds, offset : Nat, length : Nat]
  BY DEF UdpAssumption
<1>2. CASE d.kind = "beat"
  <2>1. \A r \in StreamRows : r \notin Span(d)
    BY <1>2 DEF UdpAssumption, StreamRows
  <2>2. OffsetAfter(d) = d.offset + d.length
    BY <1>2 DEF OffsetAfter
  <2>3. QED
    BY <1>1, <1>2, <2>1, <2>2, StreamRowsAreNat DEF Clear, Span
<1>3. CASE d.kind # "beat"
  BY <1>1, <1>3, ClearSelf DEF OffsetAfter
<1>4. QED
  BY <1>2, <1>3

-----------------------------------------------------------------------------
(* Types and the lock. *)

LEMMA TypeInit == UdpAssumption /\ UdpInit => TypeInv
<1> SUFFICES ASSUME UdpAssumption, UdpInit PROVE TypeInv
  OBVIOUS
<1>1. MaxClients \in Nat
  BY DEF UdpAssumption
<1>2. CallTypes
  <2>1. at \in [UdpThreads -> CallLabels]
    BY DEF UdpInit, CallLabels
  <2>2. created \in 0 .. MaxClients /\ client \in 0 .. created
    BY <1>1 DEF UdpInit, NoClient
  <2>3. QED
    BY <2>1, <2>2 DEF UdpInit, CallTypes
<1>3. ThreadTypes /\ HeldRows
  BY DEF UdpInit, ThreadTypes, HeldRows
<1>4. DataTypes
  BY DEF UdpInit, DataTypes, QueueMessages, Offsets
<1>5. LockHeld /\ CallShape
  BY <1>1 DEF UdpInit, LockHeld, CallShape, Holding, Destroying, UdpThreads, App, NoThread, Clients
<1>6. Fresh
  BY DEF UdpInit, Fresh, IsFresh
<1>7. QED
  BY <1>2, <1>3, <1>4, <1>5, <1>6 DEF TypeInv

LEMMA CallTypesNext == UdpAssumption /\ CallTypes /\ CallShape /\ [UdpNext]_udpVars
  => CallTypes'
<1> SUFFICES ASSUME UdpAssumption, CallTypes, CallShape, [UdpNext]_udpVars PROVE
               CallTypes'
  OBVIOUS
<1>1. ASSUME UNCHANGED <<clientsMutex, created, client, deadClients,
             destroyed, at>>
     PROVE  CallTypes'
  BY <1>1 DEF CallTypes
<1>2. ASSUME NEW c \in Clients, NEW i \in DOMAIN Stream, ParseMessage(c,
             Stream[i])
      PROVE  UNCHANGED <<clientsMutex, created, client, deadClients,
             destroyed, at>>
  BY <1>2 DEF ParseMessage, Polls, callVars
<1>3. ASSUME NEW c \in Clients, PushMessage(c) \/ ReceiveEnds(c) \/
             CallbackLoop(c) \/ PopMessage(c) \/ GiveRow(c)
      PROVE  UNCHANGED <<clientsMutex, created, client, deadClients,
             destroyed, at>>
  BY <1>3 DEF PushMessage, callVars, ReceiveEnds, CallbackLoop, CallbackGoes,
              PopMessage, GiveRow
<1>4. ASSUME Subscribe PROVE CallTypes'
  BY <1>4 DEF Subscribe, Enter, clientVars, CallTypes, CallShape, NoThread,
              NoClient, CallLabels, Holding, Destroying, UdpThreads, App,
              Clients
<1>5. ASSUME NEW t \in UdpThreads, NEW c \in Clients, Join(t, c) PROVE
             CallTypes'
  BY <1>5 DEF Join, Free, CallTypes, CallShape, NoThread, NoClient,
              CallLabels, Holding, Destroying, UdpThreads, App, Clients
<1>6. ASSUME SubscribeCleaned PROVE CallTypes'
  BY <1>6 DEF SubscribeCleaned, Enter, clientVars, CallTypes, CallShape,
              NoThread, NoClient, CallLabels, Holding, Destroying, UdpThreads,
              App, Clients
<1>7. ASSUME SubscribeFails PROVE CallTypes'
  BY <1>7 DEF SubscribeFails, Enter, clientVars, CallTypes, CallShape,
              NoThread, NoClient, CallLabels, Holding, Destroying, UdpThreads,
              App, Clients
<1>8. ASSUME SubscribeCreates PROVE CallTypes'
  BY <1>8 DEF SubscribeCreates, Enter, CallTypes, CallShape, NoThread,
              NoClient, CallLabels, Holding, Destroying, UdpThreads, App,
              Clients, UdpAssumption
<1>9. ASSUME SubscribeInserts PROVE CallTypes'
  BY <1>9 DEF SubscribeInserts, Enter, clientVars, CallTypes, CallShape,
              NoThread, NoClient, CallLabels, Holding, Destroying, UdpThreads,
              App, Clients
<1>10. ASSUME NEW t \in UdpThreads, Unsubscribe(t) PROVE CallTypes'
  BY <1>10 DEF Unsubscribe, Enter, clientVars, CallTypes, CallShape, NoThread,
               NoClient, CallLabels, Holding, Destroying, UdpThreads, App,
               Clients
<1>11. ASSUME NEW t \in UdpThreads, UnsubscribeLocks(t) PROVE CallTypes'
  BY <1>11 DEF UnsubscribeLocks, Enter, clientVars, CallTypes, CallShape,
               NoThread, NoClient, CallLabels, Holding, Destroying,
               UdpThreads, App, Clients
<1>12. ASSUME NEW t \in UdpThreads, Stop(t) PROVE CallTypes'
  BY <1>12 DEF Stop, StopClient, Enter, CallTypes, CallShape, NoThread,
               NoClient, CallLabels, Holding, Destroying, UdpThreads, App,
               Clients
<1>13. ASSUME NEW t \in UdpThreads, UnsubscribeThrows(t) PROVE CallTypes'
  BY <1>13 DEF UnsubscribeThrows, Enter, clientVars, CallTypes, CallShape,
               NoThread, NoClient, CallLabels, Holding, Destroying,
               UdpThreads, App, Clients
<1>14. ASSUME NEW t \in UdpThreads, PushNull(t) PROVE CallTypes'
  BY <1>14 DEF PushNull, Enter, CallTypes, CallShape, NoThread, NoClient,
               CallLabels, Holding, Destroying, UdpThreads, App, Clients
<1>15. ASSUME NEW t \in UdpThreads, UnsubscribeReturns(t) PROVE CallTypes'
  BY <1>15 DEF UnsubscribeReturns, Enter, clientVars, CallTypes, CallShape,
               NoThread, NoClient, CallLabels, Holding, Destroying,
               UdpThreads, App, Clients
<1>16. ASSUME Destroy PROVE CallTypes'
  BY <1>16 DEF Destroy, Enter, clientVars, CallTypes, CallShape, NoThread,
               NoClient, CallLabels, Holding, Destroying, UdpThreads, App,
               Clients
<1>17. ASSUME DestroyStops PROVE CallTypes'
  BY <1>17 DEF DestroyStops, StopClient, Enter, CallTypes, CallShape,
               NoThread, NoClient, CallLabels, Holding, Destroying,
               UdpThreads, App, Clients
<1>18. ASSUME Destroyed PROVE CallTypes'
  BY <1>18 DEF Destroyed, Enter, clientVars, CallTypes, CallShape, NoThread,
               NoClient, CallLabels, Holding, Destroying, UdpThreads, App,
               Clients
<1>19. CASE UNCHANGED udpVars
  BY <1>1, <1>19 DEF udpVars, clientVars, callVars
<1>20. QED
  BY <1>1, <1>2, <1>3, <1>4, <1>5, <1>6, <1>7, <1>8, <1>9, <1>10, <1>11,
     <1>12, <1>13, <1>14, <1>15, <1>16, <1>17, <1>18, <1>19 DEF UdpNext,
     ReceiveStep, CallbackStep, AppStep, CallStep

LEMMA LockHeldNext == CallTypes /\ LockHeld /\ [UdpNext]_udpVars => LockHeld'
<1> SUFFICES ASSUME CallTypes, LockHeld, [UdpNext]_udpVars PROVE LockHeld'
  OBVIOUS
<1>1. ASSUME UNCHANGED <<clientsMutex, destroyed, at>> PROVE LockHeld'
  BY <1>1 DEF LockHeld
<1>2. ASSUME NEW c \in Clients, NEW i \in DOMAIN Stream, ParseMessage(c,
             Stream[i])
      PROVE  UNCHANGED <<clientsMutex, destroyed, at>>
  BY <1>2 DEF ParseMessage, Polls, callVars
<1>3. ASSUME NEW c \in Clients, PushMessage(c) \/ ReceiveEnds(c) \/
             CallbackLoop(c) \/ PopMessage(c) \/ GiveRow(c)
      PROVE  UNCHANGED <<clientsMutex, destroyed, at>>
  BY <1>3 DEF PushMessage, callVars, ReceiveEnds, CallbackLoop, CallbackGoes,
              PopMessage, GiveRow
<1>4. ASSUME NEW t \in UdpThreads, NEW c \in Clients, Join(t, c)
      PROVE  UNCHANGED <<clientsMutex, destroyed, at>>
  BY <1>4 DEF Join, Free
<1>5. ASSUME Subscribe PROVE LockHeld'
  BY <1>5 DEF Subscribe, Enter, clientVars, CallTypes, LockHeld, NoThread,
              Calling, CallLabels, Holding, Destroying, UdpThreads, App,
              Clients
<1>6. ASSUME SubscribeCleaned PROVE LockHeld'
  BY <1>6 DEF SubscribeCleaned, Enter, clientVars, CallTypes, LockHeld,
              NoThread, Calling, CallLabels, Holding, Destroying, UdpThreads,
              App, Clients
<1>7. ASSUME SubscribeFails PROVE LockHeld'
  BY <1>7 DEF SubscribeFails, Enter, clientVars, CallTypes, LockHeld,
              NoThread, Calling, CallLabels, Holding, Destroying, UdpThreads,
              App, Clients
<1>8. ASSUME SubscribeCreates PROVE LockHeld'
  BY <1>8 DEF SubscribeCreates, Enter, CallTypes, LockHeld, NoThread, Calling,
              CallLabels, Holding, Destroying, UdpThreads, App, Clients
<1>9. ASSUME SubscribeInserts PROVE LockHeld'
  BY <1>9 DEF SubscribeInserts, Enter, clientVars, CallTypes, LockHeld,
              NoThread, Calling, CallLabels, Holding, Destroying, UdpThreads,
              App, Clients
<1>10. ASSUME NEW t \in UdpThreads, Unsubscribe(t) PROVE LockHeld'
  BY <1>10 DEF Unsubscribe, Enter, clientVars, CallTypes, LockHeld, NoThread,
               Calling, CallLabels, Holding, Destroying, UdpThreads, App,
               Clients
<1>11. ASSUME NEW t \in UdpThreads, UnsubscribeLocks(t) PROVE LockHeld'
  BY <1>11 DEF UnsubscribeLocks, Enter, clientVars, CallTypes, LockHeld,
               NoThread, Calling, CallLabels, Holding, Destroying, UdpThreads,
               App, Clients
<1>12. ASSUME NEW t \in UdpThreads, Stop(t) PROVE LockHeld'
  BY <1>12 DEF Stop, StopClient, Enter, CallTypes, LockHeld, NoThread,
               Calling, CallLabels, Holding, Destroying, UdpThreads, App,
               Clients
<1>13. ASSUME NEW t \in UdpThreads, UnsubscribeThrows(t) PROVE LockHeld'
  BY <1>13 DEF UnsubscribeThrows, Enter, clientVars, CallTypes, LockHeld,
               NoThread, Calling, CallLabels, Holding, Destroying, UdpThreads,
               App, Clients
<1>14. ASSUME NEW t \in UdpThreads, PushNull(t) PROVE LockHeld'
  BY <1>14 DEF PushNull, Enter, CallTypes, LockHeld, NoThread, Calling,
               CallLabels, Holding, Destroying, UdpThreads, App, Clients
<1>15. ASSUME NEW t \in UdpThreads, UnsubscribeReturns(t) PROVE LockHeld'
  BY <1>15 DEF UnsubscribeReturns, Enter, clientVars, CallTypes, LockHeld,
               NoThread, Calling, CallLabels, Holding, Destroying, UdpThreads,
               App, Clients
<1>16. ASSUME Destroy PROVE LockHeld'
  BY <1>16 DEF Destroy, Enter, clientVars, CallTypes, LockHeld, NoThread,
               Calling, CallLabels, Holding, Destroying, UdpThreads, App,
               Clients
<1>17. ASSUME DestroyStops PROVE LockHeld'
  BY <1>17 DEF DestroyStops, StopClient, Enter, CallTypes, LockHeld, NoThread,
               Calling, CallLabels, Holding, Destroying, UdpThreads, App,
               Clients
<1>18. ASSUME Destroyed PROVE LockHeld'
  BY <1>18 DEF Destroyed, Enter, clientVars, CallTypes, LockHeld, NoThread,
               Calling, CallLabels, Holding, Destroying, UdpThreads, App,
               Clients
<1>19. CASE UNCHANGED udpVars
  BY <1>1, <1>19 DEF udpVars, clientVars, callVars
<1>20. QED
  BY <1>1, <1>2, <1>3, <1>4, <1>5, <1>6, <1>7, <1>8, <1>9, <1>10, <1>11,
     <1>12, <1>13, <1>14, <1>15, <1>16, <1>17, <1>18, <1>19 DEF UdpNext,
     ReceiveStep, CallbackStep, AppStep, CallStep

LEMMA CallShapeNext == UdpAssumption /\ CallTypes /\ LockHeld /\ CallShape /\
  [UdpNext]_udpVars => CallShape'
<1> SUFFICES ASSUME UdpAssumption, CallTypes, LockHeld, CallShape, [UdpNext]_udpVars
               PROVE CallShape'
  OBVIOUS
<1>1. ASSUME UNCHANGED <<created, client, at>> PROVE CallShape'
  BY <1>1 DEF CallShape
<1>2. ASSUME NEW c \in Clients, NEW i \in DOMAIN Stream, ParseMessage(c,
             Stream[i])
      PROVE  UNCHANGED <<created, client, at>>
  BY <1>2 DEF ParseMessage, Polls, callVars
<1>3. ASSUME NEW c \in Clients, PushMessage(c) \/ ReceiveEnds(c) \/
             CallbackLoop(c) \/ PopMessage(c) \/ GiveRow(c)
      PROVE  UNCHANGED <<created, client, at>>
  BY <1>3 DEF PushMessage, callVars, ReceiveEnds, CallbackLoop, CallbackGoes,
              PopMessage, GiveRow
<1>4. ASSUME NEW t \in UdpThreads, NEW c \in Clients, Join(t, c)
      PROVE  UNCHANGED <<created, client, at>>
  BY <1>4 DEF Join, Free
<1>5. ASSUME Subscribe PROVE CallShape'
  BY <1>5 DEF Subscribe, Enter, clientVars, CallTypes, LockHeld, CallShape,
              NoThread, NoClient, Calling, CallLabels, Holding, Destroying,
              UdpThreads, App, Clients, UdpAssumption
<1>6. ASSUME SubscribeCleaned PROVE CallShape'
  BY <1>6 DEF SubscribeCleaned, Enter, clientVars, CallTypes, LockHeld,
              CallShape, NoThread, NoClient, Calling, CallLabels, Holding,
              Destroying, UdpThreads, App, Clients
<1>7. ASSUME SubscribeFails PROVE CallShape'
  BY <1>7 DEF SubscribeFails, Enter, clientVars, CallTypes, LockHeld,
              CallShape, NoThread, NoClient, Calling, CallLabels, Holding,
              Destroying, UdpThreads, App, Clients
<1>8. ASSUME SubscribeCreates PROVE CallShape'
  BY <1>8 DEF SubscribeCreates, Enter, CallTypes, LockHeld, CallShape,
              NoThread, NoClient, Calling, CallLabels, Holding, Destroying,
              UdpThreads, App, Clients
<1>9. ASSUME SubscribeInserts PROVE CallShape'
  BY <1>9 DEF SubscribeInserts, Enter, clientVars, CallTypes, LockHeld,
              CallShape, NoThread, NoClient, Calling, CallLabels, Holding,
              Destroying, UdpThreads, App, Clients
<1>10. ASSUME NEW t \in UdpThreads, Unsubscribe(t) PROVE CallShape'
  BY <1>10 DEF Unsubscribe, Enter, clientVars, CallTypes, LockHeld, CallShape,
               NoThread, NoClient, Calling, CallLabels, Holding, Destroying,
               UdpThreads, App, Clients
<1>11. ASSUME NEW t \in UdpThreads, UnsubscribeLocks(t) PROVE CallShape'
  BY <1>11 DEF UnsubscribeLocks, Enter, clientVars, CallTypes, LockHeld,
               CallShape, NoThread, NoClient, Calling, CallLabels, Holding,
               Destroying, UdpThreads, App, Clients
<1>12. ASSUME NEW t \in UdpThreads, Stop(t) PROVE CallShape'
  BY <1>12 DEF Stop, StopClient, Enter, CallTypes, LockHeld, CallShape,
               NoThread, NoClient, Calling, CallLabels, Holding, Destroying,
               UdpThreads, App, Clients
<1>13. ASSUME NEW t \in UdpThreads, UnsubscribeThrows(t) PROVE CallShape'
  BY <1>13 DEF UnsubscribeThrows, Enter, clientVars, CallTypes, LockHeld,
               CallShape, NoThread, NoClient, Calling, CallLabels, Holding,
               Destroying, UdpThreads, App, Clients
<1>14. ASSUME NEW t \in UdpThreads, PushNull(t) PROVE CallShape'
  BY <1>14 DEF PushNull, Enter, CallTypes, LockHeld, CallShape, NoThread,
               NoClient, Calling, CallLabels, Holding, Destroying, UdpThreads,
               App, Clients
<1>15. ASSUME NEW t \in UdpThreads, UnsubscribeReturns(t) PROVE CallShape'
  BY <1>15 DEF UnsubscribeReturns, Enter, clientVars, CallTypes, LockHeld,
               CallShape, NoThread, NoClient, Calling, CallLabels, Holding,
               Destroying, UdpThreads, App, Clients
<1>16. ASSUME Destroy PROVE CallShape'
  BY <1>16 DEF Destroy, Enter, clientVars, CallTypes, LockHeld, CallShape,
               NoThread, NoClient, Calling, CallLabels, Holding, Destroying,
               UdpThreads, App, Clients
<1>17. ASSUME DestroyStops PROVE CallShape'
  BY <1>17 DEF DestroyStops, StopClient, Enter, CallTypes, LockHeld,
               CallShape, NoThread, NoClient, Calling, CallLabels, Holding,
               Destroying, UdpThreads, App, Clients
<1>18. ASSUME Destroyed PROVE CallShape'
  BY <1>18 DEF Destroyed, Enter, clientVars, CallTypes, LockHeld, CallShape,
               NoThread, NoClient, Calling, CallLabels, Holding, Destroying,
               UdpThreads, App, Clients
<1>19. CASE UNCHANGED udpVars
  BY <1>1, <1>19 DEF udpVars, clientVars, callVars
<1>20. QED
  BY <1>1, <1>2, <1>3, <1>4, <1>5, <1>6, <1>7, <1>8, <1>9, <1>10, <1>11,
     <1>12, <1>13, <1>14, <1>15, <1>16, <1>17, <1>18, <1>19 DEF UdpNext,
     ReceiveStep, CallbackStep, AppStep, CallStep

LEMMA ThreadTypesNext == CallTypes /\ ThreadTypes /\ [UdpNext]_udpVars =>
  ThreadTypes'
<1> SUFFICES ASSUME CallTypes, ThreadTypes, [UdpNext]_udpVars PROVE ThreadTypes'
  OBVIOUS
<1>1. ASSUME UNCHANGED <<exit, receive, callback>> PROVE ThreadTypes'
  BY <1>1 DEF ThreadTypes
<1>2. ASSUME NEW t \in UdpThreads, NEW c \in Clients, Join(t, c)
      PROVE  UNCHANGED <<exit, receive, callback>>
  BY <1>2 DEF Join, Free
<1>3. ASSUME NEW t \in UdpThreads, Unsubscribe(t) \/ UnsubscribeLocks(t) \/
             UnsubscribeThrows(t) \/ PushNull(t) \/ UnsubscribeReturns(t)
      PROVE  UNCHANGED <<exit, receive, callback>>
  BY <1>3 DEF Unsubscribe, Enter, clientVars, UnsubscribeLocks,
              UnsubscribeThrows, PushNull, UnsubscribeReturns
<1>4. ASSUME Subscribe \/ SubscribeCleaned \/ SubscribeFails \/
             SubscribeInserts \/ Destroy \/ Destroyed
      PROVE  UNCHANGED <<exit, receive, callback>>
  BY <1>4 DEF Subscribe, Enter, clientVars, SubscribeCleaned, SubscribeFails,
              SubscribeInserts, Destroy, Destroyed
<1>5. ASSUME NEW c \in Clients, NEW i \in DOMAIN Stream, ParseMessage(c,
             Stream[i]) PROVE ThreadTypes'
  BY <1>5 DEF ParseMessage, Polls, callVars, ThreadTypes
<1>6. ASSUME NEW c \in Clients, PushMessage(c) PROVE ThreadTypes'
  BY <1>6 DEF PushMessage, callVars, ThreadTypes
<1>7. ASSUME NEW c \in Clients, ReceiveEnds(c) PROVE ThreadTypes'
  BY <1>7 DEF ReceiveEnds, callVars, ThreadTypes
<1>8. ASSUME NEW c \in Clients, CallbackLoop(c) PROVE ThreadTypes'
  BY <1>8 DEF CallbackLoop, CallbackGoes, callVars, ThreadTypes
<1>9. ASSUME NEW c \in Clients, PopMessage(c) PROVE ThreadTypes'
  BY <1>9 DEF PopMessage, CallbackGoes, callVars, ThreadTypes
<1>10. ASSUME NEW c \in Clients, GiveRow(c) PROVE ThreadTypes'
  BY <1>10 DEF GiveRow, CallbackGoes, callVars, ThreadTypes
<1>11. ASSUME SubscribeCreates PROVE ThreadTypes'
  BY <1>11 DEF SubscribeCreates, Enter, ThreadTypes
<1>12. ASSUME NEW t \in UdpThreads, Stop(t) PROVE ThreadTypes'
  BY <1>12 DEF Stop, StopClient, Enter, ThreadTypes
<1>13. ASSUME DestroyStops PROVE ThreadTypes'
  BY <1>13 DEF DestroyStops, StopClient, Enter, ThreadTypes
<1>14. CASE UNCHANGED udpVars
  BY <1>1, <1>14 DEF udpVars, clientVars, callVars
<1>15. QED
  BY <1>1, <1>2, <1>3, <1>4, <1>5, <1>6, <1>7, <1>8, <1>9, <1>10, <1>11,
     <1>12, <1>13, <1>14 DEF UdpNext, ReceiveStep, CallbackStep, AppStep,
     CallStep

LEMMA DataTypesNext == UdpAssumption /\ CallTypes /\ CallShape /\ ThreadTypes
  /\ DataTypes /\ HeldRows /\ [UdpNext]_udpVars => DataTypes'
<1> SUFFICES ASSUME UdpAssumption, CallTypes, CallShape, ThreadTypes,
               DataTypes, HeldRows, [UdpNext]_udpVars PROVE DataTypes'
  OBVIOUS
<1>1. ASSUME UNCHANGED <<offset, asked, msgQueue, got, rows, given>> PROVE DataTypes'
  BY <1>1 DEF DataTypes
<1>2. ASSUME NEW c \in Clients, ReceiveEnds(c) \/ CallbackLoop(c)
      PROVE  UNCHANGED <<offset, asked, msgQueue, got, rows, given>>
  BY <1>2 DEF ReceiveEnds, callVars, CallbackLoop, CallbackGoes
<1>3. ASSUME NEW t \in UdpThreads, Unsubscribe(t) \/ UnsubscribeLocks(t) \/
             Stop(t) \/ UnsubscribeThrows(t) \/ UnsubscribeReturns(t)
      PROVE  UNCHANGED <<offset, asked, msgQueue, got, rows, given>>
  BY <1>3 DEF Unsubscribe, Enter, clientVars, UnsubscribeLocks, Stop,
              StopClient, UnsubscribeThrows, UnsubscribeReturns
<1>4. ASSUME Subscribe \/ SubscribeCleaned \/ SubscribeFails \/
             SubscribeInserts \/ Destroy \/ DestroyStops
      PROVE  UNCHANGED <<offset, asked, msgQueue, got, rows, given>>
  BY <1>4 DEF Subscribe, Enter, clientVars, SubscribeCleaned, SubscribeFails,
              SubscribeInserts, Destroy, DestroyStops, StopClient
<1>5. ASSUME Destroyed
      PROVE  UNCHANGED <<offset, asked, msgQueue, got, rows, given>>
  BY <1>5 DEF Destroyed, Enter, clientVars
<1>6. ASSUME NEW c \in Clients, NEW i \in DOMAIN Stream, ParseMessage(c,
             Stream[i]) PROVE DataTypes'
  <2>1. /\ Stream[i].offset \in Nat /\ Stream[i].length \in Nat /\ OffsetAfter(Stream[i]) \in Nat
        /\ Stream[i].kind = "rows" => OffsetAfter(Stream[i]) = Stream[i].offset
    BY DatagramClear
  <2>2. offset' \in [Clients -> Offsets]
    BY <1>6, <2>1 DEF ParseMessage, DataTypes, Offsets
  <2>3. Stream[i].kind = "rows" =>
          [offset |-> OffsetAfter(Stream[i]), first |-> Stream[i].offset, length |-> Stream[i].length] \in QueueMessages
    BY <2>1 DEF QueueMessages, RowMessages
  <2>4. got' \in [Clients -> QueueMessages]
    BY <1>6, <2>3 DEF ParseMessage, DataTypes
  <2>5. QED
    BY <1>6, <2>2, <2>4 DEF ParseMessage, callVars, DataTypes
<1>7. ASSUME NEW c \in Clients, PushMessage(c) PROVE DataTypes'
  <2>1. got[c] \in RowMessages /\ offset[c] \in Nat
    BY <1>7 DEF PushMessage, HeldRows, RowMessages
  <2>2. offset' \in [Clients -> Offsets]
    BY <1>7, <2>1 DEF PushMessage, DataTypes, Offsets, RowMessages
  <2>3. msgQueue' \in [Clients -> Seq(QueueMessages)] /\ got' \in [Clients -> QueueMessages]
    BY <1>7, <2>1 DEF PushMessage, DataTypes, QueueMessages
  <2>4. QED
    BY <1>7, <2>2, <2>3 DEF PushMessage, callVars, DataTypes
<1>8. ASSUME NEW c \in Clients, PopMessage(c) PROVE DataTypes'
  <2>1. msgQueue[c] \in Seq(QueueMessages) /\ msgQueue[c] # <<>>
    BY <1>8 DEF PopMessage, DataTypes
  <2>2. Head(msgQueue[c]) \in QueueMessages /\ Tail(msgQueue[c]) \in Seq(QueueMessages)
    BY <2>1
  <2>3. QED
    BY <1>8, <2>2 DEF PopMessage, CallbackGoes, callVars, DataTypes
<1>9. ASSUME NEW c \in Clients, GiveRow(c) PROVE DataTypes'
  <2>1. rows[c] \in RowMessages
    BY <1>9 DEF GiveRow, HeldRows
  <2>2. CASE rows[c].length = 0 \/ exit[c]
    BY <1>9, <2>2 DEF GiveRow, callVars, DataTypes
  <2>3. CASE ~(rows[c].length = 0 \/ exit[c])
    <3> DEFINE row == <<rows[c].first, rows[c].offset>>
               m == [offset |-> rows[c].offset + 1, first |-> rows[c].first + 1, length |-> rows[c].length - 1]
    <3>1. row \in Nat \X Nat
      BY <2>1 DEF RowMessages
    <3>2. m \in QueueMessages
      BY <2>1, <2>3 DEF RowMessages, QueueMessages
    <3>3. given' = [given EXCEPT ![c] = Append(@, row)] /\ rows' = [rows EXCEPT ![c] = m]
      BY <1>9, <2>3 DEF GiveRow
    <3> HIDE DEF row, m
    <3>4. given' \in [Clients -> Seq(Nat \X Nat)] /\ rows' \in [Clients -> QueueMessages]
      BY <3>1, <3>2, <3>3 DEF DataTypes
    <3>5. QED
      BY <1>9, <3>4 DEF GiveRow, callVars, DataTypes
  <2>4. QED
    BY <2>2, <2>3
<1>10. ASSUME NEW t \in UdpThreads, NEW c \in Clients, Join(t, c) PROVE
              DataTypes'
  BY <1>10 DEF Join, Free, DataTypes, Offsets, QueueMessages
<1>11. ASSUME SubscribeCreates PROVE DataTypes'
  <2>1. offset' \in [Clients -> Offsets] /\ asked' \in [Clients -> Offsets]
    BY <1>11 DEF SubscribeCreates, DataTypes, Offsets, UdpAssumption
  <2>2. QED
    BY <1>11, <2>1 DEF SubscribeCreates, DataTypes
<1>12. ASSUME NEW t \in UdpThreads, PushNull(t) PROVE DataTypes'
  <2>1. client \in Clients
    BY <1>12 DEF PushNull, CallTypes, CallShape, NoClient, Clients, UdpAssumption
  <2>2. msgQueue' \in [Clients -> Seq(QueueMessages)]
    BY <1>12, <2>1 DEF PushNull, DataTypes, QueueMessages
  <2>3. QED
    BY <1>12, <2>2 DEF PushNull, DataTypes
<1>13. CASE UNCHANGED udpVars
  BY <1>1, <1>13 DEF udpVars, clientVars, callVars
<1>14. QED
  BY <1>1, <1>2, <1>3, <1>4, <1>5, <1>6, <1>7, <1>8, <1>9, <1>10, <1>11,
     <1>12, <1>13 DEF UdpNext, ReceiveStep, CallbackStep, AppStep, CallStep

LEMMA FreshNext == UdpAssumption /\ CallTypes /\ CallShape /\ ThreadTypes /\
  DataTypes /\ Fresh /\ [UdpNext]_udpVars => Fresh'
<1> SUFFICES ASSUME UdpAssumption, CallTypes, CallShape, ThreadTypes,
               DataTypes, Fresh, [UdpNext]_udpVars PROVE Fresh'
  OBVIOUS
<1>1. ASSUME UNCHANGED <<created, receive, callback, msgQueue, given>> PROVE Fresh'
  BY <1>1 DEF Fresh, IsFresh
<1>2. ASSUME NEW t \in UdpThreads, Unsubscribe(t) \/ UnsubscribeLocks(t) \/
             Stop(t) \/ UnsubscribeThrows(t) \/ UnsubscribeReturns(t)
      PROVE  UNCHANGED <<created, receive, callback, msgQueue, given>>
  BY <1>2 DEF Unsubscribe, Enter, clientVars, UnsubscribeLocks, Stop,
              StopClient, UnsubscribeThrows, UnsubscribeReturns
<1>3. ASSUME Subscribe \/ SubscribeCleaned \/ SubscribeFails \/
             SubscribeInserts \/ Destroy \/ DestroyStops
      PROVE  UNCHANGED <<created, receive, callback, msgQueue, given>>
  BY <1>3 DEF Subscribe, Enter, clientVars, SubscribeCleaned, SubscribeFails,
              SubscribeInserts, Destroy, DestroyStops, StopClient
<1>4. ASSUME Destroyed
      PROVE  UNCHANGED <<created, receive, callback, msgQueue, given>>
  BY <1>4 DEF Destroyed, Enter, clientVars
<1>5. ASSUME NEW c \in Clients, NEW i \in DOMAIN Stream, ParseMessage(c,
             Stream[i]) PROVE Fresh'
  BY <1>5 DEF ParseMessage, Polls, callVars, Fresh, IsFresh, CallTypes,
              ThreadTypes, DataTypes
<1>6. ASSUME NEW c \in Clients, PushMessage(c) PROVE Fresh'
  BY <1>6 DEF PushMessage, callVars, Fresh, IsFresh, CallTypes, ThreadTypes,
              DataTypes
<1>7. ASSUME NEW c \in Clients, ReceiveEnds(c) PROVE Fresh'
  BY <1>7 DEF ReceiveEnds, callVars, Fresh, IsFresh, CallTypes, ThreadTypes,
              DataTypes
<1>8. ASSUME NEW c \in Clients, CallbackLoop(c) PROVE Fresh'
  BY <1>8 DEF CallbackLoop, CallbackGoes, callVars, Fresh, IsFresh, CallTypes,
              ThreadTypes, DataTypes
<1>9. ASSUME NEW c \in Clients, PopMessage(c) PROVE Fresh'
  BY <1>9 DEF PopMessage, CallbackGoes, callVars, Fresh, IsFresh, CallTypes,
              ThreadTypes, DataTypes
<1>10. ASSUME NEW c \in Clients, GiveRow(c) PROVE Fresh'
  BY <1>10 DEF GiveRow, CallbackGoes, callVars, Fresh, IsFresh, CallTypes,
               ThreadTypes, DataTypes
<1>11. ASSUME NEW t \in UdpThreads, NEW c \in Clients, Join(t, c) PROVE Fresh'
  BY <1>11 DEF Join, Free, Fresh, IsFresh, CallTypes, ThreadTypes, DataTypes
<1>12. ASSUME SubscribeCreates PROVE Fresh'
  <2>1. created' = created + 1 /\ created \in Nat
    BY <1>12 DEF SubscribeCreates, CallTypes
  <2>2. ASSUME NEW c \in Clients, c > created' PROVE IsFresh(c)'
    <3>1. c > created /\ c # created' /\ IsFresh(c)
      BY <2>1, <2>2 DEF Clients, Fresh
    <3>2. receive'[c] = receive[c] /\ callback'[c] = callback[c]
      BY <1>12, <3>1 DEF SubscribeCreates, ThreadTypes
    <3>3. msgQueue' = msgQueue /\ given' = given
      BY <1>12 DEF SubscribeCreates
    <3> QED
      BY <3>1, <3>2, <3>3 DEF IsFresh
  <2> QED
    BY <2>2 DEF Fresh
<1>13. ASSUME NEW t \in UdpThreads, PushNull(t) PROVE Fresh'
  BY <1>13 DEF PushNull, Enter, Fresh, IsFresh, CallTypes, ThreadTypes,
               DataTypes, CallShape, NoClient, UdpThreads, Clients
<1>14. CASE UNCHANGED udpVars
  BY <1>1, <1>14 DEF udpVars, clientVars, callVars
<1>15. QED
  BY <1>1, <1>2, <1>3, <1>4, <1>5, <1>6, <1>7, <1>8, <1>9, <1>10, <1>11,
     <1>12, <1>13, <1>14 DEF UdpNext, ReceiveStep, CallbackStep, AppStep,
     CallStep

LEMMA HeldRowsNext == UdpAssumption /\ CallTypes /\ ThreadTypes /\ DataTypes
  /\ Fresh /\ HeldRows /\ [UdpNext]_udpVars => HeldRows'
<1> SUFFICES ASSUME UdpAssumption, CallTypes, ThreadTypes, DataTypes, Fresh,
               HeldRows, [UdpNext]_udpVars PROVE HeldRows'
  OBVIOUS
<1>1. ASSUME UNCHANGED <<receive, got, offset, callback, rows>> PROVE HeldRows'
  BY <1>1 DEF HeldRows
<1>2. ASSUME NEW t \in UdpThreads, Unsubscribe(t) \/ UnsubscribeLocks(t) \/
             Stop(t) \/ UnsubscribeThrows(t) \/ PushNull(t) \/
             UnsubscribeReturns(t)
      PROVE  UNCHANGED <<receive, got, offset, callback, rows>>
  BY <1>2 DEF Unsubscribe, Enter, clientVars, UnsubscribeLocks, Stop,
              StopClient, UnsubscribeThrows, PushNull, UnsubscribeReturns
<1>3. ASSUME Subscribe \/ SubscribeCleaned \/ SubscribeFails \/
             SubscribeInserts \/ Destroy \/ DestroyStops
      PROVE  UNCHANGED <<receive, got, offset, callback, rows>>
  BY <1>3 DEF Subscribe, Enter, clientVars, SubscribeCleaned, SubscribeFails,
              SubscribeInserts, Destroy, DestroyStops, StopClient
<1>4. ASSUME Destroyed
      PROVE  UNCHANGED <<receive, got, offset, callback, rows>>
  BY <1>4 DEF Destroyed, Enter, clientVars
<1>5. ASSUME NEW c \in Clients, NEW i \in DOMAIN Stream, ParseMessage(c,
             Stream[i]) PROVE HeldRows'
  <2>1. /\ Stream[i].offset \in Nat /\ Stream[i].length \in Nat /\ OffsetAfter(Stream[i]) \in Nat
        /\ Stream[i].kind = "rows" => OffsetAfter(Stream[i]) = Stream[i].offset
    BY DatagramClear
  <2> DEFINE m == [offset |-> OffsetAfter(Stream[i]), first |-> Stream[i].offset, length |-> Stream[i].length]
  <2>2. Stream[i].kind = "rows" => m \in RowMessages /\ m.first = OffsetAfter(Stream[i])
    BY <2>1 DEF RowMessages
  <2>3. /\ offset' = [offset EXCEPT ![c] = OffsetAfter(Stream[i])]
        /\ IF Stream[i].kind = "rows" THEN /\ receive' = [receive EXCEPT ![c] = "push"]
                                          /\ got' = [got EXCEPT ![c] = m]
                                     ELSE UNCHANGED <<receive, got>>
        /\ receive[c] = "poll" /\ UNCHANGED <<callback, rows>>
    BY <1>5 DEF ParseMessage, Polls
  <2> HIDE DEF m
  <2>4. QED
    BY <2>2, <2>3 DEF HeldRows, ThreadTypes, DataTypes
<1>6. ASSUME NEW c \in Clients, PushMessage(c) PROVE HeldRows'
  BY <1>6 DEF PushMessage, callVars, HeldRows, ThreadTypes, DataTypes
<1>7. ASSUME NEW c \in Clients, ReceiveEnds(c) PROVE HeldRows'
  BY <1>7 DEF ReceiveEnds, callVars, HeldRows, ThreadTypes, DataTypes
<1>8. ASSUME NEW c \in Clients, CallbackLoop(c) PROVE HeldRows'
  BY <1>8 DEF CallbackLoop, CallbackGoes, callVars, HeldRows, ThreadTypes,
              DataTypes
<1>9. ASSUME NEW c \in Clients, PopMessage(c) PROVE HeldRows'
  <2>1. msgQueue[c] \in Seq(QueueMessages) /\ msgQueue[c] # <<>>
    BY <1>9 DEF PopMessage, DataTypes
  <2>2. Head(msgQueue[c]) \in QueueMessages
    BY <2>1
  <2>3. QED
    BY <1>9, <2>2 DEF PopMessage, CallbackGoes, callVars, HeldRows, ThreadTypes, DataTypes, QueueMessages
<1>10. ASSUME NEW c \in Clients, GiveRow(c) PROVE HeldRows'
  <2>1. rows[c] \in RowMessages
    BY <1>10 DEF GiveRow, HeldRows
  <2>2. CASE rows[c].length = 0 \/ exit[c]
    BY <1>10, <2>2 DEF GiveRow, CallbackGoes, callVars, HeldRows, ThreadTypes
  <2>3. CASE ~(rows[c].length = 0 \/ exit[c])
    <3> DEFINE m == [offset |-> rows[c].offset + 1, first |-> rows[c].first + 1, length |-> rows[c].length - 1]
    <3>1. m \in RowMessages
      BY <2>1, <2>3 DEF RowMessages
    <3>2. rows' = [rows EXCEPT ![c] = m] /\ UNCHANGED <<callback, receive, got, offset>>
      BY <1>10, <2>3 DEF GiveRow
    <3> HIDE DEF m
    <3>3. QED
      BY <3>1, <3>2 DEF HeldRows, DataTypes
  <2>4. QED
    BY <2>2, <2>3
<1>11. ASSUME NEW t \in UdpThreads, NEW c \in Clients, Join(t, c) PROVE
              HeldRows'
  BY <1>11 DEF Join, Free, HeldRows, ThreadTypes, DataTypes
<1>12. ASSUME SubscribeCreates PROVE HeldRows'
  <2>1. created' \in Clients \/ created' \notin Clients
    OBVIOUS
  <2>2. QED
    BY <1>12 DEF SubscribeCreates, HeldRows, ThreadTypes, DataTypes
<1>13. CASE UNCHANGED udpVars
  BY <1>1, <1>13 DEF udpVars, clientVars, callVars
<1>14. QED
  BY <1>1, <1>2, <1>3, <1>4, <1>5, <1>6, <1>7, <1>8, <1>9, <1>10, <1>11,
     <1>12, <1>13 DEF UdpNext, ReceiveStep, CallbackStep, AppStep, CallStep

LEMMA TypeNext == UdpAssumption /\ TypeInv /\ [UdpNext]_udpVars => TypeInv'
<1> SUFFICES ASSUME UdpAssumption, TypeInv, [UdpNext]_udpVars PROVE TypeInv'
  OBVIOUS
<1>1. CallTypes /\ ThreadTypes /\ DataTypes /\ LockHeld /\ CallShape /\ Fresh /\ HeldRows
  BY DEF TypeInv
<1>2. CallTypes' /\ LockHeld' /\ CallShape'
  BY <1>1, CallTypesNext, LockHeldNext, CallShapeNext
<1>3. ThreadTypes' /\ DataTypes' /\ Fresh' /\ HeldRows'
  BY <1>1, ThreadTypesNext, DataTypesNext, FreshNext, HeldRowsNext
<1>4. QED
  BY <1>2, <1>3 DEF TypeInv

(* Every variable has its type, the mutex of the clients is held exactly by *)
(* who is between its lock and its unlock, the destructor has the object to *)
(* itself, and a client that is stopped is there.                           *)
THEOREM TypeCorrect == UdpAssumption /\ UdpSpec => []TypeInv
<1> SUFFICES ASSUME UdpAssumption PROVE UdpSpec => []TypeInv
  OBVIOUS
<1>1. UdpInit => TypeInv
  BY TypeInit
<1>2. TypeInv /\ [UdpNext]_udpVars => TypeInv'
  BY TypeNext
<1>3. QED
  BY <1>1, <1>2, PTL DEF UdpSpec

-----------------------------------------------------------------------------
(* The rows. *)

(* What is linked at client d is not touched; it may be told to stop.       *)
SameData(d) ==
  /\ msgQueue'[d] = msgQueue[d] /\ rows'[d] = rows[d]
  /\ given'[d] = given[d] /\ asked'[d] = asked[d]
SameThread(d) == callback'[d] = callback[d] /\ (exit[d] => exit'[d])
Same(d) == SameData(d) /\ SameThread(d) /\ offset'[d] = offset[d]

LEMMA Ranges ==
  ASSUME TypeInv, NEW c \in Clients
  PROVE  /\ Wanted(c) \in Offsets /\ offset[c] \in Offsets
         /\ callback[c] = "row" => rows[c] \in RowMessages
         /\ Reached(c) \in Offsets
         /\ msgQueue[c] \in Seq(QueueMessages) /\ given[c] \in Seq(Nat \X Nat)
<1>1. /\ given[c] \in Seq(Nat \X Nat) /\ asked[c] \in Offsets /\ offset[c] \in Offsets
      /\ msgQueue[c] \in Seq(QueueMessages)
  BY DEF TypeInv, DataTypes
<1>2. given[c] # <<>> => LastGiven(c) \in Nat
  <2> SUFFICES ASSUME given[c] # <<>> PROVE LastGiven(c) \in Nat
    OBVIOUS
  <2>1. given[c][Len(given[c])] \in Nat \X Nat
    BY <1>1
  <2>2. QED
    BY <2>1 DEF LastGiven
<1>3. Wanted(c) \in Offsets
  BY <1>1, <1>2 DEF Wanted, Offsets
<1>4. callback[c] = "row" => rows[c] \in RowMessages
  BY DEF TypeInv, HeldRows
<1>5. Reached(c) \in Offsets
  BY <1>3, <1>4 DEF Reached, End, Offsets, RowMessages
<1>6. QED
  BY <1>1, <1>3, <1>4, <1>5

LEMMA SameLinks ==
  ASSUME NEW d \in Clients, Linked(d), Same(d)
  PROVE  Linked(d)'
<1>1. /\ Wanted(d)' = Wanted(d) /\ Reached(d)' = Reached(d) /\ (Live(d)' => Live(d))
  BY DEF Same, SameData, SameThread, Wanted, LastGiven, Reached, End, Live
<1>2. HandLinks(d)' /\ HeadLinks(d)' /\ TailLinks(d)' /\ QueueLinks(d)'
  BY <1>1 DEF Linked, HandLinks, HeadLinks, TailLinks, QueueLinks, Same, SameData, SameThread, End,
              Clear
<1>3. Given(d)'
  BY DEF Linked, Given, Same, SameData, NoneSkipped
<1>4. QED
  BY <1>2, <1>3 DEF Linked

LEMMA OthersLinked ==
  ASSUME LinkInv, NEW c \in Clients, \A d \in Clients : d # c => Same(d), Linked(c)'
  PROVE  LinkInv'
  BY SameLinks DEF LinkInv

(* The expected offset moves on over no row of the stream, or is fixed.     *)
LEMMA OffsetMoves ==
  ASSUME UdpAssumption, TypeInv, NEW c \in Clients, Linked(c), SameData(c), SameThread(c),
         offset'[c] \in Nat, offset[c] = -1 \/ Clear(offset[c], offset'[c])
  PROVE  Linked(c)'
<1> DEFINE q == msgQueue[c]
           o == offset[c]
           p == offset'[c]
<1>1. /\ Wanted(c)' = Wanted(c) /\ Reached(c)' = Reached(c) /\ (Live(c)' => Live(c))
  BY DEF SameData, SameThread, Wanted, LastGiven, Reached, End, Live
<1>2. /\ Reached(c) \in Offsets /\ o \in Offsets /\ q \in Seq(QueueMessages)
  BY Ranges
<1>3. ASSUME NEW a \in Nat, Clear(a, o) PROVE Clear(a, p)
  <2>1. o \in Nat /\ Clear(o, p)
    BY <1>2, <1>3 DEF Clear, Offsets
  <2>2. QED
    BY <1>3, <2>1, ClearJoins
<1>4. HandLinks(c)' /\ QueueLinks(c)'
  BY <1>1 DEF Linked, HandLinks, QueueLinks, SameData, SameThread, End, Clear
<1>5. HeadLinks(c)'
  <2>1. Reached(c) # -1 => Reached(c) \in Nat
    BY <1>2 DEF Offsets
  <2>2. CASE q = <<>>
    BY <1>1, <1>3, <2>1, <2>2 DEF Linked, HeadLinks, SameData, Clear
  <2>3. CASE q # <<>>
    BY <1>1, <2>3 DEF Linked, HeadLinks, SameData, Clear
  <2>4. QED
    BY <2>2, <2>3
<1>6. TailLinks(c)'
  <2> SUFFICES ASSUME q # <<>>, q[Len(q)] # Null PROVE Clear(End(q[Len(q)]), p)
    BY DEF TailLinks, SameData, Clear, End
  <2>1. q[Len(q)] \in RowMessages
    BY <1>2 DEF QueueMessages
  <2>2. End(q[Len(q)]) \in Nat
    BY <2>1 DEF End, RowMessages
  <2>3. QED
    BY <1>3, <2>2 DEF Linked, TailLinks
<1>7. Given(c)'
  BY DEF Linked, Given, SameData, NoneSkipped
<1>8. QED
  BY <1>4, <1>5, <1>6, <1>7 DEF Linked

(* A message joins the queue: rows that begin at the expected offset, which *)
(* moves on to their end, or a null message.                                *)
LEMMA QueueGrows ==
  ASSUME UdpAssumption, TypeInv, NEW c \in Clients, Linked(c), SameThread(c),
         rows'[c] = rows[c], given'[c] = given[c], asked'[c] = asked[c],
         NEW m \in QueueMessages, msgQueue'[c] = Append(msgQueue[c], m),
         m # Null => m.first = offset[c] /\ offset'[c] = End(m)
  PROVE  Linked(c)'
<1> DEFINE q == msgQueue[c]
           r == msgQueue'[c]
<1>1. /\ Wanted(c)' = Wanted(c) /\ Reached(c)' = Reached(c) /\ (Live(c)' => Live(c))
  BY DEF SameThread, Wanted, LastGiven, Reached, End, Live
<1>2. q \in Seq(QueueMessages)
  BY Ranges
<1>3. /\ Len(r) = Len(q) + 1 /\ r[Len(r)] = m /\ r # <<>> /\ Len(q) \in Nat
      /\ \A i \in 1 .. Len(q) : r[i] = q[i]
      /\ q = <<>> <=> Len(q) = 0
  BY <1>2
<1>4. HandLinks(c)'
  BY <1>1 DEF Linked, HandLinks, SameThread, Clear
<1>5. HeadLinks(c)'
  <2>1. CASE q = <<>>
    BY <1>1, <1>3, <2>1 DEF Linked, HeadLinks, Clear
  <2>2. CASE q # <<>>
    <3>1. r[1] = q[1]
      BY <1>3, <2>2
    <3>2. QED
      BY <1>1, <1>3, <2>2, <3>1 DEF Linked, HeadLinks, Clear
  <2>3. QED
    BY <2>1, <2>2
<1>6. QueueLinks(c)'
  <2> SUFFICES ASSUME NEW i \in 1 .. Len(r) - 1, r[i] # Null, r[i + 1] # Null
               PROVE  Clear(End(r[i]), r[i + 1].first)
    BY DEF QueueLinks, Clear, End
  <2>1. CASE i = Len(q)
    BY <1>3, <2>1 DEF Linked, TailLinks
  <2>2. CASE i # Len(q)
    <3>1. i \in 1 .. Len(q) - 1 /\ r[i] = q[i] /\ r[i + 1] = q[i + 1]
      BY <1>3, <2>2
    <3>2. QED
      BY <3>1 DEF Linked, QueueLinks
  <2>3. QED
    BY <2>1, <2>2
<1>7. TailLinks(c)'
  <2> SUFFICES ASSUME m # Null PROVE Clear(End(m), offset'[c])
    BY <1>3 DEF TailLinks, Clear, End
  <2>1. End(m) \in Int
    BY DEF QueueMessages, RowMessages, End
  <2>2. QED
    BY <2>1, ClearSelf
<1>8. Given(c)'
  BY DEF Linked, Given, NoneSkipped
<1>9. QED
  BY <1>4, <1>5, <1>6, <1>7, <1>8 DEF Linked

LEMMA TailFacts ==
  ASSUME NEW S, NEW q \in Seq(S), q # <<>>
  PROVE  /\ Len(q) \in Nat \ {0} /\ Head(q) = q[1]
         /\ Len(Tail(q)) = Len(q) - 1
         /\ \A i \in 1 .. Len(Tail(q)) : Tail(q)[i] = q[i + 1]
         /\ Tail(q) = <<>> => Len(q) = 1
         /\ Tail(q) # <<>> => Len(Tail(q)) \in Nat \ {0}
<1>1. Len(q) \in Nat \ {0} /\ Tail(q) \in Seq(S) /\ Head(q) = q[1]
  OBVIOUS
<1>2. Len(Tail(q)) = Len(q) - 1
  BY <1>1
<1>3. \A i \in 1 .. Len(Tail(q)) : Tail(q)[i] = q[i + 1]
  BY <1>1, <1>2
<1>4. Tail(q) = <<>> => Len(q) = 1
  <2>1. Tail(q) = <<>> => Len(Tail(q)) = 0
    <3>1. Len(<<>>) = 0
      BY EmptySeq
    <3>2. QED
      BY <3>1, Zenon
  <2>2. QED
    BY <1>1, <1>2, <2>1
<1>5. Tail(q) # <<>> => Len(Tail(q)) \in Nat \ {0}
  BY <1>1, EmptySeq
<1>6. QED
  BY <1>1, <1>2, <1>3, <1>4, <1>5

(* The first message leaves the queue: rows that the callback thread takes  *)
(* in hand, or a null message, with which it ends.                          *)
LEMMA QueueShrinks ==
  ASSUME UdpAssumption, TypeInv, NEW c \in Clients, Linked(c), callback[c] = "pop",
         msgQueue[c] # <<>>, msgQueue'[c] = Tail(msgQueue[c]),
         given'[c] = given[c], asked'[c] = asked[c], offset'[c] = offset[c],
         IF Head(msgQueue[c]) = Null
         THEN callback'[c] = "done"
         ELSE callback'[c] = "row" /\ rows'[c] = Head(msgQueue[c])
  PROVE  Linked(c)'
<1> DEFINE q == msgQueue[c]
           r == msgQueue'[c]
<1>1. Wanted(c)' = Wanted(c) /\ Live(c) /\ Reached(c) = Wanted(c)
  BY DEF Wanted, LastGiven, Live, Reached
<1>2. q \in Seq(QueueMessages)
  BY Ranges
<1>3. /\ Len(r) = Len(q) - 1 /\ Len(q) \in Nat \ {0} /\ Head(q) = q[1]
      /\ \A i \in 1 .. Len(r) : r[i] = q[i + 1]
      /\ r = <<>> => Len(q) = 1
      /\ r # <<>> => Len(r) \in Nat \ {0}
  BY <1>2, TailFacts
<1>4. HandLinks(c)'
  BY <1>1, <1>3 DEF Linked, HandLinks, HeadLinks, Live, Clear
<1>5. HeadLinks(c)'
  <2> SUFFICES ASSUME Live(c)', Reached(c)' # -1
               PROVE  IF r = <<>> THEN Clear(Reached(c)', offset[c])
                      ELSE r[1] # Null => Clear(Reached(c)', r[1].first)
    BY DEF HeadLinks, Clear
  <2>1. q[1] # Null /\ Reached(c)' = End(q[1])
    BY <1>3 DEF Live, Reached, End
  <2>2. CASE r = <<>>
    BY <1>3, <2>1, <2>2 DEF Linked, TailLinks
  <2>3. CASE r # <<>>
    <3>1. 1 \in 1 .. Len(q) - 1 /\ r[1] = q[1 + 1]
      BY <1>3, <2>3
    <3>2. QED
      BY <2>1, <2>3, <3>1 DEF Linked, QueueLinks
  <2>4. QED
    BY <2>2, <2>3
<1>6. QueueLinks(c)'
  <2> SUFFICES ASSUME NEW i \in 1 .. Len(r) - 1, r[i] # Null, r[i + 1] # Null
               PROVE  Clear(End(r[i]), r[i + 1].first)
    BY DEF QueueLinks, Clear, End
  <2> HIDE DEF q, r
  <2>1. Len(q) \in Nat /\ Len(r) = Len(q) - 1
    BY <1>3
  <2>2. i \in 1 .. Len(r) /\ i + 1 \in 1 .. Len(r) /\ i + 1 \in 1 .. Len(q) - 1
    BY <2>1
  <2>3. r[i] = q[i + 1] /\ r[i + 1] = q[(i + 1) + 1]
    BY <1>3, <2>2
  <2>4. QED
    BY <2>2, <2>3 DEF Linked, QueueLinks, q, r
<1>7. TailLinks(c)'
  <2> SUFFICES ASSUME r # <<>>, r[Len(r)] # Null PROVE Clear(End(r[Len(r)]), offset[c])
    BY DEF TailLinks, Clear, End
  <2>1. r[Len(r)] = q[Len(q)]
    BY <1>3
  <2>2. QED
    BY <2>1 DEF Linked, TailLinks
<1>8. Given(c)'
  BY DEF Linked, Given, NoneSkipped
<1>9. QED
  BY <1>4, <1>5, <1>6, <1>7, <1>8 DEF Linked

(* A row is given to the handler.                                           *)
LEMMA RowGiven ==
  ASSUME UdpAssumption, TypeInv, NEW c \in Clients, Linked(c), callback[c] = "row",
         callback'[c] = "row", msgQueue'[c] = msgQueue[c], asked'[c] = asked[c],
         offset'[c] = offset[c],
         given'[c] = Append(given[c], <<rows[c].first, rows[c].offset>>),
         rows'[c] = [offset |-> rows[c].offset + 1, first |-> rows[c].first + 1,
                     length |-> rows[c].length - 1]
  PROVE  Linked(c)'
<1> DEFINE g == given[c]
           h == given'[c]
           n == rows[c].first
<1>1. /\ rows[c] \in RowMessages /\ g \in Seq(Nat \X Nat) /\ Live(c) /\ Live(c)'
      /\ Wanted(c) \in Offsets
  BY Ranges DEF Live
<1>2. n \in Nat /\ rows[c].offset = n /\ rows[c].length \in Nat
  BY <1>1 DEF RowMessages
<1>3. /\ Len(h) = Len(g) + 1 /\ h[Len(h)] = <<n, n>> /\ h # <<>> /\ Len(g) \in Nat
      /\ \A i \in 1 .. Len(g) : h[i] = g[i]
      /\ g = <<>> <=> Len(g) = 0
      /\ DOMAIN h = 1 .. Len(h) /\ DOMAIN g = 1 .. Len(g)
  BY <1>1, <1>2
<1>4. Wanted(c)' = n + 1
  BY <1>3 DEF Wanted, LastGiven
<1>5. Reached(c)' = Reached(c)
  <2>1. Reached(c)' = (n + 1) + (rows[c].length - 1)
    BY DEF Reached, End
  <2>2. Reached(c) = n + rows[c].length
    BY DEF Reached, End
  <2>3. \A x, y \in Nat : (x + 1) + (y - 1) = x + y
    OBVIOUS
  <2>4. QED
    BY <1>2, <2>1, <2>2, <2>3
<1>6. HandLinks(c)'
  <2>1. rows'[c].first = n + 1
    OBVIOUS
  <2>2. Clear(n + 1, n + 1)
    BY <1>2, ClearSelf
  <2>3. QED
    BY <1>4, <2>1, <2>2 DEF HandLinks, Clear
<1>7. HeadLinks(c)' /\ QueueLinks(c)' /\ TailLinks(c)'
  BY <1>1, <1>5 DEF Linked, HeadLinks, QueueLinks, TailLinks, Clear, End
<1>8. Wanted(c) # -1 => Clear(Wanted(c), n)
  BY <1>1 DEF Linked, HandLinks
<1>9. g # <<>> => NoneSkipped(g[Len(g)][1], n)
  <2> SUFFICES ASSUME g # <<>> PROVE NoneSkipped(g[Len(g)][1], n)
    OBVIOUS
  <2>1. g[Len(g)] \in Nat \X Nat
    BY <1>1
  <2>2. Wanted(c) = g[Len(g)][1] + 1 /\ g[Len(g)][1] \in Nat
    BY <2>1 DEF Wanted, LastGiven
  <2>3. QED
    BY <1>2, <1>8, <2>2, ClearSkipsNone
<1>10. asked[c] # -1 => NoneSkipped(asked[c] - 1, h[1][1])
  <2>1. CASE g = <<>>
    <3>1. Wanted(c) = asked[c] /\ h[1] = <<n, n>> /\ asked[c] \in Int
      BY <1>1, <1>3, <2>1 DEF Wanted, Offsets
    <3>2. asked[c] # -1 => NoneSkipped(asked[c] - 1, n)
      BY <1>2, <1>8, <3>1, ClearSkipsNone
    <3>3. QED
      BY <3>1, <3>2
  <2>2. CASE g # <<>>
    BY <1>3, <2>2 DEF Linked, Given
  <2>3. QED
    BY <2>1, <2>2
<1>11. Given(c)'
  <2>1. \A i \in DOMAIN h : h[i][1] = h[i][2]
    BY <1>3 DEF Linked, Given
  <2>2. ASSUME NEW i \in 1 .. Len(h) - 1 PROVE NoneSkipped(h[i][1], h[i + 1][1])
    <3>1. CASE i = Len(g)
      BY <1>3, <1>9, <3>1
    <3>2. CASE i # Len(g)
      <4>1. i \in 1 .. Len(g) - 1 /\ h[i] = g[i] /\ h[i + 1] = g[i + 1]
        BY <1>3, <3>2
      <4>2. QED
        BY <4>1 DEF Linked, Given
    <3>3. QED
      BY <3>1, <3>2
  <2>3. QED
    BY <1>10, <2>1, <2>2 DEF Given, NoneSkipped
<1>12. QED
  BY <1>6, <1>7, <1>11 DEF Linked

(* All rows in hand are given, or the thread was told to stop.              *)
LEMMA HandEmptied ==
  ASSUME UdpAssumption, TypeInv, NEW c \in Clients, Linked(c), SameData(c),
         offset'[c] = offset[c], callback[c] = "row", callback'[c] = "loop",
         exit'[c] = exit[c], rows[c].length = 0 \/ exit[c]
  PROVE  Linked(c)'
<1>1. /\ Wanted(c)' = Wanted(c) /\ Live(c) /\ (Live(c)' => ~exit[c])
      /\ Reached(c)' = Wanted(c) /\ Reached(c) = End(rows[c])
  BY DEF SameData, Wanted, LastGiven, Live, Reached
<1>2. rows[c] \in RowMessages /\ Wanted(c) \in Offsets /\ offset[c] \in Offsets
      /\ msgQueue[c] \in Seq(QueueMessages)
  BY Ranges
<1>3. HandLinks(c)' /\ QueueLinks(c)' /\ TailLinks(c)' /\ Given(c)'
  BY DEF Linked, HandLinks, QueueLinks, TailLinks, Given, SameData, NoneSkipped, Clear, End
<1>4. HeadLinks(c)'
  <2> SUFFICES ASSUME Live(c)', Wanted(c) # -1
               PROVE  IF msgQueue[c] = <<>> THEN Clear(Wanted(c), offset[c])
                      ELSE msgQueue[c][1] # Null => Clear(Wanted(c), msgQueue[c][1].first)
    BY <1>1 DEF HeadLinks, SameData, Clear
  <2>1. Reached(c) = rows[c].first /\ rows[c].first \in Nat
    BY <1>1, <1>2 DEF End, RowMessages
  <2>2. Clear(Wanted(c), rows[c].first)
    BY <1>1 DEF Linked, HandLinks
  <2>3. ASSUME NEW b \in Int, Clear(rows[c].first, b) PROVE Clear(Wanted(c), b)
    BY <1>2, <2>1, <2>2, <2>3, ClearJoins DEF Offsets
  <2>4. CASE msgQueue[c] = <<>>
    BY <1>1, <1>2, <2>1, <2>3, <2>4 DEF Linked, HeadLinks, Offsets
  <2>5. CASE msgQueue[c] # <<>>
    <3>1. msgQueue[c][1] # Null => msgQueue[c][1].first \in Int
      BY <1>2, <2>5 DEF QueueMessages, RowMessages
    <3>2. QED
      BY <1>1, <2>1, <2>3, <2>5, <3>1 DEF Linked, HeadLinks
  <2>6. QED
    BY <2>4, <2>5
<1>5. QED
  BY <1>3, <1>4 DEF Linked

LEMMA TypeParts ==
  TypeInv <=> /\ CallTypes /\ ThreadTypes /\ DataTypes
              /\ LockHeld /\ CallShape /\ Fresh /\ HeldRows
  BY DEF TypeInv

LEMMA LinkNext == UdpAssumption /\ TypeInv /\ LinkInv /\ [UdpNext]_udpVars =>
  LinkInv'
<1> SUFFICES ASSUME UdpAssumption, TypeInv, LinkInv, [UdpNext]_udpVars PROVE
               LinkInv'
  OBVIOUS
<1>1. ASSUME UNCHANGED <<exit, offset, msgQueue, callback, rows, given,
             asked>>
     PROVE  LinkInv'
  BY <1>1 DEF LinkInv, Linked, HandLinks, HeadLinks, QueueLinks, TailLinks,
              Given, Live, Reached, Wanted, LastGiven, End, Clear, NoneSkipped
<1>2. ASSUME NEW c \in Clients, ReceiveEnds(c)
      PROVE  UNCHANGED <<exit, offset, msgQueue, callback, rows, given,
             asked>>
  BY <1>2 DEF ReceiveEnds, callVars
<1>3. ASSUME NEW t \in UdpThreads, Unsubscribe(t) \/ UnsubscribeLocks(t) \/
             UnsubscribeThrows(t) \/ UnsubscribeReturns(t)
      PROVE  UNCHANGED <<exit, offset, msgQueue, callback, rows, given,
             asked>>
  BY <1>3 DEF Unsubscribe, Enter, clientVars, UnsubscribeLocks,
              UnsubscribeThrows, UnsubscribeReturns
<1>4. ASSUME Subscribe \/ SubscribeCleaned \/ SubscribeFails \/
             SubscribeInserts \/ Destroy \/ Destroyed
      PROVE  UNCHANGED <<exit, offset, msgQueue, callback, rows, given,
             asked>>
  BY <1>4 DEF Subscribe, Enter, clientVars, SubscribeCleaned, SubscribeFails,
              SubscribeInserts, Destroy, Destroyed
<1>5. ASSUME NEW c \in Clients, NEW i \in DOMAIN Stream, ParseMessage(c,
             Stream[i]) PROVE LinkInv'
  <2>1. \A d \in Clients : d # c => Same(d)
    BY <1>5, TypeParts DEF ParseMessage, ThreadTypes, DataTypes, Same, SameData, SameThread
  <2>2. SameData(c) /\ SameThread(c) /\ offset'[c] = OffsetAfter(Stream[i])
    BY <1>5, TypeParts DEF ParseMessage, ThreadTypes, DataTypes, Same, SameData, SameThread
  <2>3. offset[c] = -1 \/ offset[c] = Stream[i].offset
    BY <1>5 DEF ParseMessage, Expects
  <2>4. offset'[c] \in Nat /\ (offset[c] = -1 \/ Clear(offset[c], offset'[c]))
    BY <2>2, <2>3, DatagramClear
  <2>5. Linked(c)'
    BY <2>2, <2>4, OffsetMoves DEF LinkInv
  <2>6. QED
    BY <2>1, <2>5, OthersLinked
<1>6. ASSUME NEW c \in Clients, PushMessage(c) PROVE LinkInv'
  <2>1. \A d \in Clients : d # c => Same(d)
    BY <1>6, TypeParts DEF PushMessage, ThreadTypes, DataTypes, Same, SameData, SameThread
  <2>2. got[c] \in RowMessages /\ got[c].first = offset[c] /\ offset[c] \in Nat
    BY <1>6, TypeParts DEF PushMessage, HeldRows, RowMessages
  <2>3. /\ SameThread(c) /\ rows'[c] = rows[c] /\ given'[c] = given[c] /\ asked'[c] = asked[c]
        /\ msgQueue'[c] = Append(msgQueue[c], got[c])
        /\ offset'[c] = offset[c] + got[c].length
    BY <1>6, TypeParts DEF PushMessage, ThreadTypes, DataTypes, Same, SameData, SameThread
  <2>4. offset'[c] = End(got[c])
    BY <2>2, <2>3 DEF End
  <2>5. Linked(c)'
    BY <2>2, <2>3, <2>4, QueueGrows DEF LinkInv, QueueMessages
  <2>6. QED
    BY <2>1, <2>5, OthersLinked
<1>7. ASSUME NEW c \in Clients, CallbackLoop(c) PROVE LinkInv'
  <2>1. \A d \in Clients : d # c => Same(d)
    BY <1>7, TypeParts DEF CallbackLoop, CallbackGoes, ThreadTypes, DataTypes, Same, SameData, SameThread
  <2>2. SameData(c) /\ offset'[c] = offset[c] /\ exit'[c] = exit[c] /\ callback[c] = "loop"
        /\ callback'[c] = IF exit[c] THEN "done" ELSE "pop"
    BY <1>7, TypeParts DEF CallbackLoop, CallbackGoes, ThreadTypes, DataTypes, Same, SameData, SameThread
  <2>3. Wanted(c)' = Wanted(c) /\ (Live(c)' => Live(c) /\ Reached(c)' = Reached(c))
    BY <2>2 DEF SameData, Wanted, LastGiven, Live, Reached
  <2>4. /\ msgQueue'[c] = msgQueue[c] /\ rows'[c] = rows[c] /\ given'[c] = given[c]
        /\ asked'[c] = asked[c] /\ callback'[c] # "row"
    BY <2>2 DEF SameData
  <2>5. HandLinks(c) /\ HeadLinks(c) /\ QueueLinks(c) /\ TailLinks(c) /\ Given(c)
    BY DEF LinkInv, Linked
  <2>6. HandLinks(c)'
    BY <2>4 DEF HandLinks
  <2>7. HeadLinks(c)'
    BY <2>2, <2>3, <2>4, <2>5 DEF HeadLinks, Clear
  <2>8. QueueLinks(c)'
    BY <2>4, <2>5 DEF QueueLinks, Clear, End
  <2>9. TailLinks(c)'
    BY <2>2, <2>4, <2>5 DEF TailLinks, Clear, End
  <2>10. Given(c)'
    BY <2>4, <2>5 DEF Given, NoneSkipped
  <2>11. QED
    BY <2>1, <2>6, <2>7, <2>8, <2>9, <2>10, OthersLinked DEF Linked
<1>8. ASSUME NEW c \in Clients, PopMessage(c) PROVE LinkInv'
  <2>1. \A d \in Clients : d # c => Same(d)
    BY <1>8, TypeParts DEF PopMessage, CallbackGoes, ThreadTypes, DataTypes, Same, SameData, SameThread
  <2>2. /\ callback[c] = "pop" /\ msgQueue[c] # <<>> /\ msgQueue'[c] = Tail(msgQueue[c])
        /\ given'[c] = given[c] /\ asked'[c] = asked[c] /\ offset'[c] = offset[c]
        /\ IF Head(msgQueue[c]) = Null
           THEN callback'[c] = "done"
           ELSE callback'[c] = "row" /\ rows'[c] = Head(msgQueue[c])
    BY <1>8, TypeParts DEF PopMessage, CallbackGoes, ThreadTypes, DataTypes
  <2>3. Linked(c)'
    BY <2>2, QueueShrinks DEF LinkInv
  <2>4. QED
    BY <2>1, <2>3, OthersLinked
<1>9. ASSUME NEW c \in Clients, GiveRow(c) PROVE LinkInv'
  <2>1. \A d \in Clients : d # c => Same(d)
    BY <1>9, TypeParts DEF GiveRow, CallbackGoes, ThreadTypes, DataTypes, Same, SameData, SameThread
  <2>2. CASE rows[c].length = 0 \/ exit[c]
    <3>1. /\ SameData(c) /\ offset'[c] = offset[c] /\ exit'[c] = exit[c]
          /\ callback[c] = "row" /\ callback'[c] = "loop"
      BY <1>9, <2>2, TypeParts DEF GiveRow, CallbackGoes, ThreadTypes, DataTypes, Same, SameData, SameThread
    <3>2. QED
      BY <2>1, <2>2, <3>1, HandEmptied, OthersLinked DEF LinkInv
  <2>3. CASE ~(rows[c].length = 0 \/ exit[c])
    <3>1. /\ callback[c] = "row" /\ callback'[c] = "row" /\ msgQueue'[c] = msgQueue[c]
          /\ asked'[c] = asked[c] /\ offset'[c] = offset[c]
          /\ given'[c] = Append(given[c], <<rows[c].first, rows[c].offset>>)
          /\ rows'[c] = [offset |-> rows[c].offset + 1, first |-> rows[c].first + 1,
                         length |-> rows[c].length - 1]
      BY <1>9, <2>3, TypeParts DEF GiveRow, DataTypes
    <3>2. QED
      BY <2>1, <3>1, RowGiven, OthersLinked DEF LinkInv
  <2>4. QED
    BY <2>2, <2>3
<1>10. ASSUME NEW t \in UdpThreads, NEW c \in Clients, Join(t, c) PROVE
              LinkInv'
  <2>1. \A d \in Clients : d # c => Same(d)
    BY <1>10, TypeParts DEF Join, Free, ThreadTypes, DataTypes, Same, SameData, SameThread
  <2>2. callback'[c] = "done" /\ msgQueue'[c] = <<>> /\ given'[c] = <<>>
    BY <1>10, TypeParts DEF Join, Free, DataTypes
  <2>3. Linked(c)'
    BY <2>2 DEF Linked, HandLinks, HeadLinks, QueueLinks, TailLinks, Given, Live
  <2>4. QED
    BY <2>1, <2>3, OthersLinked
<1>11. ASSUME SubscribeCreates PROVE LinkInv'
  <2>1. created' \in Clients /\ created' = created + 1 /\ created \in Nat
    BY <1>11, TypeParts DEF SubscribeCreates, CallTypes, CallShape, Clients, UdpAssumption
  <2>2. \A d \in Clients : d # created' => Same(d)
    BY <1>11, TypeParts DEF SubscribeCreates, ThreadTypes, DataTypes, Same, SameData, SameThread
  <2>3. IsFresh(created')
    BY <2>1, TypeParts DEF Fresh
  <2>4. /\ callback'[created'] = "loop" /\ msgQueue'[created'] = <<>> /\ given'[created'] = <<>>
        /\ offset'[created'] = asked'[created'] /\ offset'[created'] \in Int
    BY <1>11, <2>1, <2>3, TypeParts DEF SubscribeCreates, ThreadTypes, DataTypes, IsFresh, UdpAssumption
  <2> DEFINE c == created'
  <2>5. Clear(offset'[c], offset'[c])
    BY <2>4, ClearSelf
  <2>6. ASSUME NEW d \in Clients, callback'[d] = "loop", msgQueue'[d] = <<>>, given'[d] = <<>>,
               offset'[d] = asked'[d], Clear(offset'[d], offset'[d])
        PROVE  Linked(d)'
    BY <2>6 DEF Linked, HandLinks, HeadLinks, QueueLinks, TailLinks, Given, Wanted, Reached, Clear
  <2>7. \A d \in Clients : Linked(d)'
    BY <2>2, <2>4, <2>5, <2>6, SameLinks DEF LinkInv
  <2>8. QED
    BY <2>7 DEF LinkInv
<1>12. ASSUME NEW t \in UdpThreads, Stop(t) PROVE LinkInv'
  <2>1. \A d \in Clients : Same(d)
    BY <1>12, TypeParts DEF Stop, StopClient, ThreadTypes, DataTypes, Same, SameData, SameThread
  <2>2. QED
    BY <2>1, SameLinks DEF LinkInv
<1>13. ASSUME NEW t \in UdpThreads, PushNull(t) PROVE LinkInv'
  <2>1. client \in Clients
    BY <1>13, TypeParts DEF PushNull, CallTypes, CallShape, NoClient, Clients, UdpAssumption
  <2>2. PICK c \in Clients : c = client
    BY <2>1
  <2>3. \A d \in Clients : d # c => Same(d)
    BY <1>13, <2>2, TypeParts DEF PushNull, ThreadTypes, DataTypes, Same, SameData, SameThread
  <2>4. /\ SameThread(c) /\ rows'[c] = rows[c] /\ given'[c] = given[c]
        /\ asked'[c] = asked[c] /\ msgQueue'[c] = Append(msgQueue[c], Null)
    BY <1>13, <2>2, TypeParts DEF PushNull, ThreadTypes, DataTypes, Same, SameData, SameThread
  <2>5. Linked(c)'
    BY <2>4, QueueGrows DEF LinkInv, QueueMessages
  <2>6. QED
    BY <2>3, <2>5, OthersLinked
<1>14. ASSUME DestroyStops PROVE LinkInv'
  <2>1. \A d \in Clients : Same(d)
    BY <1>14, TypeParts DEF DestroyStops, StopClient, ThreadTypes, DataTypes, Same, SameData, SameThread
  <2>2. QED
    BY <2>1, SameLinks DEF LinkInv
<1>15. CASE UNCHANGED udpVars
  BY <1>1, <1>15 DEF udpVars, clientVars, callVars
<1>16. QED
  BY <1>1, <1>2, <1>3, <1>4, <1>5, <1>6, <1>7, <1>8, <1>9, <1>10, <1>11,
     <1>12, <1>13, <1>14, <1>15 DEF UdpNext, ReceiveStep, CallbackStep, AppStep,
     CallStep

LEMMA LinkInit == UdpInit => LinkInv
<1> SUFFICES ASSUME UdpInit, NEW c \in Clients PROVE Linked(c)
  BY DEF LinkInv
<1>1. callback[c] = "none" /\ msgQueue[c] = <<>> /\ given[c] = <<>>
  BY DEF UdpInit
<1>2. QED
  BY <1>1 DEF Linked, HandLinks, HeadLinks, QueueLinks, TailLinks, Given, Live

(* Whatever datagrams are lost, repeated or out of order and whenever       *)
(* clients are stopped, the handler gets the rows of the table in order and *)
(* none is skipped: the expected offset follows what was queued, the queue  *)
(* what is in hand, and that what was given.                                *)
THEOREM RowsCorrect == UdpAssumption /\ UdpSpec => []RowsAsPublished
<1> SUFFICES ASSUME UdpAssumption PROVE UdpSpec => []RowsAsPublished
  OBVIOUS
<1>1. UdpInit => TypeInv /\ LinkInv
  BY TypeInit, LinkInit
<1>2. TypeInv /\ LinkInv /\ [UdpNext]_udpVars => TypeInv' /\ LinkInv'
  BY TypeNext, LinkNext
<1>3. LinkInv => RowsAsPublished
  BY DEF LinkInv, Linked, Given, RowsAsPublished
<1>4. QED
  BY <1>1, <1>2, <1>3, PTL DEF UdpSpec

-----------------------------------------------------------------------------
(* MessageDelivery: the objects, and who refers to them. *)

Refs == {0} \cup TopicCount + 1 .. MaxObjects
SharedMessages == [object : Refs, size : Nat, offset : Int, known : BOOLEAN]
KeptMessages == [object : Objects, rows : Seq(Nat)]
HandedRows == [row : Int, offset : Int]

ObjectTypes ==
  /\ form \in [Topics -> Forms]
  /\ objects \in [Objects -> Seq(Nat)]
  /\ used \in TopicCount .. MaxObjects
ParserTypes ==
  /\ received \in 0 .. Len(Published)
  /\ parsing \in {"idle", "message", "ended"}
  /\ topic \in 0 .. TopicCount
  /\ due \in Seq(SharedMessages)
  /\ columns \in Refs /\ pushed \in Refs
  /\ cache \in Seq(Refs) /\ parsed \in Seq(Refs)
  /\ tuples \in Seq(Refs)
HandlerTypes ==
  /\ queues \in [Topics -> Seq(SharedMessages)]
  /\ msg \in [Topics -> SharedMessages]
  /\ stage \in [Topics -> {"none", "popped", "merged", "handled"}]
  /\ kept \in [Topics -> SUBSET KeptMessages]
  /\ handed \in [Topics -> Seq(HandedRows)]
DeliveryTypes == ObjectTypes /\ ParserTypes /\ HandlerTypes

(* Where the parsing thread is, and what it has then. *)
ParserShape ==
  /\ parsing = "idle" => topic = 0 /\ cache = <<>> /\ parsed = <<>>
  /\ parsing # "idle" => received # 0 /\ columns # 0
  /\ due # <<>> \/ pushed # 0 => parsing = "message" /\ topic # 0
  /\ parsing = "ended" => topic # 0
  /\ cache # <<>> => Len(cache) = RowCount
  /\ parsed # <<>> => Len(parsed) = RowCount

Within(o, s) == \E i \in DOMAIN s : s[i].object = o
Has(s, o) == \E i \in DOMAIN s : s[i] = o

(* A subscription refers to an object; it is one of a deserializer. *)
Holds(t, o) == msg[t].object = o \/ Within(o, queues[t])
Refers(t, o) == Holds(t, o) \/ \E m \in kept[t] : m.object = o
Referred(o) == \E t \in Topics : Refers(t, o)
ByBlob(o) == \E t \in Topics : form[t] = "blob" /\ Holds(t, o)

(* An object that is not made yet is nowhere; ... *)
NotMade(o) ==
  o > used =>
    ~Referred(o) /\ ~Within(o, due) /\ ~Has(cache, o) /\ ~Has(parsed, o) /\ ~Has(tuples, o)
    /\ o # columns /\ o # pushed
(* ... what the deserializer has to use again is with nobody, ... *)
TupleFree(o) ==
  Has(tuples, o) =>
    ~Referred(o) /\ ~Within(o, due) /\ ~Has(cache, o) /\ ~Has(parsed, o)
    /\ o # columns /\ o # pushed
(* ... nor is a row it has made, before it is pushed; ... *)
RowFree(o) ==
  Has(parsed, o) =>
    ~Referred(o) /\ ~Has(cache, o) /\ o # columns /\ o # pushed
    /\ (parsing = "message" => form[topic] = "blob" /\ Within(o, due))
(* ... the others belong to the message, ... *)
DueFrom(o) ==
  Within(o, due) =>
    /\ form[topic] = "blob" => Has(parsed, o)
    /\ form[topic] = "tuple" => Has(cache, o)
    /\ form[topic] \notin {"blob", "tuple"} => o = columns
(* ... which has none of the deserializer's. *)
RowsApart(o) == ByBlob(o) \/ o = pushed => ~Has(cache, o) /\ o # columns
Apart(o) == NotMade(o) /\ TupleFree(o) /\ RowFree(o) /\ DueFrom(o) /\ RowsApart(o)
ObjectsApart == \A o \in Objects \ {0} : Apart(o)

NoneTwice(s) == \A i, j \in DOMAIN s : s[i] = s[j] /\ s[i] # 0 => i = j
OnceEach ==
  /\ NoneTwice(tuples) /\ NoneTwice(parsed)
  /\ \A i, j \in DOMAIN due :
       form[topic] = "blob" /\ due[i].object = due[j].object /\ due[i].object # 0 => i = j

(* A message has as many rows as it says. *)
Sound(t, m) ==
  /\ m.size # 0
  /\ m.object = 0 => form[t] = "blob"
  /\ m.object # 0 => m.size <= Len(objects[m.object])
DueSound == \A i \in DOMAIN due : Sound(topic, due[i])
SourceSound ==
  /\ parsing # "idle" => RowCount <= Len(objects[columns])
  /\ \A i \in DOMAIN cache : cache[i] # 0 /\ Len(objects[cache[i]]) # 0
QueueSound(t) ==
  /\ \A i \in DOMAIN queues[t] : Sound(t, queues[t][i])
  /\ IF stage[t] = "none" THEN msg[t] = None ELSE Sound(t, msg[t])
QueuesSound == \A t \in Topics : QueueSound(t)

Stays(m) ==
  /\ m.object > TopicCount
  /\ Len(m.rows) <= Len(objects[m.object])
  /\ \A i \in 1 .. Len(m.rows) : m.rows[i] = objects[m.object][i]
KeptStay == \A t \in Topics : form[t] # "rows" => \A m \in kept[t] : Stays(m)

ObjectsInv ==
  /\ DeliveryTypes /\ ParserShape /\ ObjectsApart /\ OnceEach
  /\ DueSound /\ SourceSound /\ QueuesSound /\ KeptStay

LEMMA ConstantFacts ==
  /\ TopicCount \in Nat \ {0} /\ MaxObjects \in Nat /\ TopicCount <= MaxObjects
  /\ Topics \subseteq Objects /\ Topics \cap Refs = {}
  /\ Refs \subseteq Objects /\ Objects \subseteq Nat /\ Topics \subseteq Nat
  /\ \A t \in Topics : t # 0 /\ t <= TopicCount
  /\ \A o \in Refs : o = 0 \/ o > TopicCount
<1> QED
  BY DeliveryAssumption DEF Topics, Objects, Refs

LEMMA ElementOf ==
  ASSUME NEW S, NEW s \in Seq(S), NEW k \in 1 .. Len(s)
  PROVE  s[k] \in S
OBVIOUS

LEMMA MessageTyped ==
  ASSUME NEW o \in Refs, NEW n \in Nat, NEW f \in Int, NEW k \in BOOLEAN
  PROVE  [object |-> o, size |-> n, offset |-> f, known |-> k] \in SharedMessages
BY DEF SharedMessages

LEMMA PublishedFacts ==
  ASSUME NEW k \in 1 .. Len(Published)
  PROVE  /\ Published[k].rows \in Nat \ {0} /\ Published[k].offset \in Nat
         /\ Published[k].known \in BOOLEAN
         /\ RowsOf(k) \in Seq(Nat) /\ Len(RowsOf(k)) = Published[k].rows
         /\ \A i \in 1 .. Published[k].rows : RowsOf(k)[i] = Published[k].offset + i - 1
<1>1. Published[k] \in [offset : Nat, rows : Nat \ {0}, known : BOOLEAN]
  <2>1. Published \in Seq([offset : Nat, rows : Nat \ {0}, known : BOOLEAN])
    BY DeliveryAssumption
  <2> QED
    BY <2>1, ElementOf
<1>2. /\ Published[k].rows \in Nat \ {0} /\ Published[k].offset \in Nat
      /\ Published[k].known \in BOOLEAN
  BY <1>1
<1> DEFINE n == Published[k].rows
           f == Published[k].offset
<1>3. n \in Nat \ {0} /\ f \in Nat
  BY <1>2
<1>4. RowsOf(k) = [i \in 1 .. n |-> f + i - 1]
  BY DEF RowsOf
<1> HIDE DEF n, f
<1>5. \A i \in 1 .. n : f + i - 1 \in Nat
  BY <1>3
<1>6. RowsOf(k) \in [1 .. n -> Nat]
  BY <1>4, <1>5
<1>7. RowsOf(k) \in Seq(Nat) /\ Len(RowsOf(k)) = n
  BY <1>3, <1>6
<1>8. \A i \in 1 .. n : RowsOf(k)[i] = f + i - 1
  BY <1>4
<1> QED
  BY <1>2, <1>7, <1>8 DEF n, f

LEMMA MessageFacts ==
  ASSUME DeliveryTypes, ParserShape, parsing # "idle"
  PROVE  /\ received \in 1 .. Len(Published)
         /\ RowCount \in Nat \ {0} /\ StartOffset \in Nat /\ Published[received].known \in BOOLEAN
<1>1. received \in 1 .. Len(Published)
  <2>1. received \in 0 .. Len(Published) /\ received # 0
    BY DEF DeliveryTypes, ParserTypes, ParserShape
  <2>2. Len(Published) \in Nat
    BY DeliveryAssumption
  <2> QED
    BY <2>1, <2>2
<1> QED
  BY <1>1, PublishedFacts DEF RowCount, StartOffset

LEMMA WithinTail ==
  ASSUME NEW S, NEW s \in Seq(S), s # <<>>, NEW o
  PROVE  /\ Within(o, s) <=> Head(s).object = o \/ Within(o, Tail(s))
         /\ Within(o, Tail(s)) => Within(o, s)
<1>1. /\ Len(s) \in Nat \ {0} /\ Head(s) = s[1] /\ Len(Tail(s)) = Len(s) - 1
      /\ \A i \in 1 .. Len(Tail(s)) : Tail(s)[i] = s[i + 1]
  BY TailFacts
<1>2. DOMAIN s = 1 .. Len(s) /\ DOMAIN Tail(s) = 1 .. Len(s) - 1
  <2>1. Tail(s) \in Seq(S)
    BY TailFacts
  <2> QED
    BY <2>1, <1>1
<1>3. \A i \in DOMAIN s : i = 1 \/ (i - 1 \in DOMAIN Tail(s) /\ Tail(s)[i - 1] = s[i])
  BY <1>1, <1>2
<1>4. \A i \in DOMAIN Tail(s) : i + 1 \in DOMAIN s /\ Tail(s)[i] = s[i + 1]
  BY <1>1, <1>2
<1>5. 1 \in DOMAIN s
  BY <1>1, <1>2
<1>6. ASSUME Within(o, s) PROVE s[1].object = o \/ Within(o, Tail(s))
  BY <1>3, <1>6 DEF Within
<1>7. ASSUME Within(o, Tail(s)) PROVE Within(o, s)
  BY <1>4, <1>7 DEF Within
<1>8. ASSUME s[1].object = o PROVE Within(o, s)
  BY <1>5, <1>8 DEF Within
<1> QED
  BY <1>1, <1>6, <1>7, <1>8

LEMMA WithinAppend ==
  ASSUME NEW S, NEW s \in Seq(S), NEW m \in S, NEW o
  PROVE  Within(o, Append(s, m)) <=> Within(o, s) \/ m.object = o
<1>1. /\ Len(s) \in Nat /\ DOMAIN s = 1 .. Len(s) /\ DOMAIN Append(s, m) = 1 .. Len(s) + 1
      /\ Append(s, m)[Len(s) + 1] = m /\ \A i \in 1 .. Len(s) : Append(s, m)[i] = s[i]
  OBVIOUS
<1> QED
  BY <1>1 DEF Within

LEMMA HasAppend ==
  ASSUME NEW S, NEW s \in Seq(S), NEW m \in S, NEW o
  PROVE  Has(Append(s, m), o) <=> Has(s, o) \/ m = o
<1>1. /\ Len(s) \in Nat /\ DOMAIN s = 1 .. Len(s) /\ DOMAIN Append(s, m) = 1 .. Len(s) + 1
      /\ Append(s, m)[Len(s) + 1] = m /\ \A i \in 1 .. Len(s) : Append(s, m)[i] = s[i]
  OBVIOUS
<1> QED
  BY <1>1 DEF Has

LEMMA NothingIn ==
  \A o : ~Within(o, <<>>) /\ ~Has(<<>>, o)
BY DEF Within, Has

(* Rows made into messages. *)
LEMMA RowsAsMessages ==
  ASSUME DeliveryTypes, ParserShape, parsing # "idle",
         NEW s \in Seq(Refs), Len(s) = RowCount,
         NEW d, d = [i \in 1 .. RowCount |-> RowMessage(s[i], i)]
  PROVE  /\ d \in Seq(SharedMessages) /\ Len(d) = RowCount /\ DOMAIN d = DOMAIN s
         /\ \A i \in DOMAIN d : /\ d[i] = RowMessage(s[i], i) /\ d[i].object = s[i]
                                /\ d[i].size = 1 /\ d[i].offset = StartOffset + i - 1
         /\ \A o : Within(o, d) <=> Has(s, o)
<1>1. PICK n \in Nat \ {0} : n = RowCount
  BY MessageFacts
<1>2. PICK f \in Nat : f = StartOffset
  BY MessageFacts
<1>3. DOMAIN s = 1 .. n /\ \A i \in 1 .. n : s[i] \in Refs
  BY <1>1
<1>4. \A i \in 1 .. n : d[i] = [object |-> s[i], size |-> 1, offset |-> f + i - 1, known |-> TRUE]
  BY <1>1, <1>2 DEF RowMessage
<1>5. \A i \in 1 .. n : d[i] \in SharedMessages
  <2> SUFFICES ASSUME NEW i \in 1 .. n PROVE d[i] \in SharedMessages
    OBVIOUS
  <2>1. PICK k \in Int : k = f + i - 1
    OBVIOUS
  <2>2. PICK e \in Refs : e = s[i]
    BY <1>3
  <2>3. d[i] = [object |-> e, size |-> 1, offset |-> k, known |-> TRUE]
    BY <1>4, <2>1, <2>2
  <2> QED
    BY <2>3, MessageTyped
<1>6. d \in [1 .. n -> SharedMessages]
  BY <1>1, <1>5
<1>7. d \in Seq(SharedMessages) /\ Len(d) = n /\ DOMAIN d = 1 .. n
  BY <1>1, <1>6
<1>8. \A i \in DOMAIN d : /\ d[i] = RowMessage(s[i], i) /\ d[i].object = s[i]
                          /\ d[i].size = 1 /\ d[i].offset = f + i - 1
  BY <1>1, <1>4, <1>7
<1>9. \A o : Within(o, d) <=> Has(s, o)
  <2>1. DOMAIN d = DOMAIN s /\ \A i \in DOMAIN d : d[i].object = s[i]
    BY <1>3, <1>7, <1>8
  <2> QED
    BY <2>1 DEF Within, Has
<1> QED
  BY <1>1, <1>2, <1>3, <1>7, <1>8, <1>9

(* The objects that are filled, and those that are not. *)
LEMMA FilledFacts ==
  ASSUME DeliveryTypes, ParserShape, parsing # "idle",
         NEW s \in Seq(Refs), Len(s) = RowCount
  PROVE  /\ Filled(s) \in [Objects -> Seq(Nat)]
         /\ \A o \in Objects : ~Has(s, o) => Filled(s)[o] = objects[o]
         /\ \A o \in Objects : Has(s, o) =>
              \E i \in DOMAIN s : s[i] = o /\ Filled(s)[o] = <<StartOffset + i - 1>>
<1>1. PICK n \in Nat \ {0} : n = RowCount
  BY MessageFacts
<1>2. PICK f \in Nat : f = StartOffset
  BY MessageFacts
<1>3. DOMAIN s = 1 .. n
  BY <1>1
<1>4. ASSUME NEW o \in Objects, Has(s, o)
      PROVE  /\ Filled(s)[o] \in Seq(Nat)
             /\ \E i \in DOMAIN s : s[i] = o /\ Filled(s)[o] = <<StartOffset + i - 1>>
  <2> DEFINE i == CHOOSE j \in DOMAIN s : s[j] = o
  <2>1. i \in DOMAIN s /\ s[i] = o
    BY <1>4 DEF Has
  <2>2. Filled(s)[o] = <<f + i - 1>>
    BY <1>2, <1>4 DEF Filled, Has
  <2> HIDE DEF i
  <2>3. f + i - 1 \in Nat
    BY <1>3, <2>1
  <2> QED
    BY <1>2, <2>1, <2>2, <2>3
<1>5. \A o \in Objects : ~Has(s, o) => Filled(s)[o] = objects[o]
  BY DEF Filled, Has
<1>6. \A o \in Objects : Filled(s)[o] \in Seq(Nat)
  BY <1>4, <1>5 DEF DeliveryTypes, ObjectTypes
<1>7. Filled(s) \in [Objects -> Seq(Nat)]
  <2>1. Filled(s) = [o \in Objects |-> Filled(s)[o]]
    BY DEF Filled
  <2> QED
    BY <2>1, <1>6
<1> QED
  BY <1>4, <1>5, <1>7

-----------------------------------------------------------------------------
(* The types are kept. *)

LEMMA InitTypes == DeliveryInit => DeliveryTypes
<1> SUFFICES ASSUME DeliveryInit PROVE DeliveryTypes
  OBVIOUS
<1>1. TopicCount \in Nat \ {0} /\ MaxObjects \in Nat /\ TopicCount <= MaxObjects
  BY ConstantFacts
<1>2. ObjectTypes
  BY <1>1 DEF DeliveryInit, ObjectTypes
<1>3. ParserTypes
  <2>1. Len(Published) \in Nat
    BY DeliveryAssumption
  <2> QED
    BY <1>1, <2>1 DEF DeliveryInit, ParserTypes, Refs
<1>4. None \in SharedMessages
  <2>1. 0 \in Refs /\ 0 \in Nat /\ -1 \in Int /\ TRUE \in BOOLEAN
    BY DEF Refs
  <2> QED
    BY <2>1, MessageTyped DEF None
<1>5. HandlerTypes
  BY <1>4 DEF DeliveryInit, HandlerTypes
<1> QED
  BY <1>2, <1>3, <1>5 DEF DeliveryTypes

(* An object that can still be made. *)
LEMMA NewObject ==
  ASSUME DeliveryTypes, NEW n \in Nat, Room(n), NEW i \in 1 .. n
  PROVE  used + i \in Refs /\ used + i \in Objects /\ used + n \in TopicCount .. MaxObjects
<1>1. used \in TopicCount .. MaxObjects
  BY DEF DeliveryTypes, ObjectTypes
<1> QED
  BY <1>1, ConstantFacts DEF Room, Refs, Objects

LEMMA ReceiveTypes ==
  ASSUME DeliveryTypes, Receive
  PROVE  DeliveryTypes'
<1>1. used + 1 \in Refs /\ used + 1 \in Objects /\ used + 1 \in TopicCount .. MaxObjects
  BY NewObject DEF Receive
<1>2. received + 1 \in 1 .. Len(Published)
  <2>1. received \in 0 .. Len(Published) /\ received < Len(Published)
    BY DEF DeliveryTypes, ParserTypes, Receive
  <2>2. Len(Published) \in Nat
    BY DeliveryAssumption
  <2> QED
    BY <2>1, <2>2
<1>3. RowsOf(received + 1) \in Seq(Nat)
  BY <1>2, PublishedFacts
<1>4. objects' = [objects EXCEPT ![used + 1] = RowsOf(received + 1)]
  BY DEF Receive
<1>5. ObjectTypes'
  BY <1>1, <1>3, <1>4 DEF DeliveryTypes, ObjectTypes, Receive
<1>6. ParserTypes'
  BY <1>1, <1>2, ConstantFacts DEF DeliveryTypes, ParserTypes, Receive
<1>7. HandlerTypes'
  BY DEF DeliveryTypes, HandlerTypes, Receive, handlerVars
<1> QED
  BY <1>5, <1>6, <1>7 DEF DeliveryTypes

LEMMA WholeTyped ==
  ASSUME DeliveryTypes, ParserShape, parsing # "idle"
  PROVE  Whole \in SharedMessages
<1>1. RowCount \in Nat /\ StartOffset \in Int /\ Published[received].known \in BOOLEAN
  BY MessageFacts
<1>2. columns \in Refs
  BY DEF DeliveryTypes, ParserTypes
<1> QED
  BY <1>1, <1>2, MessageTyped DEF Whole

LEMMA NextTopicFacts ==
  ASSUME DeliveryTypes, NextTopic
  PROVE  /\ parsing # "idle" /\ parsing = "message" /\ due = <<>> /\ pushed = 0
         /\ topic + 1 \in Topics /\ topic + 1 \in 0 .. TopicCount
<1>1. topic \in 0 .. TopicCount
  BY DEF DeliveryTypes, ParserTypes
<1> QED
  BY <1>1, ConstantFacts DEF NextTopic, Topics

LEMMA WholeTypes ==
  ASSUME DeliveryTypes, ParserShape, TurnOfWhole
  PROVE  DeliveryTypes'
<1>1. NextTopic
  BY DEF TurnOfWhole
<1>2. Whole \in SharedMessages
  BY <1>1, NextTopicFacts, WholeTyped
<1>3. ObjectTypes'
  BY DEF DeliveryTypes, ObjectTypes, TurnOfWhole
<1>4. <<Whole>> \in Seq(SharedMessages)
  BY <1>2
<1>5. ParserTypes'
  BY <1>1, <1>4, NextTopicFacts DEF DeliveryTypes, ParserTypes, TurnOfWhole
<1>6. HandlerTypes'
  BY DEF DeliveryTypes, HandlerTypes, TurnOfWhole, handlerVars
<1> QED
  BY <1>3, <1>5, <1>6 DEF DeliveryTypes

(* What a subscription that wants rows gets. *)
LEMMA TupleFacts ==
  ASSUME DeliveryTypes, ParserShape, TurnOfTuple
  PROVE  /\ cache' \in Seq(Refs) /\ Len(cache') = RowCount
         /\ used' \in TopicCount .. MaxObjects /\ used <= used'
         /\ cache # <<>> => UNCHANGED <<cache, used, objects>>
         /\ cache = <<>> =>
              /\ objects' = Filled(cache')
              /\ \A o : Has(cache', o) => o \in Objects /\ o > used /\ o <= used'
              /\ \A i \in DOMAIN cache' : cache'[i] = used + i
<1>1. NextTopic /\ parsing # "idle"
  BY NextTopicFacts DEF TurnOfTuple
<1>2. PICK n \in Nat \ {0} : n = RowCount
  BY <1>1, MessageFacts
<1>3. used \in TopicCount .. MaxObjects /\ cache \in Seq(Refs)
  BY DEF DeliveryTypes, ObjectTypes, ParserTypes
<1>4. CASE cache # <<>>
  <2>1. UNCHANGED <<cache, used, objects>>
    BY <1>4 DEF TurnOfTuple
  <2>2. Len(cache) = RowCount
    BY <1>4 DEF ParserShape
  <2> QED
    BY <1>3, <1>4, <2>1, <2>2, ConstantFacts
<1>5. CASE cache = <<>>
  <2>1. Room(n) /\ used' = used + n /\ objects' = Filled(cache')
    BY <1>2, <1>5 DEF TurnOfTuple
  <2>2. cache' = [i \in 1 .. n |-> used + i]
    BY <1>2, <1>5 DEF TurnOfTuple
  <2>3. \A i \in 1 .. n : used + i \in Refs /\ used + i \in Objects
    BY <2>1, NewObject
  <2>4. cache' \in [1 .. n -> Refs]
    BY <2>2, <2>3
  <2>5. cache' \in Seq(Refs) /\ Len(cache') = n /\ DOMAIN cache' = 1 .. n
    BY <2>4
  <2>6. \A i \in DOMAIN cache' : cache'[i] = used + i
    BY <2>2, <2>5
  <2>7. used' \in TopicCount .. MaxObjects /\ used <= used'
    BY <1>3, <2>1, ConstantFacts DEF Room
  <2>8. \A o : Has(cache', o) => o \in Objects /\ o > used /\ o <= used'
    BY <1>3, <2>1, <2>3, <2>5, <2>6, ConstantFacts DEF Has
  <2> QED
    BY <1>2, <1>5, <2>1, <2>5, <2>6, <2>7, <2>8
<1> QED
  BY <1>4, <1>5

LEMMA TupleTypes ==
  ASSUME DeliveryTypes, ParserShape, TurnOfTuple
  PROVE  DeliveryTypes'
<1>1. NextTopic /\ parsing # "idle" /\ topic + 1 \in 0 .. TopicCount
  BY NextTopicFacts DEF TurnOfTuple
<1>2. PICK s \in Seq(Refs) : s = cache' /\ Len(s) = RowCount
  BY TupleFacts
<1>3. due' \in Seq(SharedMessages)
  <2>1. due' = [i \in 1 .. RowCount |-> RowMessage(s[i], i)]
    BY <1>2 DEF TurnOfTuple
  <2> QED
    BY <1>1, <1>2, <2>1, RowsAsMessages
<1>4. objects' \in [Objects -> Seq(Nat)]
  <2>1. CASE cache = <<>>
    <3>1. Filled(s) \in [Objects -> Seq(Nat)]
      BY <1>1, <1>2, FilledFacts
    <3>2. objects' = Filled(cache')
      BY <2>1 DEF TurnOfTuple
    <3>3. Filled(cache') = Filled(s)
      BY <1>2
    <3> QED
      BY <3>1, <3>2, <3>3
  <2>2. CASE cache # <<>>
    BY <2>2, TupleFacts DEF DeliveryTypes, ObjectTypes
  <2> QED
    BY <2>1, <2>2
<1>5. ObjectTypes'
  BY <1>4, TupleFacts DEF DeliveryTypes, ObjectTypes, TurnOfTuple
<1>6. ParserTypes'
  BY <1>1, <1>2, <1>3 DEF DeliveryTypes, ParserTypes, TurnOfTuple
<1>7. HandlerTypes'
  BY DEF DeliveryTypes, HandlerTypes, TurnOfTuple, handlerVars
<1> QED
  BY <1>5, <1>6, <1>7 DEF DeliveryTypes

(* What the deserializer makes: tuples it takes, and new ones. *)
LEMMA NewTuplesFacts ==
  ASSUME DeliveryTypes, NEW n \in Nat \ {0}, Room(n - Taken(n))
  PROVE  /\ NewTuples(n) \in Seq(Refs) /\ Len(NewTuples(n)) = n /\ DOMAIN NewTuples(n) = 1 .. n
         /\ Taken(n) \in 0 .. n /\ Taken(n) <= Len(tuples)
         /\ \A i \in 1 .. Taken(n) : /\ Len(tuples) + 1 - i \in DOMAIN tuples
                                     /\ NewTuples(n)[i] = tuples[Len(tuples) + 1 - i]
         /\ \A i \in Taken(n) + 1 .. n : /\ NewTuples(n)[i] = used + i - Len(tuples)
                                         /\ Taken(n) = Len(tuples)
                                         /\ NewTuples(n)[i] \in Objects
                                         /\ NewTuples(n)[i] > used
                                         /\ NewTuples(n)[i] <= used + (n - Taken(n))
         /\ used + (n - Taken(n)) \in TopicCount .. MaxObjects /\ used <= used + (n - Taken(n))
         /\ WithoutLast(Taken(n)) \in Seq(Refs)
         /\ Len(WithoutLast(Taken(n))) = Len(tuples) - Taken(n)
         /\ \A i \in DOMAIN WithoutLast(Taken(n)) :
              i \in DOMAIN tuples /\ i <= Len(tuples) - Taken(n) /\ WithoutLast(Taken(n))[i] = tuples[i]
<1>1. used \in TopicCount .. MaxObjects /\ tuples \in Seq(Refs)
  BY DEF DeliveryTypes, ObjectTypes, ParserTypes
<1>2. PICK l \in Nat : l = Len(tuples)
  BY <1>1
<1>3. DOMAIN tuples = 1 .. l /\ \A i \in 1 .. l : tuples[i] \in Refs
  BY <1>1, <1>2
<1>4. PICK k : k = Taken(n)
  OBVIOUS
<1>5. k \in 0 .. n /\ k <= l /\ (k < n => k = l)
  BY <1>2, <1>4 DEF Taken
<1>6. \A i \in 1 .. n : i <= k <=> i <= l
  BY <1>5
<1>7. PICK u \in TopicCount .. MaxObjects : u = used
  BY <1>1
<1>8. u + (n - k) \in TopicCount .. MaxObjects /\ u <= u + (n - k)
  <2>1. u + (n - k) <= MaxObjects
    BY <1>4, <1>7 DEF Room
  <2> QED
    BY <2>1, <1>5, <1>7, ConstantFacts
<1>9. NewTuples(n) = [i \in 1 .. n |-> IF i <= l THEN tuples[l + 1 - i] ELSE u + i - l]
  BY <1>2, <1>7 DEF NewTuples
<1>10. \A i \in 1 .. k : l + 1 - i \in 1 .. l /\ NewTuples(n)[i] = tuples[l + 1 - i]
  BY <1>5, <1>9
<1>11. \A i \in k + 1 .. n : /\ NewTuples(n)[i] = u + i - l /\ k = l
                             /\ u + i - l > u /\ u + i - l <= u + (n - k)
  BY <1>5, <1>7, <1>9, ConstantFacts
<1>12. \A i \in k + 1 .. n : u + i - l \in Refs /\ u + i - l \in Objects
  BY <1>5, <1>7, <1>8, <1>11, ConstantFacts DEF Refs, Objects
<1>13. \A i \in 1 .. n : NewTuples(n)[i] \in Refs
  <2> SUFFICES ASSUME NEW i \in 1 .. n PROVE NewTuples(n)[i] \in Refs
    OBVIOUS
  <2>1. CASE i <= k
    BY <2>1, <1>3, <1>5, <1>10
  <2>2. CASE i > k
    <3>1. i \in k + 1 .. n
      BY <2>2, <1>5
    <3> QED
      BY <3>1, <1>11, <1>12
  <2> QED
    BY <2>1, <2>2, <1>5
<1>14. NewTuples(n) \in [1 .. n -> Refs]
  <2>1. NewTuples(n) = [i \in 1 .. n |-> NewTuples(n)[i]]
    BY <1>9
  <2> QED
    BY <2>1, <1>13
<1>15. NewTuples(n) \in Seq(Refs) /\ Len(NewTuples(n)) = n /\ DOMAIN NewTuples(n) = 1 .. n
  BY <1>14
<1>16. WithoutLast(k) = SubSeq(tuples, 1, l - k)
  BY <1>2 DEF WithoutLast
<1>17. WithoutLast(k) \in Seq(Refs) /\ Len(WithoutLast(k)) = l - k
  BY <1>1, <1>2, <1>5, <1>16
<1>18. \A i \in DOMAIN WithoutLast(k) :
         i \in 1 .. l /\ i <= l - k /\ WithoutLast(k)[i] = tuples[i]
  <2>1. DOMAIN WithoutLast(k) = 1 .. l - k
    BY <1>17, <1>5
  <2>2. \A i \in 1 .. l - k : WithoutLast(k)[i] = tuples[i]
    BY <1>1, <1>2, <1>5, <1>16
  <2> QED
    BY <2>1, <2>2, <1>5
<1>19. /\ \A i \in 1 .. k : l + 1 - i \in DOMAIN tuples /\ NewTuples(n)[i] = tuples[l + 1 - i]
       /\ \A i \in k + 1 .. n : /\ NewTuples(n)[i] = u + i - l /\ k = l
                                /\ NewTuples(n)[i] \in Objects
                                /\ NewTuples(n)[i] > u /\ NewTuples(n)[i] <= u + (n - k)
  BY <1>3, <1>10, <1>11, <1>12
<1> QED
  BY <1>2, <1>3, <1>4, <1>5, <1>7, <1>8, <1>15, <1>17, <1>18, <1>19

(* The first subscription that wants rows of the deserializer. *)
FirstBlob == TurnOfBlob /\ parsed = <<>>

LEMMA FirstBlobFacts ==
  ASSUME DeliveryTypes, ParserShape, FirstBlob
  PROVE  /\ RowCount \in Nat \ {0} /\ Room(RowCount - Taken(RowCount))
         /\ parsed' = NewTuples(RowCount) /\ used' = used + (RowCount - Taken(RowCount))
         /\ tuples' = WithoutLast(Taken(RowCount)) /\ objects' = Filled(parsed')
         /\ IF Published[received].known
            THEN due' = [i \in 1 .. RowCount |-> RowMessage(parsed'[i], i)] /\ UNCHANGED parsing
            ELSE parsing' = "ended" /\ UNCHANGED due
<1>1. NextTopic /\ parsing # "idle"
  BY NextTopicFacts DEF FirstBlob, TurnOfBlob
<1>2. RowCount \in Nat \ {0}
  BY <1>1, MessageFacts
<1>3. /\ Room(RowCount - Taken(RowCount))
      /\ parsed' = NewTuples(RowCount) /\ used' = used + RowCount - Taken(RowCount)
      /\ tuples' = WithoutLast(Taken(RowCount)) /\ objects' = Filled(parsed')
      /\ IF Published[received].known
         THEN due' = [i \in 1 .. RowCount |-> RowMessage(parsed'[i], i)] /\ UNCHANGED parsing
         ELSE parsing' = "ended" /\ UNCHANGED due
  BY DEF FirstBlob, TurnOfBlob
<1>4. PICK n \in Nat \ {0} : n = RowCount
  BY <1>2
<1>5. Taken(n) \in Int
  <2>1. Len(tuples) \in Nat
    BY DEF DeliveryTypes, ParserTypes
  <2> QED
    BY <2>1 DEF Taken
<1>6. used \in Nat
  BY ConstantFacts DEF DeliveryTypes, ObjectTypes
<1>7. used + RowCount - Taken(RowCount) = used + (RowCount - Taken(RowCount))
  <2>1. PICK k \in Int : k = Taken(n)
    BY <1>5
  <2>2. used + n - k = used + (n - k)
    BY <1>6
  <2> QED
    BY <2>1, <2>2, <1>4
<1> QED
  BY <1>2, <1>3, <1>7

LEMMA FirstBlobMakes ==
  ASSUME DeliveryTypes, ParserShape, FirstBlob
  PROVE  \E s \in Seq(Refs) :
           /\ s = parsed' /\ Len(s) = RowCount /\ objects' = Filled(s)
           /\ Filled(s) \in [Objects -> Seq(Nat)]
           /\ due' = due \/ due' = [i \in 1 .. RowCount |-> RowMessage(s[i], i)]
<1>1. PICK n \in Nat \ {0} : n = RowCount
  BY FirstBlobFacts
<1>2. Room(n - Taken(n))
  BY <1>1, FirstBlobFacts
<1>3. PICK s \in Seq(Refs) : s = NewTuples(n) /\ Len(s) = n
  BY <1>2, NewTuplesFacts
<1>4. parsed' = s /\ objects' = Filled(parsed')
  BY <1>1, <1>3, FirstBlobFacts
<1>5. objects' = Filled(s)
  <2>1. Filled(parsed') = Filled(s)
    BY <1>4
  <2> QED
    BY <2>1, <1>4
<1>6. due' = due \/ due' = [i \in 1 .. RowCount |-> RowMessage(s[i], i)]
  BY <1>4, FirstBlobFacts
<1>7. parsing # "idle"
  BY NextTopicFacts DEF FirstBlob, TurnOfBlob
<1>8. Filled(s) \in [Objects -> Seq(Nat)]
  BY <1>1, <1>3, <1>7, FilledFacts
<1> QED
  BY <1>1, <1>3, <1>4, <1>5, <1>6, <1>8

(* Another one gets what is left of them. *)
NextBlob == TurnOfBlob /\ parsed # <<>>

LEMMA BlobTypes ==
  ASSUME DeliveryTypes, ParserShape, TurnOfBlob
  PROVE  DeliveryTypes'
<1>1. NextTopic /\ parsing # "idle" /\ topic + 1 \in 0 .. TopicCount
  BY NextTopicFacts DEF TurnOfBlob
<1>2. CASE FirstBlob
  <2>1. PICK s \in Seq(Refs) :
           /\ s = parsed' /\ Len(s) = RowCount /\ objects' = Filled(s)
           /\ Filled(s) \in [Objects -> Seq(Nat)]
           /\ due' = due \/ due' = [i \in 1 .. RowCount |-> RowMessage(s[i], i)]
    BY <1>2, FirstBlobMakes
  <2>2. PICK n \in Nat \ {0} : n = RowCount
    BY <1>2, FirstBlobFacts
  <2>3. /\ used + (n - Taken(n)) \in TopicCount .. MaxObjects
        /\ WithoutLast(Taken(n)) \in Seq(Refs)
    <3>1. Room(n - Taken(n))
      BY <1>2, <2>2, FirstBlobFacts
    <3> QED
      BY <3>1, NewTuplesFacts
  <2>4. used' \in TopicCount .. MaxObjects /\ tuples' \in Seq(Refs)
    BY <1>2, <2>2, <2>3, FirstBlobFacts
  <2>5. ObjectTypes'
    BY <2>1, <2>4 DEF DeliveryTypes, ObjectTypes, TurnOfBlob
  <2>6. due' \in Seq(SharedMessages)
    <3>1. ASSUME due' = [i \in 1 .. RowCount |-> RowMessage(s[i], i)]
          PROVE  due' \in Seq(SharedMessages)
      BY <1>1, <2>1, <3>1, RowsAsMessages
    <3>2. due \in Seq(SharedMessages)
      BY DEF DeliveryTypes, ParserTypes
    <3> QED
      BY <2>1, <3>1, <3>2
  <2>7. parsing' \in {"idle", "message", "ended"}
    BY <1>2, FirstBlobFacts DEF DeliveryTypes, ParserTypes
  <2>8. ParserTypes'
    BY <1>1, <2>1, <2>4, <2>6, <2>7 DEF DeliveryTypes, ParserTypes, TurnOfBlob
  <2>9. HandlerTypes'
    BY DEF DeliveryTypes, HandlerTypes, TurnOfBlob, handlerVars
  <2> QED
    BY <2>5, <2>8, <2>9 DEF DeliveryTypes
<1>3. CASE NextBlob
  <2>1. /\ due' = [i \in 1 .. RowCount |-> RowMessage(parsed[i], i)]
        /\ UNCHANGED <<objects, used, parsing, parsed, tuples>>
    BY <1>3 DEF NextBlob, TurnOfBlob
  <2>2. parsed \in Seq(Refs) /\ Len(parsed) = RowCount
    BY <1>3 DEF NextBlob, DeliveryTypes, ParserTypes, ParserShape
  <2>3. due' \in Seq(SharedMessages)
    BY <1>1, <2>1, <2>2, RowsAsMessages
  <2>4. ObjectTypes'
    BY <2>1 DEF DeliveryTypes, ObjectTypes, TurnOfBlob
  <2>5. ParserTypes'
    BY <1>1, <2>1, <2>3 DEF DeliveryTypes, ParserTypes, TurnOfBlob
  <2>6. HandlerTypes'
    BY DEF DeliveryTypes, HandlerTypes, TurnOfBlob, handlerVars
  <2> QED
    BY <2>4, <2>5, <2>6 DEF DeliveryTypes
<1> QED
  BY <1>2, <1>3 DEF FirstBlob, NextBlob

LEMMA GiveBackTyped ==
  ASSUME DeliveryTypes, NEW o \in Refs, NEW S, GiveBack(o, S)
  PROVE  tuples' \in Seq(Refs)
BY DEF GiveBack, DeliveryTypes, ParserTypes

LEMMA PushTypes ==
  ASSUME DeliveryTypes, ParserShape, PushDue
  PROVE  DeliveryTypes'
<1>1. due \in Seq(SharedMessages) /\ due # <<>> /\ topic \in 0 .. TopicCount /\ topic # 0
  BY DEF DeliveryTypes, ParserTypes, ParserShape, PushDue
<1>2. Head(due) \in SharedMessages /\ Tail(due) \in Seq(SharedMessages) /\ topic \in Topics
  BY <1>1, ConstantFacts DEF Topics
<1>3. queues' \in [Topics -> Seq(SharedMessages)]
  <2>1. queues \in [Topics -> Seq(SharedMessages)]
    BY DEF DeliveryTypes, HandlerTypes
  <2>2. PICK m \in SharedMessages : m = Head(due)
    BY <1>2
  <2>3. queues' = [queues EXCEPT ![topic] = Append(@, m)]
    BY <2>2 DEF PushDue
  <2>4. Append(queues[topic], m) \in Seq(SharedMessages)
    BY <1>2, <2>1
  <2> QED
    BY <2>1, <2>3, <2>4
<1>4. pushed' \in Refs /\ parsed' \in Seq(Refs)
  <2>1. CASE form[topic] = "blob"
    <3>1. pushed' = Head(due).object
      BY <2>1 DEF PushDue
    <3>2. pushed' \in Refs
      BY <1>2, <3>1 DEF SharedMessages
    <3>3. parsed' = [i \in DOMAIN parsed |-> IF parsed[i] = pushed' THEN 0 ELSE parsed[i]]
      BY <2>1 DEF PushDue
    <3>4. 0 \in Refs
      BY DEF Refs
    <3>5. parsed \in Seq(Refs)
      BY DEF DeliveryTypes, ParserTypes
    <3>6. PICK n \in Nat : DOMAIN parsed = 1 .. n /\ \A i \in 1 .. n : parsed[i] \in Refs
      BY <3>5
    <3>7. parsed' \in [1 .. n -> Refs]
      BY <3>3, <3>4, <3>6
    <3> QED
      BY <3>2, <3>7
  <2>2. CASE form[topic] # "blob"
    BY <2>2 DEF PushDue, DeliveryTypes, ParserTypes
  <2> QED
    BY <2>1, <2>2
<1>5. ObjectTypes'
  BY DEF DeliveryTypes, ObjectTypes, PushDue
<1>6. ParserTypes'
  BY <1>2, <1>4 DEF DeliveryTypes, ParserTypes, PushDue
<1>7. HandlerTypes'
  BY <1>3 DEF DeliveryTypes, HandlerTypes, PushDue, handlerVars
<1> QED
  BY <1>5, <1>6, <1>7 DEF DeliveryTypes

LEMMA ReleaseTypes ==
  ASSUME DeliveryTypes, Release
  PROVE  DeliveryTypes'
<1>1. tuples' \in Seq(Refs) /\ pushed' \in Refs
  <2>1. pushed \in Refs /\ GiveBack(pushed, Topics) /\ pushed' = 0
    BY DEF DeliveryTypes, ParserTypes, Release
  <2> QED
    BY <2>1, GiveBackTyped DEF Refs
<1>2. ObjectTypes'
  BY DEF DeliveryTypes, ObjectTypes, Release
<1>3. ParserTypes'
  BY <1>1 DEF DeliveryTypes, ParserTypes, Release
<1>4. HandlerTypes'
  BY DEF DeliveryTypes, HandlerTypes, Release, handlerVars
<1> QED
  BY <1>2, <1>3, <1>4 DEF DeliveryTypes

LEMMA EndTypes ==
  ASSUME DeliveryTypes, EndMessage
  PROVE  DeliveryTypes'
<1>1. ObjectTypes'
  BY DEF DeliveryTypes, ObjectTypes, EndMessage
<1>2. 0 \in Refs /\ 0 \in 0 .. TopicCount
  BY ConstantFacts DEF Refs
<1>3. ParserTypes'
  BY <1>2 DEF DeliveryTypes, ParserTypes, EndMessage
<1>4. HandlerTypes'
  BY DEF DeliveryTypes, HandlerTypes, EndMessage, handlerVars
<1> QED
  BY <1>1, <1>3, <1>4 DEF DeliveryTypes

LEMMA PopTypes ==
  ASSUME DeliveryTypes, NEW t \in Topics, PopNext(t)
  PROVE  DeliveryTypes'
<1>1. queues[t] \in Seq(SharedMessages) /\ queues[t] # <<>>
  BY DEF DeliveryTypes, HandlerTypes, PopNext
<1>2. Head(queues[t]) \in SharedMessages /\ Tail(queues[t]) \in Seq(SharedMessages)
  BY <1>1
<1>3. ObjectTypes'
  BY DEF DeliveryTypes, ObjectTypes, PopNext
<1>4. ParserTypes'
  BY DEF DeliveryTypes, ParserTypes, PopNext, parserVars
<1>5. HandlerTypes'
  BY <1>2 DEF DeliveryTypes, HandlerTypes, PopNext, Goes
<1> QED
  BY <1>3, <1>4, <1>5 DEF DeliveryTypes

LEMMA JoinFacts ==
  ASSUME NEW a \in Seq(Nat), NEW b \in Seq(Nat)
  PROVE  /\ a \o b \in Seq(Nat) /\ Len(a \o b) \in Nat /\ Len(a \o b) = Len(a) + Len(b)
         /\ Len(a) \in Nat /\ Len(b) \in Nat
         /\ \A i \in 1 .. Len(a) : (a \o b)[i] = a[i]
         /\ \A i \in 1 .. Len(b) : (a \o b)[Len(a) + i] = b[i]
OBVIOUS

LEMMA MergeTypes ==
  ASSUME DeliveryTypes, NEW t \in Topics, Merge(t)
  PROVE  DeliveryTypes'
<1>1. queues[t] \in Seq(SharedMessages) /\ queues[t] # <<>> /\ msg[t] \in SharedMessages
  BY DEF DeliveryTypes, HandlerTypes, Merge
<1>2. Head(queues[t]) \in SharedMessages /\ Tail(queues[t]) \in Seq(SharedMessages)
  BY <1>1
<1> DEFINE o == msg[t].object
           all == objects[o] \o objects[Head(queues[t]).object]
<1>3. o \in Refs /\ Head(queues[t]).object \in Refs
  BY <1>1, <1>2 DEF SharedMessages
<1>4. o \in Objects /\ all \in Seq(Nat) /\ Len(all) \in Nat
  <2>1. objects[o] \in Seq(Nat) /\ objects[Head(queues[t]).object] \in Seq(Nat)
    BY <1>3, ConstantFacts DEF DeliveryTypes, ObjectTypes
  <2>2. all \in Seq(Nat) /\ Len(all) \in Nat
    BY <2>1, JoinFacts
  <2>3. o \in Objects
    BY <1>3, ConstantFacts
  <2> QED
    BY <2>2, <2>3
<1>5. objects' = [objects EXCEPT ![o] = all] /\ msg' = [msg EXCEPT ![t].size = Len(all)]
  BY DEF Merge
<1> HIDE DEF o, all
<1>6. ObjectTypes'
  BY <1>4, <1>5 DEF DeliveryTypes, ObjectTypes, Merge
<1>7. ParserTypes'
  BY DEF DeliveryTypes, ParserTypes, Merge, parserVars
<1>8. [msg[t] EXCEPT !.size = Len(all)] \in SharedMessages
  BY <1>1, <1>4 DEF SharedMessages
<1>9. msg' \in [Topics -> SharedMessages]
  BY <1>5, <1>8 DEF DeliveryTypes, HandlerTypes
<1>10. queues' \in [Topics -> Seq(SharedMessages)]
  BY <1>2 DEF DeliveryTypes, HandlerTypes, Merge
<1>11. stage' \in [Topics -> {"none", "popped", "merged", "handled"}]
  BY DEF DeliveryTypes, HandlerTypes, Merge, Goes
<1>12. HandlerTypes'
  BY <1>9, <1>10, <1>11 DEF DeliveryTypes, HandlerTypes, Merge
<1> QED
  BY <1>6, <1>7, <1>12 DEF DeliveryTypes

LEMMA LetGoTypes ==
  ASSUME DeliveryTypes, NEW t \in Topics, LetGo(t)
  PROVE  DeliveryTypes'
<1>1. ObjectTypes'
  BY DEF DeliveryTypes, ObjectTypes, LetGo
<1>2. ParserTypes'
  BY DEF DeliveryTypes, ParserTypes, LetGo, parserVars
<1>3. HandlerTypes'
  BY DEF DeliveryTypes, HandlerTypes, LetGo
<1> QED
  BY <1>1, <1>2, <1>3 DEF DeliveryTypes

LEMMA DoneTypes ==
  ASSUME DeliveryTypes, NEW t \in Topics, Done(t)
  PROVE  DeliveryTypes'
<1>1. msg[t].object \in Refs
  BY DEF DeliveryTypes, HandlerTypes, SharedMessages
<1>2. tuples' \in Seq(Refs)
  <2>1. ASSUME GiveBack(msg[t].object, Topics \ {t}) PROVE tuples' \in Seq(Refs)
    BY <1>1, <2>1, GiveBackTyped
  <2> QED
    BY <2>1 DEF Done, DeliveryTypes, ParserTypes
<1>3. None \in SharedMessages
  <2>1. 0 \in Refs /\ 0 \in Nat /\ -1 \in Int /\ TRUE \in BOOLEAN
    BY DEF Refs
  <2> QED
    BY <2>1, MessageTyped DEF None
<1>4. ObjectTypes'
  BY DEF DeliveryTypes, ObjectTypes, Done
<1>5. ParserTypes'
  BY <1>2 DEF DeliveryTypes, ParserTypes, Done, parserVars
<1>6. HandlerTypes'
  BY <1>3 DEF DeliveryTypes, HandlerTypes, Done, Goes
<1> QED
  BY <1>4, <1>5, <1>6 DEF DeliveryTypes

(* What the rows of a message are. *)
LEMMA RowsInFacts ==
  ASSUME DeliveryTypes, NEW m \in SharedMessages, m.size <= Len(objects[m.object])
  PROVE  /\ RowsIn(m) \in Seq(HandedRows) /\ Len(RowsIn(m)) = m.size /\ DOMAIN RowsIn(m) = 1 .. m.size
         /\ \A i \in 1 .. m.size : /\ RowsIn(m)[i].row = objects[m.object][i]
                                   /\ RowsIn(m)[i].offset = m.offset + i - 1
                                   /\ objects[m.object][i] \in Nat
<1>1. PICK n \in Nat : n = m.size
  BY DEF SharedMessages
<1>2. PICK f \in Int : f = m.offset
  BY DEF SharedMessages
<1>3. objects[m.object] \in Seq(Nat)
  <2>1. m.object \in Refs
    BY DEF SharedMessages
  <2> QED
    BY <2>1, ConstantFacts DEF DeliveryTypes, ObjectTypes
<1>4. PICK s \in Seq(Nat) : s = objects[m.object]
  BY <1>3
<1>5. \A i \in 1 .. n : s[i] \in Nat
  BY <1>1, <1>4
<1>6. RowsIn(m) = [i \in 1 .. n |-> [row |-> s[i], offset |-> f + i - 1]]
  BY <1>1, <1>2, <1>4 DEF RowsIn
<1>7. \A i \in 1 .. n : [row |-> s[i], offset |-> f + i - 1] \in HandedRows
  <2> SUFFICES ASSUME NEW i \in 1 .. n PROVE [row |-> s[i], offset |-> f + i - 1] \in HandedRows
    OBVIOUS
  <2>1. s[i] \in Int /\ f + i - 1 \in Int
    BY <1>5
  <2> QED
    BY <2>1 DEF HandedRows
<1>8. RowsIn(m) \in [1 .. n -> HandedRows]
  BY <1>6, <1>7
<1>9. RowsIn(m) \in Seq(HandedRows) /\ Len(RowsIn(m)) = n /\ DOMAIN RowsIn(m) = 1 .. n
  BY <1>8
<1>10. \A i \in 1 .. n : RowsIn(m)[i].row = s[i] /\ RowsIn(m)[i].offset = f + i - 1
  BY <1>6
<1> QED
  BY <1>1, <1>2, <1>4, <1>5, <1>9, <1>10

(* The message a handler thread has. *)
LEMMA MessageHeld ==
  ASSUME DeliveryTypes, QueuesSound, NEW t \in Topics, stage[t] # "none"
  PROVE  /\ msg[t] \in SharedMessages /\ msg[t].size \in Nat \ {0} /\ msg[t].offset \in Int
         /\ msg[t].object \in Refs /\ msg[t].object \in Objects /\ Sound(t, msg[t])
         /\ objects[msg[t].object] \in Seq(Nat)
         /\ msg[t].object # 0 => msg[t].size <= Len(objects[msg[t].object])
<1>1. msg[t] \in SharedMessages /\ Sound(t, msg[t])
  BY DEF DeliveryTypes, HandlerTypes, QueuesSound, QueueSound
<1>2. msg[t].size \in Nat \ {0} /\ msg[t].offset \in Int /\ msg[t].object \in Refs
  BY <1>1 DEF SharedMessages, Sound
<1>3. msg[t].object \in Objects /\ objects[msg[t].object] \in Seq(Nat)
  BY <1>2, ConstantFacts DEF DeliveryTypes, ObjectTypes
<1> QED
  BY <1>1, <1>2, <1>3 DEF Sound

LEMMA HandledRows ==
  ASSUME DeliveryTypes, QueuesSound, NEW t \in Topics, Handle(t)
  PROVE  /\ HandlerGets(t) \in Seq(HandedRows)
         /\ form[t] = "rows" => /\ objects' = [objects EXCEPT ![t] = <<LastOf(RowsIn(msg[t])).row>>]
                                /\ LastOf(RowsIn(msg[t])).row \in Nat
         /\ form[t] # "rows" => objects' = objects
         /\ \/ kept' = kept
            \/ /\ msg[t].object # 0 /\ kept[t] = {} /\ Copies(t) \subseteq KeptMessages
               /\ kept' = [kept EXCEPT ![t] = Copies(t)]
<1>1. stage[t] # "none"
  BY DEF Handle
<1>2. /\ msg[t] \in SharedMessages /\ msg[t].size \in Nat \ {0} /\ msg[t].offset \in Int
      /\ msg[t].object \in Refs /\ msg[t].object \in Objects /\ Sound(t, msg[t])
      /\ objects[msg[t].object] \in Seq(Nat)
      /\ msg[t].object # 0 => msg[t].size <= Len(objects[msg[t].object])
  BY <1>1, MessageHeld
<1>3. HandlerGets(t) \in Seq(HandedRows)
  <2>1. CASE msg[t].object = 0
    <3>1. [row |-> -1, offset |-> msg[t].offset] \in HandedRows
      BY <1>2 DEF HandedRows
    <3>2. HandlerGets(t) = <<[row |-> -1, offset |-> msg[t].offset]>>
      BY <2>1 DEF HandlerGets
    <3> QED
      BY <3>1, <3>2
  <2>2. CASE msg[t].object # 0
    <3>1. RowsIn(msg[t]) \in Seq(HandedRows)
      BY <1>2, <2>2, RowsInFacts
    <3>2. HandlerGets(t) = <<>> \/ HandlerGets(t) = RowsIn(msg[t])
      BY <2>2 DEF HandlerGets
    <3>3. <<>> \in Seq(HandedRows)
      OBVIOUS
    <3> QED
      BY <3>1, <3>2, <3>3
  <2> QED
    BY <2>1, <2>2
<1>4. ASSUME form[t] = "rows" PROVE LastOf(RowsIn(msg[t])).row \in Nat
  <2>1. msg[t].object # 0
    BY <1>2, <1>4 DEF Sound
  <2>2. /\ Len(RowsIn(msg[t])) = msg[t].size
        /\ \A i \in 1 .. msg[t].size : /\ RowsIn(msg[t])[i].row = objects[msg[t].object][i]
                                       /\ objects[msg[t].object][i] \in Nat
    BY <1>2, <2>1, RowsInFacts
  <2>3. msg[t].size \in 1 .. msg[t].size
    BY <1>2
  <2> QED
    BY <2>2, <2>3 DEF LastOf
<1>5. ASSUME msg[t].object # 0 PROVE Copies(t) \subseteq KeptMessages
  <2>1. CASE form[t] = "rows"
    <3>1. PICK r \in Nat : r = LastOf(RowsIn(msg[t])).row
      BY <1>4, <2>1
    <3>2. Copies(t) = {[object |-> t, rows |-> <<r>>]}
      BY <2>1, <3>1 DEF Copies
    <3>3. t \in Objects /\ <<r>> \in Seq(Nat)
      BY ConstantFacts
    <3> QED
      BY <3>2, <3>3 DEF KeptMessages
  <2>2. CASE form[t] # "rows"
    <3>1. PICK s \in Seq(Nat) : s = objects[msg[t].object]
      BY <1>2
    <3>2. PICK n \in Nat : n = msg[t].size
      BY <1>2
    <3>3. PICK o \in Objects : o = msg[t].object
      BY <1>2
    <3>4. \A i \in 1 .. n : s[i] \in Nat
      <4>1. n <= Len(s)
        BY <1>2, <1>5, <3>1, <3>2
      <4> QED
        BY <4>1
    <3>5. [i \in 1 .. n |-> s[i]] \in Seq(Nat)
      BY <3>4
    <3>6. Copies(t) = {[object |-> o, rows |-> [i \in 1 .. n |-> s[i]]]}
      BY <2>2, <3>1, <3>2, <3>3 DEF Copies
    <3>7. [object |-> o, rows |-> [i \in 1 .. n |-> s[i]]] \in KeptMessages
      BY <3>5 DEF KeptMessages
    <3> QED
      BY <3>6, <3>7
  <2> QED
    BY <2>1, <2>2
<1>6. /\ form[t] = "rows" => objects' = [objects EXCEPT ![t] = <<LastOf(RowsIn(msg[t])).row>>]
      /\ form[t] # "rows" => objects' = objects
  BY DEF Handle
<1>7. \/ kept' = kept
      \/ /\ msg[t].object # 0 /\ kept[t] = {}
         /\ kept' = [kept EXCEPT ![t] = Copies(t)]
  BY DEF Handle
<1> QED
  BY <1>3, <1>4, <1>5, <1>6, <1>7

LEMMA HandleTypes ==
  ASSUME DeliveryTypes, QueuesSound, NEW t \in Topics, Handle(t)
  PROVE  DeliveryTypes'
<1>1. objects' \in [Objects -> Seq(Nat)]
  <2>1. CASE form[t] = "rows"
    <3>1. PICK r \in Nat : r = LastOf(RowsIn(msg[t])).row
      BY <2>1, HandledRows
    <3>2. objects' = [objects EXCEPT ![t] = <<r>>]
      BY <2>1, <3>1, HandledRows
    <3>3. <<r>> \in Seq(Nat)
      OBVIOUS
    <3> QED
      BY <3>2, <3>3 DEF DeliveryTypes, ObjectTypes
  <2>2. CASE form[t] # "rows"
    BY <2>2, HandledRows DEF DeliveryTypes, ObjectTypes
  <2> QED
    BY <2>1, <2>2
<1>2. kept' \in [Topics -> SUBSET KeptMessages]
  <2>1. PICK c : c = Copies(t)
    OBVIOUS
  <2>2. kept' = kept \/ (c \subseteq KeptMessages /\ kept' = [kept EXCEPT ![t] = c])
    BY <2>1, HandledRows
  <2> QED
    BY <2>2 DEF DeliveryTypes, HandlerTypes
<1>3. handed' \in [Topics -> Seq(HandedRows)]
  <2>1. PICK s \in Seq(HandedRows) : s = HandlerGets(t)
    BY HandledRows
  <2>2. handed' = [handed EXCEPT ![t] = @ \o s]
    BY <2>1 DEF Handle
  <2> QED
    BY <2>2 DEF DeliveryTypes, HandlerTypes
<1>4. ObjectTypes'
  BY <1>1 DEF DeliveryTypes, ObjectTypes, Handle
<1>5. ParserTypes'
  BY DEF DeliveryTypes, ParserTypes, Handle, parserVars
<1>6. HandlerTypes'
  BY <1>2, <1>3 DEF DeliveryTypes, HandlerTypes, Handle, Goes
<1> QED
  BY <1>4, <1>5, <1>6 DEF DeliveryTypes

LEMMA DeliveryTypesNext ==
  ASSUME ObjectsInv, [DeliveryNext]_deliveryVars
  PROVE  DeliveryTypes'
<1>1. DeliveryTypes /\ ParserShape /\ QueuesSound
  BY DEF ObjectsInv
<1>2. CASE Parse
  BY <1>1, <1>2, ReceiveTypes, WholeTypes, TupleTypes, BlobTypes, PushTypes, ReleaseTypes, EndTypes
  DEF Parse
<1>3. ASSUME NEW t \in Topics, HandlerStep(t) \/ LetGo(t) PROVE DeliveryTypes'
  BY <1>1, <1>3, PopTypes, MergeTypes, HandleTypes, DoneTypes, LetGoTypes DEF HandlerStep
<1>4. CASE UNCHANGED deliveryVars
  <2>1. /\ UNCHANGED <<form, objects, used>> /\ UNCHANGED parserVars /\ UNCHANGED queues
        /\ UNCHANGED handlerVars /\ UNCHANGED tuples
    BY <1>4 DEF deliveryVars
  <2> QED
    BY <1>1, <2>1 DEF DeliveryTypes, ObjectTypes, ParserTypes, HandlerTypes, parserVars, handlerVars
<1> QED
  BY <1>2, <1>3, <1>4 DEF DeliveryNext

-----------------------------------------------------------------------------
(* Where the parsing thread is. *)

LEMMA ParserShapeNext ==
  ASSUME DeliveryTypes, ParserShape, [DeliveryNext]_deliveryVars
  PROVE  ParserShape'
<1>1. /\ received \in Nat /\ topic \in Nat /\ used \in Nat /\ columns \in Nat /\ pushed \in Nat
      /\ parsed \in Seq(Refs) /\ cache \in Seq(Refs) /\ due \in Seq(SharedMessages)
  BY ConstantFacts DEF DeliveryTypes, ObjectTypes, ParserTypes
<1>2. CASE Receive
  <2>1. received' = received + 1 /\ columns' = used + 1 /\ cache' = <<>> /\ parsed' = <<>>
    BY <1>2 DEF Receive
  <2>2. due' = due /\ pushed' = pushed /\ parsing' = "message" /\ parsing = "idle" /\ topic' = 0
    BY <1>2 DEF Receive
  <2>3. due = <<>> /\ pushed = 0
    BY <2>2 DEF ParserShape
  <2> QED
    BY <1>1, <2>1, <2>2, <2>3 DEF ParserShape
<1>3. CASE TurnOfWhole
  <2>1. NextTopic /\ parsing = "message" /\ topic' = topic + 1
    BY <1>3, NextTopicFacts DEF TurnOfWhole
  <2>2. UNCHANGED <<received, parsing, columns, cache, parsed, pushed>>
    BY <1>3 DEF TurnOfWhole
  <2> QED
    BY <1>1, <2>1, <2>2 DEF ParserShape, RowCount
<1>4. CASE TurnOfTuple
  <2>1. NextTopic /\ parsing = "message" /\ topic' = topic + 1
    BY <1>4, NextTopicFacts DEF TurnOfTuple
  <2>2. UNCHANGED <<received, parsing, columns, parsed, pushed>>
    BY <1>4 DEF TurnOfTuple
  <2>3. Len(cache') = RowCount
    BY <1>4, TupleFacts
  <2> QED
    BY <1>1, <2>1, <2>2, <2>3 DEF ParserShape, RowCount
<1>5. CASE TurnOfBlob
  <2>1. NextTopic /\ parsing = "message" /\ topic' = topic + 1 /\ pushed = 0 /\ due = <<>>
    BY <1>5, NextTopicFacts DEF TurnOfBlob
  <2>2. UNCHANGED <<received, columns, cache, pushed>>
    BY <1>5 DEF TurnOfBlob
  <2>3. Len(parsed') = RowCount /\ (parsing' = parsing \/ (parsing' = "ended" /\ due' = due))
    <3>1. CASE FirstBlob
      <4>1. Len(parsed') = RowCount
        BY <3>1, FirstBlobMakes
      <4> QED
        BY <3>1, <4>1, FirstBlobFacts
    <3>2. CASE NextBlob
      BY <3>2 DEF NextBlob, TurnOfBlob, ParserShape
    <3> QED
      BY <1>5, <3>1, <3>2 DEF FirstBlob, NextBlob
  <2> QED
    BY <1>1, <2>1, <2>2, <2>3 DEF ParserShape, RowCount
<1>6. CASE PushDue
  <2>1. due # <<>> /\ UNCHANGED <<received, parsing, topic, columns, cache>>
    BY <1>6 DEF PushDue
  <2>2. parsing = "message" /\ topic # 0
    BY <2>1 DEF ParserShape
  <2>3. parsed' # <<>> => parsed # <<>> /\ Len(parsed') = Len(parsed)
    <3>1. CASE form[topic] = "blob"
      <4>1. PICK p : p = pushed'
        OBVIOUS
      <4>2. parsed' = [i \in DOMAIN parsed |-> IF parsed[i] = p THEN 0 ELSE parsed[i]]
        BY <1>6, <3>1, <4>1 DEF PushDue
      <4> QED
        BY <1>1, <4>2
    <3>2. CASE form[topic] # "blob"
      BY <1>6, <3>2 DEF PushDue
    <3> QED
      BY <3>1, <3>2
  <2> QED
    BY <1>1, <2>1, <2>2, <2>3 DEF ParserShape, RowCount
<1>7. CASE Release
  BY <1>7 DEF Release, ParserShape, RowCount
<1>8. CASE EndMessage
  BY <1>8 DEF EndMessage, ParserShape
<1>9. ASSUME NEW t \in Topics, HandlerStep(t) \/ LetGo(t) PROVE ParserShape'
  <2>1. UNCHANGED parserVars
    BY <1>9 DEF HandlerStep, PopNext, Merge, Handle, Done, LetGo
  <2> QED
    BY <2>1 DEF ParserShape, RowCount, parserVars
<1>10. CASE UNCHANGED deliveryVars
  <2>1. UNCHANGED parserVars
    BY <1>10 DEF deliveryVars
  <2> QED
    BY <2>1 DEF ParserShape, RowCount, parserVars
<1> QED
  BY <1>2, <1>3, <1>4, <1>5, <1>6, <1>7, <1>8, <1>9, <1>10 DEF DeliveryNext, Parse

-----------------------------------------------------------------------------
(* What becomes of the objects. *)

LEMMA ApartParts ==
  ASSUME ObjectsInv, NEW o \in Objects, o # 0
  PROVE  NotMade(o) /\ TupleFree(o) /\ RowFree(o) /\ DueFrom(o) /\ RowsApart(o)
BY DEF ObjectsInv, ObjectsApart, Apart

(* A deserializer fills new objects and tuples. *)
LEMMA FirstBlobObjects ==
  ASSUME DeliveryTypes, ParserShape, FirstBlob, NEW o \in Objects
  PROVE  /\ used' \in TopicCount .. MaxObjects /\ used <= used'
         /\ Has(parsed', o) => Has(tuples, o) \/ (o > used /\ o <= used')
         /\ Has(tuples', o) => Has(tuples, o)
         /\ ~Has(parsed', o) => objects'[o] = objects[o]
         /\ NoneTwice(tuples) /\ o # 0 /\ o <= used => ~(Has(parsed', o) /\ Has(tuples', o))
<1>1. PICK n \in Nat \ {0} : n = RowCount
  BY FirstBlobFacts
<1>2. PICK k : k = Taken(n)
  OBVIOUS
<1>3. /\ parsed' = NewTuples(n) /\ tuples' = WithoutLast(k) /\ used' = used + (n - k)
      /\ objects' = Filled(parsed')
  BY <1>1, <1>2, FirstBlobFacts
<1>4. Room(n - Taken(n))
  BY <1>1, FirstBlobFacts
<1>5. /\ DOMAIN NewTuples(n) = 1 .. n
      /\ k \in 0 .. n /\ k <= Len(tuples)
      /\ \A i \in 1 .. k : Len(tuples) + 1 - i \in DOMAIN tuples /\ NewTuples(n)[i] = tuples[Len(tuples) + 1 - i]
      /\ \A i \in k + 1 .. n : NewTuples(n)[i] > used /\ NewTuples(n)[i] <= used + (n - k)
      /\ used + (n - k) \in TopicCount .. MaxObjects /\ used <= used + (n - k)
      /\ \A i \in DOMAIN WithoutLast(k) :
           i \in DOMAIN tuples /\ i <= Len(tuples) - k /\ WithoutLast(k)[i] = tuples[i]
  BY <1>2, <1>4, NewTuplesFacts
<1>6. Has(parsed', o) => Has(tuples, o) \/ (o > used /\ o <= used')
  <2> SUFFICES ASSUME NEW i \in 1 .. n, NewTuples(n)[i] = o
               PROVE  Has(tuples, o) \/ (o > used /\ o <= used')
    BY <1>3, <1>5 DEF Has
  <2>1. CASE i \in 1 .. k
    BY <1>5, <2>1 DEF Has
  <2>2. CASE i \in k + 1 .. n
    BY <1>3, <1>5, <2>2
  <2> QED
    BY <1>5, <2>1, <2>2
<1>7. Has(tuples', o) => Has(tuples, o)
  BY <1>3, <1>5 DEF Has
<1>8. ~Has(parsed', o) => objects'[o] = objects[o]
  <2>1. PICK s \in Seq(Refs) : s = parsed' /\ Len(s) = RowCount /\ objects' = Filled(s)
    BY FirstBlobMakes
  <2>2. parsing # "idle"
    BY NextTopicFacts DEF FirstBlob, TurnOfBlob
  <2> QED
    BY <2>1, <2>2, FilledFacts
<1>9. ASSUME NoneTwice(tuples), o # 0, o <= used, Has(parsed', o), Has(tuples', o)
      PROVE  FALSE
  <2>1. PICK i \in 1 .. n : NewTuples(n)[i] = o
    BY <1>3, <1>5, <1>9 DEF Has
  <2>2. PICK j \in DOMAIN tuples : j <= Len(tuples) - k /\ tuples[j] = o
    BY <1>3, <1>5, <1>9 DEF Has
  <2>3. Len(tuples) \in Nat /\ DOMAIN tuples = 1 .. Len(tuples)
    BY DEF DeliveryTypes, ParserTypes
  <2>4. CASE i <= k
    <3>1. i \in 1 .. k
      BY <1>5, <2>4
    <3>2. Len(tuples) + 1 - i \in DOMAIN tuples /\ tuples[Len(tuples) + 1 - i] = o
      BY <1>5, <2>1, <3>1
    <3>3. Len(tuples) + 1 - i = j
      BY <1>9, <2>2, <3>2 DEF NoneTwice
    <3> QED
      BY <1>5, <2>2, <2>3, <3>1, <3>3
  <2>5. CASE i > k
    <3>1. i \in k + 1 .. n
      BY <1>5, <2>5
    <3> QED
      BY <1>5, <1>9, <2>1, <3>1, ConstantFacts DEF DeliveryTypes, ObjectTypes
  <2> QED
    BY <1>5, <2>4, <2>5
<1> QED
  BY <1>3, <1>5, <1>6, <1>7, <1>8, <1>9

(* An object that somebody may refer to stays, or gets more rows. *)
LEMMA StepObjects ==
  ASSUME ObjectsInv, [DeliveryNext]_deliveryVars,
         NEW o \in Objects, o > TopicCount, o <= used, ~Has(tuples, o)
  PROVE  \/ objects'[o] = objects[o]
         \/ \E t \in Topics :
              /\ Merge(t) /\ o = msg[t].object
              /\ objects'[o] = objects[o] \o objects[Head(queues[t]).object]
<1>1. DeliveryTypes /\ ParserShape /\ QueuesSound
  BY DEF ObjectsInv
<1>2. o \in Nat /\ used \in Nat /\ objects \in [Objects -> Seq(Nat)]
  BY <1>1, ConstantFacts DEF DeliveryTypes, ObjectTypes
<1>3. CASE Receive
  <2>1. objects' = [objects EXCEPT ![used + 1] = RowsOf(received')]
    BY <1>3 DEF Receive
  <2> QED
    BY <1>2, <2>1
<1>4. CASE TurnOfTuple
  <2>1. CASE cache = <<>>
    <3>1. PICK s \in Seq(Refs) : s = cache' /\ Len(s) = RowCount
      BY <1>1, <1>4, TupleFacts
    <3>2. objects' = Filled(s)
      <4>1. objects' = Filled(cache')
        BY <1>1, <1>4, <2>1, TupleFacts
      <4>2. Filled(cache') = Filled(s)
        BY <3>1
      <4> QED
        BY <4>1, <4>2
    <3>3. ~Has(s, o)
      BY <1>1, <1>2, <1>4, <2>1, <3>1, TupleFacts
    <3>4. parsing # "idle"
      BY <1>1, <1>4, NextTopicFacts DEF TurnOfTuple
    <3> QED
      BY <1>1, <3>1, <3>2, <3>3, <3>4, FilledFacts
  <2>2. CASE cache # <<>>
    BY <1>1, <1>4, <2>2, TupleFacts
  <2> QED
    BY <2>1, <2>2
<1>5. CASE TurnOfBlob
  <2>1. CASE FirstBlob
    <3>1. ~Has(parsed', o)
      BY <1>1, <1>2, <2>1, FirstBlobObjects
    <3> QED
      BY <1>1, <2>1, <3>1, FirstBlobObjects
  <2>2. CASE NextBlob
    BY <2>2 DEF NextBlob, TurnOfBlob
  <2> QED
    BY <1>5, <2>1, <2>2 DEF FirstBlob, NextBlob
<1>6. CASE TurnOfWhole \/ PushDue \/ Release \/ EndMessage
  BY <1>6 DEF TurnOfWhole, PushDue, Release, EndMessage
<1>7. ASSUME NEW t \in Topics, PopNext(t) \/ Done(t) \/ LetGo(t)
      PROVE  objects'[o] = objects[o]
  BY <1>7 DEF PopNext, Done, LetGo
<1>8. ASSUME NEW t \in Topics, Handle(t)
      PROVE  objects'[o] = objects[o]
  <2>1. t # o
    BY <1>2, ConstantFacts DEF Topics
  <2>2. \/ objects' = objects
        \/ objects' = [objects EXCEPT ![t] = <<LastOf(RowsIn(msg[t])).row>>]
    BY <1>1, <1>8, HandledRows
  <2> QED
    BY <1>2, <2>1, <2>2
<1>9. ASSUME NEW t \in Topics, Merge(t)
      PROVE  \/ objects'[o] = objects[o]
             \/ o = msg[t].object /\ objects'[o] = objects[o] \o objects[Head(queues[t]).object]
  <2>1. PICK p, all : p = msg[t].object /\ all = objects[p] \o objects[Head(queues[t]).object]
    OBVIOUS
  <2>2. objects' = [objects EXCEPT ![p] = all]
    BY <1>9, <2>1 DEF Merge
  <2> QED
    BY <1>2, <2>1, <2>2
<1>10. CASE UNCHANGED deliveryVars
  BY <1>10 DEF deliveryVars
<1> QED
  BY <1>3, <1>4, <1>5, <1>6, <1>7, <1>8, <1>9, <1>10 DEF DeliveryNext, Parse, HandlerStep

Grown(o) ==
  /\ Len(objects[o]) \in Nat /\ Len(objects'[o]) \in Nat /\ Len(objects[o]) <= Len(objects'[o])
  /\ \A i \in 1 .. Len(objects[o]) : objects'[o][i] = objects[o][i]

LEMMA ObjectsGrow ==
  ASSUME ObjectsInv, [DeliveryNext]_deliveryVars,
         NEW o \in Objects, o > TopicCount, o <= used, ~Has(tuples, o)
  PROVE  Grown(o)
<1>1. DeliveryTypes
  BY DEF ObjectsInv
<1>2. PICK a \in Seq(Nat) : a = objects[o]
  BY <1>1 DEF DeliveryTypes, ObjectTypes
<1>3. Len(a) \in Nat
  BY <1>2
<1>4. CASE objects'[o] = objects[o]
  BY <1>2, <1>3, <1>4 DEF Grown
<1>5. ASSUME NEW t \in Topics, Merge(t), objects'[o] = objects[o] \o objects[Head(queues[t]).object]
      PROVE  Grown(o)
  <2>1. Head(queues[t]) \in SharedMessages
    <3>1. queues[t] \in Seq(SharedMessages) /\ queues[t] # <<>>
      BY <1>1, <1>5 DEF DeliveryTypes, HandlerTypes, Merge
    <3> QED
      BY <3>1
  <2>2. PICK b \in Seq(Nat) : b = objects[Head(queues[t]).object]
    <3>1. Head(queues[t]).object \in Objects
      BY <2>1, ConstantFacts DEF SharedMessages
    <3> QED
      BY <1>1, <3>1 DEF DeliveryTypes, ObjectTypes
  <2>3. objects'[o] = a \o b
    BY <1>2, <1>5, <2>2
  <2> QED
    BY <1>2, <2>3, JoinFacts DEF Grown
<1> QED
  BY <1>4, <1>5, StepObjects

(* What is referred to is such an object. *)
LEMMA InPlace ==
  ASSUME ObjectsInv, NEW o \in Objects, o # 0,
         Referred(o) \/ Within(o, due) \/ Has(cache, o) \/ o = columns
  PROVE  o <= used /\ ~Has(tuples, o)
<1>1. o \in Nat /\ used \in Nat
  BY ConstantFacts DEF ObjectsInv, DeliveryTypes, ObjectTypes
<1>2. NotMade(o) /\ TupleFree(o)
  BY ApartParts
<1> QED
  BY <1>1, <1>2 DEF NotMade, TupleFree

LEMMA ReferredGrows ==
  ASSUME ObjectsInv, [DeliveryNext]_deliveryVars, NEW o \in Refs, o # 0,
         Referred(o) \/ Within(o, due) \/ Has(cache, o) \/ o = columns
  PROVE  Grown(o)
<1>1. o \in Objects /\ o > TopicCount
  BY ConstantFacts
<1> QED
  BY <1>1, InPlace, ObjectsGrow

-----------------------------------------------------------------------------
(* Nobody shares an object that is used again. *)

LEMMA SameHandlers ==
  ASSUME UNCHANGED <<form, queues, handlerVars>>, NEW o
  PROVE  (Referred(o)' <=> Referred(o)) /\ (ByBlob(o)' <=> ByBlob(o))
<1>1. UNCHANGED <<form, queues, msg, kept>>
  BY DEF handlerVars
<1> QED
  BY <1>1 DEF Referred, Refers, ByBlob, Holds

LEMMA ByBlobRefers == \A o : ByBlob(o) => Referred(o)
BY DEF ByBlob, Referred, Refers

LEMMA ReceiveApart ==
  ASSUME ObjectsInv, Receive
  PROVE  ObjectsApart'
<1> SUFFICES ASSUME NEW o \in Objects, o # 0
             PROVE  Apart(o)'
  BY DEF ObjectsApart
<1>1. DeliveryTypes /\ ParserShape /\ used \in Nat /\ o \in Nat
  BY ConstantFacts DEF ObjectsInv, DeliveryTypes, ObjectTypes
<1>2. NotMade(o) /\ TupleFree(o) /\ RowFree(o) /\ DueFrom(o) /\ RowsApart(o)
  BY ApartParts
<1>3. (Referred(o)' <=> Referred(o)) /\ (ByBlob(o)' <=> ByBlob(o))
  BY SameHandlers DEF Receive
<1>4. /\ due' = due /\ due = <<>> /\ cache' = <<>> /\ parsed' = <<>> /\ tuples' = tuples
      /\ pushed' = pushed /\ pushed = 0 /\ columns' = used + 1 /\ used' = used + 1
  BY <1>1 DEF Receive, ParserShape
<1>5. ~Within(o, due)' /\ ~Has(cache, o)' /\ ~Has(parsed, o)' /\ (Has(tuples, o)' <=> Has(tuples, o))
  BY <1>4, NothingIn
<1>6. NotMade(o)'
  BY <1>1, <1>2, <1>3, <1>4, <1>5 DEF NotMade
<1>7. TupleFree(o)'
  BY <1>1, <1>2, <1>3, <1>4, <1>5 DEF NotMade, TupleFree
<1>8. RowFree(o)' /\ DueFrom(o)'
  BY <1>5 DEF RowFree, DueFrom
<1>9. RowsApart(o)'
  BY <1>1, <1>2, <1>3, <1>4, <1>5, ByBlobRefers DEF NotMade, RowsApart
<1> QED
  BY <1>6, <1>7, <1>8, <1>9 DEF Apart

LEMMA WholeApart ==
  ASSUME ObjectsInv, TurnOfWhole
  PROVE  ObjectsApart'
<1> SUFFICES ASSUME NEW o \in Objects, o # 0
             PROVE  Apart(o)'
  BY DEF ObjectsApart
<1>1. DeliveryTypes /\ ParserShape
  BY DEF ObjectsInv
<1>2. NotMade(o) /\ TupleFree(o) /\ RowFree(o) /\ DueFrom(o) /\ RowsApart(o)
  BY ApartParts
<1>3. (Referred(o)' <=> Referred(o)) /\ (ByBlob(o)' <=> ByBlob(o))
  BY SameHandlers DEF TurnOfWhole
<1>4. /\ UNCHANGED <<form, used, parsing, columns, cache, parsed, pushed, tuples>>
      /\ topic' = topic + 1 /\ due' = <<Whole>>
      /\ form[topic'] \in Columnar \cup {"event"}
  BY DEF TurnOfWhole
<1>5. due = <<>> /\ parsing = "message"
  BY <1>1, NextTopicFacts DEF TurnOfWhole
<1>6. ~Within(o, due) /\ (Within(o, due)' <=> o = columns)
  <2>1. Within(o, <<Whole>>) <=> o = columns
    <3>1. DOMAIN <<Whole>> = {1} /\ <<Whole>>[1].object = columns
      BY DEF Whole
    <3> QED
      BY <3>1 DEF Within
  <2> QED
    BY <1>4, <1>5, <2>1, NothingIn
<1>7. /\ Has(cache, o)' <=> Has(cache, o)
      /\ Has(parsed, o)' <=> Has(parsed, o)
      /\ Has(tuples, o)' <=> Has(tuples, o)
  BY <1>4
<1>8. ~Has(parsed, o)
  BY <1>2, <1>5, <1>6 DEF RowFree
<1>9. form'[topic'] \notin {"blob", "tuple"}
  BY <1>4 DEF Columnar
<1>10. NotMade(o)' /\ TupleFree(o)'
  BY <1>2, <1>3, <1>4, <1>6, <1>7 DEF NotMade, TupleFree
<1>11. RowFree(o)' /\ RowsApart(o)'
  BY <1>2, <1>3, <1>4, <1>7, <1>8 DEF RowFree, RowsApart
<1>12. DueFrom(o)'
  BY <1>4, <1>6, <1>9 DEF DueFrom
<1> QED
  BY <1>10, <1>11, <1>12 DEF Apart

LEMMA TupleApart ==
  ASSUME ObjectsInv, TurnOfTuple
  PROVE  ObjectsApart'
<1> SUFFICES ASSUME NEW o \in Objects, o # 0
             PROVE  Apart(o)'
  BY DEF ObjectsApart
<1>1. DeliveryTypes /\ ParserShape /\ used \in Nat /\ o \in Nat
  BY ConstantFacts DEF ObjectsInv, DeliveryTypes, ObjectTypes
<1>2. NotMade(o) /\ TupleFree(o) /\ RowFree(o) /\ DueFrom(o) /\ RowsApart(o)
  BY ApartParts
<1>3. (Referred(o)' <=> Referred(o)) /\ (ByBlob(o)' <=> ByBlob(o))
  BY SameHandlers DEF TurnOfTuple
<1>4. /\ UNCHANGED <<form, parsing, columns, parsed, pushed, tuples>>
      /\ topic' = topic + 1 /\ form[topic'] = "tuple"
  BY DEF TurnOfTuple
<1>5. due = <<>> /\ parsing = "message" /\ parsing # "idle" /\ pushed = 0
  BY <1>1, NextTopicFacts DEF TurnOfTuple
<1>6. /\ used' \in TopicCount .. MaxObjects /\ used <= used'
      /\ \/ Has(cache, o)' <=> Has(cache, o)
         \/ ~Has(cache, o) /\ (Has(cache, o)' => o > used /\ o <= used')
  <2>1. CASE cache # <<>>
    BY <1>1, <2>1, TupleFacts
  <2>2. CASE cache = <<>>
    <3>1. ~Has(cache, o)
      BY <2>2, NothingIn
    <3>2. Has(cache', o) => o > used /\ o <= used'
      BY <1>1, <2>2, TupleFacts
    <3> QED
      BY <1>1, <3>1, <3>2, TupleFacts
  <2> QED
    BY <2>1, <2>2
<1>7. ~Within(o, due) /\ (Within(o, due)' <=> Has(cache, o)')
  <2>1. PICK s \in Seq(Refs) : s = cache' /\ Len(s) = RowCount
    BY <1>1, TupleFacts
  <2>2. PICK d : d = due'
    OBVIOUS
  <2>3. d = [i \in 1 .. RowCount |-> RowMessage(s[i], i)]
    BY <2>1, <2>2 DEF TurnOfTuple
  <2>4. Within(o, d) <=> Has(s, o)
    BY <1>1, <1>5, <2>1, <2>3, RowsAsMessages
  <2> QED
    BY <1>5, <2>1, <2>2, <2>4, NothingIn
<1>8. /\ Has(parsed, o)' <=> Has(parsed, o)
      /\ Has(tuples, o)' <=> Has(tuples, o)
  BY <1>4
<1>9. ~Has(parsed, o)
  BY <1>2, <1>5, <1>7 DEF RowFree
<1>10. used' \in Nat
  BY <1>6, ConstantFacts
<1>11. NotMade(o)'
  BY <1>1, <1>2, <1>3, <1>4, <1>6, <1>7, <1>8, <1>10 DEF NotMade
<1>12. TupleFree(o)'
  BY <1>1, <1>2, <1>3, <1>4, <1>6, <1>7, <1>8 DEF NotMade, TupleFree
<1>13. RowFree(o)'
  BY <1>8, <1>9 DEF RowFree
<1>14. RowsApart(o)'
  BY <1>1, <1>2, <1>3, <1>4, <1>5, <1>6, ByBlobRefers DEF NotMade, RowsApart
<1>15. DueFrom(o)'
  BY <1>4, <1>7 DEF DueFrom
<1> QED
  BY <1>11, <1>12, <1>13, <1>14, <1>15 DEF Apart

LEMMA FirstBlobApart ==
  ASSUME ObjectsInv, FirstBlob
  PROVE  ObjectsApart'
<1> SUFFICES ASSUME NEW o \in Objects, o # 0
             PROVE  Apart(o)'
  BY DEF ObjectsApart
<1>1. DeliveryTypes /\ ParserShape /\ used \in Nat /\ o \in Nat /\ NoneTwice(tuples)
  BY ConstantFacts DEF ObjectsInv, DeliveryTypes, ObjectTypes, OnceEach
<1>2. NotMade(o) /\ TupleFree(o) /\ RowFree(o) /\ DueFrom(o) /\ RowsApart(o)
  BY ApartParts
<1>3. (Referred(o)' <=> Referred(o)) /\ (ByBlob(o)' <=> ByBlob(o))
  BY SameHandlers DEF FirstBlob, TurnOfBlob
<1>4. /\ UNCHANGED <<form, columns, cache, pushed>>
      /\ topic' = topic + 1 /\ form[topic'] = "blob" /\ parsed = <<>>
  BY DEF FirstBlob, TurnOfBlob
<1>5. due = <<>> /\ parsing = "message" /\ parsing # "idle"
  BY <1>1, NextTopicFacts DEF FirstBlob, TurnOfBlob
<1>6. /\ used' \in TopicCount .. MaxObjects /\ used <= used'
      /\ Has(parsed', o) => Has(tuples, o) \/ (o > used /\ o <= used')
      /\ Has(tuples', o) => Has(tuples, o)
      /\ o <= used => ~(Has(parsed', o) /\ Has(tuples', o))
  BY <1>1, FirstBlobObjects
<1>7. /\ ~Within(o, due)
      /\ parsing' = "message" => (Within(o, due)' <=> Has(parsed, o)')
      /\ parsing' # "message" => ~Within(o, due)'
  <2>1. PICK s \in Seq(Refs) : s = parsed' /\ Len(s) = RowCount
    BY <1>1, FirstBlobMakes
  <2>2. PICK d : d = due'
    OBVIOUS
  <2>3. CASE Published[received].known
    <3>1. d = [i \in 1 .. RowCount |-> RowMessage(s[i], i)] /\ parsing' = parsing
      BY <1>1, <2>1, <2>2, <2>3, FirstBlobFacts
    <3>2. Within(o, d) <=> Has(s, o)
      BY <1>1, <1>5, <2>1, <3>1, RowsAsMessages
    <3> QED
      BY <1>5, <2>1, <2>2, <3>1, <3>2, NothingIn
  <2>4. CASE ~Published[received].known
    <3>1. due' = due /\ parsing' = "ended"
      BY <1>1, <2>4, FirstBlobFacts
    <3> QED
      BY <1>5, <3>1, NothingIn
  <2>5. Published[received].known \in BOOLEAN
    BY <1>1, <1>5, MessageFacts
  <2> QED
    BY <2>3, <2>4, <2>5
<1>8. Has(cache, o)' <=> Has(cache, o)
  BY <1>4
<1>9. used' \in Nat
  BY <1>6, ConstantFacts
<1>10. Within(o, due)' => Has(parsed, o)'
  BY <1>7
<1>11. NotMade(o)'
  BY <1>1, <1>2, <1>3, <1>4, <1>6, <1>8, <1>9, <1>10 DEF NotMade, TupleFree
<1>12. TupleFree(o)'
  BY <1>1, <1>2, <1>3, <1>4, <1>6, <1>8, <1>10 DEF NotMade, TupleFree
<1>13. RowFree(o)'
  BY <1>1, <1>2, <1>3, <1>4, <1>6, <1>7, <1>8 DEF RowFree, NotMade, TupleFree
<1>14. RowsApart(o)'
  BY <1>2, <1>3, <1>4, <1>8 DEF RowsApart
<1>15. DueFrom(o)'
  BY <1>4, <1>10 DEF DueFrom
<1> QED
  BY <1>11, <1>12, <1>13, <1>14, <1>15 DEF Apart

LEMMA NextBlobApart ==
  ASSUME ObjectsInv, NextBlob
  PROVE  ObjectsApart'
<1> SUFFICES ASSUME NEW o \in Objects, o # 0
             PROVE  Apart(o)'
  BY DEF ObjectsApart
<1>1. DeliveryTypes /\ ParserShape
  BY DEF ObjectsInv
<1>2. NotMade(o) /\ TupleFree(o) /\ RowFree(o) /\ DueFrom(o) /\ RowsApart(o)
  BY ApartParts
<1>3. (Referred(o)' <=> Referred(o)) /\ (ByBlob(o)' <=> ByBlob(o))
  BY SameHandlers DEF NextBlob, TurnOfBlob
<1>4. /\ UNCHANGED <<form, used, parsing, columns, cache, parsed, pushed, tuples>>
      /\ topic' = topic + 1 /\ form[topic'] = "blob" /\ parsed # <<>>
      /\ due' = [i \in 1 .. RowCount |-> RowMessage(parsed[i], i)]
  BY DEF NextBlob, TurnOfBlob
<1>5. due = <<>> /\ parsing = "message" /\ parsing # "idle"
  BY <1>1, NextTopicFacts DEF NextBlob, TurnOfBlob
<1>6. ~Within(o, due) /\ (Within(o, due)' <=> Has(parsed, o))
  <2>1. parsed \in Seq(Refs) /\ Len(parsed) = RowCount
    BY <1>1, <1>4 DEF DeliveryTypes, ParserTypes, ParserShape
  <2>2. PICK d : d = due'
    OBVIOUS
  <2>3. Within(o, d) <=> Has(parsed, o)
    BY <1>1, <1>4, <1>5, <2>1, <2>2, RowsAsMessages
  <2> QED
    BY <1>5, <2>2, <2>3, NothingIn
<1>7. /\ Has(cache, o)' <=> Has(cache, o)
      /\ Has(parsed, o)' <=> Has(parsed, o)
      /\ Has(tuples, o)' <=> Has(tuples, o)
  BY <1>4
<1>8. ~Has(parsed, o)
  BY <1>2, <1>5, <1>6 DEF RowFree
<1> QED
  BY <1>2, <1>3, <1>4, <1>6, <1>7, <1>8 DEF Apart, NotMade, TupleFree, RowFree, RowsApart, DueFrom

(* What a push gives away. *)
LEMMA PushFacts ==
  ASSUME ObjectsInv, PushDue
  PROVE  /\ topic \in Topics /\ parsing = "message" /\ parsing # "idle" /\ pushed = 0
         /\ due \in Seq(SharedMessages) /\ due # <<>>
         /\ Head(due) \in SharedMessages /\ Head(due) = due[1] /\ 1 \in DOMAIN due
         /\ queues[topic] \in Seq(SharedMessages)
         /\ queues' = [queues EXCEPT ![topic] = Append(@, Head(due))]
         /\ due' = Tail(due)
         /\ \A o : Within(o, due) <=> Head(due).object = o \/ Within(o, due')
         /\ \A o : Within(o, queues'[topic]) <=> Within(o, queues[topic]) \/ Head(due).object = o
         /\ \A u \in Topics \ {topic} : queues'[u] = queues[u]
<1>1. DeliveryTypes /\ ParserShape
  BY DEF ObjectsInv
<1>2. due \in Seq(SharedMessages) /\ due # <<>> /\ topic \in 0 .. TopicCount /\ topic # 0
  BY <1>1 DEF DeliveryTypes, ParserTypes, ParserShape, PushDue
<1>3. topic \in Topics /\ parsing = "message" /\ pushed = 0
  BY <1>1, <1>2, ConstantFacts DEF Topics, PushDue, ParserShape
<1>4. queues \in [Topics -> Seq(SharedMessages)]
  BY <1>1 DEF DeliveryTypes, HandlerTypes
<1>5. queues' = [queues EXCEPT ![topic] = Append(@, Head(due))] /\ due' = Tail(due)
  BY DEF PushDue
<1>6. Head(due) \in SharedMessages /\ Head(due) = due[1] /\ 1 \in DOMAIN due
  BY <1>2
<1>7. \A o : Within(o, due) <=> Head(due).object = o \/ Within(o, Tail(due))
  BY <1>2, WithinTail
<1>8. PICK m \in SharedMessages : m = Head(due)
  BY <1>6
<1>9. PICK q \in Seq(SharedMessages) : q = queues[topic]
  BY <1>3, <1>4
<1>10. queues'[topic] = Append(q, m)
  BY <1>3, <1>4, <1>5, <1>8, <1>9
<1>11. \A o : Within(o, Append(q, m)) <=> Within(o, q) \/ m.object = o
  BY WithinAppend
<1>12. \A u \in Topics \ {topic} : queues'[u] = queues[u]
  BY <1>4, <1>5, <1>8
<1> QED
  BY <1>2, <1>3, <1>4, <1>5, <1>6, <1>7, <1>8, <1>9, <1>10, <1>11, <1>12

LEMMA PushApart ==
  ASSUME ObjectsInv, PushDue
  PROVE  ObjectsApart'
<1> SUFFICES ASSUME NEW o \in Objects, o # 0
             PROVE  Apart(o)'
  BY DEF ObjectsApart
<1>1. DeliveryTypes /\ ParserShape
  BY DEF ObjectsInv
<1>2. NotMade(o) /\ TupleFree(o) /\ RowFree(o) /\ DueFrom(o) /\ RowsApart(o)
  BY ApartParts
<1>3. /\ topic \in Topics /\ parsing = "message" /\ pushed = 0
      /\ Within(o, due) <=> Head(due).object = o \/ Within(o, due')
      /\ Within(o, queues'[topic]) <=> Within(o, queues[topic]) \/ Head(due).object = o
      /\ \A u \in Topics \ {topic} : queues'[u] = queues[u]
  BY PushFacts
<1>4. UNCHANGED <<form, used, parsing, topic, columns, cache, tuples>> /\ UNCHANGED <<msg, kept>>
  BY DEF PushDue, handlerVars
<1>5. \A u \in Topics : Holds(u, o)' <=> Holds(u, o) \/ (u = topic /\ Head(due).object = o)
  BY <1>3, <1>4 DEF Holds
<1>6. Referred(o)' <=> Referred(o) \/ Head(due).object = o
  BY <1>3, <1>4, <1>5 DEF Referred, Refers
<1>7. ByBlob(o)' <=> ByBlob(o) \/ (form[topic] = "blob" /\ Head(due).object = o)
  BY <1>3, <1>4, <1>5 DEF ByBlob
<1>8. /\ Has(cache, o)' <=> Has(cache, o)
      /\ Has(tuples, o)' <=> Has(tuples, o)
      /\ Within(o, due)' => Within(o, due)
  BY <1>3, <1>4
<1>9. CASE form[topic] = "blob"
  <2>1. pushed' = Head(due).object
    BY <1>9 DEF PushDue
  <2>2. Has(parsed, o)' <=> Has(parsed, o) /\ o # Head(due).object
    <3>1. PICK p : p = pushed'
      OBVIOUS
    <3>2. parsed' = [i \in DOMAIN parsed |-> IF parsed[i] = p THEN 0 ELSE parsed[i]]
      BY <1>9, <3>1 DEF PushDue
    <3>3. p = Head(due).object
      BY <2>1, <3>1
    <3> QED
      BY <3>2, <3>3 DEF Has
  <2>3. Head(due).object = o => Has(parsed, o)
    BY <1>2, <1>3, <1>9 DEF DueFrom
  <2>4. Head(due).object = o => ~Within(o, due)'
    <3> SUFFICES ASSUME Head(due).object = o, Within(o, due')
                 PROVE  FALSE
      OBVIOUS
    <3>1. due \in Seq(SharedMessages) /\ due # <<>>
      BY PushFacts
    <3>2. /\ Len(due) \in Nat \ {0} /\ Head(due) = due[1] /\ Len(Tail(due)) = Len(due) - 1
          /\ \A i \in 1 .. Len(Tail(due)) : Tail(due)[i] = due[i + 1]
      BY <3>1, TailFacts
    <3>3. DOMAIN due = 1 .. Len(due) /\ DOMAIN Tail(due) = 1 .. Len(Tail(due))
      BY <3>1
    <3>4. PICK i \in 1 .. Len(due) - 1 : due[i + 1].object = o
      BY <3>2, <3>3, PushFacts DEF Within
    <3>5. i + 1 \in DOMAIN due /\ 1 \in DOMAIN due /\ due[1].object = o
      BY <3>2, <3>3
    <3>6. i + 1 = 1
      BY <1>9, <3>4, <3>5 DEF ObjectsInv, OnceEach
    <3> QED
      BY <3>6
  <2>5. NotMade(o)' /\ TupleFree(o)'
    BY <1>2, <1>3, <1>4, <1>6, <1>8, <2>1, <2>2 DEF NotMade, TupleFree
  <2>6. RowFree(o)'
    BY <1>2, <1>3, <1>4, <1>6, <1>8, <2>1, <2>2 DEF RowFree
  <2>7. DueFrom(o)'
    BY <1>2, <1>4, <1>8, <1>9, <2>2, <2>4 DEF DueFrom
  <2>8. RowsApart(o)'
    BY <1>2, <1>4, <1>7, <1>8, <2>1, <2>3 DEF RowFree, RowsApart
  <2> QED
    BY <2>5, <2>6, <2>7, <2>8 DEF Apart
<1>10. CASE form[topic] # "blob"
  <2>1. UNCHANGED <<pushed, parsed>>
    BY <1>10 DEF PushDue
  <2>2. (Has(parsed, o)' <=> Has(parsed, o)) /\ ~Has(parsed, o)
    BY <1>2, <1>3, <1>10, <2>1 DEF RowFree
  <2>3. NotMade(o)' /\ TupleFree(o)' /\ RowFree(o)'
    BY <1>2, <1>3, <1>4, <1>6, <1>8, <2>1, <2>2 DEF NotMade, TupleFree, RowFree
  <2>4. DueFrom(o)' /\ RowsApart(o)'
    BY <1>2, <1>4, <1>7, <1>8, <1>10, <2>1 DEF DueFrom, RowsApart
  <2> QED
    BY <2>3, <2>4 DEF Apart
<1> QED
  BY <1>9, <1>10

(* What is given back. *)
LEMMA GiveBackFacts ==
  ASSUME DeliveryTypes, NEW p \in Refs, NEW S, GiveBack(p, S)
  PROVE  \/ tuples' = tuples
         \/ /\ p # 0 /\ ~InUse(p, S) /\ tuples' = Append(tuples, p)
            /\ \A o : Has(tuples', o) <=> Has(tuples, o) \/ o = p
<1>1. tuples \in Seq(Refs)
  BY DEF DeliveryTypes, ParserTypes
<1>2. \A o : Has(Append(tuples, p), o) <=> Has(tuples, o) \/ o = p
  BY <1>1, HasAppend
<1> QED
  BY <1>2 DEF GiveBack

LEMMA ReleaseApart ==
  ASSUME ObjectsInv, Release
  PROVE  ObjectsApart'
<1> SUFFICES ASSUME NEW o \in Objects, o # 0
             PROVE  Apart(o)'
  BY DEF ObjectsApart
<1>1. DeliveryTypes /\ ParserShape /\ pushed \in Refs
  BY DEF ObjectsInv, DeliveryTypes, ParserTypes
<1>2. NotMade(o) /\ TupleFree(o) /\ RowFree(o) /\ DueFrom(o) /\ RowsApart(o)
  BY ApartParts
<1>3. (Referred(o)' <=> Referred(o)) /\ (ByBlob(o)' <=> ByBlob(o))
  BY SameHandlers DEF Release
<1>4. UNCHANGED <<form, used, parsing, topic, due, columns, cache, parsed>> /\ pushed' = 0
  BY DEF Release
<1>5. /\ Has(cache, o)' <=> Has(cache, o)
      /\ Has(parsed, o)' <=> Has(parsed, o)
      /\ Within(o, due)' <=> Within(o, due)
  BY <1>4
<1>6. Has(tuples, o)' => Has(tuples, o) \/ (o = pushed /\ ~Referred(o))
  <2>1. GiveBack(pushed, Topics)
    BY DEF Release
  <2>2. InUse(o, Topics) <=> Referred(o)
    BY DEF InUse, InClient, InQueue, HeldBy, IsKept, Referred, Refers, Holds, Within
  <2>3. \/ tuples' = tuples
        \/ /\ pushed # 0 /\ ~InUse(pushed, Topics)
           /\ \A x : Has(tuples', x) <=> Has(tuples, x) \/ x = pushed
    BY <1>1, <2>1, GiveBackFacts
  <2> QED
    BY <2>2, <2>3
<1>7. NotMade(o)'
  BY <1>2, <1>3, <1>4, <1>5, <1>6 DEF NotMade
<1>8. TupleFree(o)'
  BY <1>2, <1>3, <1>4, <1>5, <1>6 DEF TupleFree, RowsApart, DueFrom, RowFree
<1>9. RowFree(o)' /\ DueFrom(o)' /\ RowsApart(o)'
  BY <1>2, <1>3, <1>4, <1>5 DEF RowFree, DueFrom, RowsApart
<1> QED
  BY <1>7, <1>8, <1>9 DEF Apart

LEMMA EndApart ==
  ASSUME ObjectsInv, EndMessage
  PROVE  ObjectsApart'
<1> SUFFICES ASSUME NEW o \in Objects, o # 0
             PROVE  Apart(o)'
  BY DEF ObjectsApart
<1>1. NotMade(o) /\ TupleFree(o) /\ RowFree(o) /\ DueFrom(o) /\ RowsApart(o)
  BY ApartParts
<1>2. (Referred(o)' <=> Referred(o)) /\ (ByBlob(o)' <=> ByBlob(o))
  BY SameHandlers DEF EndMessage
<1>3. /\ UNCHANGED <<used, due, pushed, tuples>> /\ due = <<>>
      /\ cache' = <<>> /\ parsed' = <<>> /\ columns' = 0
  BY DEF EndMessage
<1>4. ~Has(cache, o)' /\ ~Has(parsed, o)' /\ ~Within(o, due)' /\ (Has(tuples, o)' <=> Has(tuples, o))
  BY <1>3, NothingIn
<1> QED
  BY <1>1, <1>2, <1>3, <1>4 DEF Apart, NotMade, TupleFree, RowFree, RowsApart, DueFrom

(* A step of another thread after which it refers to nothing more than     *)
(* before, and which gives nothing back.                                   *)
LEMMA FewerReferred ==
  ASSUME ObjectsInv, UNCHANGED <<form, used, parserVars>>,
         \A o \in Objects \ {0} : Referred(o)' => Referred(o),
         \A o \in Objects \ {0} : ByBlob(o)' => ByBlob(o),
         tuples' = tuples
  PROVE  ObjectsApart'
<1> SUFFICES ASSUME NEW o \in Objects, o # 0
             PROVE  Apart(o)'
  BY DEF ObjectsApart
<1>1. NotMade(o) /\ TupleFree(o) /\ RowFree(o) /\ DueFrom(o) /\ RowsApart(o)
  BY ApartParts
<1>2. (Referred(o)' => Referred(o)) /\ (ByBlob(o)' => ByBlob(o))
  OBVIOUS
<1>3. UNCHANGED <<form, used, parsing, topic, due, columns, cache, parsed, pushed, tuples>>
  BY DEF parserVars
<1>4. /\ Has(cache, o)' <=> Has(cache, o)
      /\ Has(parsed, o)' <=> Has(parsed, o)
      /\ Within(o, due)' <=> Within(o, due)
      /\ Has(tuples, o)' <=> Has(tuples, o)
  BY <1>3
<1> QED
  BY <1>1, <1>2, <1>3, <1>4 DEF Apart, NotMade, TupleFree, RowFree, RowsApart, DueFrom

LEMMA PopApart ==
  ASSUME ObjectsInv, NEW t \in Topics, PopNext(t)
  PROVE  ObjectsApart'
<1>1. DeliveryTypes
  BY DEF ObjectsInv
<1>2. queues[t] \in Seq(SharedMessages) /\ queues[t] # <<>>
  BY <1>1 DEF DeliveryTypes, HandlerTypes, PopNext
<1>3. /\ msg'[t] = Head(queues[t]) /\ queues'[t] = Tail(queues[t])
      /\ \A u \in Topics \ {t} : msg'[u] = msg[u] /\ queues'[u] = queues[u]
      /\ UNCHANGED <<form, used, parserVars, kept, tuples>>
  BY <1>1 DEF DeliveryTypes, HandlerTypes, PopNext
<1>4. \A o : Within(o, queues[t]) <=> Head(queues[t]).object = o \/ Within(o, Tail(queues[t]))
  BY <1>2, WithinTail
<1>5. \A o, u : u \in Topics => (Holds(u, o)' => Holds(u, o))
  <2> SUFFICES ASSUME NEW o, NEW u \in Topics, Holds(u, o)'
               PROVE  Holds(u, o)
    OBVIOUS
  <2>1. CASE u = t
    BY <1>3, <1>4, <2>1 DEF Holds
  <2>2. CASE u # t
    BY <1>3, <2>2 DEF Holds
  <2> QED
    BY <2>1, <2>2
<1>6. \A o \in Objects \ {0} : (Referred(o)' => Referred(o)) /\ (ByBlob(o)' => ByBlob(o))
  BY <1>3, <1>5 DEF Referred, Refers, ByBlob
<1> QED
  BY <1>3, <1>6, FewerReferred

LEMMA MergeApart ==
  ASSUME ObjectsInv, NEW t \in Topics, Merge(t)
  PROVE  ObjectsApart'
<1>1. DeliveryTypes
  BY DEF ObjectsInv
<1>2. queues[t] \in Seq(SharedMessages) /\ queues[t] # <<>> /\ msg[t] \in SharedMessages
  BY <1>1 DEF DeliveryTypes, HandlerTypes, Merge
<1>3. PICK n : msg' = [msg EXCEPT ![t].size = n]
  BY DEF Merge
<1>4. /\ queues'[t] = Tail(queues[t]) /\ \A u \in Topics \ {t} : queues'[u] = queues[u]
      /\ UNCHANGED <<form, used, parserVars, kept, tuples>>
  BY <1>1 DEF DeliveryTypes, HandlerTypes, Merge
<1>5. \A u \in Topics : msg'[u].object = msg[u].object
  <2>1. msg \in [Topics -> SharedMessages]
    BY <1>1 DEF DeliveryTypes, HandlerTypes
  <2>2. [msg[t] EXCEPT !.size = n].object = msg[t].object
    BY <1>2 DEF SharedMessages
  <2> QED
    BY <1>3, <2>1, <2>2
<1>6. \A o : Within(o, Tail(queues[t])) => Within(o, queues[t])
  BY <1>2, WithinTail
<1>7. \A o, u : u \in Topics => (Holds(u, o)' => Holds(u, o))
  <2> SUFFICES ASSUME NEW o, NEW u \in Topics, Holds(u, o)'
               PROVE  Holds(u, o)
    OBVIOUS
  <2>1. CASE u = t
    BY <1>4, <1>5, <1>6, <2>1 DEF Holds
  <2>2. CASE u # t
    BY <1>4, <1>5, <2>2 DEF Holds
  <2> QED
    BY <2>1, <2>2
<1>8. \A o \in Objects \ {0} : (Referred(o)' => Referred(o)) /\ (ByBlob(o)' => ByBlob(o))
  BY <1>4, <1>7 DEF Referred, Refers, ByBlob
<1> QED
  BY <1>4, <1>8, FewerReferred

LEMMA LetGoApart ==
  ASSUME ObjectsInv, NEW t \in Topics, LetGo(t)
  PROVE  ObjectsApart'
<1>1. /\ UNCHANGED <<form, used, parserVars, queues, msg, tuples>>
      /\ \A u \in Topics : kept'[u] \subseteq kept[u]
  BY DEF LetGo, ObjectsInv, DeliveryTypes, HandlerTypes
<1>2. \A o, u : u \in Topics => (Holds(u, o)' <=> Holds(u, o))
  BY <1>1 DEF Holds
<1>3. \A o \in Objects \ {0} : (Referred(o)' => Referred(o)) /\ (ByBlob(o)' => ByBlob(o))
  BY <1>1, <1>2 DEF Referred, Refers, ByBlob
<1> QED
  BY <1>1, <1>3, FewerReferred

(* What is kept is the message itself, or the one object of such rows.     *)
LEMMA HandleApart ==
  ASSUME ObjectsInv, NEW t \in Topics, Handle(t)
  PROVE  ObjectsApart'
<1>1. DeliveryTypes /\ QueuesSound
  BY DEF ObjectsInv
<1>2. UNCHANGED <<form, used, parserVars, queues, msg, tuples>>
  BY DEF Handle
<1>3. \A o, u : u \in Topics => (Holds(u, o)' <=> Holds(u, o))
  BY <1>2 DEF Holds
<1>4. ASSUME NEW u \in Topics, NEW m \in kept'[u]
      PROVE  m \in kept[u] \/ m.object = msg[u].object \/ m.object = u
  <2>1. PICK c : c = Copies(t)
    OBVIOUS
  <2>2. kept' = kept \/ kept' = [kept EXCEPT ![t] = c]
    BY <1>1, <2>1, HandledRows
  <2>3. \A x \in c : x.object = msg[t].object \/ x.object = t
    <3>1. CASE form[t] = "rows"
      BY <2>1, <3>1 DEF Copies
    <3>2. CASE form[t] # "rows"
      BY <2>1, <3>2 DEF Copies
    <3> QED
      BY <3>1, <3>2
  <2>4. kept \in [Topics -> SUBSET KeptMessages]
    BY <1>1 DEF DeliveryTypes, HandlerTypes
  <2> QED
    BY <2>2, <2>3, <2>4
<1> SUFFICES ASSUME NEW o \in Objects, o # 0
             PROVE  Apart(o)'
  BY DEF ObjectsApart
<1>5. NotMade(o) /\ TupleFree(o) /\ RowFree(o) /\ DueFrom(o) /\ RowsApart(o)
  BY ApartParts
<1>6. ByBlob(o)' <=> ByBlob(o)
  BY <1>2, <1>3 DEF ByBlob
<1>7. Referred(o)' => Referred(o) \/ o \in Topics
  BY <1>3, <1>4 DEF Referred, Refers, Holds
<1>8. UNCHANGED <<form, used, parsing, topic, due, columns, cache, parsed, pushed, tuples>>
  BY <1>2 DEF parserVars
<1>9. /\ Has(cache, o)' <=> Has(cache, o)
      /\ Has(parsed, o)' <=> Has(parsed, o)
      /\ Within(o, due)' <=> Within(o, due)
      /\ Has(tuples, o)' <=> Has(tuples, o)
  BY <1>8
<1>10. o \in Topics => /\ ~(o > used) /\ ~Has(tuples, o) /\ ~Has(parsed, o)
  <2> SUFFICES ASSUME o \in Topics
               PROVE  ~(o > used) /\ ~Has(tuples, o) /\ ~Has(parsed, o)
    OBVIOUS
  <2>1. o \notin Refs /\ o <= TopicCount /\ o \in Nat
    BY ConstantFacts
  <2>2. tuples \in Seq(Refs) /\ parsed \in Seq(Refs) /\ used \in TopicCount .. MaxObjects
    BY <1>1 DEF DeliveryTypes, ObjectTypes, ParserTypes
  <2>3. (\A i \in DOMAIN tuples : tuples[i] \in Refs) /\ (\A i \in DOMAIN parsed : parsed[i] \in Refs)
    BY <2>2
  <2> QED
    BY <2>1, <2>2, <2>3, ConstantFacts DEF Has
<1> QED
  BY <1>5, <1>6, <1>7, <1>8, <1>9, <1>10
  DEF Apart, NotMade, TupleFree, RowFree, RowsApart, DueFrom

LEMMA DoneApart ==
  ASSUME ObjectsInv, NEW t \in Topics, Done(t)
  PROVE  ObjectsApart'
<1>1. DeliveryTypes /\ msg \in [Topics -> SharedMessages]
  BY DEF ObjectsInv, DeliveryTypes, HandlerTypes
<1>2. /\ UNCHANGED <<form, used, parserVars, queues, kept>>
      /\ msg'[t] = None /\ \A u \in Topics \ {t} : msg'[u] = msg[u]
  BY <1>1 DEF Done
<1>3. \A o, u : u \in Topics /\ o # 0 => (Holds(u, o)' => Holds(u, o) /\ (u # t \/ Within(o, queues[u])))
  <2> SUFFICES ASSUME NEW o, NEW u \in Topics, o # 0, Holds(u, o)'
               PROVE  Holds(u, o) /\ (u # t \/ Within(o, queues[u]))
    OBVIOUS
  <2>1. CASE u = t
    BY <1>2, <2>1 DEF Holds, None
  <2>2. CASE u # t
    BY <1>2, <2>2 DEF Holds
  <2> QED
    BY <2>1, <2>2
<1>4. \A o \in Objects \ {0} : (Referred(o)' => Referred(o)) /\ (ByBlob(o)' => ByBlob(o))
  BY <1>2, <1>3 DEF Referred, Refers, ByBlob
<1>5. CASE tuples' = tuples
  BY <1>2, <1>4, <1>5, FewerReferred
<1>6. CASE tuples' # tuples
  <2>1. PICK p \in Refs : p = msg[t].object
    BY <1>1 DEF SharedMessages
  <2>2. form[t] = "blob" /\ p # pushed /\ GiveBack(p, Topics \ {t})
    BY <1>6, <2>1 DEF Done
  <2>3. /\ p # 0 /\ ~InUse(p, Topics \ {t})
        /\ \A o : Has(tuples', o) <=> Has(tuples, o) \/ o = p
    BY <1>1, <1>6, <2>2, GiveBackFacts
  <2> SUFFICES ASSUME NEW o \in Objects, o # 0
               PROVE  Apart(o)'
    BY DEF ObjectsApart
  <2>4. NotMade(o) /\ TupleFree(o) /\ RowFree(o) /\ DueFrom(o) /\ RowsApart(o)
    BY ApartParts
  <2>5. UNCHANGED <<form, used, parsing, topic, due, columns, cache, parsed, pushed>>
    BY <1>2 DEF parserVars
  <2>6. /\ Has(cache, o)' <=> Has(cache, o)
        /\ Has(parsed, o)' <=> Has(parsed, o)
        /\ Within(o, due)' <=> Within(o, due)
    BY <2>5
  <2>7. (Referred(o)' => Referred(o)) /\ (ByBlob(o)' => ByBlob(o))
    BY <1>4
  <2>8. o = p => ByBlob(o) /\ Referred(o) /\ ~Referred(o)'
    <3> SUFFICES ASSUME o = p
                 PROVE  ByBlob(o) /\ Referred(o) /\ ~Referred(o)'
      OBVIOUS
    <3>1. ByBlob(o) /\ Referred(o)
      BY <2>1, <2>2 DEF ByBlob, Referred, Refers, Holds
    <3>2. \A u \in Topics : ~Within(o, queues[u]) /\ ~(\E m \in kept[u] : m.object = o)
      BY <2>3 DEF InUse, InClient, InQueue, IsKept, Within
    <3>3. \A u \in Topics \ {t} : msg[u].object # o
      BY <2>3 DEF InUse, InClient, HeldBy
    <3>4. \A u \in Topics : ~Holds(u, o)'
      BY <1>3, <3>2, <3>3 DEF Holds
    <3> QED
      BY <1>2, <3>1, <3>2, <3>4 DEF Referred, Refers
  <2>9. NotMade(o)'
    BY <2>3, <2>4, <2>5, <2>6, <2>7, <2>8 DEF NotMade
  <2>10. TupleFree(o)'
    BY <2>2, <2>3, <2>4, <2>5, <2>6, <2>7, <2>8 DEF TupleFree, RowsApart, DueFrom, RowFree
  <2>11. RowFree(o)' /\ DueFrom(o)' /\ RowsApart(o)'
    BY <2>4, <2>5, <2>6, <2>7 DEF RowFree, DueFrom, RowsApart
  <2> QED
    BY <2>9, <2>10, <2>11 DEF Apart
<1> QED
  BY <1>5, <1>6

LEMMA ObjectsApartNext ==
  ASSUME ObjectsInv, [DeliveryNext]_deliveryVars
  PROVE  ObjectsApart'
<1>1. CASE Parse
  <2>1. TurnOfBlob => FirstBlob \/ NextBlob
    BY DEF FirstBlob, NextBlob
  <2> QED
    BY <1>1, <2>1, ReceiveApart, WholeApart, TupleApart, FirstBlobApart, NextBlobApart, PushApart,
       ReleaseApart, EndApart DEF Parse
<1>2. ASSUME NEW t \in Topics, HandlerStep(t) \/ LetGo(t) PROVE ObjectsApart'
  BY <1>2, PopApart, MergeApart, HandleApart, DoneApart, LetGoApart DEF HandlerStep
<1>3. CASE UNCHANGED deliveryVars
  <2>1. /\ UNCHANGED <<form, used, parserVars>> /\ UNCHANGED queues
        /\ UNCHANGED handlerVars /\ UNCHANGED tuples
    BY <1>3 DEF deliveryVars
  <2>2. \A o \in Objects \ {0} : (Referred(o)' => Referred(o)) /\ (ByBlob(o)' => ByBlob(o))
    BY <2>1, SameHandlers
  <2> QED
    BY <2>1, <2>2, FewerReferred
<1> QED
  BY <1>1, <1>2, <1>3 DEF DeliveryNext

-----------------------------------------------------------------------------
(* No object is twice where it may be only once. *)

LEMMA FormStays == [DeliveryNext]_deliveryVars => form' = form
BY DEF DeliveryNext, Parse, HandlerStep, deliveryVars, Receive, TurnOfWhole, TurnOfTuple, TurnOfBlob,
       PushDue, Release, EndMessage, PopNext, Merge, Handle, Done, LetGo

LEMMA AppendOnce ==
  ASSUME NEW s \in Seq(Refs), NEW p \in Refs, NoneTwice(s), ~Has(s, p)
  PROVE  NoneTwice(Append(s, p))
<1>1. /\ Len(s) \in Nat /\ DOMAIN s = 1 .. Len(s) /\ DOMAIN Append(s, p) = 1 .. Len(s) + 1
      /\ Append(s, p)[Len(s) + 1] = p /\ \A i \in 1 .. Len(s) : Append(s, p)[i] = s[i]
  OBVIOUS
<1> QED
  BY <1>1 DEF NoneTwice, Has

LEMMA NewTuplesOnce ==
  ASSUME ObjectsInv, NEW n \in Nat \ {0}, Room(n - Taken(n))
  PROVE  NoneTwice(NewTuples(n)) /\ NoneTwice(WithoutLast(Taken(n)))
<1>1. DeliveryTypes /\ NoneTwice(tuples)
  BY DEF ObjectsInv, OnceEach
<1>2. PICK k : k = Taken(n)
  OBVIOUS
<1>3. /\ tuples \in Seq(Refs) /\ used \in Nat
  BY <1>1, ConstantFacts DEF DeliveryTypes, ObjectTypes, ParserTypes
<1>4. PICK l \in Nat : l = Len(tuples) /\ DOMAIN tuples = 1 .. l
  BY <1>3
<1>5. /\ DOMAIN NewTuples(n) = 1 .. n /\ k \in 0 .. n /\ k <= l
      /\ \A i \in 1 .. k : l + 1 - i \in DOMAIN tuples /\ NewTuples(n)[i] = tuples[l + 1 - i]
      /\ \A i \in k + 1 .. n : NewTuples(n)[i] = used + i - l /\ NewTuples(n)[i] > used
      /\ \A i \in DOMAIN WithoutLast(k) : i \in DOMAIN tuples /\ WithoutLast(k)[i] = tuples[i]
  BY <1>1, <1>2, <1>4, NewTuplesFacts
<1>6. \A i \in DOMAIN tuples : tuples[i] # 0 => tuples[i] \in Nat /\ tuples[i] <= used
  <2> SUFFICES ASSUME NEW i \in DOMAIN tuples, tuples[i] # 0
               PROVE  tuples[i] \in Nat /\ tuples[i] <= used
    OBVIOUS
  <2>1. PICK o \in Refs : o = tuples[i]
    BY <1>3
  <2>2. o \in Objects /\ o \in Nat
    BY ConstantFacts
  <2>3. NotMade(o)
    BY <2>1, <2>2, ApartParts
  <2>4. Has(tuples, o)
    BY <2>1 DEF Has
  <2> QED
    BY <1>3, <2>1, <2>2, <2>3, <2>4 DEF NotMade
<1>7. ASSUME NEW i \in 1 .. n, NEW j \in 1 .. n, NewTuples(n)[i] = NewTuples(n)[j], NewTuples(n)[i] # 0
      PROVE  i = j
  <2>1. CASE i <= k /\ j <= k
    <3>1. i \in 1 .. k /\ j \in 1 .. k
      BY <1>5, <2>1
    <3>2. l + 1 - i = l + 1 - j
      BY <1>1, <1>5, <1>7, <3>1 DEF NoneTwice
    <3> QED
      BY <3>2
  <2>2. CASE i > k /\ j > k
    <3>1. i \in k + 1 .. n /\ j \in k + 1 .. n
      BY <1>5, <2>2
    <3> QED
      BY <1>3, <1>5, <1>7, <3>1
  <2>3. CASE i <= k /\ j > k
    <3>1. i \in 1 .. k /\ j \in k + 1 .. n
      BY <1>5, <2>3
    <3>2. NewTuples(n)[i] \in Nat /\ NewTuples(n)[i] <= used
      BY <1>5, <1>6, <1>7, <3>1
    <3> QED
      BY <1>3, <1>5, <1>7, <3>1, <3>2
  <2>4. CASE i > k /\ j <= k
    <3>1. i \in k + 1 .. n /\ j \in 1 .. k
      BY <1>5, <2>4
    <3>2. NewTuples(n)[j] \in Nat /\ NewTuples(n)[j] <= used
      BY <1>5, <1>6, <1>7, <3>1
    <3> QED
      BY <1>3, <1>5, <1>7, <3>1, <3>2
  <2> QED
    BY <1>5, <2>1, <2>2, <2>3, <2>4
<1>8. NoneTwice(NewTuples(n))
  BY <1>5, <1>7 DEF NoneTwice
<1>9. NoneTwice(WithoutLast(k))
  BY <1>1, <1>5 DEF NoneTwice
<1> QED
  BY <1>2, <1>8, <1>9

LEMMA TuplesOnce ==
  ASSUME ObjectsInv, [DeliveryNext]_deliveryVars
  PROVE  NoneTwice(tuples')
<1>1. DeliveryTypes /\ ParserShape /\ NoneTwice(tuples) /\ tuples \in Seq(Refs)
  BY DEF ObjectsInv, OnceEach, DeliveryTypes, ParserTypes
<1>2. CASE FirstBlob
  <2>1. PICK n \in Nat \ {0} : n = RowCount
    BY <1>1, <1>2, FirstBlobFacts
  <2>2. Room(n - Taken(n)) /\ tuples' = WithoutLast(Taken(n))
    BY <1>1, <1>2, <2>1, FirstBlobFacts
  <2> QED
    BY <2>2, NewTuplesOnce
<1>3. ASSUME NEW p \in Refs, NEW S, GiveBack(p, S), Referred(p) \/ p = pushed
      PROVE  NoneTwice(tuples')
  <2>1. CASE tuples' = tuples
    BY <1>1, <2>1
  <2>2. CASE tuples' # tuples
    <3>1. p # 0 /\ tuples' = Append(tuples, p)
      BY <1>1, <1>3, <2>2, GiveBackFacts
    <3>2. p \in Objects
      BY ConstantFacts
    <3>3. ~Has(tuples, p)
      BY <1>3, <3>1, <3>2, ApartParts DEF TupleFree
    <3> QED
      BY <1>1, <3>1, <3>3, AppendOnce
  <2> QED
    BY <2>1, <2>2
<1>4. CASE Release
  <2>1. pushed \in Refs /\ GiveBack(pushed, Topics)
    BY <1>1, <1>4 DEF Release, DeliveryTypes, ParserTypes
  <2> QED
    BY <1>3, <2>1
<1>5. ASSUME NEW t \in Topics, Done(t) PROVE NoneTwice(tuples')
  <2>1. PICK p \in Refs : p = msg[t].object
    BY <1>1 DEF DeliveryTypes, HandlerTypes, SharedMessages
  <2>2. Referred(p)
    BY <2>1 DEF Referred, Refers, Holds
  <2>3. tuples' = tuples \/ GiveBack(p, Topics \ {t})
    BY <1>5, <2>1 DEF Done
  <2> QED
    BY <1>1, <1>3, <2>2, <2>3
<1>6. CASE Receive \/ TurnOfWhole \/ TurnOfTuple \/ NextBlob \/ PushDue \/ EndMessage
  BY <1>1, <1>6 DEF Receive, TurnOfWhole, TurnOfTuple, NextBlob, TurnOfBlob, PushDue, EndMessage
<1>7. ASSUME NEW t \in Topics, PopNext(t) \/ Merge(t) \/ Handle(t) \/ LetGo(t)
      PROVE  NoneTwice(tuples')
  BY <1>1, <1>7 DEF PopNext, Merge, Handle, LetGo
<1>8. CASE UNCHANGED deliveryVars
  BY <1>1, <1>8 DEF deliveryVars
<1>9. TurnOfBlob => FirstBlob \/ NextBlob
  BY DEF FirstBlob, NextBlob
<1> QED
  BY <1>2, <1>4, <1>5, <1>6, <1>7, <1>8, <1>9 DEF DeliveryNext, Parse, HandlerStep

DueOnce ==
  \A i, j \in DOMAIN due :
    form[topic] = "blob" /\ due[i].object = due[j].object /\ due[i].object # 0 => i = j

LEMMA ParsedOnce ==
  ASSUME ObjectsInv, [DeliveryNext]_deliveryVars
  PROVE  NoneTwice(parsed') /\ DueOnce'
<1>1. DeliveryTypes /\ ParserShape /\ NoneTwice(parsed) /\ DueOnce
  BY DEF ObjectsInv, OnceEach, DueOnce
<1>2. NoneTwice(<<>>) /\ (due' = <<>> => DueOnce')
  BY DEF NoneTwice, DueOnce
<1>3. CASE Receive
  <2>1. due' = <<>> /\ parsed' = <<>>
    BY <1>1, <1>3 DEF Receive, ParserShape
  <2> QED
    BY <1>2, <2>1
<1>4. CASE TurnOfWhole \/ TurnOfTuple
  <2>1. form' = form /\ parsed' = parsed /\ form[topic'] # "blob"
    BY <1>4 DEF TurnOfWhole, TurnOfTuple, Columnar
  <2> QED
    BY <1>1, <2>1 DEF DueOnce
<1>5. ASSUME NEW s \in Seq(Refs), Len(s) = RowCount, NoneTwice(s), parsing # "idle",
             due' = [i \in 1 .. RowCount |-> RowMessage(s[i], i)]
      PROVE  DueOnce'
  <2>1. PICK d : d = due' /\ d = [i \in 1 .. RowCount |-> RowMessage(s[i], i)]
    BY <1>5
  <2>2. s \in Seq(Refs) /\ Len(s) = RowCount /\ parsing # "idle"
    BY <1>5
  <2>3. DOMAIN d = DOMAIN s /\ \A i \in DOMAIN d : d[i].object = s[i]
    BY <1>1, <2>1, <2>2, RowsAsMessages
  <2> QED
    BY <1>5, <2>1, <2>3 DEF NoneTwice, DueOnce
<1>6. CASE FirstBlob
  <2>1. PICK n \in Nat \ {0} : n = RowCount
    BY <1>1, <1>6, FirstBlobFacts
  <2>2. Room(n - Taken(n)) /\ parsed' = NewTuples(n)
    BY <1>1, <1>6, <2>1, FirstBlobFacts
  <2>3. NoneTwice(parsed')
    BY <2>2, NewTuplesOnce
  <2>4. PICK s \in Seq(Refs) :
           /\ s = parsed' /\ Len(s) = RowCount
           /\ due' = due \/ due' = [i \in 1 .. RowCount |-> RowMessage(s[i], i)]
    BY <1>1, <1>6, FirstBlobMakes
  <2>5. NoneTwice(s)
    BY <2>3, <2>4
  <2>6. due = <<>> /\ parsing # "idle"
    BY <1>1, <1>6, NextTopicFacts DEF FirstBlob, TurnOfBlob
  <2> QED
    BY <1>2, <1>5, <2>3, <2>4, <2>5, <2>6
<1>7. CASE NextBlob
  <2>1. parsed \in Seq(Refs) /\ Len(parsed) = RowCount
    BY <1>1, <1>7 DEF NextBlob, DeliveryTypes, ParserTypes, ParserShape
  <2>2. parsing # "idle"
    BY <1>1, <1>7, NextTopicFacts DEF NextBlob, TurnOfBlob
  <2>3. parsed' = parsed /\ due' = [i \in 1 .. RowCount |-> RowMessage(parsed[i], i)]
    BY <1>7 DEF NextBlob, TurnOfBlob
  <2> QED
    BY <1>1, <1>5, <2>1, <2>2, <2>3
<1>8. CASE PushDue
  <2>1. due \in Seq(SharedMessages) /\ due # <<>> /\ due' = Tail(due)
    BY <1>8, PushFacts
  <2>2. /\ Len(due) \in Nat \ {0} /\ Len(Tail(due)) = Len(due) - 1
        /\ \A i \in 1 .. Len(Tail(due)) : Tail(due)[i] = due[i + 1]
    BY <2>1, TailFacts
  <2>3. DOMAIN due = 1 .. Len(due) /\ DOMAIN Tail(due) = 1 .. Len(due) - 1
    BY <2>1, <2>2
  <2>4. \A i \in DOMAIN due' : i \in Nat /\ i + 1 \in DOMAIN due /\ due'[i] = due[i + 1]
    BY <2>1, <2>2, <2>3
  <2>5. form' = form /\ topic' = topic
    BY <1>8 DEF PushDue
  <2>6. DueOnce'
    <3> SUFFICES ASSUME NEW i \in DOMAIN due', NEW j \in DOMAIN due', form[topic] = "blob",
                        due'[i].object = due'[j].object, due'[i].object # 0
                 PROVE  i = j
      BY <2>5 DEF DueOnce
    <3>1. i + 1 = j + 1
      BY <1>1, <2>4 DEF DueOnce
    <3> QED
      BY <2>4, <3>1
  <2>7. NoneTwice(parsed')
    <3>1. PICK p : p = pushed'
      OBVIOUS
    <3>2. \/ parsed' = parsed
          \/ parsed' = [i \in DOMAIN parsed |-> IF parsed[i] = p THEN 0 ELSE parsed[i]]
      BY <1>8, <3>1 DEF PushDue
    <3> QED
      BY <1>1, <3>2 DEF NoneTwice
  <2> QED
    BY <2>6, <2>7
<1>9. CASE Release
  BY <1>1, <1>9 DEF Release, DueOnce
<1>10. CASE EndMessage
  <2>1. due' = <<>> /\ parsed' = <<>>
    BY <1>10 DEF EndMessage
  <2> QED
    BY <1>2, <2>1
<1>11. ASSUME UNCHANGED parserVars, form' = form
       PROVE  NoneTwice(parsed') /\ DueOnce'
  BY <1>1, <1>11 DEF DueOnce, parserVars
<1>12. ASSUME NEW t \in Topics, HandlerStep(t) \/ LetGo(t)
       PROVE  NoneTwice(parsed') /\ DueOnce'
  <2>1. UNCHANGED parserVars /\ form' = form
    BY <1>12 DEF HandlerStep, PopNext, Merge, Handle, Done, LetGo
  <2> QED
    BY <1>11, <2>1
<1>13. CASE UNCHANGED deliveryVars
  BY <1>11, <1>13 DEF deliveryVars
<1>14. TurnOfBlob => FirstBlob \/ NextBlob
  BY DEF FirstBlob, NextBlob
<1> QED
  BY <1>3, <1>4, <1>6, <1>7, <1>8, <1>9, <1>10, <1>12, <1>13, <1>14 DEF DeliveryNext, Parse

LEMMA OnceEachNext ==
  ASSUME ObjectsInv, [DeliveryNext]_deliveryVars
  PROVE  OnceEach'
<1>1. NoneTwice(tuples)' /\ NoneTwice(parsed)' /\ DueOnce'
  BY TuplesOnce, ParsedOnce
<1> QED
  BY <1>1 DEF OnceEach, DueOnce

-----------------------------------------------------------------------------
(* Messages have as many rows as they say. *)

LEMMA SoundStays ==
  ASSUME ObjectsInv, [DeliveryNext]_deliveryVars, NEW t \in Topics, NEW m \in SharedMessages, Sound(t, m),
         m.object # 0 => Referred(m.object) \/ Within(m.object, due)
  PROVE  Sound(t, m)'
<1>1. m.object \in Refs /\ m.size \in Nat
  BY DEF SharedMessages
<1>2. PICK o \in Refs : o = m.object
  BY <1>1
<1>3. form' = form
  BY FormStays
<1>4. CASE o = 0
  BY <1>2, <1>3, <1>4 DEF Sound
<1>5. CASE o # 0
  <2>1. Grown(o)
    BY <1>2, <1>5, ReferredGrows
  <2>2. m.size # 0 /\ m.size <= Len(objects[o])
    BY <1>2, <1>5 DEF Sound
  <2>3. m.size <= Len(objects'[o])
    BY <1>1, <2>1, <2>2 DEF Grown
  <2> QED
    BY <1>2, <1>5, <2>2, <2>3 DEF Sound
<1> QED
  BY <1>4, <1>5

(* Rows one by one. *)
LEMMA RowsSound ==
  ASSUME ObjectsInv, parsing # "idle", NEW t \in Topics,
         NEW s \in Seq(Refs), Len(s) = RowCount,
         NEW d, d = [i \in 1 .. RowCount |-> RowMessage(s[i], i)],
         \A o \in Refs : Has(s, o) => IF o = 0 THEN form'[t] = "blob" ELSE Len(objects'[o]) \in Nat \ {0}
  PROVE  \A i \in DOMAIN d : Sound(t, d[i])'
<1>1. DeliveryTypes /\ ParserShape
  BY DEF ObjectsInv
<1>2. DOMAIN d = DOMAIN s /\ \A i \in DOMAIN d : d[i].object = s[i] /\ d[i].size = 1
  BY <1>1, RowsAsMessages
<1> SUFFICES ASSUME NEW i \in DOMAIN d
             PROVE  Sound(t, d[i])'
  OBVIOUS
<1>3. PICK o \in Refs : o = s[i] /\ Has(s, o)
  BY <1>2 DEF Has
<1>4. d[i].object = o /\ d[i].size = 1
  BY <1>2, <1>3
<1>5. o = 0 => form'[t] = "blob"
  BY <1>3
<1>6. o # 0 => 1 <= Len(objects'[o])
  BY <1>3
<1> QED
  BY <1>4, <1>5, <1>6 DEF Sound

LEMMA FilledOne ==
  ASSUME DeliveryTypes, ParserShape, parsing # "idle",
         NEW s \in Seq(Refs), Len(s) = RowCount, NEW o \in Refs, Has(s, o)
  PROVE  Len(Filled(s)[o]) \in Nat \ {0}
<1>1. o \in Objects
  BY ConstantFacts
<1>2. PICK r : Filled(s)[o] = <<r>>
  BY <1>1, FilledFacts
<1> QED
  BY <1>2

LEMMA DueSoundNext ==
  ASSUME ObjectsInv, [DeliveryNext]_deliveryVars
  PROVE  DueSound'
<1>1. DeliveryTypes /\ ParserShape /\ DueSound /\ SourceSound /\ due \in Seq(SharedMessages)
  BY DEF ObjectsInv, DeliveryTypes, ParserTypes
<1>2. due' = <<>> => DueSound'
  BY DEF DueSound
<1>3. ASSUME \A i \in DOMAIN due' : \E j \in DOMAIN due : due'[i] = due[j],
             topic' = topic
      PROVE  DueSound'
  <2> SUFFICES ASSUME NEW i \in DOMAIN due'
               PROVE  Sound(topic, due[i])'
    BY DEF DueSound
  <2>1. PICK j \in DOMAIN due : due'[i] = due[j]
    BY <1>3
  <2>2. topic \in Topics
    <3>1. due # <<>>
      BY <1>1, <2>1
    <3> QED
      BY <1>1, <3>1, ConstantFacts DEF ParserShape, DeliveryTypes, ParserTypes, Topics
  <2>3. PICK t \in Topics : t = topic
    BY <2>2
  <2>4. PICK m \in SharedMessages : m = due[j]
    BY <1>1
  <2>5. Sound(t, m) /\ Within(m.object, due)
    BY <1>1, <2>3, <2>4 DEF DueSound, Within
  <2>6. Sound(t, m)'
    BY <2>5, SoundStays
  <2>7. topic' = t /\ due'[i] = m
    BY <1>3, <2>1, <2>3, <2>4
  <2> QED
    BY <2>6, <2>7 DEF Sound
<1>4. ASSUME NextTopic, topic' = topic + 1,
             NEW s \in Seq(Refs), Len(s) = RowCount,
             due' = [i \in 1 .. RowCount |-> RowMessage(s[i], i)],
             \A o \in Refs : Has(s, o) => IF o = 0 THEN form'[topic + 1] = "blob"
                                                   ELSE Len(objects'[o]) \in Nat \ {0}
      PROVE  DueSound'
  <2>1. PICK d : d = due'
    OBVIOUS
  <2>2. parsing # "idle" /\ topic + 1 \in Topics
    BY <1>1, <1>4, NextTopicFacts
  <2>3. PICK t \in Topics : t = topic + 1
    BY <2>2
  <2>4. \A i \in DOMAIN d : Sound(t, d[i])'
    BY <1>4, <2>1, <2>2, <2>3, RowsSound
  <2> QED
    BY <1>4, <2>1, <2>3, <2>4 DEF DueSound, Sound
<1>5. CASE Receive
  <2>1. due' = <<>>
    BY <1>1, <1>5 DEF Receive, ParserShape
  <2> QED
    BY <1>2, <2>1
<1>6. CASE TurnOfWhole
  <2>1. NextTopic /\ due' = <<Whole>> /\ objects' = objects /\ form' = form
    BY <1>6 DEF TurnOfWhole
  <2>2. parsing # "idle"
    BY <1>1, <2>1, NextTopicFacts
  <2>3. RowCount \in Nat \ {0} /\ columns # 0 /\ RowCount <= Len(objects[columns])
    BY <1>1, <2>2, MessageFacts DEF SourceSound, ParserShape
  <2>4. PICK m : m = Whole
    OBVIOUS
  <2>5. m.size = RowCount /\ m.object = columns
    BY <2>4 DEF Whole
  <2>6. \A i \in DOMAIN due' : due'[i] = m
    BY <2>1, <2>4
  <2> QED
    BY <2>1, <2>3, <2>5, <2>6 DEF DueSound, Sound
<1>7. CASE TurnOfTuple
  <2>1. PICK s \in Seq(Refs) : s = cache' /\ Len(s) = RowCount
    BY <1>1, <1>7, TupleFacts
  <2>2. NextTopic /\ topic' = topic + 1 /\ due' = [i \in 1 .. RowCount |-> RowMessage(s[i], i)]
    BY <1>7, <2>1 DEF TurnOfTuple
  <2>3. parsing # "idle"
    BY <1>1, <2>2, NextTopicFacts
  <2>4. ASSUME NEW o \in Refs, Has(s, o) PROVE o # 0 /\ Len(objects'[o]) \in Nat \ {0}
    <3>1. CASE cache = <<>>
      <4>1. objects' = Filled(cache') /\ o > used
        BY <1>1, <1>7, <2>1, <2>4, <3>1, TupleFacts
      <4>2. objects' = Filled(s)
        BY <2>1, <4>1
      <4>3. o # 0
        BY <1>1, <4>1, ConstantFacts DEF DeliveryTypes, ObjectTypes
      <4> QED
        BY <1>1, <2>1, <2>3, <2>4, <4>2, <4>3, FilledOne
    <3>2. CASE cache # <<>>
      <4>1. s = cache /\ objects' = objects
        BY <1>1, <1>7, <2>1, <3>2, TupleFacts
      <4>2. o # 0 /\ Len(objects[o]) # 0
        BY <1>1, <2>4, <4>1 DEF SourceSound, Has
      <4>3. objects[o] \in Seq(Nat)
        BY <1>1, ConstantFacts DEF DeliveryTypes, ObjectTypes
      <4>4. Len(objects[o]) \in Nat
        BY <4>3
      <4> QED
        BY <4>1, <4>2, <4>4
    <3> QED
      BY <3>1, <3>2
  <2> QED
    BY <1>4, <2>1, <2>2, <2>4
<1>8. CASE FirstBlob
  <2>1. PICK s \in Seq(Refs) :
           /\ s = parsed' /\ Len(s) = RowCount /\ objects' = Filled(s)
           /\ due' = due \/ due' = [i \in 1 .. RowCount |-> RowMessage(s[i], i)]
    BY <1>1, <1>8, FirstBlobMakes
  <2>2. NextTopic /\ topic' = topic + 1 /\ form'[topic + 1] = "blob"
    BY <1>8 DEF FirstBlob, TurnOfBlob
  <2>3. parsing # "idle" /\ due = <<>>
    BY <1>1, <2>2, NextTopicFacts
  <2>4. \A o \in Refs : Has(s, o) => Len(objects'[o]) \in Nat \ {0}
    BY <1>1, <2>1, <2>3, FilledOne
  <2> QED
    BY <1>2, <1>4, <2>1, <2>2, <2>3, <2>4
<1>9. CASE NextBlob
  <2>1. parsed \in Seq(Refs) /\ Len(parsed) = RowCount
    BY <1>1, <1>9 DEF NextBlob, DeliveryTypes, ParserTypes, ParserShape
  <2>2. /\ NextTopic /\ topic' = topic + 1 /\ form'[topic + 1] = "blob"
        /\ due' = [i \in 1 .. RowCount |-> RowMessage(parsed[i], i)]
    BY <1>9 DEF NextBlob, TurnOfBlob
  <2>3. parsing = "message" /\ due = <<>>
    BY <1>1, <2>2, NextTopicFacts
  <2>4. \A o \in Refs : Has(parsed, o) => o = 0
    BY <2>3, ConstantFacts, ApartParts, NothingIn DEF RowFree
  <2> QED
    BY <1>4, <2>1, <2>2, <2>4
<1>10. CASE PushDue
  <2>1. due # <<>> /\ due' = Tail(due) /\ topic' = topic
    BY <1>10 DEF PushDue
  <2>2. /\ Len(due) \in Nat \ {0} /\ Len(Tail(due)) = Len(due) - 1
        /\ \A i \in 1 .. Len(Tail(due)) : Tail(due)[i] = due[i + 1]
    BY <1>1, <2>1, TailFacts
  <2>3. DOMAIN due = 1 .. Len(due) /\ DOMAIN Tail(due) = 1 .. Len(due) - 1
    BY <1>1, <2>1, <2>2
  <2>4. \A i \in DOMAIN due' : i + 1 \in DOMAIN due /\ due'[i] = due[i + 1]
    BY <2>1, <2>2, <2>3
  <2> QED
    BY <1>3, <2>1, <2>4
<1>11. CASE EndMessage
  BY <1>2, <1>11 DEF EndMessage
<1>12. ASSUME due' = due, topic' = topic PROVE DueSound'
  BY <1>3, <1>12
<1>13. CASE Release
  BY <1>12, <1>13 DEF Release
<1>14. ASSUME NEW t \in Topics, HandlerStep(t) \/ LetGo(t)
       PROVE  DueSound'
  <2>1. UNCHANGED parserVars
    BY <1>14 DEF HandlerStep, PopNext, Merge, Handle, Done, LetGo
  <2> QED
    BY <1>12, <2>1 DEF parserVars
<1>15. CASE UNCHANGED deliveryVars
  BY <1>12, <1>15 DEF deliveryVars, parserVars
<1>16. TurnOfBlob => FirstBlob \/ NextBlob
  BY DEF FirstBlob, NextBlob
<1> QED
  BY <1>5, <1>6, <1>7, <1>8, <1>9, <1>10, <1>11, <1>13, <1>14, <1>15, <1>16 DEF DeliveryNext, Parse

(* The message of the server, and its rows. *)
LEMMA SourceSoundNext ==
  ASSUME ObjectsInv, [DeliveryNext]_deliveryVars
  PROVE  SourceSound'
<1>1. DeliveryTypes /\ ParserShape /\ SourceSound
  BY DEF ObjectsInv
<1>2. cache \in Seq(Refs) /\ columns \in Refs /\ used \in TopicCount .. MaxObjects
  BY <1>1 DEF DeliveryTypes, ParserTypes, ObjectTypes
<1>3. ASSUME NEW o \in Refs, o # 0, Has(cache, o) \/ o = columns
      PROVE  Grown(o)
  BY <1>3, ReferredGrows
<1>4. ASSUME UNCHANGED <<received, columns>>, parsing' # "idle" => parsing # "idle"
      PROVE  parsing' # "idle" => RowCount' <= Len(objects'[columns'])
  <2> SUFFICES ASSUME parsing' # "idle"
               PROVE  RowCount <= Len(objects'[columns])
    BY <1>4 DEF RowCount
  <2>1. parsing # "idle"
    BY <1>4
  <2>2. RowCount <= Len(objects[columns]) /\ columns # 0 /\ RowCount \in Nat
    BY <1>1, <2>1, MessageFacts DEF SourceSound, ParserShape
  <2>3. Len(objects[columns]) \in Nat /\ Len(objects'[columns]) \in Nat
        /\ Len(objects[columns]) <= Len(objects'[columns])
    BY <1>2, <1>3, <2>2 DEF Grown
  <2> QED
    BY <2>2, <2>3
<1>5. ASSUME cache' = cache
      PROVE  \A i \in DOMAIN cache' : cache'[i] # 0 /\ Len(objects'[cache'[i]]) # 0
  <2> SUFFICES ASSUME NEW i \in DOMAIN cache
               PROVE  cache[i] # 0 /\ Len(objects'[cache[i]]) # 0
    BY <1>5
  <2>1. PICK o \in Refs : o = cache[i]
    BY <1>2
  <2>2. o # 0 /\ Len(objects[o]) # 0
    BY <1>1, <2>1 DEF SourceSound
  <2>3. Grown(o)
    BY <1>3, <2>1, <2>2 DEF Has
  <2> QED
    BY <2>1, <2>2, <2>3 DEF Grown
<1>6. ASSUME cache' = <<>>
      PROVE  \A i \in DOMAIN cache' : cache'[i] # 0 /\ Len(objects'[cache'[i]]) # 0
  BY <1>6
<1>7. CASE Receive
  <2>1. /\ received' = received + 1 /\ columns' = used + 1 /\ cache' = <<>>
        /\ objects' = [objects EXCEPT ![used + 1] = RowsOf(received + 1)]
    BY <1>7 DEF Receive
  <2>2. used + 1 \in Objects
    <3>1. Room(1)
      BY <1>7 DEF Receive
    <3> QED
      BY <1>1, <3>1, NewObject
  <2>3. received + 1 \in 1 .. Len(Published)
    <3>1. received \in 0 .. Len(Published) /\ received < Len(Published)
      BY <1>1, <1>7 DEF DeliveryTypes, ParserTypes, Receive
    <3>2. Len(Published) \in Nat
      BY DeliveryAssumption
    <3> QED
      BY <3>1, <3>2
  <2>4. PICK k \in 1 .. Len(Published) : k = received + 1
    BY <2>3
  <2>5. objects'[columns'] = RowsOf(k)
    BY <1>1, <2>1, <2>2, <2>4 DEF DeliveryTypes, ObjectTypes
  <2>6. RowCount' = Published[k].rows
    BY <2>1, <2>4 DEF RowCount
  <2>7. RowCount' <= Len(objects'[columns'])
    BY <2>5, <2>6, PublishedFacts
  <2> QED
    BY <1>6, <2>1, <2>7 DEF SourceSound
<1>8. CASE TurnOfWhole \/ PushDue \/ Release
  <2>1. UNCHANGED <<received, columns, parsing, cache>>
    BY <1>8 DEF TurnOfWhole, PushDue, Release
  <2> QED
    BY <1>4, <1>5, <2>1 DEF SourceSound
<1>9. CASE TurnOfBlob
  <2>1. UNCHANGED <<received, columns, cache>> /\ parsing # "idle"
    BY <1>1, <1>9, NextTopicFacts DEF TurnOfBlob
  <2> QED
    BY <1>4, <1>5, <2>1 DEF SourceSound
<1>10. CASE TurnOfTuple
  <2>1. UNCHANGED <<received, columns, parsing>>
    BY <1>10 DEF TurnOfTuple
  <2>2. CASE cache # <<>>
    <3>1. cache' = cache
      BY <1>1, <1>10, <2>2, TupleFacts
    <3> QED
      BY <1>4, <1>5, <2>1, <3>1 DEF SourceSound
  <2>3. CASE cache = <<>>
    <3>1. PICK s \in Seq(Refs) : s = cache' /\ Len(s) = RowCount
      BY <1>1, <1>10, TupleFacts
    <3>2. objects' = Filled(s)
      <4>1. objects' = Filled(cache')
        BY <1>1, <1>10, <2>3, TupleFacts
      <4>2. Filled(cache') = Filled(s)
        BY <3>1
      <4> QED
        BY <4>1, <4>2
    <3>3. parsing # "idle"
      BY <1>1, <1>10, NextTopicFacts DEF TurnOfTuple
    <3>4. \A o \in Refs : Has(s, o) => Len(objects'[o]) # 0
      BY <1>1, <3>1, <3>2, <3>3, FilledOne
    <3>5. \A o : Has(s, o) => o > used
      BY <1>1, <1>10, <2>3, <3>1, TupleFacts
    <3>6. \A i \in DOMAIN s : s[i] \in Refs /\ Has(s, s[i])
      BY DEF Has
    <3>7. \A i \in DOMAIN s : s[i] # 0 /\ Len(objects'[s[i]]) # 0
      <4> SUFFICES ASSUME NEW i \in DOMAIN s
                   PROVE  s[i] # 0 /\ Len(objects'[s[i]]) # 0
        OBVIOUS
      <4>1. PICK o \in Refs : o = s[i] /\ Has(s, o)
        BY <3>6
      <4>2. o > used /\ Len(objects'[o]) # 0
        BY <3>4, <3>5, <4>1
      <4> QED
        BY <1>2, <4>1, <4>2, ConstantFacts
    <3> QED
      BY <1>4, <2>1, <3>1, <3>7 DEF SourceSound
  <2> QED
    BY <2>2, <2>3
<1>11. CASE EndMessage
  BY <1>6, <1>11 DEF EndMessage, SourceSound
<1>12. ASSUME UNCHANGED parserVars PROVE SourceSound'
  BY <1>4, <1>5, <1>12 DEF SourceSound, parserVars
<1>13. ASSUME NEW t \in Topics, HandlerStep(t) \/ LetGo(t)
       PROVE  SourceSound'
  BY <1>12, <1>13 DEF HandlerStep, PopNext, Merge, Handle, Done, LetGo
<1>14. CASE UNCHANGED deliveryVars
  BY <1>12, <1>14 DEF deliveryVars
<1> QED
  BY <1>7, <1>8, <1>9, <1>10, <1>11, <1>13, <1>14 DEF DeliveryNext, Parse

(* Where the messages of a queue come from. *)
LEMMA QueueElements ==
  ASSUME ObjectsInv, [DeliveryNext]_deliveryVars, NEW u \in Topics, NEW i \in DOMAIN queues'[u]
  PROVE  /\ queues'[u][i] \in SharedMessages
         /\ \/ \E j \in DOMAIN queues[u] : queues'[u][i] = queues[u][j]
            \/ PushDue /\ u = topic /\ queues'[u][i] = Head(due)
<1>1. queues \in [Topics -> Seq(SharedMessages)]
  BY DEF ObjectsInv, DeliveryTypes, HandlerTypes
<1>2. PICK q \in Seq(SharedMessages) : q = queues[u]
  BY <1>1
<1>3. PICK r : r = queues'[u]
  OBVIOUS
<1>4. \A j \in DOMAIN q : q[j] \in SharedMessages
  BY <1>2
<1>5. CASE r = q
  BY <1>2, <1>3, <1>4, <1>5
<1>6. CASE r = Tail(q) /\ q # <<>>
  <2>1. /\ Len(q) \in Nat \ {0} /\ Len(Tail(q)) = Len(q) - 1
        /\ \A j \in 1 .. Len(Tail(q)) : Tail(q)[j] = q[j + 1]
    BY <1>6, TailFacts
  <2>2. DOMAIN q = 1 .. Len(q) /\ DOMAIN Tail(q) = 1 .. Len(q) - 1
    BY <1>6, <2>1
  <2>3. i + 1 \in DOMAIN q /\ r[i] = q[i + 1]
    BY <1>3, <1>6, <2>1, <2>2
  <2> QED
    BY <1>2, <1>3, <1>4, <2>3
<1>7. CASE PushDue
  <2>1. /\ topic \in Topics /\ Head(due) \in SharedMessages
        /\ queues' = [queues EXCEPT ![topic] = Append(@, Head(due))]
        /\ \A v \in Topics \ {topic} : queues'[v] = queues[v]
    BY <1>7, PushFacts
  <2>2. CASE u # topic
    BY <1>2, <1>3, <1>5, <2>1, <2>2
  <2>3. CASE u = topic
    <3>1. PICK m \in SharedMessages : m = Head(due)
      BY <2>1
    <3>2. r = Append(q, m)
      BY <1>1, <1>2, <1>3, <2>1, <2>3, <3>1
    <3>3. \A j \in DOMAIN r : (j \in DOMAIN q /\ r[j] = q[j]) \/ r[j] = m
      BY <3>2
    <3> QED
      BY <1>2, <1>3, <1>4, <1>7, <2>3, <3>1, <3>3
  <2> QED
    BY <2>2, <2>3
<1>8. ASSUME NEW t \in Topics, PopNext(t) \/ Merge(t)
      PROVE  r = q \/ (r = Tail(q) /\ q # <<>>)
  BY <1>1, <1>2, <1>3, <1>8 DEF PopNext, Merge
<1>9. ASSUME NEW t \in Topics, Handle(t) \/ Done(t) \/ LetGo(t)
      PROVE  r = q
  BY <1>2, <1>3, <1>9 DEF Handle, Done, LetGo
<1>10. CASE Receive \/ TurnOfWhole \/ TurnOfTuple \/ TurnOfBlob \/ Release \/ EndMessage
  <2>1. r = q
    BY <1>2, <1>3, <1>10 DEF Receive, TurnOfWhole, TurnOfTuple, TurnOfBlob, Release, EndMessage
  <2> QED
    BY <1>5, <2>1
<1>11. CASE UNCHANGED deliveryVars
  BY <1>2, <1>3, <1>5, <1>11 DEF deliveryVars
<1> QED
  BY <1>5, <1>6, <1>7, <1>8, <1>9, <1>10, <1>11 DEF DeliveryNext, Parse, HandlerStep

LEMMA QueuedSound ==
  ASSUME ObjectsInv, [DeliveryNext]_deliveryVars, NEW u \in Topics, NEW i \in DOMAIN queues'[u]
  PROVE  Sound(u, queues[u][i])'
<1>1. PICK m \in SharedMessages : m = queues'[u][i]
  BY QueueElements
<1>2. Sound(u, m) /\ (Within(m.object, queues[u]) \/ Within(m.object, due))
  <2>1. CASE \E j \in DOMAIN queues[u] : m = queues[u][j]
    BY <2>1 DEF ObjectsInv, QueuesSound, QueueSound, Within
  <2>2. CASE PushDue /\ u = topic /\ m = Head(due)
    <3>1. 1 \in DOMAIN due /\ m = due[1]
      BY <2>2, PushFacts
    <3> QED
      BY <2>2, <3>1 DEF ObjectsInv, DueSound, Within
  <2> QED
    BY <1>1, <2>1, <2>2, QueueElements
<1>3. Referred(m.object) \/ Within(m.object, due)
  BY <1>2 DEF Referred, Refers, Holds
<1>4. Sound(u, m)'
  BY <1>2, <1>3, SoundStays
<1> QED
  BY <1>1, <1>4 DEF Sound

LEMMA HeldSound ==
  ASSUME ObjectsInv, [DeliveryNext]_deliveryVars, NEW u \in Topics
  PROVE  IF stage'[u] = "none" THEN msg'[u] = None ELSE Sound(u, msg[u])'
<1>1. /\ DeliveryTypes /\ QueueSound(u) /\ queues \in [Topics -> Seq(SharedMessages)]
      /\ msg \in [Topics -> SharedMessages]
      /\ stage \in [Topics -> {"none", "popped", "merged", "handled"}]
  BY DEF ObjectsInv, DeliveryTypes, HandlerTypes, QueuesSound
<1>2. PICK m \in SharedMessages : m = msg[u]
  BY <1>1
<1>3. ASSUME msg'[u] = msg[u], stage'[u] = "none" <=> stage[u] = "none"
      PROVE  IF stage'[u] = "none" THEN msg'[u] = None ELSE Sound(u, msg[u])'
  <2>1. CASE stage[u] = "none"
    BY <1>1, <1>3, <2>1 DEF QueueSound
  <2>2. CASE stage[u] # "none"
    <3>1. Sound(u, m) /\ Referred(m.object)
      BY <1>1, <1>2, <2>2 DEF QueueSound, Referred, Refers, Holds
    <3>2. Sound(u, m)'
      BY <3>1, SoundStays
    <3> QED
      BY <1>2, <1>3, <2>2, <3>2 DEF Sound
  <2> QED
    BY <2>1, <2>2
<1>4. ASSUME NEW t \in Topics, t # u, HandlerStep(t) \/ LetGo(t)
      PROVE  msg'[u] = msg[u] /\ stage'[u] = stage[u]
  <2>1. PICK n : msg' = msg \/ msg' = [msg EXCEPT ![t] = Head(queues[t])] \/ msg' = [msg EXCEPT ![t] = None]
                 \/ msg' = [msg EXCEPT ![t].size = n]
    BY <1>4 DEF HandlerStep, PopNext, Merge, Handle, Done, LetGo
  <2>2. msg'[u] = msg[u]
    BY <1>1, <1>4, <2>1
  <2>3. \/ stage' = stage
        \/ \E l : stage' = [stage EXCEPT ![t] = l]
    BY <1>4 DEF HandlerStep, PopNext, Merge, Handle, Done, LetGo, Goes
  <2> QED
    BY <1>1, <1>4, <2>2, <2>3
<1>5. CASE PopNext(u)
  <2>1. queues[u] \in Seq(SharedMessages) /\ queues[u] # <<>>
    BY <1>1, <1>5 DEF PopNext
  <2>2. PICK h \in SharedMessages : h = Head(queues[u])
    BY <2>1
  <2>3. 1 \in DOMAIN queues[u] /\ h = queues[u][1]
    BY <2>1, <2>2
  <2>4. Sound(u, h) /\ Referred(h.object)
    BY <1>1, <2>3 DEF QueueSound, Referred, Refers, Holds, Within
  <2>5. Sound(u, h)'
    BY <2>4, SoundStays
  <2>6. msg'[u] = h /\ stage'[u] # "none"
    BY <1>1, <1>5, <2>2 DEF PopNext, Goes
  <2> QED
    BY <2>5, <2>6 DEF Sound
<1>6. CASE Merge(u)
  <2>1. stage[u] = "popped" /\ form[u] # "blob" /\ queues[u] # <<>>
    BY <1>6 DEF Merge, MayMerge
  <2>2. Sound(u, m) /\ m.object # 0
    BY <1>1, <1>2, <2>1 DEF QueueSound, Sound
  <2>3. PICK o \in Refs : o = m.object
    BY <1>2 DEF SharedMessages
  <2>4. PICK h \in SharedMessages : h = Head(queues[u]) /\ h = queues[u][1] /\ 1 \in DOMAIN queues[u]
    BY <1>1, <2>1
  <2>5. Sound(u, h) /\ h.object # 0 /\ h.object \in Refs /\ h.size \in Nat
    BY <1>1, <2>1, <2>4 DEF QueueSound, Sound, SharedMessages
  <2>6. o \in Objects /\ h.object \in Objects
    BY <2>3, <2>5, ConstantFacts
  <2>7. PICK a \in Seq(Nat) : a = objects[o]
    BY <1>1, <2>6 DEF DeliveryTypes, ObjectTypes
  <2>8. PICK b \in Seq(Nat) : b = objects[h.object]
    BY <1>1, <2>6 DEF DeliveryTypes, ObjectTypes
  <2>9. Len(a) # 0
    BY <1>2, <2>2, <2>3, <2>7 DEF Sound, SharedMessages
  <2>10. PICK n : n = Len(a \o b) /\ n \in Nat \ {0}
    BY <2>9, JoinFacts
  <2>11. objects' = [objects EXCEPT ![o] = a \o b] /\ msg' = [msg EXCEPT ![u].size = n]
    BY <1>2, <1>6, <2>3, <2>4, <2>7, <2>8, <2>10 DEF Merge
  <2>12. objects'[o] = a \o b
    BY <1>1, <2>6, <2>11 DEF DeliveryTypes, ObjectTypes
  <2>13. msg'[u].size = n /\ msg'[u].object = o
    <3>1. msg'[u] = [m EXCEPT !.size = n]
      BY <1>1, <1>2, <2>11
    <3> QED
      BY <1>2, <2>3, <3>1 DEF SharedMessages
  <2>14. stage'[u] # "none"
    BY <1>1, <1>6, <2>1 DEF Merge, Goes
  <2> QED
    BY <2>2, <2>3, <2>10, <2>12, <2>13, <2>14 DEF Sound
<1>7. CASE Handle(u)
  <2>1. msg' = msg /\ stage[u] # "none" /\ stage'[u] # "none"
    BY <1>1, <1>7 DEF Handle, Goes
  <2> QED
    BY <1>3, <2>1
<1>8. CASE Done(u)
  <2>1. msg'[u] = None /\ stage'[u] = "none"
    BY <1>1, <1>8 DEF Done, Goes
  <2> QED
    BY <2>1
<1>9. CASE LetGo(u)
  BY <1>3, <1>9 DEF LetGo
<1>10. CASE Parse \/ UNCHANGED deliveryVars
  <2>1. UNCHANGED handlerVars
    BY <1>10 DEF Parse, deliveryVars, Receive, TurnOfWhole, TurnOfTuple, TurnOfBlob, PushDue, Release,
                 EndMessage
  <2> QED
    BY <1>3, <2>1 DEF handlerVars
<1>11. ASSUME NEW t \in Topics, HandlerStep(t) \/ LetGo(t)
       PROVE  IF stage'[u] = "none" THEN msg'[u] = None ELSE Sound(u, msg[u])'
  <2>1. CASE t = u
    BY <1>5, <1>6, <1>7, <1>8, <1>9, <1>11, <2>1 DEF HandlerStep
  <2>2. CASE t # u
    <3>1. msg'[u] = msg[u] /\ stage'[u] = stage[u]
      BY <1>4, <1>11, <2>2
    <3> QED
      BY <1>3, <3>1
  <2> QED
    BY <2>1, <2>2
<1> QED
  BY <1>10, <1>11 DEF DeliveryNext

LEMMA QueuesSoundNext ==
  ASSUME ObjectsInv, [DeliveryNext]_deliveryVars
  PROVE  QueuesSound'
<1> SUFFICES ASSUME NEW u \in Topics
             PROVE  QueueSound(u)'
  BY DEF QueuesSound
<1>1. \A i \in DOMAIN queues'[u] : Sound(u, queues[u][i])'
  BY QueuedSound
<1>2. IF stage'[u] = "none" THEN msg'[u] = None ELSE Sound(u, msg[u])'
  BY HeldSound
<1> QED
  BY <1>1, <1>2 DEF QueueSound

-----------------------------------------------------------------------------
(* What the application keeps. *)

LEMMA StaysStays ==
  ASSUME ObjectsInv, [DeliveryNext]_deliveryVars, NEW m \in KeptMessages, Stays(m), Referred(m.object)
  PROVE  Stays(m)'
<1>1. PICK o \in Objects : o = m.object
  BY DEF KeptMessages
<1>2. o > TopicCount /\ Len(m.rows) \in Nat /\ o # 0
  BY <1>1, ConstantFacts DEF Stays, KeptMessages
<1>3. Grown(o)
  BY <1>1, <1>2, InPlace, ObjectsGrow
<1>4. /\ Len(m.rows) <= Len(objects[o])
      /\ \A i \in 1 .. Len(m.rows) : m.rows[i] = objects[o][i]
  BY <1>1 DEF Stays
<1>5. Len(m.rows) <= Len(objects'[o])
  BY <1>2, <1>3, <1>4 DEF Grown
<1>6. \A i \in 1 .. Len(m.rows) : i \in 1 .. Len(objects[o])
  BY <1>2, <1>3, <1>4 DEF Grown
<1>7. \A i \in 1 .. Len(m.rows) : m.rows[i] = objects'[o][i]
  BY <1>3, <1>4, <1>6 DEF Grown
<1> QED
  BY <1>1, <1>2, <1>5, <1>7 DEF Stays

LEMMA KeptStayNext ==
  ASSUME ObjectsInv, [DeliveryNext]_deliveryVars
  PROVE  KeptStay'
<1>1. /\ DeliveryTypes /\ QueuesSound /\ KeptStay /\ kept \in [Topics -> SUBSET KeptMessages]
      /\ form' = form
  BY FormStays DEF ObjectsInv, DeliveryTypes, HandlerTypes
<1> SUFFICES ASSUME NEW u \in Topics, form[u] # "rows", NEW m \in kept'[u]
             PROVE  Stays(m)'
  BY <1>1 DEF KeptStay
<1>2. CASE m \in kept[u]
  <2>1. m \in KeptMessages /\ Stays(m)
    BY <1>1, <1>2 DEF KeptStay
  <2>2. Referred(m.object)
    BY <1>2 DEF Referred, Refers
  <2> QED
    BY <2>1, <2>2, StaysStays
<1>3. CASE m \notin kept[u]
  <2>1. PICK t \in Topics : Handle(t)
    <3>1. kept' = kept \/ \E t \in Topics : Handle(t) \/ LetGo(t)
      BY DEF DeliveryNext, Parse, HandlerStep, deliveryVars, handlerVars, Receive, TurnOfWhole, TurnOfTuple,
             TurnOfBlob, PushDue, Release, EndMessage, PopNext, Merge, Done
    <3>2. ASSUME NEW t \in Topics, LetGo(t) PROVE FALSE
      <4>1. kept' = [kept EXCEPT ![t] = {}]
        BY <3>2 DEF LetGo
      <4> QED
        BY <1>1, <1>3, <4>1
    <3> QED
      BY <1>3, <3>1, <3>2
  <2>2. PICK c : c = Copies(t)
    OBVIOUS
  <2>3. /\ msg[t].object # 0 /\ c \subseteq KeptMessages /\ kept' = [kept EXCEPT ![t] = c]
    BY <1>1, <1>3, <2>1, <2>2, HandledRows
  <2>4. t = u /\ m \in c
    BY <1>1, <1>3, <2>3
  <2>5. objects' = objects
    BY <1>1, <2>1, <2>4, HandledRows
  <2>6. stage[t] # "none"
    BY <2>1 DEF Handle
  <2>7. /\ msg[t].size \in Nat /\ msg[t].object \in Refs /\ msg[t].size <= Len(objects[msg[t].object])
    BY <1>1, <2>3, <2>6, MessageHeld
  <2>8. PICK n \in Nat : n = msg[t].size
    BY <2>7
  <2>9. PICK o \in Refs : o = msg[t].object
    BY <2>7
  <2>10. m = [object |-> o, rows |-> [i \in 1 .. n |-> objects[o][i]]]
    BY <2>2, <2>4, <2>8, <2>9 DEF Copies
  <2>11. m.object = o /\ Len(m.rows) = n /\ \A i \in 1 .. n : m.rows[i] = objects[o][i]
    BY <2>10
  <2>12. o > TopicCount
    BY <2>3, <2>9, ConstantFacts
  <2> QED
    BY <2>5, <2>7, <2>8, <2>9, <2>11, <2>12 DEF Stays
<1> QED
  BY <1>2, <1>3

-----------------------------------------------------------------------------

LEMMA ObjectsInit == DeliveryInit => ObjectsInv
<1> SUFFICES ASSUME DeliveryInit PROVE ObjectsInv
  OBVIOUS
<1>1. DeliveryTypes
  BY InitTypes
<1>2. /\ parsing = "idle" /\ topic = 0 /\ due = <<>> /\ columns = 0 /\ cache = <<>> /\ parsed = <<>>
      /\ pushed = 0 /\ tuples = <<>>
      /\ \A t \in Topics : queues[t] = <<>> /\ msg[t] = None /\ stage[t] = "none" /\ kept[t] = {}
  BY DEF DeliveryInit
<1>3. ParserShape
  BY <1>2 DEF ParserShape
<1>4. \A o \in Objects \ {0} : ~Referred(o) /\ ~Within(o, due) /\ ~Has(cache, o) /\ ~Has(parsed, o)
                               /\ ~Has(tuples, o) /\ o # columns /\ o # pushed /\ ~ByBlob(o)
  <2> SUFFICES ASSUME NEW o \in Objects \ {0}
               PROVE  ~Referred(o) /\ ~ByBlob(o)
    BY <1>2, NothingIn
  <2>1. \A t \in Topics : ~Refers(t, o) /\ ~Holds(t, o)
    BY <1>2, NothingIn DEF Refers, Holds, None
  <2> QED
    BY <2>1 DEF Referred, ByBlob
<1>5. ObjectsApart
  BY <1>4 DEF ObjectsApart, Apart, NotMade, TupleFree, RowFree, DueFrom, RowsApart
<1>6. OnceEach
  BY <1>2 DEF OnceEach, NoneTwice
<1>7. DueSound /\ SourceSound
  BY <1>2 DEF DueSound, SourceSound
<1>8. QueuesSound /\ KeptStay
  BY <1>2 DEF QueuesSound, QueueSound, KeptStay
<1> QED
  BY <1>1, <1>3, <1>5, <1>6, <1>7, <1>8 DEF ObjectsInv

LEMMA ObjectsNext == ObjectsInv /\ [DeliveryNext]_deliveryVars => ObjectsInv'
<1> SUFFICES ASSUME ObjectsInv, [DeliveryNext]_deliveryVars PROVE ObjectsInv'
  OBVIOUS
<1>1. DeliveryTypes' /\ ObjectsApart' /\ OnceEach'
  BY DeliveryTypesNext, ObjectsApartNext, OnceEachNext
<1>2. ParserShape'
  BY ParserShapeNext DEF ObjectsInv
<1>3. DueSound' /\ SourceSound' /\ QueuesSound' /\ KeptStay'
  BY DueSoundNext, SourceSoundNext, QueuesSoundNext, KeptStayNext
<1> QED
  BY <1>1, <1>2, <1>3 DEF ObjectsInv

(* For any number of subscriptions in any forms, any messages and any limit *)
(* of the tuples that are kept for use again: no object that is used again *)
(* is with a handler thread, in a queue or with the application.           *)
THEOREM ObjectsCorrect == DeliverySpec => []ObjectsInv
<1> QED
  BY ObjectsInit, ObjectsNext, PTL DEF DeliverySpec

LEMMA StaysMeans ==
  ASSUME DeliveryTypes, NEW m \in KeptMessages, Stays(m)
  PROVE  m.rows = SubSeq(objects[m.object], 1, Len(m.rows))
<1>1. PICK s \in Seq(Nat) : s = m.rows
  BY DEF KeptMessages
<1>2. PICK x \in Seq(Nat) : x = objects[m.object]
  BY DEF KeptMessages, DeliveryTypes, ObjectTypes
<1>3. Len(s) \in Nat /\ Len(x) \in Nat /\ Len(s) <= Len(x) /\ \A i \in 1 .. Len(s) : s[i] = x[i]
  BY <1>1, <1>2 DEF Stays
<1>4. s = [i \in 1 .. Len(s) |-> s[i]]
  OBVIOUS
<1>5. SubSeq(x, 1, Len(s)) = [i \in 1 .. Len(s) |-> x[i]]
  BY <1>3
<1> QED
  BY <1>1, <1>2, <1>3, <1>4, <1>5

(* A message the application keeps goes on to hold the rows it had.        *)
THEOREM KeptRowsCorrect == DeliverySpec => []KeptRowsStay
<1>1. ObjectsInv => KeptRowsStay
  <2> SUFFICES ASSUME ObjectsInv, NEW t \in Topics, form[t] # "rows", NEW m \in kept[t]
               PROVE  m.rows = SubSeq(objects[m.object], 1, Len(m.rows))
    BY DEF KeptRowsStay
  <2>1. DeliveryTypes /\ m \in KeptMessages /\ Stays(m)
    BY DEF ObjectsInv, KeptStay, DeliveryTypes, HandlerTypes
  <2> QED
    BY <2>1, StaysMeans
<1> QED
  BY <1>1, ObjectsCorrect, PTL

-----------------------------------------------------------------------------
(* MessageDelivery: which rows come next. *)

Promised(t) == ~OthersMerge(t) /\ ~GivenAway(t)

EndOffset == IF received = 0 THEN 0 ELSE EndOf(received)
InHand(t) == stage[t] \in {"popped", "merged"}

(* The offset of what comes next into a queue, ... *)
Coming(t) ==
  IF topic = t /\ due # <<>> THEN due[1].offset
  ELSE IF parsing # "idle" /\ (topic < t \/ (topic = t /\ parsing = "ended")) THEN StartOffset
  ELSE EndOffset
(* ... out of it, ... *)
Ahead(t) == IF queues[t] = <<>> THEN Coming(t) ELSE queues[t][1].offset
(* ... and to the handler. *)
Position(t) == IF InHand(t) THEN msg[t].offset ELSE Ahead(t)

After(m) == m.offset + m.size
Numbered(m) == [i \in 1 .. m.size |-> m.offset + i - 1]

(* A message with the rows that its offset and size say, all of which are *)
(* due, or none. *)
Right(t, m) ==
  /\ m.object # 0 /\ m.size # 0 /\ m.offset >= 0 /\ After(m) <= EndOffset
  /\ objects[m.object] = Numbered(m)
  /\ \A r \in m.offset .. After(m) - 1 : r \in DueRows(t) <=> (form[t] = "event" => m.known)

QueueRight(t) == \A i \in DOMAIN queues[t] : Right(t, queues[t][i])
MsgRight(t) == InHand(t) => Right(t, msg[t])
DueRight(t) == topic = t => \A i \in DOMAIN due : Right(t, due[i])

Follow(s) == \A i \in 1 .. Len(s) - 1 : s[i + 1].offset = After(s[i])

QueueFollows(t) ==
  /\ Follow(queues[t])
  /\ queues[t] # <<>> => After(queues[t][Len(queues[t])]) = Coming(t)
MsgFollows(t) == InHand(t) => After(msg[t]) = Ahead(t)
DueFollows(t) == topic = t /\ due # <<>> => Follow(due) /\ After(due[Len(due)]) = EndOffset

(* What the subscriptions that come next make of the message. *)
ColumnsRight(t) == parsing = "message" /\ topic < t => objects[columns] = RowsOf(received)
CacheRight(t) ==
  form[t] = "tuple" => \A i \in DOMAIN cache : objects[cache[i]] = <<StartOffset + i - 1>>

(* Tables that one thread merges are different ones. *)
ColumnsNext(t) == parsing = "message" /\ (topic < t \/ (topic = t /\ due # <<>>))
InOrder(t) ==
  form[t] \in Merging =>
    /\ \A i, j \in DOMAIN queues[t] : i < j => queues[t][i].object < queues[t][j].object
    /\ \A i \in DOMAIN queues[t] : InHand(t) => msg[t].object < queues[t][i].object
    /\ \A i \in DOMAIN queues[t] : ColumnsNext(t) => queues[t][i].object < columns
    /\ ColumnsNext(t) => msg[t].object < columns
    /\ topic = t => Len(due) <= 1

HandedRight(t) ==
  /\ \A i \in DOMAIN handed[t] :
       /\ handed[t][i].row = handed[t][i].offset
       /\ handed[t][i].row \in DueRows(t) /\ handed[t][i].row < Position(t)
  /\ \A i, j \in DOMAIN handed[t] : i < j => handed[t][i].row < handed[t][j].row
  /\ \A r \in DueRows(t) : r < Position(t) => \E j \in DOMAIN handed[t] : handed[t][j].row = r

(* The deserializer has made rows only for a subscription that had its turn, *)
(* and has no message with nothing in it. *)
Deserialized ==
  /\ parsed # <<>> => \E u \in 1 .. topic : form[u] = "blob"
  /\ \A i \in DOMAIN tuples : tuples[i] # 0

Straight(t) ==
  /\ QueueRight(t) /\ MsgRight(t) /\ DueRight(t)
  /\ QueueFollows(t) /\ MsgFollows(t) /\ DueFollows(t)
  /\ ColumnsRight(t) /\ CacheRight(t) /\ InOrder(t) /\ HandedRight(t)

RowsInv == Deserialized /\ \A t \in Topics : Promised(t) => Straight(t)

LEMMA EndOfFacts ==
  ASSUME NEW k \in 1 .. Len(Published)
  PROVE  /\ EndOf(k) \in Nat /\ Published[k].offset \in Nat /\ Published[k].offset < EndOf(k)
         /\ EndOf(k) = Published[k].offset + Published[k].rows
         /\ k = 1 => Published[k].offset = 0
         /\ k # 1 => k - 1 \in 1 .. Len(Published) /\ Published[k].offset = EndOf(k - 1)
         /\ \A j \in 1 .. k - 1 : EndOf(j) <= Published[k].offset
<1>1. Published[k].rows \in Nat \ {0} /\ Published[k].offset \in Nat
  BY PublishedFacts
<1>2. EndOf(k) = Published[k].offset + Published[k].rows
  BY DEF EndOf
<1>3. Len(Published) \in Nat /\ DOMAIN Published = 1 .. Len(Published)
  BY DeliveryAssumption
<1>4. Published[k].offset = IF k = 1 THEN 0 ELSE EndOf(k - 1)
  BY <1>3, DeliveryAssumption
<1>5. \A j \in 1 .. k - 1 : EndOf(j) <= Published[k].offset
  <2>1. \A i, j \in DOMAIN Published : i < j => EndOf(i) <= Published[j].offset
    BY DeliveryAssumption
  <2>2. \A j \in 1 .. k - 1 : j \in DOMAIN Published /\ k \in DOMAIN Published /\ j < k
    BY <1>3
  <2> QED
    BY <2>1, <2>2
<1> QED
  BY <1>1, <1>2, <1>3, <1>4, <1>5

LEMMA EndOffsetFacts ==
  ASSUME DeliveryTypes
  PROVE  /\ EndOffset \in Nat /\ received \in Nat
         /\ \A k \in 1 .. received : k \in 1 .. Len(Published) /\ EndOf(k) <= EndOffset
         /\ received # 0 => /\ received \in 1 .. Len(Published) /\ EndOffset = EndOf(received)
                            /\ StartOffset \in Nat /\ StartOffset < EndOffset
                            /\ EndOffset = StartOffset + RowCount
<1>1. received \in 0 .. Len(Published) /\ Len(Published) \in Nat
  BY DeliveryAssumption DEF DeliveryTypes, ParserTypes
<1>2. CASE received = 0
  BY <1>1, <1>2 DEF EndOffset
<1>3. CASE received # 0
  <2>1. PICK n \in 1 .. Len(Published) : n = received
    BY <1>1, <1>3
  <2>2. /\ EndOf(n) \in Nat /\ Published[n].offset \in Nat /\ Published[n].offset < EndOf(n)
        /\ EndOf(n) = Published[n].offset + Published[n].rows
        /\ \A j \in 1 .. n - 1 : EndOf(j) <= Published[n].offset
    BY EndOfFacts
  <2>3. EndOffset = EndOf(n) /\ StartOffset = Published[n].offset /\ RowCount = Published[n].rows
    BY <2>1, <1>3 DEF EndOffset, StartOffset, RowCount
  <2>4. ASSUME NEW k \in 1 .. n PROVE k \in 1 .. Len(Published) /\ EndOf(k) <= EndOf(n)
    <3>1. k \in 1 .. Len(Published)
      BY <1>1
    <3>2. EndOf(k) \in Nat
      BY <3>1, EndOfFacts
    <3>3. k = n \/ k \in 1 .. n - 1
      OBVIOUS
    <3> QED
      BY <2>2, <3>1, <3>2, <3>3
  <2> QED
    BY <1>1, <2>1, <2>2, <2>3, <2>4
<1> QED
  BY <1>2, <1>3

LEMMA DueMeans ==
  ASSUME DeliveryTypes, NEW t \in Topics, NEW r \in Int
  PROVE  r \in DueRows(t) <=> \E k \in 1 .. received : /\ form[t] = "event" => Published[k].known
                                                       /\ Published[k].offset <= r /\ r < EndOf(k)
<1>1. \A k \in 1 .. received : k \in 1 .. Len(Published)
  BY EndOffsetFacts
<1>2. \A k \in 1 .. received : EndOf(k) \in Nat /\ Published[k].offset \in Nat
  BY <1>1, EndOfFacts
<1>3. r \in DueRows(t) <=> \E k \in 1 .. received : /\ form[t] = "event" => Published[k].known
                                                    /\ r \in Published[k].offset .. EndOf(k) - 1
  BY DEF DueRows
<1>4. \A k \in 1 .. received : r \in Published[k].offset .. EndOf(k) - 1
                               <=> Published[k].offset <= r /\ r < EndOf(k)
  BY <1>2
<1> QED
  BY <1>3, <1>4

LEMMA DueBelow ==
  ASSUME DeliveryTypes, NEW t \in Topics, NEW r \in DueRows(t)
  PROVE  r \in Nat /\ r < EndOffset
<1>1. PICK k \in 1 .. received : r \in Published[k].offset .. EndOf(k) - 1
  BY DEF DueRows
<1>2. k \in 1 .. Len(Published) /\ EndOf(k) <= EndOffset /\ EndOffset \in Nat
  BY EndOffsetFacts
<1>3. EndOf(k) \in Nat /\ Published[k].offset \in Nat
  BY <1>2, EndOfFacts
<1> QED
  BY <1>1, <1>2, <1>3

(* The rows of the message that is parsed. *)
LEMMA DueOfMessage ==
  ASSUME DeliveryTypes, received # 0, NEW t \in Topics, NEW r \in Int, StartOffset <= r, r < EndOffset
  PROVE  r \in DueRows(t) <=> (form[t] = "event" => Published[received].known)
<1>1. PICK n \in 1 .. Len(Published) : n = received
  BY EndOffsetFacts
<1>2. /\ EndOf(n) \in Nat /\ Published[n].offset \in Nat
      /\ \A j \in 1 .. n - 1 : EndOf(j) <= Published[n].offset
  BY EndOfFacts
<1>3. StartOffset = Published[n].offset /\ EndOffset = EndOf(n)
  BY <1>1, EndOffsetFacts DEF StartOffset
<1>4. ASSUME NEW k \in 1 .. n, r < EndOf(k)
      PROVE  k = n
  <2>1. k \in 1 .. Len(Published) /\ EndOf(k) \in Nat
    BY <1>1, EndOffsetFacts, EndOfFacts
  <2>2. CASE k \in 1 .. n - 1
    BY <1>2, <1>3, <1>4, <2>1, <2>2
  <2> QED
    BY <2>2
<1>5. n \in 1 .. n
  OBVIOUS
<1> QED
  BY <1>1, <1>3, <1>4, <1>5, DueMeans

LEMMA ReceivedStep ==
  ASSUME DeliveryTypes, [DeliveryNext]_deliveryVars
  PROVE  \/ received' = received
         \/ Receive /\ received' = received + 1 /\ received' \in 1 .. Len(Published)
<1>1. Receive => received' = received + 1 /\ received' \in 1 .. Len(Published)
  <2>1. received \in 0 .. Len(Published) /\ Len(Published) \in Nat
    BY DeliveryAssumption DEF DeliveryTypes, ParserTypes
  <2> QED
    BY <2>1 DEF Receive
<1>2. TurnOfWhole \/ TurnOfTuple \/ TurnOfBlob \/ PushDue \/ Release \/ EndMessage => received' = received
  BY DEF TurnOfWhole, TurnOfTuple, TurnOfBlob, PushDue, Release, EndMessage
<1>3. ASSUME NEW t \in Topics, HandlerStep(t) \/ LetGo(t) PROVE received' = received
  BY <1>3 DEF HandlerStep, PopNext, Merge, Handle, Done, LetGo, parserVars
<1>4. UNCHANGED deliveryVars => received' = received
  BY DEF deliveryVars, parserVars
<1> QED
  BY <1>1, <1>2, <1>3, <1>4 DEF DeliveryNext, Parse

LEMMA ReceiveOffsets ==
  ASSUME DeliveryTypes, Receive
  PROVE  StartOffset' = EndOffset /\ EndOffset <= EndOffset'
<1>1. PICK n \in Nat : n = received
  BY EndOffsetFacts
<1>2. n + 1 \in 1 .. Len(Published) /\ received' = n + 1
  <2>1. received \in 0 .. Len(Published) /\ Len(Published) \in Nat
    BY DeliveryAssumption DEF DeliveryTypes, ParserTypes
  <2> QED
    BY <1>1, <2>1 DEF Receive
<1>3. PICK k \in 1 .. Len(Published) : k = n + 1
  BY <1>2
<1>4. StartOffset' = Published[k].offset /\ EndOffset' = EndOf(k)
  BY <1>2, <1>3 DEF StartOffset, EndOffset
<1>5. /\ EndOf(k) \in Nat /\ Published[k].offset \in Nat /\ Published[k].offset < EndOf(k)
      /\ k = 1 => Published[k].offset = 0
      /\ k # 1 => Published[k].offset = EndOf(k - 1)
  BY EndOfFacts
<1>6. Published[k].offset = EndOffset
  <2>1. CASE n = 0
    BY <1>1, <1>3, <1>5, <2>1 DEF EndOffset
  <2>2. CASE n # 0
    <3>1. k - 1 = n /\ k # 1
      BY <1>3, <2>2
    <3> QED
      BY <1>1, <1>5, <2>2, <3>1 DEF EndOffset
  <2> QED
    BY <2>1, <2>2
<1> QED
  BY <1>4, <1>5, <1>6

LEMMA DueGrows ==
  ASSUME DeliveryTypes, [DeliveryNext]_deliveryVars, NEW t \in Topics
  PROVE  /\ EndOffset' \in Nat /\ EndOffset <= EndOffset'
         /\ \A r \in Int : r \in DueRows(t) => r \in DueRows(t)'
         /\ \A r \in Int : r < EndOffset => (r \in DueRows(t)' <=> r \in DueRows(t))
<1>1. form' = form
  BY FormStays
<1>2. EndOffset \in Nat
  BY EndOffsetFacts
<1>3. CASE received' = received
  <2>1. EndOffset' = EndOffset
    BY <1>3 DEF EndOffset
  <2>2. DueRows(t)' = DueRows(t)
    BY <1>1, <1>3 DEF DueRows
  <2> QED
    BY <1>2, <2>1, <2>2
<1>4. CASE Receive /\ received' = received + 1 /\ received' \in 1 .. Len(Published)
  <2>1. StartOffset' = EndOffset /\ EndOffset <= EndOffset'
    BY <1>4, ReceiveOffsets
  <2>2. PICK k \in 1 .. Len(Published) : k = received'
    BY <1>4
  <2>3. EndOf(k) \in Nat /\ Published[k].offset \in Nat
    BY EndOfFacts
  <2>4. EndOffset' = EndOf(k) /\ Published[k].offset = EndOffset
    BY <2>1, <2>2 DEF EndOffset, StartOffset
  <2>5. 1 .. k = (1 .. received) \cup {k}
    BY <1>4, <2>2, EndOffsetFacts
  <2>6. \A r \in Int : r \in DueRows(t)' <=>
          r \in DueRows(t) \/ ((form[t] = "event" => Published[k].known)
                               /\ r \in Published[k].offset .. EndOf(k) - 1)
    <3>1. DueRows(t)' =
            UNION {Published[l].offset .. EndOf(l) - 1 :
                     l \in {l \in 1 .. k : form[t] = "event" => Published[l].known}}
      BY <1>1, <2>2 DEF DueRows
    <3> QED
      BY <2>5, <3>1 DEF DueRows
  <2> QED
    BY <1>2, <2>1, <2>3, <2>4, <2>6
<1> QED
  BY <1>3, <1>4, ReceivedStep

(* Nobody else changes what a subscription refers to, where it gets the    *)
(* rows it was promised.                                                   *)
LEMMA ObjectStays ==
  ASSUME ObjectsInv, [DeliveryNext]_deliveryVars, NEW t \in Topics, Promised(t),
         NEW o \in Refs, o # 0,
         Referred(o) \/ Within(o, due) \/ Has(cache, o) \/ o = columns,
         Merge(t) => o # msg[t].object
  PROVE  objects'[o] = objects[o]
<1>1. o \in Objects /\ o > TopicCount
  BY ConstantFacts
<1>2. o <= used /\ ~Has(tuples, o)
  BY <1>1, InPlace
<1>3. ASSUME NEW u \in Topics, Merge(u), o = msg[u].object PROVE FALSE
  <2>1. form[u] \in Merging
    BY <1>3 DEF Merge, MayMerge, Merging
  <2>2. u = t
    BY <2>1 DEF Promised, OthersMerge
  <2> QED
    BY <1>3, <2>2
<1> QED
  BY <1>1, <1>2, <1>3, StepObjects

LEMMA RightStays ==
  ASSUME ObjectsInv, [DeliveryNext]_deliveryVars, NEW t \in Topics, Promised(t),
         NEW m \in SharedMessages, Right(t, m), Referred(m.object) \/ Within(m.object, due),
         Merge(t) => m.object # msg[t].object
  PROVE  Right(t, m)'
<1>1. m.object \in Refs /\ m.size \in Nat /\ m.offset \in Int /\ m.object # 0
  BY DEF SharedMessages, Right
<1>2. PICK o \in Refs : o = m.object
  BY <1>1
<1>3. objects'[o] = objects[o]
  BY <1>1, <1>2, ObjectStays
<1>4. DeliveryTypes /\ EndOffset \in Nat
  BY EndOffsetFacts DEF ObjectsInv
<1>5. PICK a \in Int : a = After(m)
  BY <1>1 DEF After
<1>6. a <= EndOffset
  BY <1>5 DEF Right
<1>7. EndOffset' \in Nat /\ EndOffset <= EndOffset'
      /\ \A r \in Int : r < EndOffset => (r \in DueRows(t)' <=> r \in DueRows(t))
  BY <1>4, DueGrows
<1>8. a <= EndOffset'
  BY <1>4, <1>6, <1>7
<1>9. \A r \in m.offset .. a - 1 : r \in Int /\ r < EndOffset
  BY <1>1, <1>4, <1>6
<1>10. form' = form
  BY FormStays
<1>11. \A r \in m.offset .. a - 1 : r \in DueRows(t)' <=> (form'[t] = "event" => m.known)
  BY <1>5, <1>7, <1>9, <1>10 DEF Right
<1>12. objects'[m.object] = Numbered(m)
  BY <1>2, <1>3 DEF Right
<1>13. m.size # 0 /\ m.offset >= 0
  BY DEF Right
<1> QED
  BY <1>1, <1>5, <1>8, <1>11, <1>12, <1>13 DEF Right, After, Numbered

(* A whole message, and one row of it.                                     *)
LEMMA WholeRight ==
  ASSUME DeliveryTypes, ParserShape, parsing # "idle", NEW t \in Topics,
         objects[columns] = RowsOf(received)
  PROVE  Right(t, Whole) /\ After(Whole) = EndOffset /\ Whole.offset = StartOffset
<1>1. PICK k \in 1 .. Len(Published) : k = received
  BY MessageFacts
<1>2. received # 0 /\ columns # 0
  BY DEF ParserShape
<1>3. /\ EndOffset = StartOffset + RowCount /\ StartOffset \in Nat /\ EndOffset \in Nat
  BY <1>2, EndOffsetFacts
<1>4. RowCount \in Nat \ {0}
  BY MessageFacts
<1>5. PICK m : m = Whole
  OBVIOUS
<1>6. m.object = columns /\ m.size = RowCount /\ m.offset = StartOffset /\ m.known = Published[received].known
  BY <1>5 DEF Whole
<1>7. After(m) = EndOffset
  BY <1>3, <1>6 DEF After
<1>8. objects[m.object] = Numbered(m)
  BY <1>6 DEF Numbered, RowsOf, RowCount, StartOffset
<1>9. \A r \in m.offset .. After(m) - 1 : r \in DueRows(t) <=> (form[t] = "event" => m.known)
  <2> SUFFICES ASSUME NEW r \in m.offset .. After(m) - 1
               PROVE  r \in DueRows(t) <=> (form[t] = "event" => m.known)
    OBVIOUS
  <2>1. r \in Int /\ StartOffset <= r /\ r < EndOffset
    BY <1>3, <1>6, <1>7
  <2> QED
    BY <1>2, <1>6, <2>1, DueOfMessage
<1> QED
  BY <1>2, <1>3, <1>4, <1>5, <1>6, <1>7, <1>8, <1>9 DEF Right

LEMMA RowRight ==
  ASSUME DeliveryTypes, ParserShape, parsing # "idle", NEW t \in Topics, form[t] # "event",
         NEW m, NEW i \in 1 .. RowCount, m.size = 1, m.offset = StartOffset + i - 1
  PROVE  /\ m.size # 0 /\ m.offset >= 0 /\ After(m) <= EndOffset
         /\ Numbered(m) = <<StartOffset + i - 1>>
         /\ \A r \in m.offset .. After(m) - 1 : r \in DueRows(t)
<1>1. received # 0
  BY DEF ParserShape
<1>2. PICK f \in Nat : f = StartOffset
  BY MessageFacts
<1>3. PICK n \in Nat : n = RowCount
  BY MessageFacts
<1>4. EndOffset = f + n
  BY <1>1, <1>2, <1>3, EndOffsetFacts
<1>5. i \in 1 .. n /\ m.offset = f + i - 1
  BY <1>2, <1>3
<1>6. After(m) = f + i
  BY <1>5 DEF After
<1>7. Numbered(m) = <<f + i - 1>>
  <2>1. Numbered(m) = [j \in 1 .. 1 |-> f + i - 1 + j - 1]
    BY <1>5 DEF Numbered
  <2>2. \A j \in 1 .. 1 : f + i - 1 + j - 1 = f + i - 1
    BY <1>5
  <2>3. Numbered(m) = [j \in 1 .. 1 |-> f + i - 1]
    BY <2>1, <2>2
  <2> QED
    BY <2>3
<1>8. \A r \in m.offset .. After(m) - 1 : r \in DueRows(t)
  <2> SUFFICES ASSUME NEW r \in m.offset .. After(m) - 1
               PROVE  r \in DueRows(t)
    OBVIOUS
  <2>1. r \in Int /\ StartOffset <= r /\ r < EndOffset
    BY <1>2, <1>4, <1>5, <1>6
  <2> QED
    BY <1>1, <2>1, DueOfMessage
<1> QED
  BY <1>2, <1>4, <1>5, <1>6, <1>7, <1>8

LEMMA SeqIs ==
  ASSUME NEW s \in Seq(Nat)
  PROVE  s = [i \in 1 .. Len(s) |-> s[i]]
OBVIOUS

(* A message and the next one that is merged into it.                      *)
Joins(x, m, h) ==
  /\ h.offset = After(m)
  /\ x.offset = m.offset
  /\ x.size = Len(Numbered(m) \o Numbered(h))

LEMMA MergedRight ==
  ASSUME DeliveryTypes, NEW t \in Topics, form[t] # "event",
         NEW m \in SharedMessages, NEW h \in SharedMessages, Right(t, m), Right(t, h),
         NEW x, Joins(x, m, h)
  PROVE  /\ x.size \in Nat \ {0} /\ After(x) = After(h) /\ Numbered(m) \o Numbered(h) = Numbered(x)
         /\ After(x) <= EndOffset
         /\ \A r \in x.offset .. After(x) - 1 : r \in DueRows(t)
<1>1. PICK n \in Nat \ {0} : n = m.size
  BY DEF SharedMessages, Right
<1>2. PICK k \in Nat \ {0} : k = h.size
  BY DEF SharedMessages, Right
<1>3. PICK f \in Nat : f = m.offset
  BY DEF SharedMessages, Right
<1>4. h.offset = f + n
  BY <1>1, <1>3 DEF After, Joins
<1>5. PICK p : p = Numbered(m)
  OBVIOUS
<1>6. PICK q : q = Numbered(h)
  OBVIOUS
<1>7. p = [i \in 1 .. n |-> f + i - 1]
  BY <1>1, <1>3, <1>5 DEF Numbered
<1>8. q = [i \in 1 .. k |-> f + n + i - 1]
  BY <1>2, <1>4, <1>6 DEF Numbered
<1>9. p \in Seq(Nat) /\ Len(p) = n
  <2>1. \A i \in 1 .. n : f + i - 1 \in Nat
    OBVIOUS
  <2>2. p \in [1 .. n -> Nat]
    BY <1>7, <2>1
  <2> QED
    BY <2>2
<1>10. q \in Seq(Nat) /\ Len(q) = k
  <2>1. \A i \in 1 .. k : f + n + i - 1 \in Nat
    OBVIOUS
  <2>2. q \in [1 .. k -> Nat]
    BY <1>8, <2>1
  <2> QED
    BY <2>2
<1>11. PICK b : b = p \o q
  OBVIOUS
<1>12. /\ b \in Seq(Nat) /\ Len(b) = n + k
       /\ \A i \in 1 .. n : b[i] = p[i]
       /\ \A i \in 1 .. k : b[n + i] = q[i]
  <2>1. /\ p \o q \in Seq(Nat) /\ Len(p \o q) = Len(p) + Len(q)
        /\ \A i \in 1 .. Len(p) : (p \o q)[i] = p[i]
        /\ \A i \in 1 .. Len(q) : (p \o q)[Len(p) + i] = q[i]
    BY <1>9, <1>10, JoinFacts
  <2> QED
    BY <1>9, <1>10, <1>11, <2>1
<1>13. \A i \in 1 .. n + k : b[i] = f + i - 1
  <2> SUFFICES ASSUME NEW i \in 1 .. n + k
               PROVE  b[i] = f + i - 1
    OBVIOUS
  <2>1. CASE i <= n
    <3>1. i \in 1 .. n
      BY <2>1
    <3>2. b[i] = p[i]
      BY <1>12, <3>1
    <3> QED
      BY <1>7, <3>1, <3>2
  <2>2. CASE i > n
    <3>1. PICK j \in 1 .. k : i = n + j
      <4>1. i - n \in 1 .. k /\ i = n + (i - n)
        BY <2>2
      <4> QED
        BY <4>1
    <3>2. b[n + j] = q[j]
      BY <1>12
    <3> QED
      BY <1>8, <3>1, <3>2
  <2>3. i <= n \/ i > n
    OBVIOUS
  <2> QED
    BY <2>1, <2>2, <2>3
<1>14. x.size = n + k /\ x.offset = f
  BY <1>3, <1>5, <1>6, <1>11, <1>12 DEF Joins
<1>15. b = Numbered(x)
  <2>1. Numbered(x) = [i \in 1 .. n + k |-> f + i - 1]
    BY <1>14 DEF Numbered
  <2>2. b = [i \in 1 .. n + k |-> b[i]]
    <3>1. b = [i \in 1 .. Len(b) |-> b[i]]
      BY <1>12, SeqIs
    <3> QED
      BY <1>12, <3>1
  <2> QED
    BY <1>13, <2>1, <2>2
<1>16. After(x) = f + n + k /\ After(h) = f + n + k /\ After(m) = f + n
  BY <1>1, <1>2, <1>3, <1>4, <1>14 DEF After
<1>17. \A r \in x.offset .. After(x) - 1 : r \in DueRows(t)
  <2> SUFFICES ASSUME NEW r \in f .. f + n + k - 1
               PROVE  r \in DueRows(t)
    BY <1>14, <1>16
  <2>1. r \in f .. f + n - 1 \/ r \in f + n .. f + n + k - 1
    OBVIOUS
  <2>2. \A s \in f .. f + n - 1 : s \in DueRows(t)
    BY <1>3, <1>16 DEF Right
  <2>3. \A s \in f + n .. f + n + k - 1 : s \in DueRows(t)
    BY <1>4, <1>16 DEF Right
  <2> QED
    BY <2>1, <2>2, <2>3
<1>18. After(x) <= EndOffset
  BY <1>16 DEF Right
<1> QED
  BY <1>5, <1>6, <1>11, <1>14, <1>15, <1>16, <1>17, <1>18

-----------------------------------------------------------------------------
(* Who changes what of a subscription. *)

LEMMA HandlerLeaves ==
  ASSUME NEW t \in Topics, HandlerStep(t) \/ LetGo(t)
  PROVE  UNCHANGED <<form, used, received, parsing, topic, due, columns, cache, parsed, pushed>>
BY DEF HandlerStep, PopNext, Merge, Handle, Done, LetGo, parserVars

LEMMA OthersLeave ==
  ASSUME ObjectsInv, [DeliveryNext]_deliveryVars, NEW t \in Topics, ~HandlerStep(t)
  PROVE  /\ msg'[t] = msg[t] /\ stage'[t] = stage[t] /\ handed'[t] = handed[t]
         /\ \/ queues'[t] = queues[t]
            \/ /\ PushDue /\ topic = t /\ due # <<>> /\ Head(due) = due[1] /\ 1 \in DOMAIN due
               /\ queues[t] \in Seq(SharedMessages) /\ Head(due) \in SharedMessages
               /\ queues'[t] = Append(queues[t], Head(due))
<1>1. /\ msg \in [Topics -> SharedMessages] /\ queues \in [Topics -> Seq(SharedMessages)]
      /\ stage \in [Topics -> {"none", "popped", "merged", "handled"}]
      /\ handed \in [Topics -> Seq(HandedRows)]
  BY DEF ObjectsInv, DeliveryTypes, HandlerTypes
<1>2. ASSUME NEW u \in Topics, u # t, HandlerStep(u)
      PROVE  msg'[t] = msg[t] /\ stage'[t] = stage[t] /\ handed'[t] = handed[t] /\ queues'[t] = queues[t]
  <2>1. CASE PopNext(u)
    BY <1>1, <1>2, <2>1 DEF PopNext, Goes
  <2>2. CASE Merge(u)
    <3>1. PICK n : msg' = [msg EXCEPT ![u].size = n]
      BY <2>2 DEF Merge
    <3>2. msg'[t] = msg[t]
      BY <1>1, <1>2, <3>1
    <3>3. queues'[t] = queues[t] /\ handed' = handed /\ stage'[t] = stage[t]
      BY <1>1, <1>2, <2>2 DEF Merge, Goes
    <3> QED
      BY <3>2, <3>3
  <2>3. CASE Handle(u)
    <3>1. PICK s : handed' = [handed EXCEPT ![u] = @ \o s]
      BY <2>3 DEF Handle
    <3>2. handed'[t] = handed[t]
      BY <1>1, <1>2, <3>1
    <3> QED
      BY <1>1, <1>2, <2>3, <3>2 DEF Handle, Goes
  <2>4. CASE Done(u)
    BY <1>1, <1>2, <2>4 DEF Done, Goes
  <2> QED
    BY <1>2, <2>1, <2>2, <2>3, <2>4 DEF HandlerStep
<1>3. ASSUME NEW u \in Topics, LetGo(u)
      PROVE  msg'[t] = msg[t] /\ stage'[t] = stage[t] /\ handed'[t] = handed[t] /\ queues'[t] = queues[t]
  BY <1>3 DEF LetGo
<1>4. CASE Parse
  <2>1. UNCHANGED handlerVars
    BY <1>4 DEF Parse, Receive, TurnOfWhole, TurnOfTuple, TurnOfBlob, PushDue, Release, EndMessage
  <2>2. UNCHANGED queues \/ PushDue
    BY <1>4 DEF Parse, Receive, TurnOfWhole, TurnOfTuple, TurnOfBlob, Release, EndMessage
  <2>3. PushDue => \/ queues'[t] = queues[t]
                   \/ /\ topic = t /\ due # <<>> /\ Head(due) = due[1] /\ 1 \in DOMAIN due
                      /\ queues[t] \in Seq(SharedMessages) /\ Head(due) \in SharedMessages
                      /\ queues'[t] = Append(queues[t], Head(due))
    <3> SUFFICES ASSUME PushDue
                 PROVE  \/ queues'[t] = queues[t]
                        \/ /\ topic = t /\ due # <<>> /\ Head(due) = due[1] /\ 1 \in DOMAIN due
                           /\ queues[t] \in Seq(SharedMessages) /\ Head(due) \in SharedMessages
                           /\ queues'[t] = Append(queues[t], Head(due))
      OBVIOUS
    <3>1. PICK m \in SharedMessages : m = Head(due) /\ m = due[1] /\ 1 \in DOMAIN due /\ due # <<>>
      BY PushFacts
    <3>2. queues' = [queues EXCEPT ![topic] = Append(@, m)]
      BY <3>1 DEF PushDue
    <3>3. topic = t => queues'[t] = Append(queues[t], m)
      BY <1>1, <3>2
    <3>4. topic # t => queues'[t] = queues[t]
      BY <1>1, <3>2
    <3> QED
      BY <1>1, <3>1, <3>3, <3>4
  <2> QED
    BY <2>1, <2>2, <2>3 DEF handlerVars
<1>5. CASE UNCHANGED deliveryVars
  BY <1>5 DEF deliveryVars, handlerVars
<1> QED
  BY <1>2, <1>3, <1>4, <1>5 DEF DeliveryNext

(* Where the columns of the message are yet to go. *)
LEMMA ColumnsStep ==
  ASSUME ObjectsInv, [DeliveryNext]_deliveryVars, NEW t \in Topics, ColumnsNext(t)'
  PROVE  \/ Receive /\ columns' = used + 1
         \/ columns' = columns /\ ColumnsNext(t)
<1>1. topic \in Nat /\ t \in Nat /\ t # 0
  BY ConstantFacts DEF ObjectsInv, DeliveryTypes, ParserTypes
<1>2. CASE Receive
  BY <1>2 DEF Receive
<1>3. CASE TurnOfWhole \/ TurnOfTuple \/ TurnOfBlob
  <2>1. NextTopic /\ topic' = topic + 1 /\ columns' = columns
    BY <1>3 DEF TurnOfWhole, TurnOfTuple, TurnOfBlob
  <2>2. parsing = "message"
    BY <2>1 DEF NextTopic
  <2> QED
    BY <1>1, <2>1, <2>2 DEF ColumnsNext
<1>4. CASE PushDue \/ Release
  BY <1>4 DEF PushDue, Release, ColumnsNext
<1>5. CASE EndMessage
  BY <1>5 DEF EndMessage, ColumnsNext
<1>6. ASSUME UNCHANGED <<parsing, topic, due, columns>>
      PROVE  columns' = columns /\ ColumnsNext(t)
  BY <1>6 DEF ColumnsNext
<1>7. CASE UNCHANGED deliveryVars
  BY <1>6, <1>7 DEF deliveryVars, parserVars
<1>8. ASSUME NEW u \in Topics, HandlerStep(u) \/ LetGo(u)
      PROVE  columns' = columns /\ ColumnsNext(t)
  BY <1>6, <1>8, HandlerLeaves
<1> QED
  BY <1>2, <1>3, <1>4, <1>5, <1>7, <1>8 DEF DeliveryNext, Parse

LEMMA DueLengthStep ==
  ASSUME ObjectsInv, [DeliveryNext]_deliveryVars, NEW t \in Topics, form[t] \in Merging,
         topic = t => Len(due) <= 1, topic' = t
  PROVE  Len(due') <= 1
<1>1. /\ topic \in Nat /\ t \in Nat /\ t # 0 /\ due \in Seq(SharedMessages)
  BY ConstantFacts DEF ObjectsInv, DeliveryTypes, ParserTypes
<1>2. CASE Receive \/ EndMessage
  BY <1>1, <1>2 DEF Receive, EndMessage
<1>3. CASE TurnOfWhole
  BY <1>3 DEF TurnOfWhole
<1>4. CASE TurnOfTuple \/ TurnOfBlob
  <2>1. form[topic'] \in {"tuple", "blob"}
    BY <1>4 DEF TurnOfTuple, TurnOfBlob
  <2> QED
    BY <2>1 DEF Merging
<1>5. CASE PushDue
  <2>1. due # <<>> /\ due' = Tail(due) /\ topic' = topic
    BY <1>5 DEF PushDue
  <2>2. Len(due') = Len(due) - 1 /\ Len(due) \in Nat
    BY <1>1, <2>1, TailFacts
  <2> QED
    BY <2>1, <2>2
<1>6. ASSUME UNCHANGED <<topic, due>> PROVE Len(due') <= 1
  BY <1>6
<1>7. CASE Release
  BY <1>6, <1>7 DEF Release
<1>8. CASE UNCHANGED deliveryVars
  BY <1>6, <1>8 DEF deliveryVars, parserVars
<1>9. ASSUME NEW u \in Topics, HandlerStep(u) \/ LetGo(u) PROVE Len(due') <= 1
  BY <1>6, <1>9, HandlerLeaves
<1> QED
  BY <1>2, <1>3, <1>4, <1>5, <1>7, <1>8, <1>9 DEF DeliveryNext, Parse

LEMMA TailOf ==
  ASSUME NEW S, NEW q \in Seq(S), q # <<>>
  PROVE  /\ 1 \in DOMAIN q /\ Head(q) = q[1] /\ Tail(q) \in Seq(S)
         /\ \A i \in DOMAIN Tail(q) : i \in Nat /\ i + 1 \in DOMAIN q /\ 1 < i + 1 /\ Tail(q)[i] = q[i + 1]
<1>1. /\ Len(q) \in Nat \ {0} /\ Len(Tail(q)) = Len(q) - 1 /\ Head(q) = q[1]
      /\ \A i \in 1 .. Len(Tail(q)) : Tail(q)[i] = q[i + 1]
  BY TailFacts
<1>2. DOMAIN q = 1 .. Len(q) /\ DOMAIN Tail(q) = 1 .. Len(q) - 1 /\ Tail(q) \in Seq(S)
  <2>1. Tail(q) \in Seq(S)
    BY TailFacts
  <2> QED
    BY <1>1, <2>1
<1> QED
  BY <1>1, <1>2

LEMMA InOrderNext ==
  ASSUME ObjectsInv, [DeliveryNext]_deliveryVars, NEW t \in Topics, InOrder(t)
  PROVE  InOrder(t)'
<1>1. /\ form' = form /\ used \in Nat /\ columns \in Nat /\ due \in Seq(SharedMessages)
      /\ queues[t] \in Seq(SharedMessages) /\ msg \in [Topics -> SharedMessages]
      /\ stage \in [Topics -> {"none", "popped", "merged", "handled"}]
      /\ queues \in [Topics -> Seq(SharedMessages)]
      /\ msg[t].object \in Nat
  <2>1. msg[t].object \in Refs
    BY DEF ObjectsInv, DeliveryTypes, HandlerTypes, SharedMessages
  <2>2. ObjectTypes /\ ParserTypes /\ HandlerTypes
    BY DEF ObjectsInv, DeliveryTypes
  <2>3. form' = form
    BY FormStays
  <2>4. used \in TopicCount .. MaxObjects
    BY <2>2 DEF ObjectTypes
  <2>5. msg[t].object \in Objects /\ columns \in Objects
    BY <2>1, <2>2, ConstantFacts DEF ParserTypes
  <2>6. used \in Nat
    <3>1. TopicCount \in Nat /\ MaxObjects \in Nat
      BY ConstantFacts
    <3> QED
      BY <2>4, <3>1
  <2>7. msg[t].object \in Nat /\ columns \in Nat
    <3>1. \A o \in Objects : o \in Nat
      BY ConstantFacts
    <3> QED
      BY <2>5, <3>1
  <2> QED
    BY <2>2, <2>3, <2>6, <2>7 DEF ParserTypes, HandlerTypes
<1> SUFFICES ASSUME form[t] \in Merging
             PROVE  InOrder(t)'
  BY <1>1 DEF InOrder
<1>2. PICK q \in Seq(SharedMessages) : q = queues[t]
  BY <1>1
<1>3. PICK m \in SharedMessages : m = msg[t]
  BY <1>1
<1>4. /\ \A i, j \in DOMAIN q : i < j => q[i].object < q[j].object
      /\ \A i \in DOMAIN q : InHand(t) => m.object < q[i].object
      /\ \A i \in DOMAIN q : ColumnsNext(t) => q[i].object < columns
      /\ ColumnsNext(t) => m.object < columns
      /\ topic = t => Len(due) <= 1
  BY <1>2, <1>3 DEF InOrder
<1>5. \A i \in DOMAIN q : q[i].object \in Nat
  <2>1. \A i \in DOMAIN q : q[i] \in SharedMessages
    OBVIOUS
  <2> QED
    BY <2>1, ConstantFacts DEF SharedMessages
<1>6. topic' = t => Len(due') <= 1
  BY <1>4, DueLengthStep
<1>7. CASE HandlerStep(t)
  <2>1. UNCHANGED <<form, topic, due, parsing, columns>>
    BY <1>7, HandlerLeaves
  <2>2. ColumnsNext(t)' = ColumnsNext(t)
    BY <2>1 DEF ColumnsNext
  <2>3. ColumnsNext(t) => columns # 0
    BY DEF ColumnsNext, ObjectsInv, ParserShape
  <2>4. CASE PopNext(t)
    <3>1. q # <<>> /\ msg'[t] = Head(q) /\ queues'[t] = Tail(q)
      BY <1>1, <1>2, <2>4 DEF PopNext
    <3>2. /\ 1 \in DOMAIN q /\ Head(q) = q[1]
          /\ \A i \in DOMAIN Tail(q) : i \in Nat /\ i + 1 \in DOMAIN q /\ 1 < i + 1 /\ Tail(q)[i] = q[i + 1]
      BY <3>1, TailOf
    <3>3. \A i, j \in DOMAIN Tail(q) : i < j => Tail(q)[i].object < Tail(q)[j].object
      BY <1>4, <3>2
    <3>4. \A i \in DOMAIN Tail(q) : q[1].object < Tail(q)[i].object
      BY <1>4, <3>2
    <3>5. /\ \A i \in DOMAIN Tail(q) : ColumnsNext(t) => Tail(q)[i].object < columns
          /\ ColumnsNext(t) => q[1].object < columns
      BY <1>4, <3>2
    <3> QED
      BY <1>6, <2>1, <2>2, <3>1, <3>2, <3>3, <3>4, <3>5 DEF InOrder
  <2>5. CASE Merge(t)
    <3>1. q # <<>> /\ queues'[t] = Tail(q) /\ InHand(t)
      BY <1>1, <1>2, <2>5 DEF Merge, InHand
    <3>2. msg'[t].object = m.object
      <4>1. PICK n : msg' = [msg EXCEPT ![t].size = n]
        BY <2>5 DEF Merge
      <4>2. msg'[t] = [m EXCEPT !.size = n]
        BY <1>1, <1>3, <4>1
      <4> QED
        BY <4>2 DEF SharedMessages
    <3>3. \A i \in DOMAIN Tail(q) : i \in Nat /\ i + 1 \in DOMAIN q /\ 1 < i + 1 /\ Tail(q)[i] = q[i + 1]
      BY <3>1, TailOf
    <3>4. \A i, j \in DOMAIN Tail(q) : i < j => Tail(q)[i].object < Tail(q)[j].object
      BY <1>4, <3>3
    <3>5. \A i \in DOMAIN Tail(q) : m.object < Tail(q)[i].object
      BY <1>4, <3>1, <3>3
    <3>6. /\ \A i \in DOMAIN Tail(q) : ColumnsNext(t) => Tail(q)[i].object < columns
      BY <1>4, <3>3
    <3> QED
      BY <1>4, <1>6, <2>1, <2>2, <3>1, <3>2, <3>4, <3>5, <3>6 DEF InOrder
  <2>6. CASE Handle(t)
    <3>1. queues'[t] = q /\ msg'[t] = m /\ ~InHand(t)'
      BY <1>1, <1>2, <1>3, <2>6 DEF Handle, Goes, InHand
    <3> QED
      BY <1>4, <1>6, <2>1, <2>2, <3>1 DEF InOrder
  <2>7. CASE Done(t)
    <3>1. queues'[t] = q /\ msg'[t].object = 0 /\ ~InHand(t)'
      BY <1>1, <1>2, <2>7 DEF Done, Goes, InHand, None
    <3>2. ColumnsNext(t) => 0 < columns
      BY <1>1, <2>3
    <3> QED
      BY <1>4, <1>6, <2>1, <2>2, <3>1, <3>2 DEF InOrder
  <2> QED
    BY <1>7, <2>4, <2>5, <2>6, <2>7 DEF HandlerStep
<1>8. CASE ~HandlerStep(t)
  <2>1. /\ msg'[t] = m /\ InHand(t)' = InHand(t)
        /\ \/ queues'[t] = q
           \/ /\ PushDue /\ topic = t /\ due # <<>> /\ Head(due) = due[1] /\ 1 \in DOMAIN due
              /\ Head(due) \in SharedMessages
              /\ queues'[t] = Append(q, Head(due))
    BY <1>2, <1>3, <1>8, OthersLeave DEF InHand
  <2>2. CASE queues'[t] = q
    <3>1. ColumnsNext(t)' => (\A i \in DOMAIN q : q[i].object < columns') /\ m.object < columns'
      <4> SUFFICES ASSUME ColumnsNext(t)'
                   PROVE  (\A i \in DOMAIN q : q[i].object < columns') /\ m.object < columns'
        OBVIOUS
      <4>1. CASE columns' = columns /\ ColumnsNext(t)
        BY <1>4, <4>1
      <4>2. CASE Receive /\ columns' = used + 1
        <5>1. ASSUME NEW x \in SharedMessages, Referred(x.object) PROVE x.object < used + 1
          <6>1. x.object \in Refs
            BY DEF SharedMessages
          <6>2. x.object \in Objects /\ x.object \in Nat
            BY <6>1, ConstantFacts
          <6>3. x.object # 0 => x.object <= used
            BY <5>1, <6>2, InPlace
          <6> QED
            BY <1>1, <6>2, <6>3
        <5>2. Referred(m.object) /\ \A i \in DOMAIN q : Referred(q[i].object) /\ q[i] \in SharedMessages
          BY <1>2, <1>3 DEF Referred, Refers, Holds, Within
        <5> QED
          BY <4>2, <5>1, <5>2
      <4> QED
        BY <4>1, <4>2, ColumnsStep
    <3> QED
      BY <1>4, <1>6, <2>1, <2>2, <3>1 DEF InOrder
  <2>3. CASE /\ PushDue /\ topic = t /\ due # <<>> /\ Head(due) = due[1] /\ 1 \in DOMAIN due
             /\ Head(due) \in SharedMessages
             /\ queues'[t] = Append(q, Head(due))
    <3>1. PICK h \in SharedMessages : h = due[1] /\ h = Head(due)
      BY <2>3
    <3>2. h.object = columns /\ ColumnsNext(t)
      <4>1. Sound(t, h) /\ form[t] \notin {"blob", "tuple"}
        BY <2>3, <3>1 DEF ObjectsInv, DueSound, Merging
      <4>2. h.object \in Objects /\ h.object # 0
        BY <4>1, ConstantFacts DEF Sound, SharedMessages
      <4>3. Within(h.object, due)
        BY <2>3, <3>1 DEF Within
      <4>4. h.object = columns
        BY <2>3, <4>1, <4>2, <4>3, ApartParts DEF DueFrom
      <4>5. parsing = "message"
        BY <2>3, PushFacts
      <4> QED
        BY <2>3, <4>4, <4>5 DEF ColumnsNext
    <3>3. ~ColumnsNext(t)'
      <4>1. due' = Tail(due) /\ topic' = topic
        BY <2>3 DEF PushDue
      <4>2. Len(due) = 1
        BY <1>1, <1>4, <2>3, TailFacts
      <4>3. due' = <<>>
        BY <1>1, <2>3, <4>1, <4>2, TailFacts
      <4>4. ~(topic' < t)
        BY <2>3, <4>1, ConstantFacts
      <4> QED
        BY <4>3, <4>4 DEF ColumnsNext
    <3>4. PICK r : r = Append(q, h)
      OBVIOUS
    <3>5. /\ Len(q) \in Nat /\ DOMAIN q = 1 .. Len(q) /\ DOMAIN r = 1 .. Len(q) + 1
          /\ r[Len(q) + 1] = h /\ \A i \in 1 .. Len(q) : r[i] = q[i]
      BY <3>4
    <3>6. (\A i \in DOMAIN q : q[i].object < h.object) /\ m.object < h.object
      BY <1>4, <3>2
    <3>7. \A i, j \in DOMAIN r : i < j => r[i].object < r[j].object
      BY <1>4, <3>5, <3>6
    <3>8. \A i \in DOMAIN r : InHand(t) => m.object < r[i].object
      BY <1>4, <3>5, <3>6
    <3>9. queues'[t] = r
      BY <2>3, <3>1, <3>4
    <3> QED
      BY <1>6, <2>1, <3>3, <3>7, <3>8, <3>9 DEF InOrder
  <2> QED
    BY <2>1, <2>2, <2>3
<1> QED
  BY <1>7, <1>8

-----------------------------------------------------------------------------
(* What the parsing thread makes is right.                                 *)

ParserStill == UNCHANGED <<form, used, received, parsing, topic, due, columns, cache, parsed, pushed>>

LEMMA ParserSteps ==
  ASSUME [DeliveryNext]_deliveryVars
  PROVE  \/ Receive \/ TurnOfWhole \/ TurnOfTuple \/ TurnOfBlob
         \/ PushDue \/ Release \/ EndMessage \/ ParserStill
<1>1. ASSUME NEW t \in Topics, HandlerStep(t) \/ LetGo(t) PROVE ParserStill
  BY <1>1, HandlerLeaves DEF ParserStill
<1>2. UNCHANGED deliveryVars => ParserStill
  BY DEF deliveryVars, parserVars, ParserStill
<1> QED
  BY <1>1, <1>2 DEF DeliveryNext, Parse

LEMMA DeserializedNext ==
  ASSUME ObjectsInv, Deserialized, [DeliveryNext]_deliveryVars
  PROVE  Deserialized'
<1>1. /\ DeliveryTypes /\ ParserShape /\ topic \in Nat /\ tuples \in Seq(Refs) /\ form' = form
      /\ parsed \in Seq(Refs)
  BY ConstantFacts, FormStays DEF ObjectsInv, DeliveryTypes, ParserTypes
<1>2. parsed' # <<>> => \E u \in 1 .. topic' : form'[u] = "blob"
  <2>1. CASE Receive \/ EndMessage
    BY <2>1 DEF Receive, EndMessage
  <2>2. CASE TurnOfBlob
    <3>1. topic' = topic + 1 /\ form[topic + 1] = "blob"
      BY <2>2 DEF TurnOfBlob
    <3> QED
      BY <1>1, <3>1
  <2>3. CASE TurnOfWhole \/ TurnOfTuple
    <3>1. topic' = topic + 1 /\ parsed' = parsed
      BY <2>3 DEF TurnOfWhole, TurnOfTuple
    <3> QED
      BY <1>1, <3>1 DEF Deserialized
  <2>4. CASE PushDue
    <3>1. topic' = topic
      BY <2>4 DEF PushDue
    <3>2. parsed = <<>> => parsed' = <<>>
      <4> SUFFICES ASSUME parsed = <<>> PROVE parsed' = <<>>
        OBVIOUS
      <4>1. parsed' = parsed \/ parsed' = [i \in DOMAIN parsed |-> IF parsed[i] = pushed' THEN 0 ELSE parsed[i]]
        BY <2>4 DEF PushDue
      <4>2. DOMAIN parsed = 1 .. 0
        OBVIOUS
      <4> QED
        BY <4>1, <4>2
    <3> QED
      BY <1>1, <3>1, <3>2 DEF Deserialized
  <2>5. CASE Release \/ ParserStill
    <3>1. topic' = topic /\ parsed' = parsed
      BY <2>5 DEF Release, ParserStill
    <3> QED
      BY <1>1, <3>1 DEF Deserialized
  <2> QED
    BY <2>1, <2>2, <2>3, <2>4, <2>5, ParserSteps
<1>3. \A i \in DOMAIN tuples' : tuples'[i] # 0
  <2>1. \A i \in DOMAIN tuples : tuples[i] # 0
    BY DEF Deserialized
  <2>2. CASE FirstBlob
    <3>1. PICK n \in Nat \ {0} : n = RowCount
      BY <1>1, <2>2, FirstBlobFacts
    <3>2. Room(n - Taken(n)) /\ tuples' = WithoutLast(Taken(n))
      BY <1>1, <2>2, <3>1, FirstBlobFacts
    <3> QED
      BY <1>1, <2>1, <3>2, NewTuplesFacts
  <2>3. ASSUME NEW p \in Refs, NEW S, GiveBack(p, S) PROVE \A i \in DOMAIN tuples' : tuples'[i] # 0
    <3>1. tuples' = tuples \/ (p # 0 /\ tuples' = Append(tuples, p))
      BY <2>3 DEF GiveBack
    <3>2. \A i \in DOMAIN Append(tuples, p) :
            (i \in DOMAIN tuples /\ Append(tuples, p)[i] = tuples[i]) \/ Append(tuples, p)[i] = p
      BY <1>1
    <3> QED
      BY <2>1, <3>1, <3>2
  <2>4. CASE Release
    <3>1. pushed \in Refs /\ GiveBack(pushed, Topics)
      BY <1>1, <2>4 DEF Release, DeliveryTypes, ParserTypes
    <3> QED
      BY <2>3, <3>1
  <2>5. ASSUME NEW t \in Topics, Done(t) PROVE \A i \in DOMAIN tuples' : tuples'[i] # 0
    <3>1. PICK p \in Refs : p = msg[t].object
      BY <1>1 DEF DeliveryTypes, HandlerTypes, SharedMessages
    <3>2. tuples' = tuples \/ GiveBack(p, Topics \ {t})
      BY <2>5, <3>1 DEF Done
    <3> QED
      BY <2>1, <2>3, <3>2
  <2>6. CASE Receive \/ TurnOfWhole \/ TurnOfTuple \/ NextBlob \/ PushDue \/ EndMessage
    BY <2>1, <2>6 DEF Receive, TurnOfWhole, TurnOfTuple, NextBlob, TurnOfBlob, PushDue, EndMessage
  <2>7. ASSUME NEW t \in Topics, PopNext(t) \/ Merge(t) \/ Handle(t) \/ LetGo(t)
        PROVE  \A i \in DOMAIN tuples' : tuples'[i] # 0
    BY <2>1, <2>7 DEF PopNext, Merge, Handle, LetGo
  <2>8. CASE UNCHANGED deliveryVars
    BY <2>1, <2>8 DEF deliveryVars
  <2> QED
    BY <2>2, <2>4, <2>5, <2>6, <2>7, <2>8 DEF DeliveryNext, Parse, HandlerStep, FirstBlob, NextBlob
<1> QED
  BY <1>2, <1>3 DEF Deserialized

(* The columns of the message are not those of one that is extended.       *)
LEMMA ColumnsApart ==
  ASSUME NEW t \in Topics, InOrder(t), Merge(t), ColumnsNext(t), DeliveryTypes
  PROVE  columns # msg[t].object
<1>1. form[t] \in Merging
  BY DEF Merge, MayMerge, Merging
<1>2. msg[t].object < columns
  BY <1>1 DEF InOrder
<1>3. columns \in Nat
  <2>1. columns \in Refs /\ \A o \in Refs : o \in Nat
    BY ConstantFacts DEF DeliveryTypes, ParserTypes
  <2> QED
    BY <2>1
<1> QED
  BY <1>2, <1>3

LEMMA TopicStep ==
  ASSUME ObjectsInv, [DeliveryNext]_deliveryVars
  PROVE  topic' = topic \/ (NextTopic /\ topic' = topic + 1) \/ EndMessage
<1>1. CASE Receive
  BY <1>1 DEF Receive, ObjectsInv, ParserShape
<1>2. CASE TurnOfWhole \/ TurnOfTuple \/ TurnOfBlob
  BY <1>2 DEF TurnOfWhole, TurnOfTuple, TurnOfBlob
<1>3. CASE PushDue \/ Release \/ ParserStill
  BY <1>3 DEF PushDue, Release, ParserStill
<1> QED
  BY <1>1, <1>2, <1>3, ParserSteps

LEMMA ColumnsRightNext ==
  ASSUME ObjectsInv, [DeliveryNext]_deliveryVars, NEW t \in Topics, Promised(t),
         ColumnsRight(t), InOrder(t)
  PROVE  ColumnsRight(t)'
<1> SUFFICES ASSUME parsing' = "message", topic' < t
             PROVE  objects'[columns'] = RowsOf(received')
  BY DEF ColumnsRight
<1>1. DeliveryTypes /\ ParserShape /\ topic \in Nat /\ t \in Nat /\ objects \in [Objects -> Seq(Nat)]
  BY ConstantFacts DEF ObjectsInv, DeliveryTypes, ObjectTypes, ParserTypes
<1>2. CASE Receive
  <2>1. used + 1 \in Objects
    BY <1>1, <1>2, NewObject DEF Receive
  <2>2. columns' = used + 1 /\ objects' = [objects EXCEPT ![used + 1] = RowsOf(received')]
    BY <1>2 DEF Receive
  <2> QED
    BY <1>1, <2>1, <2>2
<1>3. CASE ~Receive
  <2>1. received' = received
    BY <1>1, <1>3, ReceivedStep
  <2>2. ColumnsNext(t)'
    BY DEF ColumnsNext
  <2>3. columns' = columns /\ ColumnsNext(t)
    BY <1>3, <2>2, ColumnsStep
  <2>4. ~EndMessage
    BY DEF EndMessage
  <2>5. topic < t
    BY <1>1, <2>4, TopicStep
  <2>6. objects[columns] = RowsOf(received)
    BY <2>3, <2>5 DEF ColumnsRight, ColumnsNext
  <2>7. columns \in Refs /\ columns # 0
    BY <1>1, <2>3 DEF ColumnsNext, ParserShape, DeliveryTypes, ParserTypes
  <2>8. Merge(t) => columns # msg[t].object
    BY <1>1, <2>3, ColumnsApart
  <2>9. PICK o \in Refs : o = columns
    BY <2>7
  <2>10. objects'[o] = objects[o]
    BY <2>7, <2>8, <2>9, ObjectStays
  <2> QED
    BY <2>1, <2>3, <2>6, <2>9, <2>10
<1> QED
  BY <1>2, <1>3

LEMMA CacheRightNext ==
  ASSUME ObjectsInv, [DeliveryNext]_deliveryVars, NEW t \in Topics, Promised(t), CacheRight(t)
  PROVE  CacheRight(t)'
<1>1. DeliveryTypes /\ ParserShape /\ form' = form /\ cache \in Seq(Refs)
  BY FormStays DEF ObjectsInv, DeliveryTypes, ParserTypes
<1> SUFFICES ASSUME form[t] = "tuple"
             PROVE  \A i \in DOMAIN cache' : objects'[cache'[i]] = <<StartOffset' + i - 1>>
  BY <1>1 DEF CacheRight
<1>2. CASE Receive \/ EndMessage
  BY <1>2 DEF Receive, EndMessage
<1>3. CASE TurnOfTuple /\ cache = <<>>
  <2>1. parsing # "idle" /\ received' = received
    BY <1>1, <1>3, NextTopicFacts DEF TurnOfTuple
  <2>2. PICK s \in Seq(Refs) : s = cache' /\ Len(s) = RowCount
    BY <1>1, <1>3, TupleFacts
  <2>3. /\ objects' = Filled(s)
        /\ \A o : Has(s, o) => o \in Objects
        /\ \A i \in DOMAIN s : s[i] = used + i
    BY <1>1, <1>3, <2>2, TupleFacts
  <2>4. used \in Nat /\ DOMAIN s = 1 .. Len(s) /\ Len(s) \in Nat
    <3>1. used \in TopicCount .. MaxObjects /\ TopicCount \in Nat
      BY <1>1, ConstantFacts DEF DeliveryTypes, ObjectTypes
    <3> QED
      BY <3>1
  <2>5. ASSUME NEW i \in DOMAIN s PROVE objects'[s[i]] = <<StartOffset + i - 1>>
    <3>1. Has(s, s[i]) /\ s[i] \in Objects
      BY <2>3 DEF Has
    <3>2. PICK o \in Objects : o = s[i]
      BY <3>1
    <3>3. PICK j \in DOMAIN s : s[j] = o /\ Filled(s)[o] = <<StartOffset + j - 1>>
      BY <1>1, <2>1, <2>2, <3>1, <3>2, FilledFacts
    <3>4. j = i
      BY <2>3, <2>4, <3>2, <3>3
    <3> QED
      BY <2>3, <3>2, <3>3, <3>4
  <2>6. StartOffset' = StartOffset
    BY <2>1 DEF StartOffset
  <2> QED
    BY <2>2, <2>5, <2>6
<1>4. CASE ~Receive /\ cache' = cache
  <2>1. StartOffset' = StartOffset
    BY <1>1, <1>4, ReceivedStep DEF StartOffset
  <2>2. ~Merge(t)
    BY DEF Merge, MayMerge
  <2>3. ASSUME NEW i \in DOMAIN cache PROVE objects'[cache[i]] = <<StartOffset + i - 1>>
    <3>1. PICK o \in Refs : o = cache[i]
      BY <1>1
    <3>2. o # 0 /\ Has(cache, o)
      BY <3>1 DEF ObjectsInv, SourceSound, Has
    <3>3. objects'[o] = objects[o]
      BY <2>2, <3>2, ObjectStays
    <3> QED
      BY <3>1, <3>3 DEF CacheRight
  <2> QED
    BY <1>4, <2>1, <2>3
<1>5. TurnOfTuple => cache = <<>> \/ (~Receive /\ cache' = cache)
  BY <1>1 DEF TurnOfTuple, Receive, NextTopic
<1>6. TurnOfWhole \/ TurnOfBlob \/ PushDue \/ Release \/ ParserStill => cache' = cache
  BY DEF TurnOfWhole, TurnOfBlob, PushDue, Release, ParserStill
<1> QED
  BY <1>2, <1>3, <1>4, <1>5, <1>6, ParserSteps

-----------------------------------------------------------------------------
(* What is yet to go to the handler is right. *)

(* The table that a thread extends is none of those it merges.             *)
LEMMA QueuedApart ==
  ASSUME NEW t \in Topics, InOrder(t), Merge(t), DeliveryTypes, NEW j \in DOMAIN queues[t]
  PROVE  queues[t][j].object # msg[t].object
<1>1. form[t] \in Merging /\ InHand(t)
  BY DEF Merge, MayMerge, Merging, InHand
<1>2. PICK m \in SharedMessages : m = queues[t][j]
  BY DEF DeliveryTypes, HandlerTypes
<1>3. msg[t].object < m.object
  BY <1>1, <1>2 DEF InOrder
<1>4. m.object \in Nat
  <2>1. m.object \in Refs /\ \A o \in Refs : o \in Nat
    BY ConstantFacts DEF SharedMessages
  <2> QED
    BY <2>1
<1> QED
  BY <1>2, <1>3, <1>4

LEMMA DueApart ==
  ASSUME ObjectsInv, NEW t \in Topics, InOrder(t), Merge(t), topic = t, NEW j \in DOMAIN due
  PROVE  due[j].object # msg[t].object
<1>1. form[t] \in Merging
  BY DEF Merge, MayMerge, Merging
<1>2. PICK m \in SharedMessages : m = due[j]
  BY DEF ObjectsInv, DeliveryTypes, ParserTypes
<1>3. Sound(t, m) /\ form[t] \notin {"blob", "tuple"}
  BY <1>1, <1>2 DEF ObjectsInv, DueSound, Merging
<1>4. m.object \in Objects /\ m.object # 0 /\ Within(m.object, due)
  BY <1>2, <1>3, ConstantFacts DEF Sound, SharedMessages, Within
<1>5. m.object = columns
  BY <1>3, <1>4, ApartParts DEF DueFrom
<1>6. due # <<>>
  OBVIOUS
<1>7. ColumnsNext(t) /\ DeliveryTypes
  BY <1>6 DEF ObjectsInv, ParserShape, ColumnsNext
<1> QED
  BY <1>2, <1>5, <1>7, ColumnsApart

LEMMA PushIsNotMerge ==
  ASSUME ObjectsInv, PushDue, NEW t \in Topics
  PROVE  ~Merge(t)
<1>1. PICK d \in Seq(SharedMessages) : d = due /\ d # <<>>
  BY PushFacts
<1>2. Len(d) \in Nat /\ Len(Tail(d)) = Len(d) - 1
  BY <1>1, TailFacts
<1>3. due' = Tail(d)
  BY <1>1 DEF PushDue
<1>4. Merge(t) => due' = d
  BY <1>1 DEF Merge, parserVars
<1> QED
  BY <1>2, <1>3, <1>4

LEMMA QueueRightNext ==
  ASSUME ObjectsInv, [DeliveryNext]_deliveryVars, NEW t \in Topics, Promised(t),
         QueueRight(t), DueRight(t), InOrder(t)
  PROVE  QueueRight(t)'
<1>1. ASSUME NEW i \in DOMAIN queues'[t] PROVE Right(t, queues[t][i])'
  <2>1. PICK m \in SharedMessages : m = queues'[t][i]
    BY QueueElements
  <2>2. DeliveryTypes
    BY DEF ObjectsInv
  <2>3. CASE \E j \in DOMAIN queues[t] : m = queues[t][j]
    <3>1. PICK j \in DOMAIN queues[t] : m = queues[t][j]
      BY <2>3
    <3>2. Right(t, m)
      BY <3>1 DEF QueueRight
    <3>3. Referred(m.object)
      BY <3>1 DEF Referred, Refers, Holds, Within
    <3>4. Merge(t) => m.object # msg[t].object
      BY <2>2, <3>1, QueuedApart
    <3>5. Right(t, m)'
      BY <3>2, <3>3, <3>4, RightStays
    <3> QED
      BY <2>1, <3>5 DEF Right, After, Numbered
  <2>4. CASE PushDue /\ t = topic /\ m = Head(due)
    <3>1. 1 \in DOMAIN due /\ m = due[1]
      BY <2>4, PushFacts
    <3>2. Right(t, m)
      BY <2>4, <3>1 DEF DueRight
    <3>3. Within(m.object, due)
      BY <3>1 DEF Within
    <3>4. ~Merge(t)
      BY <2>4, PushIsNotMerge
    <3>5. Right(t, m)'
      BY <3>2, <3>3, <3>4, RightStays
    <3> QED
      BY <2>1, <3>5 DEF Right, After, Numbered
  <2> QED
    BY <2>1, <2>3, <2>4, QueueElements
<1> QED
  BY <1>1 DEF QueueRight

LEMMA MergeRight ==
  ASSUME ObjectsInv, NEW t \in Topics, Merge(t),
         QueueRight(t), MsgRight(t), QueueFollows(t), MsgFollows(t)
  PROVE  Right(t, msg[t])' /\ After(msg[t])' = After(Head(queues[t]))
<1>1. /\ DeliveryTypes /\ msg \in [Topics -> SharedMessages] /\ queues \in [Topics -> Seq(SharedMessages)]
      /\ objects \in [Objects -> Seq(Nat)]
  BY DEF ObjectsInv, DeliveryTypes, HandlerTypes, ObjectTypes
<1>2. PICK q \in Seq(SharedMessages) : q = queues[t] /\ q # <<>>
  BY <1>1 DEF Merge
<1>3. PICK m \in SharedMessages : m = msg[t]
  BY <1>1
<1>4. PICK h \in SharedMessages : h = q[1] /\ h = Head(q) /\ 1 \in DOMAIN q
  <2>1. 1 \in DOMAIN q /\ Head(q) = q[1]
    BY <1>2, TailOf
  <2> QED
    BY <2>1
<1>5. InHand(t) /\ form[t] # "event"
  BY DEF Merge, MayMerge, InHand
<1>6. Right(t, m) /\ Right(t, h)
  BY <1>2, <1>3, <1>4, <1>5 DEF QueueRight, MsgRight
<1>7. h.offset = After(m)
  BY <1>2, <1>3, <1>4, <1>5 DEF MsgFollows, Ahead
<1>8. PICK b : b = objects[m.object] \o objects[h.object]
  OBVIOUS
<1>9. b = Numbered(m) \o Numbered(h)
  BY <1>6, <1>8 DEF Right
<1>10. /\ msg' = [msg EXCEPT ![t].size = Len(b)]
       /\ objects' = [objects EXCEPT ![m.object] = b]
  BY <1>2, <1>3, <1>4, <1>8 DEF Merge
<1>11. PICK x : x = msg'[t]
  OBVIOUS
<1>12. x = [m EXCEPT !.size = Len(b)]
  BY <1>1, <1>3, <1>10, <1>11
<1>13. x.object = m.object /\ x.offset = m.offset /\ x.size = Len(b)
  BY <1>12 DEF SharedMessages
<1>14. /\ x.size \in Nat \ {0} /\ After(x) = After(h) /\ b = Numbered(x)
       /\ After(x) <= EndOffset
       /\ \A r \in x.offset .. After(x) - 1 : r \in DueRows(t)
  <2>1. DeliveryTypes /\ form[t] # "event"
    BY <1>1, <1>5
  <2>2. Joins(x, m, h)
    BY <1>7, <1>9, <1>13 DEF Joins
  <2>3. /\ x.size \in Nat \ {0} /\ After(x) = After(h) /\ Numbered(m) \o Numbered(h) = Numbered(x)
        /\ After(x) <= EndOffset
        /\ \A r \in x.offset .. After(x) - 1 : r \in DueRows(t)
    BY <1>6, <2>1, <2>2, MergedRight
  <2> QED
    BY <1>9, <2>3
<1>15. m.object \in Objects /\ m.object # 0 /\ m.offset >= 0
  BY <1>6, ConstantFacts DEF SharedMessages, Right
<1>16. objects'[x.object] = b
  BY <1>1, <1>10, <1>13, <1>15
<1>17. received' = received /\ form' = form
  BY DEF Merge, parserVars
<1>18. EndOffset' = EndOffset /\ DueRows(t)' = DueRows(t)
  BY <1>17 DEF EndOffset, DueRows
<1>19. Right(t, msg[t])'
  BY <1>5, <1>11, <1>13, <1>14, <1>15, <1>16, <1>17, <1>18 DEF Right, After, Numbered
<1>20. After(msg[t])' = After(h)
  BY <1>11, <1>14 DEF After
<1> QED
  BY <1>2, <1>4, <1>19, <1>20

LEMMA MsgRightNext ==
  ASSUME ObjectsInv, [DeliveryNext]_deliveryVars, NEW t \in Topics, Promised(t),
         QueueRight(t), MsgRight(t), QueueFollows(t), MsgFollows(t), InOrder(t)
  PROVE  MsgRight(t)'
<1>1. /\ DeliveryTypes /\ msg \in [Topics -> SharedMessages] /\ queues \in [Topics -> Seq(SharedMessages)]
      /\ stage \in [Topics -> {"none", "popped", "merged", "handled"}]
  BY DEF ObjectsInv, DeliveryTypes, HandlerTypes
<1>2. CASE PopNext(t)
  <2>1. PICK q \in Seq(SharedMessages) : q = queues[t] /\ q # <<>>
    BY <1>1, <1>2 DEF PopNext
  <2>2. PICK m \in SharedMessages : m = q[1] /\ m = Head(q) /\ 1 \in DOMAIN q
    <3>1. 1 \in DOMAIN q /\ Head(q) = q[1]
      BY <2>1, TailOf
    <3> QED
      BY <3>1
  <2>3. Right(t, m)
    BY <2>1, <2>2 DEF QueueRight
  <2>4. Referred(m.object)
    BY <2>1, <2>2 DEF Referred, Refers, Holds, Within
  <2>5. ~Merge(t)
    BY <1>2 DEF PopNext, Merge
  <2>6. Right(t, m)'
    BY <2>3, <2>4, <2>5, RightStays
  <2>7. msg'[t] = m
    BY <1>1, <1>2, <2>1, <2>2 DEF PopNext
  <2> QED
    BY <2>6, <2>7 DEF MsgRight, Right, After, Numbered
<1>3. CASE Merge(t)
  BY <1>3, MergeRight DEF MsgRight
<1>4. CASE Handle(t) \/ Done(t)
  <2>1. stage'[t] \in {"handled", "none"}
    BY <1>1, <1>4 DEF Handle, Done, Goes
  <2> QED
    BY <2>1 DEF MsgRight, InHand
<1>5. CASE ~HandlerStep(t)
  <2>1. msg'[t] = msg[t] /\ stage'[t] = stage[t]
    BY <1>5, OthersLeave
  <2> SUFFICES ASSUME InHand(t)
               PROVE  Right(t, msg[t])'
    BY <2>1 DEF MsgRight, InHand
  <2>2. PICK m \in SharedMessages : m = msg[t]
    BY <1>1
  <2>3. Right(t, m) /\ Referred(m.object)
    BY <2>2 DEF MsgRight, Referred, Refers, Holds
  <2>4. ~Merge(t)
    BY <1>5 DEF HandlerStep
  <2>5. Right(t, m)'
    BY <2>3, <2>4, RightStays
  <2> QED
    BY <2>1, <2>2, <2>5 DEF Right, After, Numbered
<1> QED
  BY <1>2, <1>3, <1>4, <1>5 DEF HandlerStep

(* A subscription that has its turn. *)
LEMMA TurnFacts ==
  ASSUME ObjectsInv, TurnOfWhole \/ TurnOfTuple \/ TurnOfBlob
  PROVE  /\ DeliveryTypes /\ ParserShape /\ parsing = "message" /\ parsing # "idle" /\ due = <<>>
         /\ topic' = topic + 1 /\ topic \in Nat /\ received' = received /\ form' = form
         /\ columns' = columns /\ received # 0
         /\ StartOffset' = StartOffset /\ EndOffset' = EndOffset /\ RowCount' = RowCount
<1>1. NextTopic /\ topic' = topic + 1 /\ received' = received /\ form' = form /\ columns' = columns
  BY DEF TurnOfWhole, TurnOfTuple, TurnOfBlob
<1>2. DeliveryTypes /\ ParserShape
  BY DEF ObjectsInv
<1>3. parsing = "message" /\ parsing # "idle" /\ due = <<>>
  BY <1>1, <1>2, NextTopicFacts
<1>4. topic \in Nat
  BY <1>2, ConstantFacts DEF DeliveryTypes, ParserTypes
<1>5. StartOffset' = StartOffset /\ EndOffset' = EndOffset /\ RowCount' = RowCount
  BY <1>1 DEF StartOffset, EndOffset, RowCount
<1>6. received # 0
  BY <1>2, <1>3 DEF ParserShape
<1> QED
  BY <1>1, <1>2, <1>3, <1>4, <1>5, <1>6

AsMessages(d, s) == d = [i \in 1 .. RowCount |-> RowMessage(s[i], i)]

LEMMA SeqAsMessages ==
  ASSUME DeliveryTypes, ParserShape, parsing # "idle",
         NEW s \in Seq(Refs), Len(s) = RowCount, NEW d, AsMessages(d, s)
  PROVE  /\ Len(d) = RowCount /\ d \in Seq(SharedMessages) /\ DOMAIN d = DOMAIN s
         /\ \A i \in DOMAIN d : d[i].object = s[i] /\ d[i].size = 1 /\ d[i].offset = StartOffset + i - 1
BY RowsAsMessages DEF AsMessages

(* Rows that are where they belong, as messages. *)
LEMMA RowsRight ==
  ASSUME ObjectsInv, [DeliveryNext]_deliveryVars, TurnOfTuple \/ TurnOfBlob,
         NEW t \in Topics, form[t] # "event",
         NEW s \in Seq(Refs), Len(s) = RowCount, due' = [i \in 1 .. RowCount |-> RowMessage(s[i], i)],
         \A i \in DOMAIN s : s[i] # 0 /\ objects'[s[i]] = <<StartOffset + i - 1>>
  PROVE  \A i \in DOMAIN due' : Right(t, due[i])'
<1>1. /\ DeliveryTypes /\ ParserShape /\ parsing # "idle" /\ received' = received /\ form' = form
      /\ EndOffset' = EndOffset
  BY TurnFacts
<1>2. PICK d : d = due' /\ d = [i \in 1 .. RowCount |-> RowMessage(s[i], i)]
  OBVIOUS
<1>3. /\ Len(d) = RowCount /\ d \in Seq(SharedMessages) /\ DOMAIN d = DOMAIN s
      /\ \A i \in DOMAIN d : d[i].object = s[i] /\ d[i].size = 1 /\ d[i].offset = StartOffset + i - 1
  <2>1. DeliveryTypes /\ ParserShape /\ parsing # "idle"
    BY <1>1
  <2>2. s \in Seq(Refs) /\ Len(s) = RowCount /\ AsMessages(d, s)
    BY <1>2 DEF AsMessages
  <2> QED
    BY <2>1, <2>2, SeqAsMessages
<1>4. DueRows(t)' = DueRows(t)
  BY <1>1 DEF DueRows
<1>5. ASSUME NEW i \in DOMAIN d PROVE Right(t, due[i])'
  <2>1. i \in 1 .. RowCount
    BY <1>3
  <2>2. PICK m \in SharedMessages : m = d[i]
    BY <1>3
  <2>3. m.object = s[i] /\ m.size = 1 /\ m.offset = StartOffset + i - 1
    BY <1>3, <2>2
  <2>4. /\ m.size # 0 /\ m.offset >= 0 /\ After(m) <= EndOffset
        /\ Numbered(m) = <<StartOffset + i - 1>>
        /\ \A r \in m.offset .. After(m) - 1 : r \in DueRows(t)
    BY <1>1, <2>1, <2>3, RowRight
  <2>5. m.object # 0 /\ objects'[m.object] = Numbered(m)
    BY <1>3, <2>3, <2>4
  <2>6. Right(t, m)'
    BY <1>1, <1>4, <2>4, <2>5 DEF Right, After, Numbered
  <2> QED
    BY <1>2, <2>2, <2>6 DEF Right, After, Numbered
<1> QED
  BY <1>2, <1>5

(* What the deserializer makes of a message. *)
LEMMA FirstBlobRight ==
  ASSUME ObjectsInv, [DeliveryNext]_deliveryVars, FirstBlob, Deserialized
  PROVE  \E s \in Seq(Refs) :
           /\ s = parsed' /\ Len(s) = RowCount
           /\ \A i \in DOMAIN s : s[i] # 0 /\ objects'[s[i]] = <<StartOffset + i - 1>>
           /\ IF Published[received].known
              THEN due' = [i \in 1 .. RowCount |-> RowMessage(s[i], i)] /\ UNCHANGED parsing
              ELSE parsing' = "ended" /\ UNCHANGED due
<1>1. DeliveryTypes /\ ParserShape /\ parsing # "idle"
  BY TurnFacts DEF FirstBlob
<1>2. PICK n \in Nat \ {0} : n = RowCount
  BY <1>1, FirstBlobFacts
<1>3. /\ Room(n - Taken(n)) /\ parsed' = NewTuples(n) /\ objects' = Filled(parsed')
      /\ IF Published[received].known
         THEN due' = [i \in 1 .. RowCount |-> RowMessage(parsed'[i], i)] /\ UNCHANGED parsing
         ELSE parsing' = "ended" /\ UNCHANGED due
  BY <1>1, <1>2, FirstBlobFacts
<1>4. PICK s : s = NewTuples(n)
  OBVIOUS
<1>5. /\ s \in Seq(Refs) /\ Len(s) = n /\ DOMAIN s = 1 .. n
      /\ Taken(n) \in 0 .. n
      /\ \A i \in 1 .. Taken(n) : Len(tuples) + 1 - i \in DOMAIN tuples /\ s[i] = tuples[Len(tuples) + 1 - i]
      /\ \A i \in Taken(n) + 1 .. n : s[i] \in Objects /\ s[i] > used
  BY <1>1, <1>3, <1>4, NewTuplesFacts
<1>6. used \in Nat
  <2>1. used \in TopicCount .. MaxObjects /\ TopicCount \in Nat
    BY <1>1, ConstantFacts DEF DeliveryTypes, ObjectTypes
  <2> QED
    BY <2>1
<1>7. ASSUME NEW i \in 1 .. n PROVE s[i] # 0
  <2>1. CASE i \in 1 .. Taken(n)
    BY <1>5, <2>1 DEF Deserialized
  <2>2. CASE i \in Taken(n) + 1 .. n
    <3>1. s[i] > used
      BY <1>5, <2>2
    <3> QED
      BY <1>6, <3>1
  <2>3. i \in 1 .. Taken(n) \/ i \in Taken(n) + 1 .. n
    BY <1>5
  <2> QED
    BY <2>1, <2>2, <2>3
<1>8. NoneTwice(s)
  BY <1>3, <1>4, NewTuplesOnce
<1>9. ASSUME NEW i \in DOMAIN s PROVE objects'[s[i]] = <<StartOffset + i - 1>>
  <2>1. PICK o \in Refs : o = s[i] /\ o # 0
    BY <1>5, <1>7
  <2>2. o \in Objects /\ Has(s, o)
    BY <2>1, ConstantFacts DEF Has
  <2>3. PICK j \in DOMAIN s : s[j] = o /\ Filled(s)[o] = <<StartOffset + j - 1>>
    BY <1>1, <1>2, <1>5, <2>2, FilledFacts
  <2>4. j = i
    BY <1>8, <2>1, <2>3 DEF NoneTwice
  <2> QED
    BY <1>3, <1>4, <2>1, <2>3, <2>4
<1> QED
  BY <1>2, <1>3, <1>4, <1>5, <1>7, <1>9

LEMMA DueRightNext ==
  ASSUME ObjectsInv, [DeliveryNext]_deliveryVars, NEW t \in Topics, Promised(t), Deserialized,
         DueRight(t), ColumnsRight(t), CacheRight(t), InOrder(t)
  PROVE  DueRight(t)'
<1>1. /\ DeliveryTypes /\ ParserShape /\ due \in Seq(SharedMessages)
      /\ topic \in Nat /\ t \in Nat /\ t # 0 /\ form' = form
  BY ConstantFacts, FormStays DEF ObjectsInv, DeliveryTypes, ParserTypes
<1> SUFFICES ASSUME topic' = t
             PROVE  \A i \in DOMAIN due' : Right(t, due[i])'
  BY DEF DueRight
<1>2. CASE Receive
  BY <1>1, <1>2 DEF Receive
<1>3. CASE TurnOfWhole
  <2>1. /\ parsing = "message" /\ parsing # "idle" /\ t = topic + 1 /\ received' = received
        /\ EndOffset' = EndOffset
    BY <1>1, <1>3, TurnFacts
  <2>2. objects[columns] = RowsOf(received)
    BY <1>1, <2>1 DEF ColumnsRight
  <2>3. PICK m : m = Whole
    OBVIOUS
  <2>4. Right(t, m)
    BY <1>1, <2>1, <2>2, <2>3, WholeRight
  <2>5. objects' = objects /\ due' = <<m>>
    BY <1>3, <2>3 DEF TurnOfWhole
  <2>6. DueRows(t)' = DueRows(t)
    BY <1>1, <2>1 DEF DueRows
  <2>7. Right(t, m)'
    BY <1>1, <2>1, <2>4, <2>5, <2>6 DEF Right, After, Numbered
  <2>8. \A i \in DOMAIN due' : due'[i] = m
    BY <2>5
  <2> QED
    BY <2>7, <2>8 DEF Right, After, Numbered
<1>4. CASE TurnOfTuple
  <2>1. StartOffset' = StartOffset /\ t = topic + 1
    BY <1>1, <1>4, TurnFacts
  <2>2. form[t] = "tuple"
    BY <1>4, <2>1 DEF TurnOfTuple
  <2>3. PICK s \in Seq(Refs) : s = cache' /\ Len(s) = RowCount
    BY <1>1, <1>4, TupleFacts
  <2>4. due' = [i \in 1 .. RowCount |-> RowMessage(s[i], i)]
    BY <1>4, <2>3 DEF TurnOfTuple
  <2>5. \A i \in DOMAIN s : objects'[s[i]] = <<StartOffset + i - 1>>
    BY <1>1, <2>1, <2>2, <2>3, CacheRightNext DEF CacheRight
  <2>6. \A i \in DOMAIN s : s[i] # 0
    BY <2>3, SourceSoundNext DEF SourceSound
  <2>7. form[t] # "event"
    BY <2>2
  <2> QED
    BY <1>4, <2>3, <2>4, <2>5, <2>6, <2>7, RowsRight
<1>5. CASE TurnOfBlob
  <2>1. t = topic + 1 /\ due = <<>>
    BY <1>1, <1>5, TurnFacts
  <2>2. form[t] = "blob"
    BY <1>5, <2>1 DEF TurnOfBlob
  <2>3. parsed = <<>>
    <3> SUFFICES ASSUME parsed # <<>> PROVE FALSE
      OBVIOUS
    <3>1. PICK u \in 1 .. topic : form[u] = "blob"
      BY DEF Deserialized
    <3>2. u \in 1 .. t - 1
      BY <1>1, <2>1
    <3> QED
      BY <2>2, <3>1, <3>2 DEF Promised, GivenAway
  <2>4. FirstBlob
    BY <1>5, <2>3 DEF FirstBlob
  <2>5. PICK s \in Seq(Refs) :
           /\ s = parsed' /\ Len(s) = RowCount
           /\ \A i \in DOMAIN s : s[i] # 0 /\ objects'[s[i]] = <<StartOffset + i - 1>>
           /\ IF Published[received].known
              THEN due' = [i \in 1 .. RowCount |-> RowMessage(s[i], i)] /\ UNCHANGED parsing
              ELSE parsing' = "ended" /\ UNCHANGED due
    BY <2>4, FirstBlobRight
  <2>6. CASE due' = <<>>
    BY <2>6
  <2>7. CASE due' = [i \in 1 .. RowCount |-> RowMessage(s[i], i)]
    <3>1. form[t] # "event"
      BY <2>2
    <3> QED
      BY <1>5, <2>5, <2>7, <3>1, RowsRight
  <2> QED
    BY <2>1, <2>5, <2>6, <2>7
<1>6. CASE PushDue
  <2>1. PICK d \in Seq(SharedMessages) : d = due /\ d # <<>> /\ due' = Tail(d) /\ topic = t
    BY <1>1, <1>6 DEF PushDue
  <2>2. \A i \in DOMAIN Tail(d) : i + 1 \in DOMAIN d /\ Tail(d)[i] = d[i + 1]
    BY <2>1, TailOf
  <2>3. ASSUME NEW i \in DOMAIN due' PROVE Right(t, due[i])'
    <3>1. PICK j \in DOMAIN d : due'[i] = d[j]
      BY <2>1, <2>2
    <3>2. PICK m \in SharedMessages : m = d[j]
      OBVIOUS
    <3>3. Right(t, m) /\ Within(m.object, due)
      BY <2>1, <3>2 DEF DueRight, Within
    <3>4. Right(t, m)'
      BY <1>6, <3>3, PushIsNotMerge, RightStays
    <3> QED
      BY <3>1, <3>2, <3>4 DEF Right, After, Numbered
  <2> QED
    BY <2>3
<1>7. CASE UNCHANGED <<topic, due>>
  <2>1. ASSUME NEW i \in DOMAIN due PROVE Right(t, due[i])'
    <3>1. PICK m \in SharedMessages : m = due[i]
      BY <1>1
    <3>2. Right(t, m) /\ Within(m.object, due)
      BY <1>7, <3>1 DEF DueRight, Within
    <3>3. Merge(t) => m.object # msg[t].object
      BY <1>7, <3>1, DueApart
    <3>4. Right(t, m)'
      BY <3>2, <3>3, RightStays
    <3> QED
      BY <1>7, <3>1, <3>4 DEF Right, After, Numbered
  <2> QED
    BY <1>7, <2>1
<1>8. CASE EndMessage
  BY <1>1, <1>8 DEF EndMessage
<1>9. Release \/ ParserStill => UNCHANGED <<topic, due>>
  BY DEF Release, ParserStill
<1> QED
  BY <1>2, <1>3, <1>4, <1>5, <1>6, <1>7, <1>8, <1>9, ParserSteps

-----------------------------------------------------------------------------
(* What comes next follows. *)

(* The rest of what follows. *)
LEMMA TailFollows ==
  ASSUME NEW d \in Seq(SharedMessages), d # <<>>, Tail(d) # <<>>, Follow(d)
  PROVE  /\ Follow(Tail(d)) /\ Tail(d)[Len(Tail(d))] = d[Len(d)]
         /\ Tail(d)[1] = d[2] /\ d[2].offset = After(d[1])
<1>1. /\ Len(d) \in Nat /\ Len(Tail(d)) = Len(d) - 1 /\ Len(Tail(d)) \in Nat \ {0}
      /\ \A i \in 1 .. Len(Tail(d)) : Tail(d)[i] = d[i + 1]
  BY TailFacts
<1>2. PICK n \in Nat \ {0} : n = Len(Tail(d))
  BY <1>1
<1>8. Len(d) = n + 1
  BY <1>1, <1>2
<1>3. \A i \in 1 .. n : Tail(d)[i] = d[i + 1]
  BY <1>1, <1>2
<1>4. \A i \in 1 .. n : d[i + 1].offset = After(d[i])
  BY <1>8 DEF Follow
<1>5. ASSUME NEW i \in 1 .. n - 1 PROVE Tail(d)[i + 1].offset = After(Tail(d)[i])
  <2>1. i \in 1 .. n /\ i + 1 \in 1 .. n
    OBVIOUS
  <2>2. Tail(d)[i + 1] = d[i + 1 + 1] /\ Tail(d)[i] = d[i + 1]
    BY <1>3, <2>1
  <2>3. d[i + 1 + 1].offset = After(d[i + 1])
    BY <1>4, <2>1
  <2> QED
    BY <2>2, <2>3
<1>6. 1 \in 1 .. n /\ n \in 1 .. n
  OBVIOUS
<1>7. Tail(d)[n] = d[n + 1]
  BY <1>3, <1>6
<1>9. 1 + 1 = 2
  OBVIOUS
<1>10. Tail(d)[1] = d[2] /\ d[2].offset = After(d[1])
  BY <1>3, <1>4, <1>6, <1>9
<1> QED
  BY <1>2, <1>5, <1>7, <1>8, <1>10 DEF Follow

LEMMA ComingSame ==
  ASSUME UNCHANGED <<received, parsing, topic, due>>, NEW t
  PROVE  Coming(t)' = Coming(t)
BY DEF Coming, EndOffset, StartOffset

(* Rows made into messages follow each other. *)
LEMMA RowsFollow ==
  ASSUME ObjectsInv, TurnOfTuple \/ TurnOfBlob,
         NEW s \in Seq(Refs), Len(s) = RowCount, due' = [i \in 1 .. RowCount |-> RowMessage(s[i], i)]
  PROVE  /\ due' # <<>> /\ due'[1].offset = StartOffset
         /\ Follow(due') /\ After(due'[Len(due')]) = EndOffset
<1>1. /\ DeliveryTypes /\ ParserShape /\ parsing # "idle" /\ received # 0
  BY TurnFacts
<1>2. PICK n \in Nat \ {0} : n = RowCount
  BY <1>1, MessageFacts
<1>3. PICK f \in Nat : f = StartOffset
  BY <1>1, MessageFacts
<1>4. EndOffset = f + n
  BY <1>1, <1>2, <1>3, EndOffsetFacts
<1>5. PICK d : d = due'
  OBVIOUS
<1>11. /\ Len(d) = RowCount /\ d \in Seq(SharedMessages) /\ DOMAIN d = DOMAIN s
       /\ \A i \in DOMAIN d : d[i].object = s[i] /\ d[i].size = 1 /\ d[i].offset = StartOffset + i - 1
  BY <1>1, <1>5, RowsAsMessages
<1>6. /\ Len(d) = n /\ DOMAIN d = 1 .. n
      /\ \A i \in DOMAIN d : d[i].size = 1 /\ d[i].offset = StartOffset + i - 1
  BY <1>2, <1>11
<1>7. \A i \in 1 .. n : i \in DOMAIN d /\ d[i].size = 1 /\ d[i].offset = f + i - 1
  BY <1>3, <1>6
<1>8. \A i \in 1 .. n : After(d[i]) = f + i
  BY <1>7 DEF After
<1>9. \A i \in 1 .. Len(d) - 1 : i \in 1 .. n /\ i + 1 \in 1 .. n
  BY <1>6
<1>10. ASSUME NEW i \in 1 .. Len(d) - 1 PROVE d[i + 1].offset = After(d[i])
  <2>1. i \in 1 .. n /\ i + 1 \in 1 .. n
    BY <1>9
  <2>2. d[i + 1].offset = f + (i + 1) - 1 /\ After(d[i]) = f + i
    BY <1>7, <1>8, <2>1
  <2> QED
    BY <2>1, <2>2
<1>13. n \in 1 .. n /\ 1 \in 1 .. n
  OBVIOUS
<1>12. d # <<>> /\ d[1].offset = f /\ After(d[Len(d)]) = EndOffset
  BY <1>4, <1>6, <1>7, <1>8, <1>13
<1> QED
  BY <1>3, <1>5, <1>10, <1>12 DEF Follow

(* What a turn makes. *)
LEMMA TurnFollows ==
  ASSUME ObjectsInv, [DeliveryNext]_deliveryVars, NEW t \in Topics, Promised(t), Deserialized,
         ColumnsRight(t), TurnOfWhole \/ TurnOfTuple \/ TurnOfBlob, topic' = t
  PROVE  \/ /\ due' # <<>> /\ due'[1].offset = StartOffset
            /\ Follow(due') /\ After(due'[Len(due')]) = EndOffset
         \/ due' = <<>> /\ parsing' = "ended"
<1>1. /\ DeliveryTypes /\ ParserShape /\ parsing # "idle" /\ parsing = "message" /\ due = <<>>
      /\ topic \in Nat /\ t = topic + 1
  BY TurnFacts
<1>2. CASE TurnOfWhole
  <2>1. objects[columns] = RowsOf(received)
    BY <1>1, ConstantFacts DEF ColumnsRight
  <2>2. PICK m : m = Whole
    OBVIOUS
  <2>3. After(m) = EndOffset /\ m.offset = StartOffset
    BY <1>1, <2>1, <2>2, WholeRight
  <2>4. due' = <<m>>
    BY <1>2, <2>2 DEF TurnOfWhole
  <2>5. Len(due') = 1 /\ due'[1] = m /\ due' # <<>>
    BY <2>4
  <2>6. Follow(due')
    BY <2>5 DEF Follow
  <2> QED
    BY <2>3, <2>5, <2>6
<1>3. CASE TurnOfTuple
  <2>1. PICK s \in Seq(Refs) : s = cache' /\ Len(s) = RowCount
    BY <1>1, <1>3, TupleFacts
  <2>2. due' = [i \in 1 .. RowCount |-> RowMessage(s[i], i)]
    BY <1>3, <2>1 DEF TurnOfTuple
  <2> QED
    BY <1>3, <2>1, <2>2, RowsFollow
<1>4. CASE TurnOfBlob
  <2>1. form[t] = "blob"
    BY <1>1, <1>4 DEF TurnOfBlob
  <2>2. parsed = <<>>
    <3> SUFFICES ASSUME parsed # <<>> PROVE FALSE
      OBVIOUS
    <3>1. PICK u \in 1 .. topic : form[u] = "blob"
      BY DEF Deserialized
    <3>2. u \in 1 .. t - 1
      BY <1>1
    <3> QED
      BY <2>1, <3>1, <3>2 DEF Promised, GivenAway
  <2>3. FirstBlob
    BY <1>4, <2>2 DEF FirstBlob
  <2>4. PICK s \in Seq(Refs) :
           /\ s = parsed' /\ Len(s) = RowCount
           /\ \A i \in DOMAIN s : s[i] # 0 /\ objects'[s[i]] = <<StartOffset + i - 1>>
           /\ IF Published[received].known
              THEN due' = [i \in 1 .. RowCount |-> RowMessage(s[i], i)] /\ UNCHANGED parsing
              ELSE parsing' = "ended" /\ UNCHANGED due
    BY <2>3, FirstBlobRight
  <2> QED
    BY <1>1, <1>4, <2>4, RowsFollow
<1> QED
  BY <1>2, <1>3, <1>4

LEMMA ComingStep ==
  ASSUME ObjectsInv, [DeliveryNext]_deliveryVars, NEW t \in Topics, Promised(t), Deserialized,
         ColumnsRight(t), DueFollows(t)
  PROVE  \/ Coming(t)' = Coming(t) /\ ~(PushDue /\ topic = t)
         \/ PushDue /\ topic = t /\ Coming(t) = due[1].offset /\ Coming(t)' = After(due[1])
<1>1. /\ DeliveryTypes /\ ParserShape /\ topic \in Nat /\ t \in Nat /\ t # 0 /\ t <= TopicCount
      /\ due \in Seq(SharedMessages) /\ TopicCount \in Nat
      /\ parsing \in {"idle", "message", "ended"}
  BY ConstantFacts DEF ObjectsInv, DeliveryTypes, ParserTypes
<1>2. CASE Receive
  <2>1. topic = 0 /\ due = <<>>
    BY <1>1, <1>2 DEF Receive, ParserShape
  <2>2. Coming(t) = EndOffset
    BY <1>1, <1>2, <2>1 DEF Coming, Receive
  <2>3. topic' = 0 /\ parsing' = "message" /\ due' = due
    BY <1>2 DEF Receive
  <2>4. Coming(t)' = StartOffset'
    BY <1>1, <2>1, <2>3 DEF Coming
  <2>5. ~PushDue
    BY <1>2 DEF PushDue, Receive, ParserShape, ObjectsInv
  <2> QED
    BY <1>1, <1>2, <2>2, <2>4, <2>5, ReceiveOffsets
<1>3. CASE TurnOfWhole \/ TurnOfTuple \/ TurnOfBlob
  <2>1. /\ parsing = "message" /\ due = <<>> /\ topic' = topic + 1
        /\ StartOffset' = StartOffset /\ EndOffset' = EndOffset
    BY <1>3, TurnFacts
  <2>2. ~PushDue
    BY <2>1 DEF PushDue
  <2>3. parsing' \in {"message", "ended"}
    BY <1>3, <2>1 DEF TurnOfWhole, TurnOfTuple, TurnOfBlob
  <2>4. CASE topic' = t
    <3>1. Coming(t) = StartOffset
      BY <1>1, <2>1, <2>4 DEF Coming
    <3>2. \/ due' # <<>> /\ due'[1].offset = StartOffset
          \/ due' = <<>> /\ parsing' = "ended"
      BY <1>3, <2>4, TurnFollows
    <3>3. Coming(t)' = StartOffset
      BY <2>1, <2>4, <3>2 DEF Coming
    <3> QED
      BY <2>2, <3>1, <3>3
  <2>5. CASE topic' < t
    <3>1. topic < t /\ topic # t /\ topic' # t
      BY <1>1, <2>1, <2>5
    <3>2. Coming(t) = StartOffset /\ Coming(t)' = StartOffset'
      BY <2>1, <2>3, <2>5, <3>1 DEF Coming
    <3> QED
      BY <2>1, <2>2, <3>2
  <2>6. CASE topic' > t
    <3>1. ~(topic < t) /\ ~(topic' < t) /\ topic' # t
      BY <1>1, <2>1, <2>6
    <3>2. Coming(t) = EndOffset /\ Coming(t)' = EndOffset'
      BY <2>1, <3>1 DEF Coming
    <3> QED
      BY <2>1, <2>2, <3>2
  <2>7. topic' = t \/ topic' < t \/ topic' > t
    BY <1>1, <2>1
  <2> QED
    BY <2>4, <2>5, <2>6, <2>7
<1>4. CASE PushDue
  <2>1. PICK d \in Seq(SharedMessages) : d = due /\ d # <<>> /\ due' = Tail(d)
    BY <1>1, <1>4 DEF PushDue
  <2>2. topic' = topic /\ parsing' = parsing /\ received' = received /\ parsing = "message"
    BY <1>1, <1>4, PushFacts DEF PushDue
  <2>3. StartOffset' = StartOffset /\ EndOffset' = EndOffset
    BY <2>2 DEF StartOffset, EndOffset
  <2>4. CASE topic # t
    BY <2>2, <2>3, <2>4 DEF Coming
  <2>5. CASE topic = t
    <3>1. Coming(t) = d[1].offset
      BY <2>1, <2>5 DEF Coming
    <3>2. /\ Len(d) \in Nat \ {0} /\ Len(Tail(d)) = Len(d) - 1
          /\ \A i \in 1 .. Len(Tail(d)) : Tail(d)[i] = d[i + 1]
          /\ Tail(d) = <<>> => Len(d) = 1
          /\ Tail(d) # <<>> => Len(Tail(d)) \in Nat \ {0}
      BY <2>1, TailFacts
    <3>3. Follow(d) /\ After(d[Len(d)]) = EndOffset
      BY <2>1, <2>5 DEF DueFollows
    <3>4. CASE Tail(d) = <<>>
      <4>1. ~(topic' < t) /\ parsing' # "ended"
        BY <1>1, <2>2, <2>5
      <4>2. Coming(t)' = EndOffset'
        BY <2>1, <3>4, <4>1 DEF Coming
      <4> QED
        BY <1>4, <2>1, <2>3, <2>5, <3>1, <3>2, <3>3, <3>4, <4>2
    <3>5. CASE Tail(d) # <<>>
      <4>1. 1 \in 1 .. Len(d) - 1 /\ Tail(d)[1] = d[2]
        BY <3>2, <3>5
      <4>2. d[1 + 1].offset = After(d[1])
        BY <3>3, <4>1 DEF Follow
      <4>3. Coming(t)' = Tail(d)[1].offset
        BY <2>1, <2>2, <2>5, <3>5 DEF Coming
      <4> QED
        BY <1>4, <2>1, <2>5, <3>1, <4>1, <4>2, <4>3
    <3> QED
      BY <3>4, <3>5
  <2> QED
    BY <2>4, <2>5
<1>5. CASE EndMessage
  <2>1. /\ topic = TopicCount /\ topic' = 0 /\ due = <<>> /\ parsing = "message" /\ parsing' = "idle"
        /\ received' = received /\ due' = due
    BY <1>5 DEF EndMessage
  <2>2. ~(topic < t) /\ topic' # t
    BY <1>1, <2>1
  <2>3. Coming(t) = EndOffset /\ Coming(t)' = EndOffset'
    BY <2>1, <2>2 DEF Coming
  <2>4. EndOffset' = EndOffset
    BY <2>1 DEF EndOffset
  <2>5. ~PushDue
    BY <2>1 DEF PushDue
  <2> QED
    BY <2>3, <2>4, <2>5
<1>6. CASE ParserStill \/ Release
  <2>1. UNCHANGED <<received, parsing, topic, due>>
    BY <1>6 DEF ParserStill, Release
  <2>2. ~PushDue
    <3>1. PushDue => due # <<>> /\ due' = Tail(due)
      BY DEF PushDue
    <3>2. due # <<>> => Len(Tail(due)) = Len(due) - 1 /\ Len(due) \in Nat
      BY <1>1, TailFacts
    <3> QED
      BY <2>1, <3>1, <3>2
  <2> QED
    BY <2>1, <2>2, ComingSame
<1> QED
  BY <1>2, <1>3, <1>4, <1>5, <1>6, ParserSteps

LEMMA DueFollowsNext ==
  ASSUME ObjectsInv, [DeliveryNext]_deliveryVars, NEW t \in Topics, Promised(t), Deserialized,
         ColumnsRight(t), DueFollows(t)
  PROVE  DueFollows(t)'
<1>1. /\ DeliveryTypes /\ due \in Seq(SharedMessages) /\ t # 0
  BY ConstantFacts DEF ObjectsInv, DeliveryTypes, ParserTypes
<1> SUFFICES ASSUME topic' = t, due' # <<>>
             PROVE  Follow(due') /\ After(due'[Len(due')]) = EndOffset'
  BY DEF DueFollows, Follow, After
<1>2. CASE Receive \/ EndMessage
  BY <1>1, <1>2 DEF Receive, EndMessage, ObjectsInv, ParserShape
<1>3. CASE TurnOfWhole \/ TurnOfTuple \/ TurnOfBlob
  <2>1. EndOffset' = EndOffset
    BY <1>3, TurnFacts
  <2> QED
    BY <1>3, <2>1, TurnFollows
<1>4. CASE PushDue
  <2>1. PICK d \in Seq(SharedMessages) : d = due /\ d # <<>> /\ due' = Tail(d) /\ topic = t
    BY <1>1, <1>4 DEF PushDue
  <2>2. EndOffset' = EndOffset
    BY <1>4 DEF PushDue, EndOffset
  <2>3. Follow(d) /\ After(d[Len(d)]) = EndOffset
    BY <2>1 DEF DueFollows
  <2> QED
    BY <2>1, <2>2, <2>3, TailFollows
<1>5. CASE ParserStill \/ Release
  <2>1. UNCHANGED <<received, topic, due>>
    BY <1>5 DEF ParserStill, Release
  <2>2. EndOffset' = EndOffset
    BY <2>1 DEF EndOffset
  <2> QED
    BY <2>1, <2>2 DEF DueFollows
<1> QED
  BY <1>2, <1>3, <1>4, <1>5, ParserSteps

(* The queue and the message of the handler thread. *)
LEMMA AppendFollows ==
  ASSUME NEW q \in Seq(SharedMessages), NEW h \in SharedMessages, Follow(q),
         q # <<>> => After(q[Len(q)]) = h.offset
  PROVE  /\ Follow(Append(q, h)) /\ Append(q, h) # <<>>
         /\ Append(q, h)[Len(Append(q, h))] = h
         /\ Append(q, h)[1] = IF q = <<>> THEN h ELSE q[1]
<1>1. PICK r : r = Append(q, h)
  OBVIOUS
<1>2. PICK n \in Nat : n = Len(q)
  OBVIOUS
<1>3. /\ Len(r) = n + 1 /\ r[n + 1] = h /\ \A i \in 1 .. n : r[i] = q[i]
      /\ r # <<>>
  BY <1>1, <1>2
<1>4. ASSUME NEW i \in 1 .. n PROVE r[i + 1].offset = After(r[i])
  <2>1. CASE i = n
    <3>1. q # <<>>
      BY <1>2, <2>1
    <3>2. After(q[n]) = h.offset
      BY <1>2, <3>1
    <3> QED
      BY <1>3, <2>1, <3>2
  <2>2. CASE i # n
    <3>1. i \in 1 .. n - 1 /\ i + 1 \in 1 .. n
      BY <2>2
    <3>2. q[i + 1].offset = After(q[i])
      BY <1>2, <3>1 DEF Follow
    <3> QED
      BY <1>3, <3>1, <3>2
  <2> QED
    BY <2>1, <2>2
<1>5. r[1] = IF q = <<>> THEN h ELSE q[1]
  <2>1. CASE q = <<>>
    BY <1>2, <1>3, <2>1
  <2>2. CASE q # <<>>
    <3>1. 1 \in 1 .. n
      BY <1>2, <2>2
    <3> QED
      BY <1>3, <2>2, <3>1
  <2> QED
    BY <2>1, <2>2
<1>6. Follow(r)
  <2>1. Len(r) - 1 = n
    BY <1>3
  <2> QED
    BY <1>4, <2>1 DEF Follow
<1> QED
  BY <1>1, <1>3, <1>5, <1>6

(* A message is taken out of the queue. *)
LEMMA TakenFollows ==
  ASSUME ObjectsInv, NEW t \in Topics, PopNext(t) \/ Merge(t), QueueFollows(t)
  PROVE  /\ QueueFollows(t)' /\ Coming(t)' = Coming(t)
         /\ Ahead(t) = Head(queues[t]).offset /\ Ahead(t)' = After(Head(queues[t]))
<1>1. queues \in [Topics -> Seq(SharedMessages)]
  BY DEF ObjectsInv, DeliveryTypes, HandlerTypes
<1>2. PICK q \in Seq(SharedMessages) : q = queues[t] /\ q # <<>>
  BY <1>1 DEF PopNext, Merge
<1>3. queues'[t] = Tail(q)
  BY <1>1, <1>2 DEF PopNext, Merge
<1>4. Coming(t)' = Coming(t)
  <2>1. UNCHANGED <<received, parsing, topic, due>>
    BY DEF PopNext, Merge, parserVars
  <2> QED
    BY <2>1, ComingSame
<1>5. Follow(q) /\ After(q[Len(q)]) = Coming(t)
  BY <1>2 DEF QueueFollows
<1>6. Head(q) = q[1] /\ (Tail(q) = <<>> => Len(q) = 1)
  BY <1>2, TailFacts
<1>7. Ahead(t) = Head(q).offset
  BY <1>2, <1>6 DEF Ahead
<1>8. CASE Tail(q) = <<>>
  <2>1. Ahead(t)' = After(Head(q))
    BY <1>3, <1>4, <1>5, <1>6, <1>8 DEF Ahead
  <2>2. Follow(Tail(q))
    <3>1. Len(<< >>) = 0
      OBVIOUS
    <3>2. Follow(<< >>)
      BY <3>1 DEF Follow
    <3> QED
      BY <1>8, <3>2
  <2> QED
    BY <1>2, <1>3, <1>4, <1>7, <1>8, <2>1, <2>2 DEF QueueFollows
<1>9. CASE Tail(q) # <<>>
  <2>1. /\ Follow(Tail(q)) /\ Tail(q)[Len(Tail(q))] = q[Len(q)]
        /\ Tail(q)[1] = q[2] /\ q[2].offset = After(q[1])
    BY <1>2, <1>5, <1>9, TailFollows
  <2>2. Ahead(t)' = After(Head(q))
    BY <1>3, <1>6, <1>9, <2>1 DEF Ahead
  <2>3. QueueFollows(t)'
    BY <1>3, <1>4, <1>5, <2>1 DEF QueueFollows, After
  <2> QED
    BY <1>2, <1>4, <1>7, <2>2, <2>3
<1> QED
  BY <1>8, <1>9

(* Nothing is taken out. *)
LEMMA OthersFollow ==
  ASSUME ObjectsInv, [DeliveryNext]_deliveryVars, NEW t \in Topics, Promised(t), Deserialized,
         ColumnsRight(t), DueFollows(t), QueueFollows(t), ~PopNext(t), ~Merge(t)
  PROVE  QueueFollows(t)' /\ Ahead(t)' = Ahead(t)
<1>1. queues \in [Topics -> Seq(SharedMessages)]
  BY DEF ObjectsInv, DeliveryTypes, HandlerTypes
<1>2. PICK q \in Seq(SharedMessages) : q = queues[t]
  BY <1>1
<1>3. Follow(q) /\ (q # <<>> => After(q[Len(q)]) = Coming(t))
  BY <1>2 DEF QueueFollows
<1>4. \/ queues'[t] = q
      \/ /\ PushDue /\ topic = t /\ due # <<>> /\ Head(due) = due[1] /\ 1 \in DOMAIN due
         /\ Head(due) \in SharedMessages
         /\ queues'[t] = Append(q, Head(due))
  <2>1. CASE Handle(t) \/ Done(t)
    BY <1>2, <2>1 DEF Handle, Done
  <2>2. CASE ~HandlerStep(t)
    BY <1>2, <2>2, OthersLeave
  <2> QED
    BY <2>1, <2>2 DEF HandlerStep
<1>5. CASE PushDue /\ topic = t
  <2>1. PICK h \in SharedMessages : h = due[1] /\ h = Head(due)
    BY <1>5, PushFacts
  <2>2. queues'[t] = Append(q, h)
    BY <1>1, <1>2, <1>5, <2>1 DEF PushDue
  <2>3. Coming(t) = h.offset /\ Coming(t)' = After(h)
    BY <1>5, <2>1, ComingStep
  <2>4. PICK r : r = Append(q, h)
    OBVIOUS
  <2>5. /\ Follow(r) /\ r # <<>> /\ r[Len(r)] = h
        /\ r[1] = IF q = <<>> THEN h ELSE q[1]
    BY <1>3, <2>3, <2>4, AppendFollows
  <2>6. QueueFollows(t)'
    BY <2>2, <2>3, <2>4, <2>5 DEF QueueFollows, After
  <2>7. Ahead(t)' = r[1].offset
    BY <2>2, <2>4, <2>5 DEF Ahead
  <2>8. Ahead(t) = IF q = <<>> THEN h.offset ELSE q[1].offset
    BY <1>2, <2>3 DEF Ahead
  <2> QED
    BY <2>5, <2>6, <2>7, <2>8
<1>6. CASE ~(PushDue /\ topic = t)
  <2>1. Coming(t)' = Coming(t)
    BY <1>6, ComingStep
  <2>2. queues'[t] = q
    BY <1>4, <1>6
  <2> QED
    BY <1>2, <1>3, <2>1, <2>2 DEF QueueFollows, Ahead, After
<1> QED
  BY <1>5, <1>6

LEMMA FollowsNext ==
  ASSUME ObjectsInv, [DeliveryNext]_deliveryVars, NEW t \in Topics, Promised(t), Deserialized, Straight(t)
  PROVE  QueueFollows(t)' /\ MsgFollows(t)'
<1>1. /\ msg \in [Topics -> SharedMessages] /\ queues \in [Topics -> Seq(SharedMessages)]
      /\ stage \in [Topics -> {"none", "popped", "merged", "handled"}]
  BY DEF ObjectsInv, DeliveryTypes, HandlerTypes
<1>2. /\ QueueRight(t) /\ MsgRight(t) /\ ColumnsRight(t) /\ DueFollows(t)
      /\ QueueFollows(t) /\ MsgFollows(t)
  BY DEF Straight
<1>3. CASE PopNext(t)
  <2>1. QueueFollows(t)' /\ Ahead(t)' = After(Head(queues[t]))
    BY <1>2, <1>3, TakenFollows
  <2>2. msg'[t] = Head(queues[t])
    BY <1>1, <1>3 DEF PopNext
  <2> QED
    BY <2>1, <2>2 DEF MsgFollows, After
<1>4. CASE Merge(t)
  <2>1. QueueFollows(t)' /\ Ahead(t)' = After(Head(queues[t]))
    BY <1>2, <1>4, TakenFollows
  <2>2. After(msg[t])' = After(Head(queues[t]))
    BY <1>2, <1>4, MergeRight
  <2> QED
    BY <2>1, <2>2 DEF MsgFollows
<1>5. CASE ~PopNext(t) /\ ~Merge(t)
  <2>1. QueueFollows(t)' /\ Ahead(t)' = Ahead(t)
    BY <1>2, <1>5, OthersFollow
  <2>2. CASE Handle(t) \/ Done(t)
    <3>1. stage'[t] \in {"handled", "none"}
      BY <1>1, <2>2 DEF Handle, Done, Goes
    <3>2. MsgFollows(t)'
      BY <3>1 DEF MsgFollows, InHand
    <3> QED
      BY <2>1, <3>2
  <2>3. CASE ~HandlerStep(t)
    <3>1. msg'[t] = msg[t] /\ stage'[t] = stage[t]
      BY <2>3, OthersLeave
    <3>2. MsgFollows(t)'
      BY <1>2, <2>1, <3>1 DEF MsgFollows, InHand, After
    <3> QED
      BY <2>1, <3>2
  <2> QED
    BY <1>5, <2>2, <2>3 DEF HandlerStep
<1> QED
  BY <1>3, <1>4, <1>5

-----------------------------------------------------------------------------
(* What the handler got. *)

LEMMA PositionIs ==
  ASSUME ObjectsInv, NEW t \in Topics, Straight(t)
  PROVE  Position(t) \in Int /\ Position(t) <= EndOffset
<1>1. /\ DeliveryTypes /\ ParserShape /\ msg \in [Topics -> SharedMessages]
      /\ queues \in [Topics -> Seq(SharedMessages)] /\ due \in Seq(SharedMessages)
  BY DEF ObjectsInv, DeliveryTypes, HandlerTypes, ParserTypes
<1>2. EndOffset \in Nat
  BY <1>1, EndOffsetFacts
<1>3. ASSUME NEW m \in SharedMessages, Right(t, m)
      PROVE  m.offset \in Int /\ m.offset <= EndOffset
  <2>1. m.offset \in Int /\ m.size \in Nat
    BY DEF SharedMessages
  <2>2. m.offset + m.size <= EndOffset
    BY <1>3 DEF Right, After
  <2> QED
    BY <1>2, <2>1, <2>2
<1>4. Coming(t) \in Int /\ Coming(t) <= EndOffset
  <2>1. CASE topic = t /\ due # <<>>
    <3>1. PICK d \in Seq(SharedMessages) : d = due /\ d # <<>>
      BY <1>1, <2>1
    <3>2. 1 \in DOMAIN d
      BY <3>1
    <3>3. PICK m \in SharedMessages : m = d[1]
      BY <3>2
    <3>4. Right(t, m)
      BY <2>1, <3>1, <3>2, <3>3 DEF Straight, DueRight
    <3>5. Coming(t) = m.offset
      BY <2>1, <3>1, <3>3 DEF Coming
    <3> QED
      BY <1>3, <3>4, <3>5
  <2>2. CASE ~(topic = t /\ due # <<>>) /\ parsing # "idle"
    <3>1. received # 0
      BY <1>1, <2>2 DEF ParserShape
    <3>2. StartOffset \in Nat /\ StartOffset < EndOffset
      BY <1>1, <3>1, EndOffsetFacts
    <3>3. Coming(t) \in {StartOffset, EndOffset}
      BY <2>2 DEF Coming
    <3> QED
      BY <1>2, <3>2, <3>3
  <2>3. CASE ~(topic = t /\ due # <<>>) /\ parsing = "idle"
    <3>1. Coming(t) = EndOffset
      BY <2>3 DEF Coming
    <3> QED
      BY <1>2, <3>1
  <2> QED
    BY <2>1, <2>2, <2>3
<1>5. Ahead(t) \in Int /\ Ahead(t) <= EndOffset
  <2>1. CASE queues[t] = <<>>
    BY <1>4, <2>1 DEF Ahead
  <2>2. CASE queues[t] # <<>>
    <3>1. PICK q \in Seq(SharedMessages) : q = queues[t] /\ q # <<>>
      BY <1>1, <2>2
    <3>2. 1 \in DOMAIN q
      BY <3>1
    <3>3. PICK m \in SharedMessages : m = q[1]
      BY <3>2
    <3>4. Right(t, m)
      BY <3>1, <3>2, <3>3 DEF Straight, QueueRight
    <3>5. Ahead(t) = m.offset
      BY <2>2, <3>1, <3>3 DEF Ahead
    <3> QED
      BY <1>3, <3>4, <3>5
  <2> QED
    BY <2>1, <2>2
<1>6. CASE InHand(t)
  <2>1. PICK m \in SharedMessages : m = msg[t]
    BY <1>1
  <2>2. Right(t, m) /\ Position(t) = m.offset
    BY <1>6, <2>1 DEF Straight, MsgRight, Position
  <2> QED
    BY <1>3, <2>2
<1>7. CASE ~InHand(t)
  BY <1>5, <1>7 DEF Position
<1> QED
  BY <1>6, <1>7

(* Where it is stays, until the handler gets the message. *)
LEMMA PositionStays ==
  ASSUME ObjectsInv, [DeliveryNext]_deliveryVars, NEW t \in Topics, Promised(t), Deserialized,
         Straight(t), ~Handle(t)
  PROVE  Position(t)' = Position(t) /\ handed'[t] = handed[t]
<1>1. /\ msg \in [Topics -> SharedMessages] /\ queues \in [Topics -> Seq(SharedMessages)]
      /\ stage \in [Topics -> {"none", "popped", "merged", "handled"}]
  BY DEF ObjectsInv, DeliveryTypes, HandlerTypes
<1>2. ColumnsRight(t) /\ DueFollows(t) /\ QueueFollows(t) /\ MsgFollows(t)
  BY DEF Straight
<1>3. CASE PopNext(t)
  <2>1. Ahead(t) = Head(queues[t]).offset
    BY <1>2, <1>3, TakenFollows
  <2>2. msg'[t] = Head(queues[t]) /\ handed' = handed /\ stage[t] = "none" /\ stage'[t] = "popped"
    BY <1>1, <1>3 DEF PopNext, Goes
  <2> QED
    BY <2>1, <2>2 DEF Position, InHand
<1>4. CASE Merge(t)
  <2>1. PICK n : msg' = [msg EXCEPT ![t].size = n]
    BY <1>4 DEF Merge
  <2>2. PICK m \in SharedMessages : m = msg[t]
    BY <1>1
  <2>3. msg'[t] = [m EXCEPT !.size = n]
    BY <1>1, <2>1, <2>2
  <2>4. msg'[t].offset = m.offset
    BY <2>3 DEF SharedMessages
  <2>5. stage[t] = "popped" /\ stage'[t] \in {"popped", "merged"} /\ handed' = handed
    BY <1>1, <1>4 DEF Merge, Goes
  <2> QED
    BY <2>2, <2>4, <2>5 DEF Position, InHand
<1>5. CASE ~PopNext(t) /\ ~Merge(t)
  <2>1. Ahead(t)' = Ahead(t)
    BY <1>2, <1>5, OthersFollow
  <2>2. CASE Done(t)
    <3>1. stage[t] = "handled" /\ stage'[t] = "none" /\ handed' = handed
      BY <1>1, <2>2 DEF Done, Goes
    <3> QED
      BY <2>1, <3>1 DEF Position, InHand
  <2>3. CASE ~HandlerStep(t)
    <3>1. msg'[t] = msg[t] /\ stage'[t] = stage[t] /\ handed'[t] = handed[t]
      BY <2>3, OthersLeave
    <3> QED
      BY <2>1, <3>1 DEF Position, InHand
  <2> QED
    BY <1>5, <2>2, <2>3 DEF HandlerStep
<1> QED
  BY <1>3, <1>4, <1>5

(* The handler gets all the rows of the message that are due to it. *)
LEMMA HandedMore ==
  ASSUME ObjectsInv, NEW t \in Topics, Straight(t), Handle(t)
  PROVE  \E g \in Seq(HandedRows), f \in Int, n \in Nat :
           /\ handed'[t] = handed[t] \o g
           /\ f = Position(t) /\ f + n = Ahead(t) /\ f + n = After(msg[t])
           /\ \/ g = <<>> /\ \A r \in f .. f + n - 1 : r \notin DueRows(t)
              \/ /\ Len(g) = n /\ \A r \in f .. f + n - 1 : r \in DueRows(t)
                 /\ \A i \in 1 .. n : g[i].row = f + i - 1 /\ g[i].offset = f + i - 1
<1>1. /\ DeliveryTypes /\ QueuesSound /\ msg \in [Topics -> SharedMessages]
      /\ handed \in [Topics -> Seq(HandedRows)]
  BY DEF ObjectsInv, DeliveryTypes, HandlerTypes
<1>2. InHand(t) /\ stage[t] # "none"
  BY DEF Handle, InHand
<1>3. PICK m \in SharedMessages : m = msg[t]
  BY <1>1
<1>4. Right(t, m) /\ After(m) = Ahead(t) /\ Position(t) = m.offset
  BY <1>2, <1>3 DEF Straight, MsgRight, MsgFollows, Position
<1>5. PICK f \in Int : f = m.offset
  BY DEF SharedMessages
<1>6. PICK n \in Nat : n = m.size
  BY DEF SharedMessages
<1>7. After(m) = f + n
  BY <1>5, <1>6 DEF After
<1>8. /\ objects[m.object] = Numbered(m) /\ m.object # 0
      /\ \A r \in f .. f + n - 1 : r \in DueRows(t) <=> (form[t] = "event" => m.known)
  BY <1>4, <1>5, <1>7 DEF Right
<1>9. PICK g : g = HandlerGets(t)
  OBVIOUS
<1>10. g \in Seq(HandedRows)
  BY <1>1, <1>9, HandledRows
<1>11. handed'[t] = handed[t] \o g
  BY <1>1, <1>9 DEF Handle
<1>12. CASE form[t] = "event" /\ ~m.known
  <2>1. g = <<>>
    BY <1>3, <1>8, <1>9, <1>12 DEF HandlerGets
  <2>2. \A r \in f .. f + n - 1 : r \notin DueRows(t)
    BY <1>8, <1>12
  <2> QED
    BY <1>3, <1>4, <1>5, <1>7, <1>10, <1>11, <2>1, <2>2
<1>13. CASE ~(form[t] = "event" /\ ~m.known)
  <2>1. g = RowsIn(m)
    BY <1>3, <1>8, <1>9, <1>13 DEF HandlerGets
  <2>2. m.size <= Len(objects[m.object])
    BY <1>1, <1>2, <1>3, <1>8, MessageHeld
  <2>3. /\ Len(g) = n
        /\ \A i \in 1 .. n : g[i].row = objects[m.object][i] /\ g[i].offset = m.offset + i - 1
    BY <1>1, <1>6, <2>1, <2>2, RowsInFacts
  <2>4. \A i \in 1 .. n : objects[m.object][i] = f + i - 1
    BY <1>5, <1>6, <1>8 DEF Numbered
  <2>5. \A i \in 1 .. n : g[i].row = f + i - 1 /\ g[i].offset = f + i - 1
    BY <1>5, <2>3, <2>4
  <2>6. \A r \in f .. f + n - 1 : r \in DueRows(t)
    BY <1>8, <1>13
  <2>7. f = Position(t) /\ f + n = Ahead(t) /\ f + n = After(msg[t])
    BY <1>3, <1>4, <1>5, <1>7
  <2>8. Len(g) = n
    BY <2>3
  <2> QED
    BY <1>10, <1>11, <2>5, <2>6, <2>7, <2>8
<1> QED
  BY <1>12, <1>13

LEMMA ChainFacts ==
  ASSUME NEW S, NEW a \in Seq(S), NEW b \in Seq(S)
  PROVE  /\ a \o b \in Seq(S) /\ Len(a \o b) = Len(a) + Len(b)
         /\ \A i \in 1 .. Len(a) : (a \o b)[i] = a[i]
         /\ \A i \in 1 .. Len(b) : (a \o b)[Len(a) + i] = b[i]
OBVIOUS

(* Rows below a position, and those after it. *)
RowsBelow(h, D, p) ==
  /\ \A i \in DOMAIN h : h[i].row = h[i].offset /\ h[i].row \in D /\ h[i].row < p
  /\ \A i, j \in DOMAIN h : i < j => h[i].row < h[j].row
  /\ \A r \in D : r < p => \E j \in DOMAIN h : h[j].row = r

LEMMA MoreBelow ==
  ASSUME NEW h \in Seq(HandedRows), NEW g \in Seq(HandedRows), NEW D \in SUBSET Nat,
         NEW f \in Int, NEW n \in Nat, RowsBelow(h, D, f), Len(g) = n,
         \A r \in f .. f + n - 1 : r \in D,
         \A i \in 1 .. n : g[i].row = f + i - 1 /\ g[i].offset = f + i - 1
  PROVE  RowsBelow(h \o g, D, f + n)
<1>1. PICK x : x = h \o g
  OBVIOUS
<1>2. PICK l \in Nat : l = Len(h)
  OBVIOUS
<1>3. /\ DOMAIN h = 1 .. l /\ DOMAIN x = 1 .. l + n
      /\ \A i \in 1 .. l : x[i] = h[i]
      /\ \A i \in 1 .. n : x[l + i] = g[i]
      /\ \A i \in 1 .. l + n : i \in 1 .. l \/ (i - l \in 1 .. n)
  <2>1. h \in Seq(HandedRows) /\ g \in Seq(HandedRows) /\ Len(g) = n
    OBVIOUS
  <2>2. DOMAIN h = 1 .. l /\ DOMAIN x = 1 .. l + n
    <3>1. x \in Seq(HandedRows) /\ Len(x) = Len(h) + Len(g)
      <4>1. h \o g \in Seq(HandedRows)
        BY <2>1, ChainFacts
      <4>2. Len(h \o g) = Len(h) + Len(g)
        BY <2>1, ChainFacts
      <4> QED
        BY <1>1, <4>1, <4>2
    <3>2. DOMAIN x = 1 .. Len(x) /\ DOMAIN h = 1 .. Len(h)
      BY <2>1, <3>1
    <3>3. Len(x) = l + n
      BY <1>2, <2>1, <3>1
    <3> QED
      BY <1>2, <3>2, <3>3
  <2>3. \A i \in 1 .. l : x[i] = h[i]
    BY <1>1, <1>2, <2>1, ChainFacts
  <2>4. \A i \in 1 .. n : x[l + i] = g[i]
    BY <1>1, <1>2, <2>1, ChainFacts
  <2>5. \A i \in 1 .. l + n : i \in 1 .. l \/ (i - l \in 1 .. n)
    OBVIOUS
  <2> QED
    BY <2>2, <2>3, <2>4, <2>5
<1>4. ASSUME NEW i \in 1 .. l
      PROVE  /\ i \in 1 .. l + n /\ x[i].row = x[i].offset /\ x[i].row \in D /\ x[i].row \in Nat
             /\ x[i].row = h[i].row /\ x[i].row < f
  <2>1. i \in 1 .. l + n /\ x[i] = h[i] /\ i \in DOMAIN h
    BY <1>3
  <2>2. h[i].row = h[i].offset /\ h[i].row \in D /\ h[i].row < f
    BY <2>1 DEF RowsBelow
  <2>3. h[i].row \in Nat
    BY <2>2
  <2> QED
    BY <2>1, <2>2, <2>3
<1>5. ASSUME NEW j \in 1 .. n
      PROVE  /\ l + j \in 1 .. l + n /\ x[l + j].row = f + j - 1 /\ x[l + j].offset = f + j - 1
             /\ f + j - 1 \in D
  <2>1. l + j \in 1 .. l + n /\ x[l + j] = g[j]
    BY <1>3
  <2>2. g[j].row = f + j - 1 /\ g[j].offset = f + j - 1
    OBVIOUS
  <2>3. f + j - 1 \in f .. f + n - 1
    OBVIOUS
  <2> QED
    BY <2>1, <2>2, <2>3
<1>6. ASSUME NEW i \in 1 .. l + n
      PROVE  i \in 1 .. l \/ \E j \in 1 .. n : i = l + j
  <2>1. CASE i - l \in 1 .. n
    <3>1. PICK j \in 1 .. n : j = i - l
      BY <2>1
    <3> QED
      BY <3>1
  <2> QED
    BY <1>3, <2>1
<1>7. ASSUME NEW i \in 1 .. l + n
      PROVE  x[i].row = x[i].offset /\ x[i].row \in D /\ x[i].row < f + n
  <2>1. CASE i \in 1 .. l
    <3>1. /\ x[i].row = x[i].offset /\ x[i].row \in D /\ x[i].row \in Nat /\ x[i].row < f
      BY <1>4, <2>1
    <3> QED
      BY <3>1
  <2>2. CASE \E j \in 1 .. n : i = l + j
    <3>1. PICK j \in 1 .. n : i = l + j
      BY <2>2
    <3>2. /\ x[l + j].row = f + j - 1 /\ x[l + j].offset = f + j - 1 /\ f + j - 1 \in D
      BY <1>5
    <3>3. f + j - 1 < f + n
      OBVIOUS
    <3> QED
      BY <3>1, <3>2, <3>3
  <2> QED
    BY <1>6, <2>1, <2>2
<1>8. ASSUME NEW i \in 1 .. l + n, NEW j \in 1 .. l + n, i < j
      PROVE  x[i].row < x[j].row
  <2>1. CASE i \in 1 .. l /\ j \in 1 .. l
    BY <1>3, <1>4, <1>8, <2>1 DEF RowsBelow
  <2>2. CASE i \in 1 .. l /\ \E k \in 1 .. n : j = l + k
    <3>1. PICK k \in 1 .. n : j = l + k
      BY <2>2
    <3>2. x[j].row = f + k - 1
      BY <1>5, <3>1
    <3>3. x[i].row \in Nat /\ x[i].row < f
      BY <1>4, <2>2
    <3> QED
      BY <3>2, <3>3
  <2>3. CASE (\E k \in 1 .. n : i = l + k) /\ (\E k \in 1 .. n : j = l + k)
    <3>1. PICK a \in 1 .. n : i = l + a
      BY <2>3
    <3>2. PICK b \in 1 .. n : j = l + b
      BY <2>3
    <3>3. x[i].row = f + a - 1 /\ x[j].row = f + b - 1
      BY <1>5, <3>1, <3>2
    <3> QED
      BY <1>8, <3>1, <3>2, <3>3
  <2>4. ~((\E k \in 1 .. n : i = l + k) /\ j \in 1 .. l)
    BY <1>8
  <2> QED
    BY <1>6, <2>1, <2>2, <2>3, <2>4
<1>9. ASSUME NEW r \in D, r < f + n
      PROVE  \E j \in 1 .. l + n : x[j].row = r
  <2>1. CASE r < f
    <3>1. PICK j \in 1 .. l : h[j].row = r
      BY <1>3, <2>1 DEF RowsBelow
    <3> QED
      BY <1>4, <3>1
  <2>2. CASE ~(r < f)
    <3>1. r \in Nat
      OBVIOUS
    <3>2. PICK j \in 1 .. n : j = r - f + 1
      BY <1>9, <2>2, <3>1
    <3>3. l + j \in 1 .. l + n /\ x[l + j].row = f + j - 1
      BY <1>5
    <3>4. f + j - 1 = r
      BY <3>1, <3>2
    <3> QED
      BY <3>3, <3>4
  <2> QED
    BY <2>1, <2>2
<1> QED
  BY <1>1, <1>3, <1>7, <1>8, <1>9 DEF RowsBelow

LEMMA DueRowsTyped ==
  ASSUME DeliveryTypes, NEW t \in Topics
  PROVE  DueRows(t) \in SUBSET Nat
BY DueBelow

LEMMA HandedRightNext ==
  ASSUME ObjectsInv, [DeliveryNext]_deliveryVars, NEW t \in Topics, Promised(t), Deserialized, Straight(t)
  PROVE  HandedRight(t)'
<1>1. /\ DeliveryTypes /\ handed \in [Topics -> Seq(HandedRows)] /\ DueRows(t) \in SUBSET Nat
      /\ stage \in [Topics -> {"none", "popped", "merged", "handled"}]
  BY DueRowsTyped DEF ObjectsInv, DeliveryTypes, HandlerTypes
<1>2. PICK h \in Seq(HandedRows) : h = handed[t]
  BY <1>1
<1>3. PICK p \in Int : p = Position(t) /\ p <= EndOffset
  BY PositionIs
<1>4. RowsBelow(h, DueRows(t), p)
  BY <1>2, <1>3 DEF Straight, HandedRight, RowsBelow
<1>5. CASE ~Handle(t)
  <2>1. Position(t)' = p /\ handed'[t] = h
    BY <1>2, <1>3, <1>5, PositionStays
  <2>2. /\ EndOffset \in Nat
        /\ \A r \in Int : r \in DueRows(t) => r \in DueRows(t)'
        /\ \A r \in Int : r < EndOffset => (r \in DueRows(t)' <=> r \in DueRows(t))
    BY <1>1, DueGrows, EndOffsetFacts
  <2>3. DeliveryTypes'
    BY DeliveryTypesNext
  <2>4. PICK D : D = DueRows(t)'
    OBVIOUS
  <2>5. D \subseteq Int
    BY <2>4 DEF DueRows
  <2>6. RowsBelow(h, D, p)
    <3>1. \A i \in DOMAIN h : h[i].row \in D
      BY <1>1, <1>4, <2>2, <2>4 DEF RowsBelow
    <3>2. \A r \in D : r < p => r \in DueRows(t)
      BY <1>3, <2>2, <2>4, <2>5
    <3> QED
      BY <1>4, <3>1, <3>2 DEF RowsBelow
  <2> QED
    BY <2>1, <2>4, <2>6 DEF HandedRight, RowsBelow
<1>6. CASE Handle(t)
  <2>1. PICK g \in Seq(HandedRows), f \in Int, n \in Nat :
           /\ handed'[t] = handed[t] \o g
           /\ f = Position(t) /\ f + n = Ahead(t) /\ f + n = After(msg[t])
           /\ \/ g = <<>> /\ \A r \in f .. f + n - 1 : r \notin DueRows(t)
              \/ /\ Len(g) = n /\ \A r \in f .. f + n - 1 : r \in DueRows(t)
                 /\ \A i \in 1 .. n : g[i].row = f + i - 1 /\ g[i].offset = f + i - 1
    BY <1>6, HandedMore
  <2>2. Ahead(t)' = Ahead(t)
    <3>1. ~PopNext(t) /\ ~Merge(t)
      <4>1. stage'[t] = "handled"
        BY <1>1, <1>6 DEF Handle, Goes
      <4>2. PopNext(t) => stage'[t] = "popped"
        BY <1>1 DEF PopNext, Goes
      <4>3. Merge(t) => stage'[t] \in {"popped", "merged"}
        BY <1>1 DEF Merge, Goes
      <4> QED
        BY <4>1, <4>2, <4>3
    <3> QED
      BY <3>1, OthersFollow DEF Straight
  <2>3. ~InHand(t)'
    BY <1>1, <1>6 DEF Handle, Goes, InHand
  <2>4. Position(t)' = f + n
    BY <2>1, <2>2, <2>3 DEF Position
  <2>5. DueRows(t)' = DueRows(t)
    BY <1>6 DEF Handle, parserVars, DueRows
  <2>6. PICK D \in SUBSET Nat : D = DueRows(t)
    BY <1>1
  <2>7. RowsBelow(h \o g, D, f + n)
    <3>1. CASE g = <<>> /\ \A r \in f .. f + n - 1 : r \notin DueRows(t)
      <4>1. h \o g = h
        BY <3>1
      <4>2. \A r \in D : r < f + n => r < f
        BY <2>6, <3>1
      <4>3. \A i \in DOMAIN h : h[i].row \in Nat /\ h[i].row < f
        BY <1>3, <1>4, <2>1, <2>6 DEF RowsBelow
      <4>4. \A i \in DOMAIN h : h[i].row < f + n
        BY <4>3
      <4> QED
        BY <1>3, <1>4, <2>1, <2>6, <4>1, <4>2, <4>4 DEF RowsBelow
    <3>2. CASE /\ Len(g) = n /\ \A r \in f .. f + n - 1 : r \in DueRows(t)
               /\ \A i \in 1 .. n : g[i].row = f + i - 1 /\ g[i].offset = f + i - 1
      BY <1>3, <1>4, <2>1, <2>6, <3>2, MoreBelow
    <3> QED
      BY <2>1, <3>1, <3>2
  <2>8. PICK x : x = h \o g
    OBVIOUS
  <2>9. handed'[t] = x
    BY <1>2, <2>1, <2>8
  <2> QED
    BY <2>4, <2>5, <2>6, <2>7, <2>8, <2>9 DEF HandedRight, RowsBelow
<1> QED
  BY <1>5, <1>6

-----------------------------------------------------------------------------
(* Every row, in order and once. *)

LEMMA RowsInit == DeliveryInit => RowsInv
<1> SUFFICES ASSUME DeliveryInit PROVE RowsInv
  OBVIOUS
<1>1. Deserialized
  BY DEF DeliveryInit, Deserialized
<1>2. ASSUME NEW t \in Topics PROVE Straight(t)
  <2>1. /\ queues[t] = <<>> /\ stage[t] = "none" /\ due = <<>> /\ handed[t] = <<>> /\ parsing = "idle"
        /\ topic = 0 /\ cache = <<>> /\ received = 0 /\ msg[t] = None
    BY DEF DeliveryInit
  <2>2. ~InHand(t) /\ t # 0
    BY <2>1, ConstantFacts DEF InHand
  <2>3. Len(<< >>) = 0 /\ DOMAIN << >> = {}
    OBVIOUS
  <2>4. QueueRight(t) /\ MsgRight(t) /\ DueRight(t)
    BY <2>1, <2>2, <2>3 DEF QueueRight, MsgRight, DueRight
  <2>5. QueueFollows(t) /\ MsgFollows(t) /\ DueFollows(t)
    BY <2>1, <2>2, <2>3 DEF QueueFollows, MsgFollows, DueFollows, Follow
  <2>6. ColumnsRight(t) /\ CacheRight(t)
    BY <2>1, <2>3 DEF ColumnsRight, CacheRight
  <2>7. InOrder(t)
    BY <2>1, <2>2, <2>3 DEF InOrder, ColumnsNext
  <2>8. DueRows(t) = {}
    <3>1. 1 .. received = {}
      BY <2>1
    <3> QED
      BY <3>1 DEF DueRows
  <2>9. HandedRight(t)
    BY <2>1, <2>3, <2>8 DEF HandedRight
  <2> QED
    BY <2>4, <2>5, <2>6, <2>7, <2>9 DEF Straight
<1> QED
  BY <1>1, <1>2 DEF RowsInv

LEMMA RowsNext == ObjectsInv /\ RowsInv /\ [DeliveryNext]_deliveryVars => RowsInv'
<1> SUFFICES ASSUME ObjectsInv, RowsInv, [DeliveryNext]_deliveryVars PROVE RowsInv'
  OBVIOUS
<1>1. Deserialized /\ Deserialized'
  BY DeserializedNext DEF RowsInv
<1>2. ASSUME NEW t \in Topics, Promised(t)' PROVE Straight(t)'
  <2>1. Promised(t)
    BY <1>2, FormStays DEF Promised, OthersMerge, GivenAway
  <2>2. Straight(t)
    BY <2>1 DEF RowsInv
  <2>3. /\ QueueRight(t) /\ MsgRight(t) /\ DueRight(t)
        /\ QueueFollows(t) /\ MsgFollows(t) /\ DueFollows(t)
        /\ ColumnsRight(t) /\ CacheRight(t) /\ InOrder(t)
    BY <2>2 DEF Straight
  <2>4. QueueRight(t)' /\ MsgRight(t)' /\ DueRight(t)'
    BY <1>1, <2>1, <2>3, QueueRightNext, MsgRightNext, DueRightNext
  <2>5. QueueFollows(t)' /\ MsgFollows(t)' /\ DueFollows(t)'
    BY <1>1, <2>1, <2>2, <2>3, FollowsNext, DueFollowsNext
  <2>6. ColumnsRight(t)' /\ CacheRight(t)' /\ InOrder(t)'
    BY <2>1, <2>3, ColumnsRightNext, CacheRightNext, InOrderNext
  <2>7. HandedRight(t)'
    BY <1>1, <2>1, <2>2, HandedRightNext
  <2> QED
    BY <2>4, <2>5, <2>6, <2>7 DEF Straight
<1> QED
  BY <1>1, <1>2 DEF RowsInv

(* Each handler that is promised its rows gets every one of them, under its *)
(* offset, in order and once, for any number of subscriptions in any forms, *)
(* any messages, any limit of the queues and of the tuples kept for use again. *)
THEOREM DeliveredRowsCorrect == DeliverySpec => []RowsDelivered
<1>1. ObjectsInv /\ RowsInv => RowsDelivered
  <2> SUFFICES ASSUME ObjectsInv, RowsInv, NEW t \in Topics, ~OthersMerge(t), ~GivenAway(t)
               PROVE  /\ \A i \in DOMAIN handed[t] :
                           handed[t][i].row = handed[t][i].offset /\ handed[t][i].row \in DueRows(t)
                      /\ \A i, j \in DOMAIN handed[t] : i < j => handed[t][i].row < handed[t][j].row
                      /\ \A i \in DOMAIN handed[t] : \A r \in DueRows(t) :
                           r < handed[t][i].row => \E j \in DOMAIN handed[t] : handed[t][j].row = r
    BY DEF RowsDelivered
  <2>1. Straight(t)
    BY DEF RowsInv, Promised
  <2>2. PICK h : h = handed[t]
    OBVIOUS
  <2>3. PICK p \in Int : p = Position(t)
    BY <2>1, PositionIs
  <2>4. PICK D \in SUBSET Nat : D = DueRows(t)
    BY DueRowsTyped DEF ObjectsInv
  <2>5. RowsBelow(h, D, p)
    BY <2>1, <2>2, <2>3, <2>4 DEF Straight, HandedRight, RowsBelow
  <2>6. ASSUME NEW i \in DOMAIN h, NEW r \in D, r < h[i].row
        PROVE  \E j \in DOMAIN h : h[j].row = r
    <3>1. h[i].row \in Nat /\ r \in Nat /\ h[i].row < p
      BY <2>5 DEF RowsBelow
    <3>2. r < p
      BY <2>6, <3>1
    <3> QED
      BY <2>5, <3>2 DEF RowsBelow
  <2> QED
    BY <2>2, <2>4, <2>5, <2>6 DEF RowsBelow
<1>2. DeliverySpec => []RowsInv
  <2>1. DeliverySpec => []ObjectsInv
    BY ObjectsCorrect
  <2> QED
    BY <2>1, RowsInit, RowsNext, PTL DEF DeliverySpec
<1> QED
  BY <1>1, <1>2, ObjectsCorrect, PTL
=============================================================================
