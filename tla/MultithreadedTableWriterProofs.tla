------------------- MODULE MultithreadedTableWriterProofs -------------------
(***************************************************************************)
(* Proofs about MultithreadedTableWriter: first the types and the shape of *)
(* the queues, then that rows are counted once, kept in order and stored   *)
(* at most once, and that no wakeup of a writer thread is lost; then what  *)
(* waitForThreadCompletion() promises and callbackFunc_ is told: when      *)
(* the writer is closed and nothing has failed, every row accepted is      *)
(* stored or handed back; a throwing callback makes the rows of one block  *)
(* count twice at most; and every row is reported, save one that an        *)
(* insert() appended after the end of its thread.  Last, what getStatus()  *)
(* reports adds up.                                                        *)
(***************************************************************************)
EXTENDS MultithreadedTableWriter, FiniteSetTheorems, WellFoundedInduction, TLAPS

LEMMA ThreadsFacts == /\ 0 \in Threads
                      /\ ThreadCount - 1 \in Threads
                      /\ \A t \in Threads : t \in Nat /\ t # Nobody
                      /\ \A t \in Threads : t # ThreadCount - 1 => t + 1 \in Threads
BY ThreadAssumption DEF Threads

LEMMA ThreadOfType == ASSUME NEW key \in Int PROVE ThreadOf(key) \in Threads
<1>1. ThreadCount \in Nat /\ ThreadCount > 0
  BY ThreadAssumption
<1> DEFINE k == IF key < 0 THEN 0 ELSE key
<1>2. k \in Int
  OBVIOUS
<1>3. k % ThreadCount \in 0 .. ThreadCount - 1
  BY <1>1, <1>2
<1>4. QED
  BY <1>3 DEF ThreadOf, Threads

-----------------------------------------------------------------------------
(* The write queue: what appending a row and popping a block do to it.      *)

(* Blocks hold at least one row more than none. *)
LEMMA Capacity == PerBlock \in Nat /\ PerBlock > 0 /\ PerBlock + 1 \in Nat
BY SizeAssumption

LEMMA NatProduct == \A a, b \in Nat : a * b \in Nat
OBVIOUS

LEMMA BlockStartFacts ==
  /\ BlockStart(1) = 0
  /\ \A i \in Int : BlockStart(i) \in Int
  /\ \A i \in Nat \ {0} : BlockStart(i) \in Nat
  /\ \A i \in Int : BlockStart(i + 1) = BlockStart(i) + PerBlock + 1
  /\ \A i \in Int : BlockStart(i) = BlockStart(i - 1) + PerBlock + 1
<1>1. BlockStart(1) = 0
  BY Capacity DEF BlockStart
<1>2. \A i \in Int : BlockStart(i) \in Int
  BY Capacity DEF BlockStart
<1>3. ASSUME NEW i \in Nat \ {0} PROVE BlockStart(i) \in Nat
  <2>1. i - 1 \in Nat
    OBVIOUS
  <2>2. QED
    BY <2>1, Capacity, NatProduct DEF BlockStart
<1>4. ASSUME NEW i \in Int PROVE BlockStart(i + 1) = BlockStart(i) + PerBlock + 1
  <2>1. \A d \in Int : (i + 1 - 1) * d = (i - 1) * d + d
    OBVIOUS
  <2>2. QED
    BY <2>1, Capacity DEF BlockStart
<1>5. ASSUME NEW i \in Int PROVE BlockStart(i) = BlockStart(i - 1) + PerBlock + 1
  <2>1. \A d \in Int : (i - 1) * d = (i - 1 - 1) * d + d
    OBVIOUS
  <2>2. QED
    BY <2>1, Capacity DEF BlockStart
<1>6. QED
  BY <1>1, <1>2, <1>3, <1>4, <1>5

LEMMA AppendFacts ==
  \A s \in Seq(Rows), row \in Rows :
    /\ Append(s, row) \in Seq(Rows)
    /\ Len(Append(s, row)) = Len(s) + 1
    /\ Append(s, row)[Len(s) + 1] = row
    /\ \A j \in 1 .. Len(s) : Append(s, row)[j] = s[j]
OBVIOUS

Queues == {q \in Seq(Seq(Rows)) : q # <<>>}

LEMMA QueueFacts ==
  ASSUME NEW q \in Queues
  PROVE  /\ Len(q) \in Nat \ {0}
         /\ Back(q) \in Seq(Rows)
         /\ Head(q) \in Seq(Rows)
         /\ Head(q) = q[1]
         /\ \A i \in 1 .. Len(q) : q[i] \in Seq(Rows) /\ Len(q[i]) \in Nat
         /\ QueueRows(q) \in Nat
         /\ CountedRows(q) \in Nat
<1>1. Len(q) \in Nat \ {0}
  BY DEF Queues
<1>2. \A i \in 1 .. Len(q) : q[i] \in Seq(Rows) /\ Len(q[i]) \in Nat
  BY DEF Queues
<1>3. Back(q) \in Seq(Rows) /\ Head(q) \in Seq(Rows) /\ Head(q) = q[1]
  BY <1>1, <1>2 DEF Back, Queues
<1>4. Len(Back(q)) \in Nat /\ Len(q) - 1 \in Nat
  BY <1>1, <1>3
<1>5. BlockStart(Len(q)) \in Nat /\ (Len(q) - 1) * PerBlock \in Nat
  BY <1>1, <1>4, Capacity, NatProduct, BlockStartFacts
<1>6. QED
  BY <1>1, <1>2, <1>3, <1>4, <1>5 DEF QueueRows, CountedRows

LEMMA EmptyQueueFacts ==
  /\ EmptyQueue \in Queues
  /\ WellShaped(EmptyQueue)
  /\ QueueRows(EmptyQueue) = 0
  /\ \A before \in Int : InOrder(EmptyQueue, before)
<1>1. /\ EmptyQueue \in Queues
      /\ Len(EmptyQueue) = 1
      /\ EmptyQueue[1] = <<>>
      /\ Back(EmptyQueue) = <<>>
  BY DEF EmptyQueue, Queues, Back, Rows
<1>2. WellShaped(EmptyQueue)
  BY <1>1, Capacity DEF WellShaped
<1>3. QueueRows(EmptyQueue) = 0
  BY <1>1, BlockStartFacts DEF QueueRows
<1>4. \A before \in Int : InOrder(EmptyQueue, before)
  BY <1>1 DEF InOrder
<1>5. QED
  BY <1>1, <1>2, <1>3, <1>4

(* What a well-shaped queue is, block by block. *)
LEMMA ShapeFacts ==
  ASSUME NEW q \in Queues, WellShaped(q)
  PROVE  LET n == Len(q)
         IN /\ n \in Nat \ {0}
            /\ \A i \in 1 .. n : Len(q[i]) \in Nat
            /\ \A i \in 1 .. n - 1 : Len(q[i]) = PerBlock + 1
            /\ Len(q[n]) <= PerBlock + 1
            /\ n > 1 => Len(q[n]) > 0
            /\ QueueRows(q) = BlockStart(n) + Len(q[n])
            /\ BlockStart(n) \in Nat
<1>1. Len(q) \in Nat \ {0} /\ \A i \in 1 .. Len(q) : Len(q[i]) \in Nat
  BY QueueFacts
<1>2. BlockStart(Len(q)) \in Nat
  BY <1>1, BlockStartFacts
<1>3. QED
  BY <1>1, <1>2 DEF WellShaped, QueueRows, Back

(* Appending keeps the shape and the order and adds one row at the end.     *)
LEMMA AppendRowFacts ==
  ASSUME NEW q \in Queues, NEW row \in Rows, WellShaped(q)
  PROVE  /\ AppendRow(q, row) \in Queues
         /\ WellShaped(AppendRow(q, row))
         /\ QueueRows(AppendRow(q, row)) = QueueRows(q) + 1
         /\ \A before \in Int :
              InOrder(q, before) /\ row = before + QueueRows(q) + 1
                => InOrder(AppendRow(q, row), before)
<1> DEFINE p == AppendRow(q, row)
           n == Len(q)
           last == q[n]
<1>1. n \in Nat \ {0} /\ n \in 1 .. n
  BY QueueFacts
<1>2. q \in Seq(Seq(Rows)) /\ last \in Seq(Rows)
  BY <1>1, QueueFacts DEF Queues
<1>3. \A i \in 1 .. n - 1 : Len(q[i]) = PerBlock + 1
  BY ShapeFacts
<1>4. QueueRows(q) = BlockStart(n) + Len(last) /\ BlockStart(n) \in Nat
  BY ShapeFacts
<1>5. Len(last) \in Nat /\ Len(last) <= PerBlock + 1
  BY <1>1, ShapeFacts
<1>6. BackIsFull(q) <=> Len(last) > PerBlock
  BY DEF BackIsFull, Back
<1>7. CASE BackIsFull(q)
  <2>1. Len(last) = PerBlock + 1
    BY <1>5, <1>6, <1>7, Capacity
  <2>2. p = Append(q, <<row>>) /\ <<row>> \in Seq(Rows)
    BY <1>7 DEF AppendRow
  <2>3. /\ p \in Seq(Seq(Rows))
        /\ Len(p) = n + 1
        /\ p[n + 1] = <<row>>
        /\ \A i \in 1 .. n : p[i] = q[i]
    BY <1>1, <1>2, <2>2
  <2>4. Len(<<row>>) = 1 /\ <<row>>[1] = row
    OBVIOUS
  <2> HIDE DEF p, n, last
  <2>5. p \in Queues
    BY <1>1, <2>3 DEF Queues
  <2>6. Back(p) = <<row>> /\ Len(Back(p)) = 1
    BY <2>3, <2>4 DEF Back
  <2>7. \A i \in 1 .. n : Len(p[i]) = PerBlock + 1
    <3>1. ASSUME NEW i \in 1 .. n PROVE Len(p[i]) = PerBlock + 1
      <4>1. CASE i = n
        BY <1>1, <2>1, <2>3, <4>1 DEF last
      <4>2. CASE i # n
        <5>1. i \in 1 .. n - 1
          BY <1>1, <3>1, <4>2
        <5>2. QED
          BY <1>3, <2>3, <3>1, <5>1
      <4>3. QED
        BY <4>1, <4>2
    <3>2. QED
      BY <3>1
  <2>8. WellShaped(p)
    BY <1>1, <2>3, <2>6, <2>7, Capacity DEF WellShaped
  <2>9. BlockStart(n + 1) = QueueRows(q)
    BY <1>1, <1>4, <2>1, Capacity, BlockStartFacts
  <2>10. QueueRows(p) = QueueRows(q) + 1
    BY <2>3, <2>6, <2>9 DEF QueueRows
  <2>11. ASSUME NEW before \in Int, InOrder(q, before),
                row = before + QueueRows(q) + 1
         PROVE  InOrder(p, before)
    <3>1. ASSUME NEW i \in 1 .. Len(p), NEW j \in 1 .. Len(p[i])
          PROVE  p[i][j] = before + BlockStart(i) + j
      <4>1. CASE i = n + 1
        BY <2>3, <2>4, <2>9, <2>11, <3>1, <4>1
      <4>2. CASE i # n + 1
        <5>1. i \in 1 .. n /\ p[i] = q[i]
          BY <1>1, <2>3, <3>1, <4>2
        <5>2. QED
          BY <2>11, <3>1, <5>1 DEF InOrder, n
      <4>3. QED
        BY <4>1, <4>2
    <3>2. QED
      BY <3>1 DEF InOrder
  <2>12. QED
    BY <2>5, <2>8, <2>10, <2>11 DEF p
<1>8. CASE ~BackIsFull(q)
  <2>1. Len(last) <= PerBlock
    BY <1>5, <1>6, <1>8, Capacity
  <2> DEFINE grown == Append(last, row)
  <2>2. /\ grown \in Seq(Rows)
        /\ Len(grown) = Len(last) + 1
        /\ grown[Len(last) + 1] = row
        /\ \A j \in 1 .. Len(last) : grown[j] = last[j]
    BY <1>2, AppendFacts
  <2>3. p = [q EXCEPT ![n] = grown]
    BY <1>8 DEF AppendRow
  <2> HIDE DEF grown
  <2>4. /\ p \in Seq(Seq(Rows))
        /\ Len(p) = n
        /\ p[n] = grown
        /\ \A i \in 1 .. n - 1 : p[i] = q[i]
    BY <1>1, <1>2, <2>2, <2>3
  <2> HIDE DEF p, n, last
  <2>5. p \in Queues /\ Back(p) = grown
    BY <1>1, <2>4 DEF Queues, Back
  <2>6. WellShaped(p)
    BY <1>1, <1>3, <1>5, <2>1, <2>2, <2>4, <2>5, Capacity DEF WellShaped
  <2>7. QueueRows(p) = QueueRows(q) + 1
    <3>1. QueueRows(p) = BlockStart(n) + Len(grown)
      BY <2>4, <2>5 DEF QueueRows
    <3>2. QED
      BY <1>4, <1>5, <2>2, <3>1
  <2>8. ASSUME NEW before \in Int, InOrder(q, before),
               row = before + QueueRows(q) + 1
        PROVE  InOrder(p, before)
    <3>1. ASSUME NEW i \in 1 .. Len(p), NEW j \in 1 .. Len(p[i])
          PROVE  p[i][j] = before + BlockStart(i) + j
      <4>1. CASE i = n /\ j = Len(last) + 1
        BY <1>4, <1>5, <2>2, <2>4, <2>8, <4>1
      <4>2. CASE i = n /\ j # Len(last) + 1
        <5>1. j \in 1 .. Len(last) /\ p[i][j] = last[j]
          BY <1>5, <2>2, <2>4, <3>1, <4>2
        <5>2. n \in 1 .. Len(q) /\ last = q[n]
          BY <1>1 DEF n, last
        <5>3. QED
          BY <2>8, <4>2, <5>1, <5>2 DEF InOrder
      <4>3. CASE i # n
        <5>1. i \in 1 .. n - 1 /\ p[i] = q[i]
          BY <1>1, <2>4, <3>1, <4>3
        <5>2. i \in 1 .. Len(q)
          BY <1>1, <5>1 DEF n
        <5>3. QED
          BY <2>8, <3>1, <5>1, <5>2 DEF InOrder
      <4>4. QED
        BY <4>1, <4>2, <4>3
    <3>2. QED
      BY <3>1 DEF InOrder
  <2>9. QED
    BY <2>5, <2>6, <2>7, <2>8 DEF p
<1>9. QED
  BY <1>7, <1>8

(* Popping the first block keeps the shape and takes exactly its rows away  *)
(* from the front.                                                          *)
LEMMA PopBlockFacts ==
  ASSUME NEW q \in Queues, WellShaped(q), Head(q) # <<>>
  PROVE  /\ PopBlock(q) \in Queues
         /\ WellShaped(PopBlock(q))
         /\ QueueRows(q) = Len(Head(q)) + QueueRows(PopBlock(q))
         /\ \A before \in Int :
              InOrder(q, before)
                => /\ InOrder(PopBlock(q), before + Len(Head(q)))
                   /\ \A k \in 1 .. Len(Head(q)) : Head(q)[k] = before + k
<1> DEFINE p == PopBlock(q)
           n == Len(q)
           size == Len(Head(q))
<1>1. n \in Nat \ {0} /\ 1 \in 1 .. n /\ n \in 1 .. n
  BY QueueFacts
<1>2. q \in Seq(Seq(Rows)) /\ Head(q) = q[1] /\ size \in Nat
  BY <1>1, QueueFacts DEF Queues
<1>3. ASSUME NEW before \in Int, InOrder(q, before), NEW k \in 1 .. size
      PROVE  Head(q)[k] = before + k
  <2>1. q[1][k] = before + BlockStart(1) + k
    BY <1>1, <1>2, <1>3 DEF InOrder
  <2>2. k \in Int /\ BlockStart(1) = 0
    BY <1>2, BlockStartFacts
  <2>3. QED
    BY <1>2, <2>1, <2>2
<1>4. CASE n = 1
  <2>1. p = EmptyQueue
    BY <1>4 DEF PopBlock
  <2>2. QueueRows(q) = BlockStart(1) + size
    <3>1. QueueRows(q) = BlockStart(n) + Len(q[n])
      BY ShapeFacts
    <3>2. QED
      BY <1>2, <1>4, <3>1
  <2>3. QueueRows(q) = size /\ \A before \in Int : before + size \in Int
    <3> HIDE DEF size
    <3>1. size \in Nat /\ BlockStart(1) = 0
      BY <1>2, BlockStartFacts
    <3>2. QED
      BY <2>2, <3>1
  <2>4. \A before \in Int : InOrder(p, before + size)
    BY <2>1, <2>3, EmptyQueueFacts
  <2>5. QueueRows(q) = size + QueueRows(p)
    BY <1>2, <2>1, <2>3, EmptyQueueFacts
  <2>6. p \in Queues /\ WellShaped(p)
    BY <2>1, EmptyQueueFacts
  <2>7. QED
    BY <1>3, <2>4, <2>5, <2>6
<1>5. CASE n # 1
  <2>1. p = Tail(q) /\ n - 1 \in Nat \ {0}
    BY <1>1, <1>5 DEF PopBlock
  <2>2. /\ p \in Seq(Seq(Rows))
        /\ Len(p) = n - 1
        /\ \A i \in 1 .. n - 1 : p[i] = q[i + 1]
    BY <1>1, <1>2, <2>1
  <2>3. \A i \in 1 .. n - 1 : Len(q[i]) = PerBlock + 1
    BY ShapeFacts
  <2>4. size = PerBlock + 1
    <3>1. 1 \in 1 .. n - 1
      <4> HIDE DEF n
      <4>1. QED
        BY <1>1, <1>5
    <3>2. QED
      BY <1>2, <2>3, <3>1
  <2>5. /\ Len(q[n]) \in Nat
        /\ Len(q[n]) <= PerBlock + 1
        /\ Len(q[n]) > 0
        /\ QueueRows(q) = BlockStart(n) + Len(q[n])
        /\ BlockStart(n) \in Nat
    BY <1>1, <1>5, ShapeFacts
  <2>6. Len(q) = n
    OBVIOUS
  <2> HIDE DEF p, n, size
  <2>7. p \in Queues
    BY <2>1, <2>2 DEF Queues
  <2>8. Back(p) = q[n]
    <3>1. n - 1 \in 1 .. n - 1 /\ (n - 1) + 1 = n
      BY <1>1, <2>1
    <3>2. p[n - 1] = q[n]
      BY <2>2, <3>1
    <3>3. QED
      BY <2>2, <3>2 DEF Back
  <2>9. WellShaped(p)
    <3>1. ASSUME NEW i \in 1 .. Len(p) - 1 PROVE Len(p[i]) = PerBlock + 1
      <4>1. i \in 1 .. n - 1 /\ i + 1 \in 1 .. n - 1
        BY <2>1, <2>2, <3>1
      <4>2. QED
        BY <2>2, <2>3, <4>1
    <3>2. QED
      BY <2>5, <2>8, <3>1 DEF WellShaped
  <2>10. QueueRows(q) = size + QueueRows(p)
    <3>1. BlockStart(n) = BlockStart(n - 1) + PerBlock + 1
      BY <1>1, BlockStartFacts
    <3>2. BlockStart(n - 1) \in Nat
      BY <2>1, BlockStartFacts
    <3>3. QueueRows(p) = BlockStart(n - 1) + Len(q[n])
      BY <2>2, <2>8 DEF QueueRows
    <3>4. QED
      BY <2>4, <2>5, <3>1, <3>2, <3>3, Capacity
  <2>11. ASSUME NEW before \in Int, InOrder(q, before)
         PROVE  InOrder(p, before + size)
    <3>1. ASSUME NEW i \in 1 .. Len(p), NEW j \in 1 .. Len(p[i])
          PROVE  p[i][j] = before + size + BlockStart(i) + j
      <4>1. /\ p[i] = q[i + 1]
            /\ i + 1 \in 1 .. Len(q)
            /\ i \in Int
        BY <1>1, <2>1, <2>2, <2>6, <3>1
      <4>2. p[i][j] = before + BlockStart(i + 1) + j
        BY <2>11, <3>1, <4>1 DEF InOrder
      <4>3. /\ BlockStart(i + 1) = BlockStart(i) + PerBlock + 1
            /\ BlockStart(i) \in Int
        BY <4>1, BlockStartFacts
      <4>4. j \in Int
        BY <3>1
      <4>5. QED
        BY <2>4, <4>2, <4>3, <4>4, Capacity
    <3>2. QED
      BY <3>1 DEF InOrder
  <2>12. QED
    BY <1>3, <2>7, <2>9, <2>10, <2>11 DEF p, size
<1>6. QED
  BY <1>4, <1>5

(* The flattened queue is a sequence of rows. *)
LEMMA DivMod ==
  ASSUME NEW m \in Nat, NEW d \in Nat \ {0}
  PROVE  /\ m \div d \in Nat
         /\ m % d \in 0 .. d - 1
         /\ m = (m \div d) * d + (m % d)
OBVIOUS

(* Where a row of a queue stands: in which block, and at which place.       *)
LEMMA RowPlace ==
  ASSUME NEW q \in Queues, WellShaped(q), NEW m \in 1 .. QueueRows(q)
  PROVE  LET i == ((m - 1) \div (PerBlock + 1)) + 1
             j == ((m - 1) % (PerBlock + 1)) + 1
         IN  /\ i \in 1 .. Len(q) /\ j \in 1 .. Len(q[i])
             /\ m = BlockStart(i) + j /\ BlockStart(i) \in Int
<1> DEFINE n == Len(q)
           d == PerBlock + 1
<1>1. n \in Nat \ {0} /\ n \in 1 .. n
  BY QueueFacts
<1>2. d \in Nat \ {0}
  BY Capacity
<1>3. \A i \in 1 .. n : q[i] \in Seq(Rows) /\ Len(q[i]) \in Nat
  BY QueueFacts
<1>4. \A i \in 1 .. n - 1 : Len(q[i]) = d
  BY ShapeFacts
<1>5. /\ QueueRows(q) = (n - 1) * d + Len(q[n])
      /\ QueueRows(q) \in Nat
      /\ Len(q[n]) <= d
  BY QueueFacts, ShapeFacts DEF BlockStart
<1> DEFINE i == (m - 1) \div d
           j == (m - 1) % d
<1>6. m - 1 \in Nat
  BY <1>5
<1>7. i \in Nat /\ j \in 0 .. d - 1 /\ m - 1 = i * d + j
  BY <1>2, <1>6, DivMod
<1>8. Len(q[n]) \in Nat
  BY <1>1, <1>3
<1> HIDE DEF i, j, n, d
<1>9. i * d + j < (n - 1) * d + Len(q[n])
  BY <1>5, <1>7
<1>10. i <= n - 1
  <2>1. SUFFICES ASSUME n <= i PROVE FALSE
    BY <1>1, <1>7
  <2>2. n * d <= i * d
    BY <1>1, <1>2, <1>7, <2>1
  <2>3. n * d = (n - 1) * d + d
    BY <1>1, <1>2
  <2>4. (n - 1) * d \in Int /\ i * d \in Int
    BY <1>1, <1>2, <1>7
  <2>5. QED
    BY <1>2, <1>5, <1>7, <1>8, <1>9, <2>2, <2>3, <2>4
<1>11. i + 1 \in 1 .. n
  BY <1>1, <1>7, <1>10
<1>12. j + 1 \in 1 .. Len(q[i + 1])
  <2>1. CASE i = n - 1
    <3>1. i * d \in Int /\ (n - 1) * d = i * d /\ i + 1 = n
      BY <1>1, <1>2, <1>7, <2>1
    <3>2. QED
      BY <1>7, <1>8, <1>9, <3>1
  <2>2. CASE i # n - 1
    <3>1. i + 1 \in 1 .. n - 1
      BY <1>1, <1>7, <1>10, <2>2
    <3>2. QED
      BY <1>2, <1>4, <1>7, <3>1
  <2>3. QED
    BY <2>1, <2>2
<1>13. m = i * d + (j + 1) /\ i * d \in Int
  BY <1>2, <1>6, <1>7
<1>14. BlockStart(i + 1) = i * d
  <2>1. (i + 1) - 1 = i
    BY <1>7
  <2>2. QED
    BY <2>1 DEF BlockStart, d
<1>15. /\ m = BlockStart(i + 1) + (j + 1) /\ BlockStart(i + 1) \in Int
  BY <1>13, <1>14
<1>16. QED
  BY <1>11, <1>12, <1>15 DEF i, j, d, n

LEMMA RowsOfFacts ==
  ASSUME NEW q \in Queues, WellShaped(q)
  PROVE  /\ RowsOf(q) \in Seq(Rows)
         /\ Len(RowsOf(q)) = QueueRows(q)
<1>1. /\ QueueRows(q) \in Nat
      /\ \A i \in 1 .. Len(q) : q[i] \in Seq(Rows)
  BY QueueFacts
<1>2. ASSUME NEW m \in 1 .. QueueRows(q)
      PROVE  q[((m - 1) \div (PerBlock + 1)) + 1][((m - 1) % (PerBlock + 1)) + 1] \in Rows
  BY <1>1, RowPlace
<1>3. QED
  BY <1>1, <1>2 DEF RowsOf

-----------------------------------------------------------------------------
THEOREM TypeInit == Init => TypeOK
<1> SUFFICES ASSUME Init PROVE TypeOK
  OBVIOUS
<1>1. GlobalTypeOK
  BY DEF Init, GlobalTypeOK
<1>2. CallerTypeOK
  BY ThreadsFacts DEF Init, CallerTypeOK, EmptyReport, CallLabels
<1>3. QueueTypeOK
  <2>1. EmptyQueue \in Seq(Seq(Rows)) /\ EmptyQueue # <<>> /\ <<>> \in Seq(Rows)
    BY DEF EmptyQueue, Rows
  <2>2. QED
    BY <2>1 DEF Init, QueueTypeOK
<1>4. ControlTypeOK
  BY DEF Init, ControlTypeOK, RunLabels
<1>5. HistoryTypeOK
  BY DEF Init, HistoryTypeOK, Rows
<1>6. QED
  BY <1>1, <1>2, <1>3, <1>4, <1>5 DEF TypeOK

-----------------------------------------------------------------------------
(* Type correctness, together with the shape of the queues: flattening a    *)
(* queue is typed only when the queue is well shaped.                       *)

LEMMA QueueOfThread ==
  ASSUME QueueTypeOK, NEW t \in Threads
  PROVE  writeQueue[t] \in Queues
BY DEF QueueTypeOK, Queues

LEMMA ReportFacts ==
  ASSUME NEW r \in [sent : Nat, unsent : Nat, failed : Nat, blocks : Nat],
         NEW w \in Nat, NEW x \in Nat, NEW y \in Nat, NEW z \in Nat
  PROVE  [sent |-> r.sent + w, unsent |-> r.unsent + x,
          failed |-> r.failed + y, blocks |-> r.blocks + z]
           \in [sent : Nat, unsent : Nat, failed : Nat, blocks : Nat]
OBVIOUS

LEMMA TypeNext ==
  ASSUME TypeOK, BlockShape, [Next]_vars
  PROVE  TypeOK'
<1> USE DEF TypeOK
<1> USE DEF errorVars, writerVars, reportVars, callerVars
<1>a. \A key \in Keys : ThreadOf(key) \in Threads
  BY ThreadOfType, SizeAssumption
<1>b. \A t \in Threads : /\ writeQueue[t] \in Queues
                         /\ WellShaped(writeQueue[t])
                         /\ QueueRows(writeQueue[t]) \in Nat
                         /\ CountedRows(writeQueue[t]) \in Nat
                         /\ Head(writeQueue[t]) \in Seq(Rows)
                         /\ Len(writeQueue[t]) \in Nat
  BY QueueOfThread, QueueFacts DEF BlockShape
<1>1. ASSUME NEW c \in Callers, Insert(c) PROVE TypeOK'
  <2>1. GlobalTypeOK'
    BY <1>1 DEF Insert, GlobalTypeOK
  <2>2. CallerTypeOK'
    BY <1>1, <1>a DEF Insert, CallerTypeOK, RouteRow, CallLabels
  <2>3. QueueTypeOK'
    BY <1>1 DEF Insert, QueueTypeOK
  <2>4. ControlTypeOK'
    BY <1>1 DEF Insert, ControlTypeOK
  <2>5. HistoryTypeOK'
    BY <1>1 DEF Insert, HistoryTypeOK
  <2>6. QED
    BY <2>1, <2>2, <2>3, <2>4, <2>5
<1>2. ASSUME NEW c \in Callers, InsertUnwrittenData(c) PROVE TypeOK'
  <2>1. GlobalTypeOK'
    BY <1>2 DEF InsertUnwrittenData, GlobalTypeOK
  <2>2. CallerTypeOK'
    BY <1>2, <1>a DEF InsertUnwrittenData, CallerTypeOK, RouteRow, CallLabels
  <2>3. QueueTypeOK'
    BY <1>2 DEF InsertUnwrittenData, QueueTypeOK
  <2>4. ControlTypeOK'
    BY <1>2 DEF InsertUnwrittenData, ControlTypeOK
  <2>5. HistoryTypeOK'
    BY <1>2 DEF InsertUnwrittenData, HistoryTypeOK
  <2>6. QED
    BY <2>1, <2>2, <2>3, <2>4, <2>5
<1>3. ASSUME NEW c \in Callers, InsertThreadWrite(c) PROVE TypeOK'
  <2>1. callIndex[c] \in Threads /\ accepted[callIndex[c]] + 1 \in Rows
    BY DEF CallerTypeOK, HistoryTypeOK, Rows
  <2>2. AppendRow(writeQueue[callIndex[c]], accepted[callIndex[c]] + 1) \in Queues
    BY <2>1, <1>b, AppendRowFacts
  <2>3. GlobalTypeOK'
    BY <1>3 DEF InsertThreadWrite, GlobalTypeOK
  <2>4. CallerTypeOK'
    <3>1. callTodo[c] \in Nat /\ callTodo[c] > 0
      BY <1>3 DEF CallerTypeOK, InsertThreadWrite
    <3>2. callTodo[c] - 1 \in Nat
      BY <3>1
    <3>3. /\ callTodo' \in [Callers -> Nat]
          /\ callPc' = [callPc EXCEPT ![c] = "signal"]
          /\ \A d \in Callers : d # c => callTodo'[d] = callTodo[d]
          /\ UNCHANGED <<callIndex, copied, report>>
      BY <1>3, <3>2 DEF InsertThreadWrite, CallerTypeOK
    <3>4. QED
      BY <3>3 DEF CallerTypeOK, CallLabels
  <2>5. QueueTypeOK'
    BY <1>3, <2>1, <2>2 DEF InsertThreadWrite, QueueTypeOK, Queues
  <2>6. ControlTypeOK'
    BY <1>3 DEF InsertThreadWrite, ControlTypeOK
  <2>7. HistoryTypeOK'
    BY <1>3, <2>1 DEF InsertThreadWrite, HistoryTypeOK, Rows
  <2>8. QED
    BY <2>3, <2>4, <2>5, <2>6, <2>7
<1>4. ASSUME NEW c \in Callers, SignalNonempty(c) PROVE TypeOK'
  <2>1. GlobalTypeOK'
    BY <1>4 DEF SignalNonempty, GlobalTypeOK
  <2>2. CallerTypeOK'
    BY SMTT(30), <1>4, <1>a, ThreadsFacts DEF SignalNonempty, CallerTypeOK, RouteRow, CallLabels
  <2>3. QueueTypeOK'
    BY <1>4 DEF SignalNonempty, QueueTypeOK
  <2>4. ControlTypeOK'
    BY <1>4 DEF SignalNonempty, ControlTypeOK, SetSignal, CallerTypeOK
  <2>5. HistoryTypeOK'
    BY <1>4 DEF SignalNonempty, HistoryTypeOK
  <2>6. QED
    BY <2>1, <2>2, <2>3, <2>4, <2>5
<1>5. ASSUME NEW c \in Callers, GetStatus(c) PROVE TypeOK'
  <2>1. GlobalTypeOK'
    BY <1>5 DEF GetStatus, GlobalTypeOK
  <2>2. CallerTypeOK'
    BY <1>5 DEF GetStatus, CallerTypeOK, CallLabels
  <2>3. QueueTypeOK'
    BY <1>5 DEF GetStatus, QueueTypeOK
  <2>4. ControlTypeOK'
    BY <1>5 DEF GetStatus, ControlTypeOK
  <2>5. HistoryTypeOK'
    BY <1>5 DEF GetStatus, HistoryTypeOK
  <2>6. QED
    BY <2>1, <2>2, <2>3, <2>4, <2>5
<1>6. ASSUME NEW c \in Callers, StatusOfThread(c) PROVE TypeOK'
  <2> DEFINE u == callIndex[c]
             added == [sent   |-> report[c].sent + sentRows[u],
                       unsent |-> report[c].unsent + CountedRows(writeQueue[u]),
                       failed |-> report[c].failed + Len(failedQueue[u]),
                       blocks |-> report[c].blocks + Len(writeQueue[u])]
  <2>1. u \in Threads
    BY DEF CallerTypeOK
  <2>2. /\ CountedRows(writeQueue[u]) \in Nat
        /\ Len(writeQueue[u]) \in Nat
    BY <2>1, <1>b
  <2>3. sentRows[u] \in Nat /\ Len(failedQueue[u]) \in Nat
    <3>1. failedQueue[u] \in Seq(Rows)
      BY <2>1 DEF QueueTypeOK
    <3>2. QED
      BY <2>1, <3>1 DEF ControlTypeOK
  <2>4. report[c] \in [sent : Nat, unsent : Nat, failed : Nat, blocks : Nat]
    BY DEF CallerTypeOK
  <2>5. added \in [sent : Nat, unsent : Nat, failed : Nat, blocks : Nat]
    <3>1. Len(failedQueue[u]) \in Nat
      BY <2>3
    <3> HIDE DEF u
    <3>2. QED
      BY <2>2, <2>3, <2>4, <3>1, ReportFacts
  <2>6. report' = [report EXCEPT ![c] = added]
    BY <1>6 DEF StatusOfThread, CallerTypeOK
  <2>7. u + 1 \in Threads \/ u = ThreadCount - 1
    BY <2>1, ThreadsFacts
  <2>8. CallerTypeOK'
    <3>1. /\ report' \in [Callers -> [sent : Nat, unsent : Nat, failed : Nat,
                                      blocks : Nat]]
      <4> HIDE DEF added
      <4>1. QED
        BY <2>5, <2>6 DEF CallerTypeOK
    <3> HIDE DEF added
    <3>2. callIndex' \in [Callers -> Threads]
      BY <1>6, <2>7, ThreadsFacts DEF StatusOfThread, CallerTypeOK
    <3>3. /\ callPc' \in [Callers -> CallLabels]
          /\ \A d \in Callers : callPc'[d] = "append" => callPc[d] = "append"
      BY <1>6 DEF StatusOfThread, CallerTypeOK, CallLabels
    <3>4. UNCHANGED <<callTodo, copied>>
      BY <1>6 DEF StatusOfThread
    <3>5. QED
      BY <3>1, <3>2, <3>3, <3>4 DEF CallerTypeOK
  <2>9. GlobalTypeOK' /\ QueueTypeOK'
    BY <1>6 DEF StatusOfThread, GlobalTypeOK, QueueTypeOK
  <2>10. ControlTypeOK' /\ HistoryTypeOK'
    BY <1>6 DEF StatusOfThread, ControlTypeOK, HistoryTypeOK
  <2>11. QED
    BY <2>8, <2>9, <2>10
<1>7. ASSUME NEW c \in Callers, StatusReturn(c) PROVE TypeOK'
  <2>1. GlobalTypeOK'
    BY <1>7 DEF StatusReturn, GlobalTypeOK
  <2>2. CallerTypeOK'
    BY <1>7 DEF StatusReturn, CallerTypeOK, CallLabels, EmptyReport
  <2>3. QueueTypeOK'
    BY <1>7 DEF StatusReturn, QueueTypeOK
  <2>4. ControlTypeOK'
    BY <1>7 DEF StatusReturn, ControlTypeOK
  <2>5. HistoryTypeOK'
    BY <1>7 DEF StatusReturn, HistoryTypeOK
  <2>6. QED
    BY <2>1, <2>2, <2>3, <2>4, <2>5
<1>8. ASSUME NEW c \in Callers, GetUnwrittenData(c) PROVE TypeOK'
  <2>1. GlobalTypeOK'
    BY <1>8 DEF GetUnwrittenData, GlobalTypeOK
  <2>2. CallerTypeOK'
    BY <1>8 DEF GetUnwrittenData, CallerTypeOK, CallLabels
  <2>3. QueueTypeOK'
    BY <1>8 DEF GetUnwrittenData, QueueTypeOK
  <2>4. ControlTypeOK'
    BY <1>8 DEF GetUnwrittenData, ControlTypeOK
  <2>5. HistoryTypeOK'
    BY <1>8 DEF GetUnwrittenData, HistoryTypeOK
  <2>6. QED
    BY <2>1, <2>2, <2>3, <2>4, <2>5
<1>9. ASSUME NEW c \in Callers, CopyUnwritten(c) PROVE TypeOK'
  <2>1. GlobalTypeOK'
    BY <1>9 DEF CopyUnwritten, GlobalTypeOK
  <2>2. CallerTypeOK'
    BY <1>9, <1>b DEF CopyUnwritten, CallerTypeOK, CallLabels
  <2>3. QueueTypeOK'
    <3>1. <<>> \in Seq(Rows)
      OBVIOUS
    <3>2. /\ failedQueue' = [failedQueue EXCEPT ![callIndex[c]] = <<>>]
          /\ UNCHANGED <<writeQueue, items>>
      BY <1>9 DEF CopyUnwritten, FailedAfterCopy
    <3>3. failedQueue' \in [Threads -> Seq(Rows)]
      BY <3>1, <3>2 DEF QueueTypeOK
    <3>4. QED
      BY <3>2, <3>3 DEF QueueTypeOK
  <2>4. ControlTypeOK'
    BY <1>9 DEF CopyUnwritten, ControlTypeOK
  <2>5. HistoryTypeOK'
    <3>1. callIndex[c] \in Threads
      BY DEF CallerTypeOK
    <3>2. failedQueue[callIndex[c]] \in Seq(Rows)
      BY <3>1 DEF QueueTypeOK
    <3>3. handed[callIndex[c]] + Len(failedQueue[callIndex[c]]) \in Nat
      BY <3>1, <3>2 DEF HistoryTypeOK
    <3>4. QED
      BY <1>9, <3>3 DEF CopyUnwritten, HistoryTypeOK
  <2>6. QED
    BY <2>1, <2>2, <2>3, <2>4, <2>5
<1>10. ASSUME NEW c \in Callers, ClearUnwritten(c) PROVE TypeOK'
  <2>1. GlobalTypeOK'
    BY <1>10 DEF ClearUnwritten, GlobalTypeOK
  <2>2. CallerTypeOK'
    <3> DEFINE u == callIndex[c]
    <3>1. u \in Threads /\ (u # ThreadCount - 1 => u + 1 \in Threads)
      BY ThreadsFacts DEF CallerTypeOK
    <3>2. callIndex' \in [Callers -> Threads]
      BY <1>10, <3>1, ThreadsFacts DEF ClearUnwritten, CallerTypeOK
    <3>3. /\ callPc' \in [Callers -> CallLabels]
          /\ \A d \in Callers : callPc'[d] = "append" => callPc[d] = "append"
      BY <1>10 DEF ClearUnwritten, CallerTypeOK, CallLabels
    <3>4. UNCHANGED <<callTodo, report>> /\ copied' \in [Callers -> Nat]
      BY <1>10 DEF ClearUnwritten, CallerTypeOK
    <3>5. QED
      BY <3>2, <3>3, <3>4 DEF CallerTypeOK
  <2>3. QueueTypeOK'
    BY <1>10, EmptyQueueFacts DEF ClearUnwritten, QueueTypeOK, Queues
  <2>4. ControlTypeOK'
    BY <1>10 DEF ClearUnwritten, ControlTypeOK
  <2>5. HistoryTypeOK'
    <3>1. callIndex[c] \in Threads /\ copied[c] \in Nat
      BY DEF CallerTypeOK
    <3>2. handed[callIndex[c]] + copied[c] \in Nat
      BY <3>1 DEF HistoryTypeOK
    <3>3. QED
      BY <1>10, <3>2 DEF ClearUnwritten, HistoryTypeOK
  <2>6. QED
    BY <2>1, <2>2, <2>3, <2>4, <2>5
<1>11. ASSUME NEW c \in Callers, WaitForThreadCompletion(c) PROVE TypeOK'
  <2>1. GlobalTypeOK'
    BY <1>11 DEF WaitForThreadCompletion, GlobalTypeOK
  <2>2. CallerTypeOK'
    BY <1>11 DEF WaitForThreadCompletion, CallerTypeOK, CallLabels
  <2>3. QueueTypeOK'
    BY <1>11 DEF WaitForThreadCompletion, QueueTypeOK
  <2>4. ControlTypeOK'
    BY <1>11 DEF WaitForThreadCompletion, ControlTypeOK
  <2>5. HistoryTypeOK'
    BY <1>11 DEF WaitForThreadCompletion, HistoryTypeOK
  <2>6. QED
    BY <2>1, <2>2, <2>3, <2>4, <2>5
<1>12. ASSUME NEW c \in Callers, SetExit(c) PROVE TypeOK'
  <2>1. GlobalTypeOK'
    BY <1>12 DEF SetExit, GlobalTypeOK
  <2>2. CallerTypeOK'
    BY <1>12 DEF SetExit, CallerTypeOK, CallLabels
  <2>3. QueueTypeOK'
    BY <1>12 DEF SetExit, QueueTypeOK
  <2>4. ControlTypeOK'
    BY <1>12 DEF SetExit, ControlTypeOK
  <2>5. HistoryTypeOK'
    BY <1>12 DEF SetExit, HistoryTypeOK
  <2>6. QED
    BY <2>1, <2>2, <2>3, <2>4, <2>5
<1>13. ASSUME NEW c \in Callers, SignalExit(c) PROVE TypeOK'
  <2>1. GlobalTypeOK'
    BY <1>13 DEF SignalExit, GlobalTypeOK
  <2>2. CallerTypeOK'
    <3> DEFINE u == callIndex[c]
    <3>1. u \in Threads /\ (u # ThreadCount - 1 => u + 1 \in Threads)
      BY ThreadsFacts DEF CallerTypeOK
    <3>2. callIndex' \in [Callers -> Threads]
      BY <1>13, <3>1, ThreadsFacts DEF SignalExit, CallerTypeOK
    <3>3. /\ callPc' \in [Callers -> CallLabels]
          /\ \A d \in Callers : callPc'[d] = "append" => callPc[d] = "append"
      BY <1>13 DEF SignalExit, CallerTypeOK, CallLabels
    <3>4. UNCHANGED <<callTodo, report>> /\ copied' \in [Callers -> Nat]
      BY <1>13 DEF SignalExit, CallerTypeOK
    <3>5. QED
      BY <3>2, <3>3, <3>4 DEF CallerTypeOK
  <2>3. QueueTypeOK'
    BY <1>13 DEF SignalExit, QueueTypeOK
  <2>4. ControlTypeOK'
    BY <1>13 DEF SignalExit, ControlTypeOK, SetSignal
  <2>5. HistoryTypeOK'
    BY <1>13 DEF SignalExit, HistoryTypeOK
  <2>6. QED
    BY <2>1, <2>2, <2>3, <2>4, <2>5
<1>14. ASSUME NEW c \in Callers, JoinThread(c) PROVE TypeOK'
  <2>1. GlobalTypeOK'
    BY <1>14 DEF JoinThread, GlobalTypeOK
  <2>2. CallerTypeOK'
    <3> DEFINE u == callIndex[c]
    <3>1. u \in Threads /\ (u # ThreadCount - 1 => u + 1 \in Threads)
      BY ThreadsFacts DEF CallerTypeOK
    <3>2. callIndex' \in [Callers -> Threads]
      BY <1>14, <3>1, ThreadsFacts DEF JoinThread, CallerTypeOK
    <3>3. /\ callPc' \in [Callers -> CallLabels]
          /\ \A d \in Callers : callPc'[d] = "append" => callPc[d] = "append"
      BY <1>14 DEF JoinThread, CallerTypeOK, CallLabels
    <3>4. UNCHANGED <<callTodo, report>> /\ copied' \in [Callers -> Nat]
      BY <1>14 DEF JoinThread, CallerTypeOK
    <3>5. QED
      BY <3>2, <3>3, <3>4 DEF CallerTypeOK
  <2>3. QueueTypeOK'
    BY <1>14 DEF JoinThread, QueueTypeOK
  <2>4. ControlTypeOK'
    BY <1>14 DEF JoinThread, ControlTypeOK
  <2>5. HistoryTypeOK'
    BY <1>14 DEF JoinThread, HistoryTypeOK
  <2>6. QED
    BY <2>1, <2>2, <2>3, <2>4, <2>5
<1>15. ASSUME NEW t \in Threads, RunTop(t) PROVE TypeOK'
  <2>1. GlobalTypeOK'
    BY <1>15 DEF RunTop, GlobalTypeOK, Goto, WriterUnchanged
  <2>2. CallerTypeOK'
    BY <1>15 DEF RunTop, CallerTypeOK, Goto, WriterUnchanged
  <2>3. QueueTypeOK'
    BY <1>15 DEF RunTop, QueueTypeOK, Goto, WriterUnchanged
  <2>4. ControlTypeOK'
    BY <1>15 DEF RunTop, ControlTypeOK, Goto, WriterUnchanged, RunLabels
  <2>5. HistoryTypeOK'
    BY <1>15 DEF RunTop, HistoryTypeOK, Goto, WriterUnchanged
  <2>6. QED
    BY <2>1, <2>2, <2>3, <2>4, <2>5
<1>16. ASSUME NEW t \in Threads, RunFirst(t) PROVE TypeOK'
  <2>1. GlobalTypeOK'
    BY <1>16 DEF RunFirst, GlobalTypeOK, Goto, WriterUnchanged
  <2>2. CallerTypeOK'
    BY <1>16 DEF RunFirst, CallerTypeOK, Goto, WriterUnchanged
  <2>3. QueueTypeOK'
    BY <1>16 DEF RunFirst, QueueTypeOK, Goto, WriterUnchanged
  <2>4. ControlTypeOK'
    BY <1>16 DEF RunFirst, ControlTypeOK, Goto, WriterUnchanged, RunLabels
  <2>5. HistoryTypeOK'
    BY <1>16 DEF RunFirst, HistoryTypeOK, Goto, WriterUnchanged
  <2>6. QED
    BY <2>1, <2>2, <2>3, <2>4, <2>5
<1>17. ASSUME NEW t \in Threads, Wakeup(t) PROVE TypeOK'
  <2>1. GlobalTypeOK'
    BY <1>17 DEF Wakeup, GlobalTypeOK, Goto, WriterUnchanged
  <2>2. CallerTypeOK'
    BY <1>17 DEF Wakeup, CallerTypeOK, Goto, WriterUnchanged
  <2>3. QueueTypeOK'
    BY <1>17 DEF Wakeup, QueueTypeOK, Goto, WriterUnchanged
  <2>4. ControlTypeOK'
    BY <1>17 DEF Wakeup, ControlTypeOK, Goto, WriterUnchanged, RunLabels
  <2>5. HistoryTypeOK'
    BY <1>17 DEF Wakeup, HistoryTypeOK, Goto, WriterUnchanged
  <2>6. QED
    BY <2>1, <2>2, <2>3, <2>4, <2>5
<1>18. ASSUME NEW t \in Threads, SpuriousWakeup(t) PROVE TypeOK'
  <2>1. GlobalTypeOK'
    BY <1>18 DEF SpuriousWakeup, GlobalTypeOK, Goto, WriterUnchanged
  <2>2. CallerTypeOK'
    BY <1>18 DEF SpuriousWakeup, CallerTypeOK, Goto, WriterUnchanged
  <2>3. QueueTypeOK'
    BY <1>18 DEF SpuriousWakeup, QueueTypeOK, Goto, WriterUnchanged
  <2>4. ControlTypeOK'
    BY <1>18 DEF SpuriousWakeup, ControlTypeOK, Goto, WriterUnchanged, RunLabels
  <2>5. HistoryTypeOK'
    BY <1>18 DEF SpuriousWakeup, HistoryTypeOK, Goto, WriterUnchanged
  <2>6. QED
    BY <2>1, <2>2, <2>3, <2>4, <2>5
<1>19. ASSUME NEW t \in Threads, AfterWakeup(t) PROVE TypeOK'
  <2>1. GlobalTypeOK'
    BY <1>19 DEF AfterWakeup, GlobalTypeOK, Goto, WriterUnchanged
  <2>2. CallerTypeOK'
    BY <1>19 DEF AfterWakeup, CallerTypeOK, Goto, WriterUnchanged
  <2>3. QueueTypeOK'
    BY <1>19 DEF AfterWakeup, QueueTypeOK, Goto, WriterUnchanged
  <2>4. ControlTypeOK'
    BY <1>19 DEF AfterWakeup, ControlTypeOK, Goto, WriterUnchanged, RunLabels
  <2>5. HistoryTypeOK'
    BY <1>19 DEF AfterWakeup, HistoryTypeOK, Goto, WriterUnchanged
  <2>6. QED
    BY <2>1, <2>2, <2>3, <2>4, <2>5
<1>20. ASSUME NEW t \in Threads, BatchDone(t) PROVE TypeOK'
  <2>1. GlobalTypeOK'
    BY <1>20 DEF BatchDone, GlobalTypeOK, Goto, WriterUnchanged
  <2>2. CallerTypeOK'
    BY <1>20 DEF BatchDone, CallerTypeOK, Goto, WriterUnchanged
  <2>3. QueueTypeOK'
    BY <1>20 DEF BatchDone, QueueTypeOK, Goto, WriterUnchanged
  <2>4. ControlTypeOK'
    BY <1>20 DEF BatchDone, ControlTypeOK, Goto, WriterUnchanged, RunLabels
  <2>5. HistoryTypeOK'
    BY <1>20 DEF BatchDone, HistoryTypeOK, Goto, WriterUnchanged
  <2>6. QED
    BY <2>1, <2>2, <2>3, <2>4, <2>5
<1>21. ASSUME NEW t \in Threads, BatchWakeup(t) PROVE TypeOK'
  <2>1. GlobalTypeOK'
    BY <1>21 DEF BatchWakeup, GlobalTypeOK, Goto, WriterUnchanged
  <2>2. CallerTypeOK'
    BY <1>21 DEF BatchWakeup, CallerTypeOK, Goto, WriterUnchanged
  <2>3. QueueTypeOK'
    BY <1>21 DEF BatchWakeup, QueueTypeOK, Goto, WriterUnchanged
  <2>4. ControlTypeOK'
    BY <1>21 DEF BatchWakeup, ControlTypeOK, Goto, WriterUnchanged, RunLabels
  <2>5. HistoryTypeOK'
    BY <1>21 DEF BatchWakeup, HistoryTypeOK, Goto, WriterUnchanged
  <2>6. QED
    BY <2>1, <2>2, <2>3, <2>4, <2>5
<1>22. ASSUME NEW t \in Threads, LoopCheck(t) PROVE TypeOK'
  <2>1. GlobalTypeOK'
    BY <1>22 DEF LoopCheck, GlobalTypeOK, Goto, WriterUnchanged
  <2>2. CallerTypeOK'
    BY <1>22 DEF LoopCheck, CallerTypeOK, Goto, WriterUnchanged
  <2>3. QueueTypeOK'
    BY <1>22 DEF LoopCheck, QueueTypeOK, Goto, WriterUnchanged
  <2>4. ControlTypeOK'
    BY <1>22 DEF LoopCheck, ControlTypeOK, Goto, WriterUnchanged, RunLabels
  <2>5. HistoryTypeOK'
    BY <1>22 DEF LoopCheck, HistoryTypeOK, Goto, WriterUnchanged
  <2>6. QED
    BY <2>1, <2>2, <2>3, <2>4, <2>5
<1>23. ASSUME NEW t \in Threads, PopItems(t) PROVE TypeOK'
  <2>1. GlobalTypeOK'
    BY <1>23 DEF PopItems, GlobalTypeOK, Goto, WriterUnchanged
  <2>2. CallerTypeOK'
    BY <1>23 DEF PopItems, CallerTypeOK, Goto, WriterUnchanged
  <2>3. QueueTypeOK'
    <3>1. CASE Head(writeQueue[t]) = <<>>
      BY <1>23, <3>1 DEF PopItems, QueueTypeOK
    <3>2. CASE Head(writeQueue[t]) # <<>>
      <4>1. PopBlock(writeQueue[t]) \in Queues
        BY <3>2, <1>b, PopBlockFacts
      <4>2. /\ writeQueue' = [writeQueue EXCEPT ![t] = PopBlock(@)]
            /\ items' = [items EXCEPT ![t] = Head(writeQueue[t])]
            /\ failedQueue' = failedQueue
        BY <1>23, <3>2 DEF PopItems
      <4>3. QED
        BY <4>1, <4>2, <1>b DEF QueueTypeOK, Queues
    <3>3. QED
      BY <3>1, <3>2
  <2>4. ControlTypeOK'
    <3>1. CASE Head(writeQueue[t]) = <<>>
      BY <1>23, <3>1 DEF PopItems, WriterUnchanged, Goto, ControlTypeOK, RunLabels
    <3>2. CASE Head(writeQueue[t]) # <<>>
      <4>1. /\ mutex' = [mutex EXCEPT ![t] = t]
            /\ pc' = [pc EXCEPT ![t] = "send"]
            /\ UNCHANGED <<sentRows, exit, signaled, loop>>
        BY <1>23, <3>2 DEF PopItems, WriterUnchanged, Goto
      <4>2. QED
        BY <4>1 DEF ControlTypeOK, RunLabels
    <3>3. QED
      BY <3>1, <3>2
  <2>5. HistoryTypeOK'
    BY <1>23 DEF PopItems, HistoryTypeOK, Goto, WriterUnchanged
  <2>6. QED
    BY <2>1, <2>2, <2>3, <2>4, <2>5
<1>24. ASSUME NEW t \in Threads, ServerCall(t) PROVE TypeOK'
  <2>1. GlobalTypeOK'
    BY <1>24 DEF ServerCall, GlobalTypeOK, Goto, WriterUnchanged
  <2>2. CallerTypeOK'
    BY <1>24 DEF ServerCall, CallerTypeOK, Goto, WriterUnchanged
  <2>3. QueueTypeOK'
    BY <1>24 DEF ServerCall, QueueTypeOK, Goto, WriterUnchanged
  <2>4. ControlTypeOK'
    BY <1>24 DEF ServerCall, ControlTypeOK, Goto, WriterUnchanged, RunLabels
  <2>5. HistoryTypeOK'
    <3>1. stored[t] \o items[t] \in Seq(Rows)
      BY DEF QueueTypeOK, HistoryTypeOK
    <3>2. QED
      BY <1>24, <3>1 DEF ServerCall, WriterUnchanged, HistoryTypeOK
  <2>6. QED
    BY <2>1, <2>2, <2>3, <2>4, <2>5
<1>25. ASSUME NEW t \in Threads, BlockWritten(t) PROVE TypeOK'
  <2>1. GlobalTypeOK'
    BY <1>25 DEF BlockWritten, GlobalTypeOK, Goto, WriterUnchanged
  <2>2. CallerTypeOK'
    BY <1>25 DEF BlockWritten, CallerTypeOK, Goto, WriterUnchanged
  <2>3. QueueTypeOK'
    BY <1>25 DEF BlockWritten, QueueTypeOK, Goto, WriterUnchanged, Rows
  <2>4. ControlTypeOK'
    BY <1>25 DEF BlockWritten, ControlTypeOK, Goto, WriterUnchanged, RunLabels, QueueTypeOK
  <2>5. HistoryTypeOK'
    BY <1>25 DEF BlockWritten, HistoryTypeOK, Goto, WriterUnchanged, QueueTypeOK
  <2>6. QED
    BY <2>1, <2>2, <2>3, <2>4, <2>5
<1>26. ASSUME NEW t \in Threads, CallbackThrows(t) PROVE TypeOK'
  <2>1. GlobalTypeOK'
    BY <1>26 DEF CallbackThrows, GlobalTypeOK, Goto, WriterUnchanged
  <2>2. CallerTypeOK'
    BY <1>26 DEF CallbackThrows, CallerTypeOK, Goto, WriterUnchanged
  <2>3. QueueTypeOK'
    BY <1>26 DEF CallbackThrows, QueueTypeOK, Goto, WriterUnchanged
  <2>4. ControlTypeOK'
    BY <1>26 DEF CallbackThrows, ControlTypeOK, Goto, WriterUnchanged, RunLabels, QueueTypeOK
  <2>5. HistoryTypeOK'
    BY <1>26 DEF CallbackThrows, HistoryTypeOK, Goto, WriterUnchanged, QueueTypeOK
  <2>6. QED
    BY <2>1, <2>2, <2>3, <2>4, <2>5
<1>27. ASSUME NEW t \in Threads, BlockFailed(t) PROVE TypeOK'
  <2>1. GlobalTypeOK'
    BY <1>27 DEF BlockFailed, GlobalTypeOK, Goto, WriterUnchanged
  <2>2. CallerTypeOK'
    BY <1>27 DEF BlockFailed, CallerTypeOK, Goto, WriterUnchanged
  <2>3. QueueTypeOK'
    BY <1>27 DEF BlockFailed, QueueTypeOK, Goto, WriterUnchanged, Rows
  <2>4. ControlTypeOK'
    BY <1>27 DEF BlockFailed, ControlTypeOK, Goto, WriterUnchanged, RunLabels
  <2>5. HistoryTypeOK'
    BY <1>27 DEF BlockFailed, HistoryTypeOK, Goto, WriterUnchanged, QueueTypeOK
  <2>6. QED
    BY <2>1, <2>2, <2>3, <2>4, <2>5
<1>28. ASSUME NEW t \in Threads, SetError(t) PROVE TypeOK'
  <2>1. GlobalTypeOK'
    BY <1>28 DEF SetError, GlobalTypeOK, Goto, WriterUnchanged
  <2>2. CallerTypeOK'
    BY <1>28 DEF SetError, CallerTypeOK, Goto, WriterUnchanged
  <2>3. QueueTypeOK'
    BY <1>28 DEF SetError, QueueTypeOK, Goto, WriterUnchanged
  <2>4. ControlTypeOK'
    BY <1>28 DEF SetError, ControlTypeOK, Goto, WriterUnchanged, RunLabels
  <2>5. HistoryTypeOK'
    BY <1>28 DEF SetError, HistoryTypeOK, Goto, WriterUnchanged
  <2>6. QED
    BY <2>1, <2>2, <2>3, <2>4, <2>5
<1>29. ASSUME NEW t \in Threads, FinalCallbacks(t) PROVE TypeOK'
  <2>1. GlobalTypeOK'
    BY <1>29 DEF FinalCallbacks, GlobalTypeOK, Goto, WriterUnchanged
  <2>2. CallerTypeOK'
    BY <1>29 DEF FinalCallbacks, CallerTypeOK, Goto, WriterUnchanged
  <2>3. QueueTypeOK'
    BY <1>29 DEF FinalCallbacks, QueueTypeOK, Goto, WriterUnchanged
  <2>4. ControlTypeOK'
    BY <1>29 DEF FinalCallbacks, ControlTypeOK, Goto, WriterUnchanged, RunLabels
  <2>5. HistoryTypeOK'
    BY <1>29, <1>b, RowsOfFacts DEF FinalCallbacks, HistoryTypeOK, Goto, WriterUnchanged, RowsLeft
  <2>6. QED
    BY <2>1, <2>2, <2>3, <2>4, <2>5
<1>30. CASE UNCHANGED vars
  BY <1>30 DEF vars, GlobalTypeOK, CallerTypeOK, QueueTypeOK, ControlTypeOK, HistoryTypeOK
<1>31. QED
  BY <1>1, <1>2, <1>3, <1>4, <1>5, <1>6, <1>7, <1>8, <1>9, <1>10, <1>11, <1>12, <1>13, <1>14, <1>15, <1>16, <1>17, <1>18, <1>19, <1>20, <1>21, <1>22, <1>23, <1>24, <1>25, <1>26, <1>27, <1>28, <1>29, <1>30
     DEF Next, InsertStep, CallBegin, QueryStep, RunStep, WriteStep

-----------------------------------------------------------------------------
(* The steps that touch rows.  No other step changes where a row is.        *)

RowCallStep(c) == InsertThreadWrite(c) \/ CopyUnwritten(c) \/ ClearUnwritten(c)

RowWriteStep(t) ==
  \/ PopItems(t) \/ ServerCall(t) \/ BlockWritten(t)
  \/ CallbackThrows(t) \/ BlockFailed(t)

rowVars == <<writeQueue, accepted, items, stored, sentRows, failedQueue, handed>>

LEMMA RowSteps ==
  ASSUME [Next]_vars
  PROVE  \/ \E c \in Callers : RowCallStep(c)
         \/ \E t \in Threads : RowWriteStep(t)
         \/ UNCHANGED rowVars
<1> USE DEF errorVars, writerVars, reportVars, callerVars, rowVars, WriterUnchanged
<1>1. ASSUME NEW c \in Callers, InsertStep(c)
      PROVE  RowCallStep(c) \/ UNCHANGED rowVars
  BY <1>1 DEF InsertStep, RowCallStep, Insert, InsertUnwrittenData, SignalNonempty
<1>2. ASSUME NEW c \in Callers, CallBegin(c) PROVE UNCHANGED rowVars
  BY <1>2 DEF CallBegin, GetStatus, GetUnwrittenData, WaitForThreadCompletion
<1>3. ASSUME NEW c \in Callers, QueryStep(c)
      PROVE  RowCallStep(c) \/ UNCHANGED rowVars
  BY <1>3 DEF QueryStep, RowCallStep, StatusOfThread, StatusReturn, SetExit,
              SignalExit, JoinThread
<1>4. ASSUME NEW t \in Threads, RunStep(t) \/ SpuriousWakeup(t)
      PROVE  UNCHANGED rowVars
  BY <1>4 DEF RunStep, RunTop, RunFirst, Wakeup, SpuriousWakeup, AfterWakeup,
              BatchDone, BatchWakeup, LoopCheck, FinalCallbacks
<1>5. ASSUME NEW t \in Threads, WriteStep(t)
      PROVE  RowWriteStep(t) \/ UNCHANGED rowVars
  BY <1>5 DEF WriteStep, RowWriteStep, SetError
<1>6. CASE UNCHANGED vars
  BY <1>6 DEF vars
<1>7. QED
  BY <1>1, <1>2, <1>3, <1>4, <1>5, <1>6 DEF Next

(* What a step does to the queue of one thread. *)
LEMMA QueueSteps ==
  ASSUME TypeOK, [Next]_vars, NEW t \in Threads
  PROVE  \/ writeQueue'[t] = writeQueue[t]
         \/ writeQueue'[t] = AppendRow(writeQueue[t], accepted[t] + 1)
         \/ writeQueue'[t] = EmptyQueue
         \/ /\ Head(writeQueue[t]) # <<>>
            /\ writeQueue'[t] = PopBlock(writeQueue[t])
<1> USE DEF TypeOK
<1>1. writeQueue \in [Threads -> Seq(Seq(Rows))]
  BY DEF QueueTypeOK
<1>2. ASSUME NEW c \in Callers, RowCallStep(c)
      PROVE  \/ writeQueue'[t] = writeQueue[t]
             \/ writeQueue'[t] = AppendRow(writeQueue[t], accepted[t] + 1)
             \/ writeQueue'[t] = EmptyQueue
  BY <1>1, <1>2 DEF RowCallStep, InsertThreadWrite, CopyUnwritten, ClearUnwritten
<1>3. ASSUME NEW u \in Threads, RowWriteStep(u)
      PROVE  \/ writeQueue'[t] = writeQueue[t]
             \/ /\ Head(writeQueue[t]) # <<>>
                /\ writeQueue'[t] = PopBlock(writeQueue[t])
  BY <1>1, <1>3 DEF RowWriteStep, PopItems, ServerCall, BlockWritten,
                    CallbackThrows, BlockFailed
<1>4. CASE UNCHANGED rowVars
  BY <1>4 DEF rowVars
<1>5. QED
  BY <1>2, <1>3, <1>4, RowSteps

LEMMA ShapeNext ==
  ASSUME TypeOK, BlockShape, [Next]_vars
  PROVE  BlockShape'
<1>1. ASSUME NEW t \in Threads
      PROVE  WellShaped(writeQueue'[t])
  <2>1. writeQueue[t] \in Queues /\ WellShaped(writeQueue[t])
    BY QueueOfThread DEF TypeOK, BlockShape
  <2>2. accepted[t] + 1 \in Rows
    BY DEF TypeOK, HistoryTypeOK, Rows
  <2>3. CASE writeQueue'[t] = writeQueue[t]
    BY <2>1, <2>3
  <2>4. CASE writeQueue'[t] = AppendRow(writeQueue[t], accepted[t] + 1)
    BY <2>1, <2>2, <2>4, AppendRowFacts
  <2>5. CASE writeQueue'[t] = EmptyQueue
    BY <2>5, EmptyQueueFacts
  <2>6. CASE Head(writeQueue[t]) # <<>> /\ writeQueue'[t] = PopBlock(writeQueue[t])
    BY <2>1, <2>6, PopBlockFacts
  <2>7. QED
    BY <2>3, <2>4, <2>5, <2>6, QueueSteps
<1>2. QED
  BY <1>1 DEF BlockShape

LEMMA ShapeInit == Init => BlockShape
BY EmptyQueueFacts DEF Init, BlockShape

(* Every variable keeps its type; in particular no queue is ever left       *)
(* without a block, whose back() run() and insertThreadWrite() take.        *)
(* (MultithreadedTableWriter.cpp, writeAllData and insertThreadWrite.)      *)
THEOREM TypeCorrect == Spec => []TypeOK
<1>1. Init => TypeOK /\ BlockShape
  BY TypeInit, ShapeInit
<1>2. TypeOK /\ BlockShape /\ [Next]_vars => TypeOK' /\ BlockShape'
  BY TypeNext, ShapeNext
<1>3. QED
  BY <1>1, <1>2, PTL DEF Spec

(* Every block of a queue but the last holds exactly perBlockSize_ + 1      *)
(* rows, and only a lone block is empty, whatever the interleaving of       *)
(* insertThreadWrite, writeAllData and getUnwrittenData.                    *)
THEOREM ShapeCorrect == Spec => []BlockShape
<1>1. Init => TypeOK /\ BlockShape
  BY TypeInit, ShapeInit
<1>2. TypeOK /\ BlockShape /\ [Next]_vars => TypeOK' /\ BlockShape'
  BY TypeNext, ShapeNext
<1>3. QED
  BY <1>1, <1>2, PTL DEF Spec

-----------------------------------------------------------------------------
(* Rows, their order, and the wakeups.                                      *)
-----------------------------------------------------------------------------
(* Locks. *)

LEMMA LabelFacts ==
  /\ \A l \in LockedLabels : l # "idle" /\ l # "append" /\ l # "signal"
  /\ {"status", "statusDone", "copy", "clear", "exit", "exitSignal", "join"}
       \subseteq LockedLabels
BY DEF LockedLabels

LEMMA CallLocksNext ==
  ASSUME TypeOK, CallLocks, [Next]_vars
  PROVE  CallLocks'
<1> USE DEF TypeOK, errorVars, writerVars, reportVars, callerVars
<1>a. callPc \in [Callers -> CallLabels] /\ Nobody \notin Callers
  BY ThreadAssumption DEF CallerTypeOK
<1>b. ASSUME UNCHANGED <<callPc, insertRWLock>> PROVE CallLocks'
  BY <1>b DEF CallLocks
<1>1. ASSUME NEW c \in Callers, Insert(c) PROVE CallLocks'
  BY <1>1, <1>a, LabelFacts DEF Insert, CallLocks, LockedLabels
<1>2. ASSUME NEW c \in Callers, InsertUnwrittenData(c) PROVE CallLocks'
  BY <1>2, <1>a, LabelFacts DEF InsertUnwrittenData, CallLocks, LockedLabels
<1>3. ASSUME NEW c \in Callers, InsertThreadWrite(c) PROVE CallLocks'
  BY <1>3, <1>a, LabelFacts DEF InsertThreadWrite, CallLocks, LockedLabels
<1>4. ASSUME NEW c \in Callers, SignalNonempty(c) PROVE CallLocks'
  BY <1>4, <1>a, LabelFacts DEF SignalNonempty, CallLocks, LockedLabels
<1>5. ASSUME NEW c \in Callers, GetStatus(c) PROVE CallLocks'
  BY <1>5, <1>a, LabelFacts DEF GetStatus, CallLocks, LockedLabels
<1>6. ASSUME NEW c \in Callers, StatusOfThread(c) PROVE CallLocks'
  BY <1>6, <1>a, LabelFacts DEF StatusOfThread, CallLocks, LockedLabels
<1>7. ASSUME NEW c \in Callers, StatusReturn(c) PROVE CallLocks'
  BY <1>7, <1>a, LabelFacts DEF StatusReturn, CallLocks, LockedLabels
<1>8. ASSUME NEW c \in Callers, GetUnwrittenData(c) PROVE CallLocks'
  BY <1>8, <1>a, LabelFacts DEF GetUnwrittenData, CallLocks, LockedLabels
<1>9. ASSUME NEW c \in Callers, CopyUnwritten(c) PROVE CallLocks'
  BY <1>9, <1>a, LabelFacts DEF CopyUnwritten, CallLocks, LockedLabels
<1>10. ASSUME NEW c \in Callers, ClearUnwritten(c) PROVE CallLocks'
  BY <1>10, <1>a, LabelFacts DEF ClearUnwritten, CallLocks, LockedLabels
<1>11. ASSUME NEW c \in Callers, WaitForThreadCompletion(c) PROVE CallLocks'
  BY <1>11, <1>a, LabelFacts DEF WaitForThreadCompletion, CallLocks, LockedLabels
<1>12. ASSUME NEW c \in Callers, SetExit(c) PROVE CallLocks'
  BY <1>12, <1>a, LabelFacts DEF SetExit, CallLocks, LockedLabels
<1>13. ASSUME NEW c \in Callers, SignalExit(c) PROVE CallLocks'
  BY <1>13, <1>a, LabelFacts DEF SignalExit, CallLocks, LockedLabels
<1>14. ASSUME NEW c \in Callers, JoinThread(c) PROVE CallLocks'
  BY <1>14, <1>a, LabelFacts DEF JoinThread, CallLocks, LockedLabels
<1>15. ASSUME NEW t \in Threads, RunStep(t) \/ WriteStep(t) \/ SpuriousWakeup(t)
      PROVE  CallLocks'
  <2>1. UNCHANGED <<callPc, insertRWLock>>
    BY <1>15 DEF RunStep, RunTop, RunFirst, Wakeup, SpuriousWakeup, AfterWakeup,
                BatchDone, BatchWakeup, LoopCheck, FinalCallbacks, WriteStep,
                PopItems, ServerCall, BlockWritten, CallbackThrows,
                BlockFailed, SetError, WriterUnchanged
  <2>2. QED
    BY <1>b, <2>1
<1>16. CASE UNCHANGED vars
  BY <1>16, <1>b DEF vars
<1>17. QED
  BY <1>1, <1>2, <1>3, <1>4, <1>5, <1>6, <1>7, <1>8, <1>9, <1>10, <1>11, <1>12, <1>13, <1>14, <1>15, <1>16
     DEF Next, InsertStep, CallBegin, QueryStep

(* Of the calls, only the two steps of getUnwrittenData() touch mutex_, and *)
(* none touches what a writer thread keeps for itself.                      *)
LEMMA CallerFrame ==
  ASSUME NEW c \in Callers, InsertStep(c) \/ CallBegin(c) \/ QueryStep(c)
  PROVE  /\ UNCHANGED <<pc, loop, items, stored, sentRows, okRows, badRows>>
         /\ CopyUnwritten(c) \/ ClearUnwritten(c) \/ UNCHANGED mutex
BY DEF InsertStep, CallBegin, QueryStep, Insert, InsertUnwrittenData,
       InsertThreadWrite, SignalNonempty, GetStatus, StatusOfThread,
       StatusReturn, GetUnwrittenData, CopyUnwritten, ClearUnwritten,
       WaitForThreadCompletion, SetExit, SignalExit, JoinThread, errorVars,
       writerVars, reportVars, callerVars

(* A writer thread leaves the calls alone. *)
LEMMA WriterFrame ==
  ASSUME NEW t \in Threads, RunStep(t) \/ WriteStep(t) \/ SpuriousWakeup(t)
  PROVE  UNCHANGED <<insertRWLock, exited, submitted, callPc, callTodo,
                     callIndex, copied, report, exit, accepted, handed>>
BY DEF RunStep, RunTop, RunFirst, Wakeup, SpuriousWakeup, AfterWakeup,
       BatchDone, BatchWakeup, LoopCheck, FinalCallbacks, WriteStep,
       PopItems, ServerCall, BlockWritten, CallbackThrows, BlockFailed,
       SetError, WriterUnchanged, callerVars

(* A call that has just come to "clear" has copied a queue and locked.      *)
LEMMA ClearComesFromCopy ==
  ASSUME TypeOK, NEW c \in Callers, InsertStep(c) \/ CallBegin(c) \/ QueryStep(c),
         NEW d \in Callers, callPc'[d] = "clear"
  PROVE  \/ d = c /\ CopyUnwritten(c)
         \/ /\ d # c /\ callPc[d] = "clear"
            /\ callIndex'[d] = callIndex[d] /\ copied'[d] = copied[d]
<1> USE DEF TypeOK, CallerTypeOK, CallLabels, errorVars, writerVars, reportVars
<1>1. CASE InsertStep(c)
  BY <1>1 DEF InsertStep, Insert, InsertUnwrittenData, InsertThreadWrite,
              SignalNonempty, RouteRow
<1>2. CASE CallBegin(c)
  BY <1>2 DEF CallBegin, GetStatus, GetUnwrittenData, WaitForThreadCompletion
<1>3. CASE QueryStep(c)
  <2>1. CASE StatusOfThread(c) \/ StatusReturn(c)
    BY <2>1 DEF StatusOfThread, StatusReturn
  <2>2. CASE CopyUnwritten(c)
    BY <2>2 DEF CopyUnwritten
  <2>3. CASE ClearUnwritten(c)
    BY <2>3 DEF ClearUnwritten
  <2>4. CASE SetExit(c) \/ SignalExit(c) \/ JoinThread(c)
    BY <2>4 DEF SetExit, SignalExit, JoinThread
  <2>5. QED
    BY <1>3, <2>1, <2>2, <2>3, <2>4 DEF QueryStep
<1>4. QED
  BY <1>1, <1>2, <1>3

LEMMA MutexNext ==
  ASSUME TypeOK, LockDiscipline, [Next]_vars
  PROVE  CopyLocks' /\ FlightLocks'
<1> USE DEF TypeOK
<1>a. /\ mutex \in [Threads -> Callers \cup Threads \cup {Nobody}]
      /\ callIndex \in [Callers -> Threads]
      /\ items \in [Threads -> Seq(Rows)]
      /\ pc \in [Threads -> RunLabels]
      /\ Nobody \notin Callers /\ Nobody \notin Threads
      /\ Callers \cap Threads = {}
  BY ThreadAssumption DEF CallerTypeOK, ControlTypeOK, QueueTypeOK
<1>b. CallLocks /\ CopyLocks /\ FlightLocks
  BY DEF LockDiscipline
<1>c. ASSUME NEW c \in Callers, NEW d \in Callers,
             callPc[c] = "clear", callPc[d] = "clear"
      PROVE  c = d
  BY <1>b, <1>c DEF CallLocks, LockedLabels
<1>1. ASSUME NEW c \in Callers, CopyUnwritten(c)
      PROVE  CopyLocks' /\ FlightLocks'
  <2> DEFINE u == callIndex[c]
  <2>1. /\ mutex[u] = Nobody /\ mutex' = [mutex EXCEPT ![u] = c]
        /\ callPc' = [callPc EXCEPT ![c] = "clear"] /\ callIndex' = callIndex
        /\ UNCHANGED <<pc, items>>
    BY <1>1 DEF CopyUnwritten, MutexIsFree, writerVars
  <2>2. u \in Threads /\ mutex'[u] = c
    BY <1>a, <2>1
  <2>3. CopyLocks'
    BY <1>a, <1>b, <2>1, <2>2 DEF CopyLocks, CallerTypeOK
  <2>4. FlightLocks'
    BY <1>a, <1>b, <2>1, <2>2 DEF FlightLocks
  <2>5. QED
    BY <2>3, <2>4
<1>2. ASSUME NEW c \in Callers, ClearUnwritten(c)
      PROVE  CopyLocks' /\ FlightLocks'
  <2> DEFINE u == callIndex[c]
  <2>1. /\ callPc[c] = "clear" /\ mutex' = [mutex EXCEPT ![u] = Nobody]
        /\ UNCHANGED <<pc, items>>
    BY <1>2 DEF ClearUnwritten, writerVars
  <2>2. u \in Threads /\ mutex[u] = c
    BY <1>a, <1>b, <2>1 DEF CopyLocks
  <2>3. \A d \in Callers : callPc'[d] # "clear"
    <3>1. ASSUME NEW d \in Callers, callPc'[d] = "clear" PROVE FALSE
      <4>1. d # c /\ callPc[d] = "clear"
        BY <1>2, <3>1 DEF ClearUnwritten, CallerTypeOK
      <4>2. QED
        BY <1>c, <2>1, <4>1
    <3>2. QED
      BY <3>1
  <2>4. FlightLocks'
    BY <1>a, <1>b, <2>1, <2>2 DEF FlightLocks
  <2>5. QED
    BY <2>3, <2>4 DEF CopyLocks
<1>3. ASSUME NEW c \in Callers, InsertStep(c) \/ CallBegin(c) \/ QueryStep(c),
             ~CopyUnwritten(c), ~ClearUnwritten(c)
      PROVE  CopyLocks' /\ FlightLocks'
  <2>1. UNCHANGED <<mutex, pc, items>>
    BY <1>3, CallerFrame
  <2>2. \A d \in Callers : callPc'[d] = "clear" =>
          callPc[d] = "clear" /\ callIndex'[d] = callIndex[d]
    BY <1>3, ClearComesFromCopy
  <2>3. QED
    BY <1>b, <2>1, <2>2 DEF CopyLocks, FlightLocks
<1>4. ASSUME NEW t \in Threads, RunStep(t) \/ SpuriousWakeup(t)
      PROVE  CopyLocks' /\ FlightLocks'
  <2>1. UNCHANGED <<mutex, items, callPc, callIndex>>
    BY <1>4 DEF RunStep, RunTop, RunFirst, Wakeup, SpuriousWakeup, AfterWakeup,
                BatchDone, BatchWakeup, LoopCheck, FinalCallbacks,
                WriterUnchanged, writerVars, callerVars
  <2>2. /\ pc[t] \notin {"send", "ok", "failed", "setError"}
        /\ \E l \in RunLabels \ {"send", "ok", "failed", "setError"} :
             pc' = [pc EXCEPT ![t] = l]
    <3>1. CASE BatchWakeup(t)
      <4>1. pc[t] = "batch" /\ pc' = pc
        BY <3>1 DEF BatchWakeup, writerVars
      <4>2. pc' = [pc EXCEPT ![t] = "batch"]
        BY <1>a, <4>1
      <4>3. QED
        BY <4>1, <4>2 DEF RunLabels
    <3>2. CASE ~BatchWakeup(t)
      BY <1>4, <3>2 DEF RunStep, RunTop, RunFirst, Wakeup, SpuriousWakeup,
                        AfterWakeup, BatchDone, LoopCheck, FinalCallbacks,
                        Goto, RunLabels
    <3>3. QED
      BY <3>1, <3>2
  <2>3. FlightLocks'
    BY <1>a, <1>b, <2>1, <2>2 DEF FlightLocks
  <2>4. QED
    BY <1>b, <2>1, <2>3 DEF CopyLocks
<1>5. ASSUME NEW t \in Threads, PopItems(t)
      PROVE  CopyLocks' /\ FlightLocks'
  <2>1. /\ UNCHANGED <<callPc, callIndex>>
        /\ pc[t] = "pop" /\ mutex[t] = Nobody
    BY <1>5 DEF PopItems, MutexIsFree, WriterUnchanged, callerVars
  <2>2. CASE Head(writeQueue[t]) = <<>>
    <3>1. /\ UNCHANGED <<mutex, items>>
          /\ \E l \in {"top", "final"} : pc' = [pc EXCEPT ![t] = l]
      BY <1>5, <2>2 DEF PopItems, Goto
    <3>2. QED
      BY <1>a, <1>b, <2>1, <3>1 DEF CopyLocks, FlightLocks
  <2>3. CASE Head(writeQueue[t]) # <<>>
    <3>1. /\ mutex' = [mutex EXCEPT ![t] = t]
          /\ pc' = [pc EXCEPT ![t] = "send"]
          /\ \A u \in Threads : u # t => items'[u] = items[u]
      BY <1>5, <2>3, <1>a DEF PopItems, Goto
    <3>2. CopyLocks'
      BY <1>a, <1>b, <2>1, <3>1 DEF CopyLocks
    <3>3. FlightLocks'
      BY <1>a, <1>b, <2>1, <3>1 DEF FlightLocks
    <3>4. QED
      BY <3>2, <3>3
  <2>4. QED
    BY <2>2, <2>3
<1>6. ASSUME NEW t \in Threads, ServerCall(t) \/ CallbackThrows(t)
      PROVE  CopyLocks' /\ FlightLocks'
  <2>1. /\ UNCHANGED <<callPc, callIndex, mutex, items>>
        /\ pc[t] \in {"send", "ok"}
        /\ \E l \in {"ok", "failed"} : pc' = [pc EXCEPT ![t] = l]
    BY <1>6 DEF ServerCall, CallbackThrows, WriterUnchanged, callerVars, Goto
  <2>2. QED
    BY <1>a, <1>b, <2>1 DEF CopyLocks, FlightLocks
<1>7. ASSUME NEW t \in Threads, BlockFailed(t)
      PROVE  CopyLocks' /\ FlightLocks'
  <2>1. /\ UNCHANGED <<callPc, callIndex, mutex>>
        /\ pc[t] = "failed" /\ pc' = [pc EXCEPT ![t] = "setError"]
        /\ items' = [items EXCEPT ![t] = <<>>]
    BY <1>7 DEF BlockFailed, WriterUnchanged, callerVars, Goto
  <2>2. QED
    BY <1>a, <1>b, <2>1 DEF CopyLocks, FlightLocks
<1>8. ASSUME NEW t \in Threads, BlockWritten(t) \/ SetError(t)
      PROVE  CopyLocks' /\ FlightLocks'
  <2>1. /\ UNCHANGED <<callPc, callIndex>>
        /\ pc[t] \in {"ok", "setError"} /\ pc' = [pc EXCEPT ![t] = "check"]
        /\ mutex' = [mutex EXCEPT ![t] = Nobody]
        /\ \A u \in Threads : u # t => items'[u] = items[u]
    BY <1>8, <1>a DEF BlockWritten, SetError, WriterUnchanged, callerVars, Goto
  <2>2. mutex[t] = t
    BY <1>b, <2>1 DEF FlightLocks
  <2>3. items'[t] = <<>>
    BY <1>8, <1>a, <1>b DEF BlockWritten, SetError, FlightLocks
  <2>4. CopyLocks'
    BY <1>a, <1>b, <2>1, <2>2 DEF CopyLocks
  <2>5. FlightLocks'
    BY <1>a, <1>b, <2>1, <2>3 DEF FlightLocks
  <2>6. QED
    BY <2>4, <2>5
<1>9. CASE UNCHANGED vars
  BY <1>9, <1>b DEF vars, CopyLocks, FlightLocks
<1>10. QED
  BY <1>1, <1>2, <1>3, <1>4, <1>5, <1>6, <1>7, <1>8, <1>9 DEF Next, WriteStep

LEMMA LocksInit == Init => LockDiscipline
BY ThreadAssumption
   DEF Init, LockDiscipline, CallLocks, CopyLocks, FlightLocks, LockedLabels

LEMMA LocksNext ==
  ASSUME TypeOK, LockDiscipline, [Next]_vars
  PROVE  LockDiscipline'
BY CallLocksNext, MutexNext DEF LockDiscipline

-----------------------------------------------------------------------------
(* Rows: what a step does to the rows of one writer thread.                 *)

Accepts(t) ==
  /\ accepted'[t] = accepted[t] + 1
  /\ writeQueue'[t] = AppendRow(writeQueue[t], accepted[t] + 1)
  /\ pc'[t] = "send" => pc[t] = "send"
  /\ UNCHANGED <<items[t], stored[t], sentRows[t], failedQueue[t], handed[t]>>

HandsBackFailed(t) ==
  /\ failedQueue'[t] = <<>>
  /\ handed'[t] = handed[t] + Len(failedQueue[t])
  /\ pc'[t] = "send" => pc[t] = "send"
  /\ UNCHANGED <<accepted[t], writeQueue[t], items[t], stored[t], sentRows[t]>>

HandsBackQueue(t) ==
  /\ \E c \in Callers : /\ callPc[c] = "clear" /\ callIndex[c] = t
                        /\ handed'[t] = handed[t] + copied[c]
  /\ writeQueue'[t] = EmptyQueue
  /\ items[t] = <<>>
  /\ pc'[t] = "send" => pc[t] = "send"
  /\ UNCHANGED <<accepted[t], items[t], stored[t], sentRows[t], failedQueue[t]>>

Takes(t) ==
  /\ Head(writeQueue[t]) # <<>>
  /\ items[t] = <<>>
  /\ items'[t] = Head(writeQueue[t])
  /\ writeQueue'[t] = PopBlock(writeQueue[t])
  /\ UNCHANGED <<accepted[t], stored[t], sentRows[t], failedQueue[t], handed[t]>>

Stores(t) ==
  /\ pc[t] = "send" /\ pc'[t] # "send"
  /\ stored'[t] = stored[t] \o items[t]
  /\ UNCHANGED <<accepted[t], writeQueue[t], items[t], sentRows[t],
                 failedQueue[t], handed[t]>>

CountsSent(t) ==
  /\ sentRows'[t] = sentRows[t] + Len(items[t])
  /\ items'[t] = <<>>
  /\ pc'[t] # "send"
  /\ UNCHANGED <<accepted[t], writeQueue[t], stored[t], failedQueue[t], handed[t]>>

CountsFailed(t) ==
  /\ failedQueue'[t] = failedQueue[t] \o items[t]
  /\ items'[t] = <<>>
  /\ pc'[t] # "send"
  /\ UNCHANGED <<accepted[t], writeQueue[t], stored[t], sentRows[t], handed[t]>>

Throws(t) ==
  /\ WithCallback /\ "throw" \in Faults
  /\ pc'[t] # "send"
  /\ UNCHANGED <<accepted[t], writeQueue[t], items[t], stored[t],
                 failedQueue[t], handed[t]>>

KeepsRows(t) ==
  /\ pc'[t] = "send" => pc[t] = "send"
  /\ UNCHANGED <<accepted[t], writeQueue[t], items[t], stored[t], sentRows[t],
                 failedQueue[t], handed[t]>>

RowStep(t) ==
  \/ Accepts(t) \/ HandsBackFailed(t) \/ HandsBackQueue(t) \/ Takes(t)
  \/ Stores(t) \/ CountsSent(t) \/ CountsFailed(t) \/ Throws(t) \/ KeepsRows(t)

LEMMA RowStepFacts ==
  ASSUME TypeOK, LockDiscipline, [Next]_vars, NEW t \in Threads
  PROVE  RowStep(t)
<1> USE DEF TypeOK
<1>a. /\ accepted \in [Threads -> Nat]
      /\ writeQueue \in [Threads -> Seq(Seq(Rows))]
      /\ items \in [Threads -> Seq(Rows)]
      /\ stored \in [Threads -> Seq(Rows)]
      /\ sentRows \in [Threads -> Nat]
      /\ failedQueue \in [Threads -> Seq(Rows)]
      /\ handed \in [Threads -> Nat]
      /\ pc \in [Threads -> RunLabels]
      /\ callIndex \in [Callers -> Threads]
  BY DEF CallerTypeOK, ControlTypeOK, QueueTypeOK, HistoryTypeOK
<1>b. CopyLocks /\ FlightLocks /\ Callers \cap Threads = {}
  BY ThreadAssumption DEF LockDiscipline
<1>c. RowStep(t) <=> \/ Accepts(t) \/ HandsBackFailed(t) \/ HandsBackQueue(t)
                     \/ Takes(t) \/ Stores(t) \/ CountsSent(t)
                     \/ CountsFailed(t) \/ Throws(t) \/ KeepsRows(t)
  BY DEF RowStep
<1>1. ASSUME NEW c \in Callers, InsertThreadWrite(c) PROVE RowStep(t)
  <2>1. UNCHANGED <<pc, items, stored, sentRows, failedQueue, handed>>
    BY <1>1 DEF InsertThreadWrite, writerVars
  <2>2. CASE callIndex[c] = t
    <3>1. Accepts(t)
      BY <1>1, <1>a, <2>1, <2>2 DEF InsertThreadWrite, Accepts
    <3>2. QED
      BY <1>c, <3>1
  <2>3. CASE callIndex[c] # t
    <3>1. KeepsRows(t)
      BY <1>1, <1>a, <2>1, <2>3 DEF InsertThreadWrite, KeepsRows
    <3>2. QED
      BY <1>c, <3>1
  <2>4. QED
    BY <2>2, <2>3
<1>2. ASSUME NEW c \in Callers, CopyUnwritten(c) PROVE RowStep(t)
  <2>1. UNCHANGED <<pc, items, stored, sentRows, accepted, writeQueue>>
    BY <1>2 DEF CopyUnwritten, writerVars
  <2>2. CASE callIndex[c] = t
    <3>1. HandsBackFailed(t)
      BY <1>2, <1>a, <2>1, <2>2 DEF CopyUnwritten, HandsBackFailed, FailedAfterCopy
    <3>2. QED
      BY <1>c, <3>1
  <2>3. CASE callIndex[c] # t
    <3>1. KeepsRows(t)
      BY <1>2, <1>a, <2>1, <2>3 DEF CopyUnwritten, KeepsRows
    <3>2. QED
      BY <1>c, <3>1
  <2>4. QED
    BY <2>2, <2>3
<1>3. ASSUME NEW c \in Callers, ClearUnwritten(c) PROVE RowStep(t)
  <2>1. UNCHANGED <<pc, items, stored, sentRows, accepted, failedQueue>>
    BY <1>3 DEF ClearUnwritten, writerVars
  <2>2. CASE callIndex[c] = t
    <3>1. mutex[t] = c /\ callPc[c] = "clear"
      BY <1>3, <1>b, <2>2 DEF ClearUnwritten, CopyLocks
    <3>2. items[t] = <<>>
      BY <1>b, <3>1 DEF FlightLocks
    <3>3. HandsBackQueue(t)
      BY <1>3, <1>a, <2>1, <2>2, <3>1, <3>2 DEF ClearUnwritten, HandsBackQueue
    <3>4. QED
      BY <1>c, <3>3
  <2>3. CASE callIndex[c] # t
    <3>1. KeepsRows(t)
      BY <1>3, <1>a, <2>1, <2>3 DEF ClearUnwritten, KeepsRows
    <3>2. QED
      BY <1>c, <3>1
  <2>4. QED
    BY <2>2, <2>3
<1>4. ASSUME NEW c \in Callers, InsertStep(c) \/ CallBegin(c) \/ QueryStep(c),
             ~RowCallStep(c)
      PROVE  RowStep(t)
  <2>1. UNCHANGED <<pc, items, stored, sentRows>>
    BY <1>4, CallerFrame
  <2>2. UNCHANGED <<accepted, writeQueue, failedQueue, handed>>
    BY <1>4 DEF RowCallStep, InsertStep, CallBegin, QueryStep, Insert,
                InsertUnwrittenData, SignalNonempty, GetStatus,
                StatusOfThread, StatusReturn, GetUnwrittenData,
                WaitForThreadCompletion, SetExit, SignalExit, JoinThread
  <2>3. KeepsRows(t)
    BY <2>1, <2>2 DEF KeepsRows
  <2>4. QED
    BY <1>c, <2>3
<1>5. ASSUME NEW u \in Threads, RunStep(u) \/ SpuriousWakeup(u) \/ SetError(u)
      PROVE  RowStep(t)
  <2>1. UNCHANGED rowVars
    BY <1>5 DEF RunStep, RunTop, RunFirst, Wakeup, SpuriousWakeup, AfterWakeup,
                BatchDone, BatchWakeup, LoopCheck, FinalCallbacks, SetError,
                WriterUnchanged, writerVars, rowVars
  <2>2. \/ pc' = pc
        \/ \E l \in RunLabels \ {"send"} : pc' = [pc EXCEPT ![u] = l]
    BY <1>5 DEF RunStep, RunTop, RunFirst, Wakeup, SpuriousWakeup, AfterWakeup,
                BatchDone, BatchWakeup, LoopCheck, FinalCallbacks, SetError,
                Goto, RunLabels, writerVars
  <2>3. pc'[t] = "send" => pc[t] = "send"
    BY <1>a, <2>2
  <2>4. KeepsRows(t)
    BY <2>1, <2>3 DEF KeepsRows, rowVars
  <2>5. QED
    BY <1>c, <2>4
<1>6. ASSUME NEW u \in Threads, RowWriteStep(u), u # t PROVE RowStep(t)
  <2>1. /\ UNCHANGED <<accepted, handed>>
        /\ writeQueue'[t] = writeQueue[t]
        /\ items'[t] = items[t]
        /\ stored'[t] = stored[t]
        /\ sentRows'[t] = sentRows[t]
        /\ failedQueue'[t] = failedQueue[t]
        /\ pc'[t] = pc[t]
    BY SMTT(30), <1>6, <1>a DEF RowWriteStep, PopItems, ServerCall, BlockWritten,
                      CallbackThrows, BlockFailed, WriterUnchanged, Goto
  <2>2. KeepsRows(t)
    BY <2>1 DEF KeepsRows
  <2>3. QED
    BY <1>c, <2>2
<1>7. CASE PopItems(t)
  <2>1. pc[t] = "pop"
    BY <1>7 DEF PopItems
  <2>2. items[t] = <<>>
    BY <1>b, <2>1 DEF FlightLocks
  <2>3. UNCHANGED <<accepted, stored, sentRows, failedQueue, handed>>
    BY <1>7 DEF PopItems, WriterUnchanged
  <2>4. CASE Head(writeQueue[t]) = <<>>
    <3>1. KeepsRows(t)
      BY <1>7, <1>a, <2>1, <2>3, <2>4 DEF PopItems, Goto, KeepsRows
    <3>2. QED
      BY <1>c, <3>1
  <2>5. CASE Head(writeQueue[t]) # <<>>
    <3>1. Takes(t)
      BY <1>7, <1>a, <2>2, <2>3, <2>5 DEF PopItems, Takes
    <3>2. QED
      BY <1>c, <3>1
  <2>6. QED
    BY <2>4, <2>5
<1>8. CASE ServerCall(t)
  <2>1. /\ UNCHANGED <<accepted, writeQueue, items, sentRows, failedQueue, handed>>
        /\ pc[t] = "send"
        /\ \E l \in {"ok", "failed"} : pc' = [pc EXCEPT ![t] = l]
        /\ \/ stored' = stored
           \/ stored' = [stored EXCEPT ![t] = @ \o items[t]]
    BY <1>8 DEF ServerCall, WriterUnchanged, Goto
  <2>2. pc'[t] # "send"
    BY <1>a, <2>1
  <2>3. CASE stored' = stored
    <3>1. KeepsRows(t)
      BY <2>1, <2>2, <2>3 DEF KeepsRows
    <3>2. QED
      BY <1>c, <3>1
  <2>4. CASE stored' = [stored EXCEPT ![t] = @ \o items[t]]
    <3>1. Stores(t)
      BY <1>a, <2>1, <2>2, <2>4 DEF Stores
    <3>2. QED
      BY <1>c, <3>1
  <2>5. QED
    BY <2>1, <2>3, <2>4
<1>9. CASE BlockWritten(t)
  <2>1. CountsSent(t)
    BY <1>9, <1>a DEF BlockWritten, WriterUnchanged, Goto, CountsSent
  <2>2. QED
    BY <1>c, <2>1
<1>10. CASE CallbackThrows(t)
  <2>1. Throws(t)
    BY <1>10, <1>a DEF CallbackThrows, WriterUnchanged, Goto, Throws
  <2>2. QED
    BY <1>c, <2>1
<1>11. CASE BlockFailed(t)
  <2>1. CountsFailed(t)
    BY <1>11, <1>a DEF BlockFailed, WriterUnchanged, Goto, CountsFailed
  <2>2. QED
    BY <1>c, <2>1
<1>12. CASE UNCHANGED vars
  <2>1. KeepsRows(t)
    BY <1>12 DEF vars, KeepsRows
  <2>2. QED
    BY <1>c, <2>1
<1>13. ASSUME NEW u \in Threads, WriteStep(u) PROVE RowStep(t)
  BY <1>13, <1>5, <1>6, <1>7, <1>8, <1>9, <1>10, <1>11 DEF WriteStep, RowWriteStep
<1>14. QED
  BY <1>1, <1>2, <1>3, <1>4, <1>5, <1>12, <1>13 DEF Next, RowCallStep

(* How many rows a step leaves in a queue. *)
LEMMA QueueCounts ==
  ASSUME TypeOK, BlockShape, NEW t \in Threads
  PROVE  /\ QueueRows(writeQueue[t]) \in Nat
         /\ QueueRows(AppendRow(writeQueue[t], accepted[t] + 1))
              = QueueRows(writeQueue[t]) + 1
         /\ QueueRows(EmptyQueue) = 0
         /\ Head(writeQueue[t]) # <<>> =>
              /\ QueueRows(PopBlock(writeQueue[t])) \in Nat
              /\ QueueRows(writeQueue[t])
                   = Len(Head(writeQueue[t])) + QueueRows(PopBlock(writeQueue[t]))
<1>1. writeQueue[t] \in Queues /\ WellShaped(writeQueue[t])
  BY QueueOfThread DEF TypeOK, BlockShape
<1>2. accepted[t] + 1 \in Rows
  BY DEF TypeOK, HistoryTypeOK, Rows
<1>3. Head(writeQueue[t]) # <<>> => PopBlock(writeQueue[t]) \in Queues
  BY <1>1, PopBlockFacts
<1>4. QED
  BY <1>1, <1>2, <1>3, QueueFacts, AppendRowFacts, PopBlockFacts, EmptyQueueFacts

(* The copy getUnwrittenData() is about to drop stays the queue: the        *)
(* inserts that could change it are shut out by insertRWLock_, the writer   *)
(* thread by mutex_, and insertUnwrittenData() by the single owner.         *)
LEMMA CopyNext ==
  ASSUME TypeOK, LockDiscipline, CopyIsCurrent, [Next]_vars
  PROVE  CopyIsCurrent'
<1> USE DEF TypeOK
<1>1. SUFFICES ASSUME SingleOwner, NEW d \in Callers, callPc'[d] = "clear"
               PROVE  copied'[d] = QueueRows(writeQueue'[callIndex'[d]])
  BY DEF CopyIsCurrent, SingleOwner
<1>a. /\ callIndex \in [Callers -> Threads] /\ callPc \in [Callers -> CallLabels]
      /\ copied \in [Callers -> Nat]
      /\ writeQueue \in [Threads -> Seq(Seq(Rows))]
  BY DEF CallerTypeOK, QueueTypeOK
<1>b. ASSUME callPc[d] = "clear"
      PROVE  /\ copied[d] = QueueRows(writeQueue[callIndex[d]])
             /\ insertRWLock = d /\ d \in Admins
             /\ mutex[callIndex[d]] = d /\ d # Nobody
  BY <1>1, <1>b, ThreadAssumption
     DEF CopyIsCurrent, LockDiscipline, CallLocks, CopyLocks, LockedLabels
<1>2. ASSUME NEW c \in Callers, InsertStep(c) \/ CallBegin(c) \/ QueryStep(c)
      PROVE  copied'[d] = QueueRows(writeQueue'[callIndex'[d]])
  <2>1. CASE d = c /\ CopyUnwritten(c)
    <3>1. /\ writeQueue' = writeQueue /\ callIndex' = callIndex
          /\ copied' = [copied EXCEPT ![c] = QueueRows(writeQueue[callIndex[c]])]
      BY <2>1 DEF CopyUnwritten
    <3>2. QED
      BY <1>a, <2>1, <3>1
  <2>2. CASE /\ d # c /\ callPc[d] = "clear"
             /\ callIndex'[d] = callIndex[d] /\ copied'[d] = copied[d]
    <3>1. ~InsertThreadWrite(c)
      <4>1. ASSUME InsertThreadWrite(c) PROVE FALSE
        <5>1. insertRWLock = c \/ c \in BulkCallers
          BY <4>1 DEF InsertThreadWrite, LockDiscipline, CallLocks
        <5>2. c \in BulkCallers
          BY <1>b, <2>2, <5>1
        <5>3. QED
          BY <1>1, <1>b, <2>2, <5>2 DEF SingleOwner
      <4>2. QED
        BY <4>1
    <3>2. ~ClearUnwritten(c)
      <4>1. ASSUME ClearUnwritten(c) PROVE FALSE
        <5>1. insertRWLock = c
          BY <4>1 DEF ClearUnwritten, LockDiscipline, CallLocks, LockedLabels
        <5>2. QED
          BY <1>b, <2>2, <5>1
      <4>2. QED
        BY <4>1
    <3>3. writeQueue' = writeQueue
      BY <1>2, <3>1, <3>2
         DEF InsertStep, CallBegin, QueryStep, Insert, InsertUnwrittenData,
             SignalNonempty, GetStatus, StatusOfThread, StatusReturn,
             GetUnwrittenData, CopyUnwritten, WaitForThreadCompletion, SetExit,
             SignalExit, JoinThread
    <3>4. QED
      BY <1>b, <2>2, <3>3
  <2>3. QED
    BY <1>1, <1>2, <2>1, <2>2, ClearComesFromCopy
<1>3. ASSUME NEW t \in Threads, RunStep(t) \/ WriteStep(t) \/ SpuriousWakeup(t)
      PROVE  copied'[d] = QueueRows(writeQueue'[callIndex'[d]])
  <2>1. UNCHANGED <<callPc, callIndex, copied>>
    BY <1>3, WriterFrame
  <2>2. writeQueue'[callIndex[d]] = writeQueue[callIndex[d]]
    <3>1. CASE PopItems(t)
      <4>1. mutex[t] = Nobody
        BY <3>1 DEF PopItems, MutexIsFree
      <4>2. callIndex[d] # t
        BY <1>1, <1>b, <2>1, <4>1
      <4>3. \E q : writeQueue' = [writeQueue EXCEPT ![t] = q] \/ writeQueue' = writeQueue
        BY <3>1 DEF PopItems
      <4>4. QED
        BY <1>a, <4>2, <4>3
    <3>2. CASE ~PopItems(t)
      <4>1. writeQueue' = writeQueue
        BY <1>3, <3>2
           DEF RunStep, RunTop, RunFirst, Wakeup, SpuriousWakeup, AfterWakeup,
               BatchDone, BatchWakeup, LoopCheck, FinalCallbacks, WriteStep,
               ServerCall, BlockWritten, CallbackThrows, BlockFailed, SetError
      <4>2. QED
        BY <4>1
    <3>3. QED
      BY <3>1, <3>2
  <2>3. QED
    BY <1>1, <1>b, <2>1, <2>2
<1>4. CASE UNCHANGED vars
  BY <1>1, <1>4, <1>b DEF vars
<1>5. QED
  BY <1>2, <1>3, <1>4 DEF Next

LEMMA AccountingNext ==
  ASSUME TypeOK, BlockShape, LockDiscipline, CopyIsCurrent, RowAccounting,
         [Next]_vars
  PROVE  RowAccounting'
<1>1. SUFFICES ASSUME SingleOwner, WithCallback => "throw" \notin Faults,
                      NEW t \in Threads
               PROVE  accepted'[t] = sentRows'[t] + Len(failedQueue'[t])
                        + Len(items'[t]) + handed'[t] + QueueRows(writeQueue'[t])
  BY DEF RowAccounting, SingleOwner
<1> DEFINE a == accepted[t]   s == sentRows[t]   f == Len(failedQueue[t])
           i == Len(items[t]) h == handed[t]     q == QueueRows(writeQueue[t])
<1>2. a = s + f + i + h + q
  BY <1>1 DEF RowAccounting
<1>a. failedQueue[t] \in Seq(Rows) /\ items[t] \in Seq(Rows)
  BY DEF TypeOK, QueueTypeOK
<1>3. /\ a \in Nat /\ s \in Nat /\ f \in Nat /\ i \in Nat /\ h \in Nat /\ q \in Nat
      /\ Len(<<>>) = 0
  <2>1. f \in Nat /\ i \in Nat
    BY <1>a
  <2>2. QED
    BY <2>1, QueueCounts DEF TypeOK, ControlTypeOK, HistoryTypeOK
<1>4. Len(failedQueue[t] \o items[t]) = f + i
  BY <1>a
<1> HIDE DEF a, s, f, i, h, q
<1>5. RowStep(t)
  BY RowStepFacts
<1>6. CASE Accepts(t)
  <2>1. /\ accepted'[t] = a + 1 /\ QueueRows(writeQueue'[t]) = q + 1
        /\ sentRows'[t] = s /\ Len(failedQueue'[t]) = f
        /\ Len(items'[t]) = i /\ handed'[t] = h
    BY <1>6, QueueCounts DEF Accepts, a, s, f, i, h, q
  <2>2. QED
    BY <1>2, <1>3, <2>1
<1>7. CASE HandsBackFailed(t)
  BY <1>2, <1>3, <1>7 DEF HandsBackFailed, a, s, f, i, h, q
<1>8. CASE HandsBackQueue(t)
  <2>1. handed'[t] = h + q
    BY <1>1, <1>8 DEF HandsBackQueue, CopyIsCurrent, h, q
  <2>2. /\ accepted'[t] = a /\ QueueRows(writeQueue'[t]) = 0
        /\ sentRows'[t] = s /\ Len(failedQueue'[t]) = f /\ Len(items'[t]) = i
    BY <1>8, QueueCounts DEF HandsBackQueue, a, s, f, i
  <2>3. QED
    BY <1>2, <1>3, <2>1, <2>2
<1>9. CASE Takes(t)
  <2> DEFINE b == Len(Head(writeQueue[t]))
  <2>1. /\ QueueRows(PopBlock(writeQueue[t])) \in Nat
        /\ q = b + QueueRows(PopBlock(writeQueue[t]))
    BY <1>9, QueueCounts DEF Takes, q
  <2>2. /\ accepted'[t] = a /\ writeQueue'[t] = PopBlock(writeQueue[t])
        /\ sentRows'[t] = s /\ Len(failedQueue'[t]) = f
        /\ i = 0 /\ Len(items'[t]) = b /\ handed'[t] = h
    BY <1>3, <1>9 DEF Takes, a, s, f, i, h
  <2>3. b \in Nat
    BY QueueOfThread, QueueFacts DEF TypeOK
  <2> HIDE DEF b
  <2>4. QED
    BY <1>2, <1>3, <2>1, <2>2, <2>3
<1>10. CASE Stores(t)
  BY <1>2, <1>10 DEF Stores, a, s, f, i, h, q
<1>11. CASE CountsSent(t)
  BY <1>2, <1>3, <1>11 DEF CountsSent, a, s, f, i, h, q
<1>12. CASE CountsFailed(t)
  <2>1. /\ accepted'[t] = a /\ QueueRows(writeQueue'[t]) = q
        /\ sentRows'[t] = s /\ Len(failedQueue'[t]) = f + i
        /\ Len(items'[t]) = 0 /\ handed'[t] = h
    BY <1>3, <1>4, <1>12 DEF CountsFailed, a, s, h, q
  <2>2. QED
    BY <1>2, <1>3, <2>1
<1>13. CASE KeepsRows(t)
  BY <1>2, <1>13 DEF KeepsRows, a, s, f, i, h, q
<1>14. QED
  BY <1>1, <1>5, <1>6, <1>7, <1>8, <1>9, <1>10, <1>11, <1>12, <1>13
     DEF RowStep, Throws

LEMMA OrderNext ==
  ASSUME TypeOK, BlockShape, LockDiscipline, RowOrder, [Next]_vars
  PROVE  RowOrder'
<1> DEFINE Ordered(q, block, gone) ==
             /\ InOrder(q, gone)
             /\ \A k \in 1 .. Len(block) : block[k] = gone - Len(block) + k
<1>1. SUFFICES ASSUME NEW t \in Threads
               PROVE  Ordered(writeQueue'[t], items'[t],
                              accepted'[t] - QueueRows(writeQueue'[t]))
  BY DEF RowOrder, RowsGone
<1> DEFINE q == writeQueue[t]
           gone == accepted[t] - QueueRows(q)
<1>2. Ordered(q, items[t], gone)
  BY DEF RowOrder, RowsGone
<1>3. /\ q \in Queues /\ WellShaped(q)
      /\ accepted[t] \in Nat /\ accepted[t] + 1 \in Rows
      /\ items[t] \in Seq(Rows)
  BY QueueOfThread DEF TypeOK, BlockShape, HistoryTypeOK, QueueTypeOK, Rows
<1>4. QueueRows(q) \in Nat /\ gone \in Int
  BY <1>3, QueueCounts
<1>5. RowStep(t)
  BY RowStepFacts
<1>e. \A n \in Int : Ordered(q, <<>>, gone) /\ Ordered(EmptyQueue, <<>>, n)
  BY <1>2, EmptyQueueFacts
<1>6. CASE Accepts(t)
  <2> DEFINE p == AppendRow(q, accepted[t] + 1)
  <2>1. accepted'[t] - QueueRows(p) = gone
    BY <1>3, <1>4, <1>6, QueueCounts DEF Accepts
  <2>2. accepted[t] + 1 = gone + QueueRows(q) + 1
    BY <1>3, <1>4
  <2>3. InOrder(p, gone)
    <3> HIDE DEF gone
    <3>1. InOrder(q, gone)
      BY <1>2
    <3>2. QED
      BY <1>3, <1>4, <2>2, <3>1, AppendRowFacts
  <2>4. writeQueue'[t] = p /\ items'[t] = items[t]
    BY <1>6 DEF Accepts
  <2>5. QED
    BY <1>2, <2>1, <2>3, <2>4
<1>7. CASE HandsBackQueue(t)
  <2>1. /\ writeQueue'[t] = EmptyQueue /\ items'[t] = <<>>
        /\ accepted'[t] - QueueRows(EmptyQueue) = accepted[t]
    BY <1>3, <1>7, QueueCounts DEF HandsBackQueue
  <2>2. QED
    BY <1>3, <1>e, <2>1
<1>8. CASE Takes(t)
  <2> DEFINE first == Head(q)
             p == PopBlock(q)
  <2>1. /\ first # <<>> /\ writeQueue'[t] = p /\ items'[t] = first
        /\ accepted'[t] = accepted[t]
    BY <1>8 DEF Takes
  <2>2. first \in Seq(Rows) /\ Len(first) \in Nat
    BY <1>3, QueueFacts
  <2>3. accepted[t] - QueueRows(p) = gone + Len(first)
    <3>1. QueueRows(p) \in Nat /\ QueueRows(q) = Len(first) + QueueRows(p)
      BY <2>1, QueueCounts
    <3> HIDE DEF p, q, first
    <3>2. QED
      BY <1>3, <1>4, <2>2, <3>1
  <2>4. /\ InOrder(p, gone + Len(first))
        /\ \A k \in 1 .. Len(first) : first[k] = gone + k
    <3> HIDE DEF gone
    <3>1. InOrder(q, gone)
      BY <1>2
    <3>2. QED
      BY <1>3, <1>4, <2>1, <3>1, PopBlockFacts
  <2> DEFINE gone2 == accepted'[t] - QueueRows(writeQueue'[t])
             size == Len(first)
  <2>5. /\ gone2 = gone + size /\ InOrder(writeQueue'[t], gone2)
        /\ gone \in Int /\ size \in Nat
        /\ items'[t] = first /\ Len(items'[t]) = size
    BY <1>4, <2>1, <2>2, <2>3, <2>4
  <2>6. \A k \in 1 .. size : items'[t][k] = gone + k
    BY <2>1, <2>4
  <2> HIDE DEF gone, gone2, size
  <2>7. gone2 - size = gone
    BY <2>5
  <2>8. \A k \in 1 .. Len(items'[t]) : items'[t][k] = gone2 - Len(items'[t]) + k
    BY <2>5, <2>6, <2>7
  <2>9. QED
    BY <2>5, <2>8 DEF gone2
<1>9. CASE CountsSent(t) \/ CountsFailed(t)
  <2>1. /\ writeQueue'[t] = q /\ accepted'[t] = accepted[t] /\ items'[t] = <<>>
    BY <1>9 DEF CountsSent, CountsFailed
  <2>2. QED
    BY <1>4, <1>e, <2>1
<1>10. CASE HandsBackFailed(t) \/ Stores(t) \/ Throws(t) \/ KeepsRows(t)
  <2>1. UNCHANGED <<writeQueue[t], accepted[t], items[t]>>
    BY <1>10 DEF HandsBackFailed, Stores, Throws, KeepsRows
  <2>2. QED
    BY <1>2, <2>1
<1>11. QED
  BY <1>5, <1>6, <1>7, <1>8, <1>9, <1>10 DEF RowStep

LEMMA ConcatFacts ==
  ASSUME NEW r \in Seq(Nat), NEW s \in Seq(Nat)
  PROVE  /\ Len(r) \in Nat /\ Len(s) \in Nat /\ Len(r \o s) = Len(r) + Len(s)
         /\ \A i \in 1 .. Len(r) : (r \o s)[i] = r[i] /\ r[i] \in Nat
         /\ \A k \in 1 .. Len(s) : (r \o s)[Len(r) + k] = s[k]
OBVIOUS

LEMMA StoredNext ==
  ASSUME TypeOK, BlockShape, LockDiscipline, RowOrder, StoredInOrder,
         StoredRowsLeft, [Next]_vars
  PROVE  StoredInOrder' /\ StoredRowsLeft'
<1>1. SUFFICES ASSUME NEW t \in Threads
               PROVE  /\ \A i, j \in 1 .. Len(stored'[t]) :
                           i < j => stored'[t][i] < stored'[t][j]
                      /\ \A i \in 1 .. Len(stored'[t]) :
                           stored'[t][i] <= accepted'[t] - QueueRows(writeQueue'[t])
                             - (IF pc'[t] = "send" THEN Len(items'[t]) ELSE 0)
  BY DEF StoredInOrder, StoredRowsLeft, RowsGone
<1> DEFINE q == writeQueue[t]
           gone == accepted[t] - QueueRows(q)
           due == IF pc[t] = "send" THEN Len(items[t]) ELSE 0
           gone2 == accepted'[t] - QueueRows(writeQueue'[t])
           due2 == IF pc'[t] = "send" THEN Len(items'[t]) ELSE 0
<1>2. /\ \A i, j \in 1 .. Len(stored[t]) : i < j => stored[t][i] < stored[t][j]
      /\ \A i \in 1 .. Len(stored[t]) : stored[t][i] <= gone - due
      /\ \A k \in 1 .. Len(items[t]) : items[t][k] = gone - Len(items[t]) + k
  BY DEF StoredInOrder, StoredRowsLeft, RowOrder, RowsGone
<1>3. /\ stored[t] \in Seq(Nat) /\ items[t] \in Seq(Nat)
      /\ accepted[t] \in Nat
  BY DEF TypeOK, HistoryTypeOK, QueueTypeOK, Rows
<1>4. QueueRows(q) \in Nat /\ gone \in Int /\ Len(items[t]) \in Nat
      /\ due \in Nat
  <2>1. QueueRows(q) \in Nat
    BY QueueCounts
  <2>2. Len(items[t]) \in Nat
    BY <1>3
  <2>3. QED
    BY <1>3, <2>1, <2>2
<1>5. RowStep(t)
  BY RowStepFacts
<1>6. CASE Stores(t)
  <2>1. /\ stored'[t] = stored[t] \o items[t]
        /\ gone2 = gone /\ due2 = 0 /\ due = Len(items[t])
    BY <1>6 DEF Stores
  <2> DEFINE m == Len(stored[t])
             k == Len(items[t])
             base == gone - k
             new == stored[t] \o items[t]
  <2>2. /\ m \in Nat /\ k \in Nat /\ Len(new) = m + k
        /\ \A i \in 1 .. m : new[i] = stored[t][i] /\ stored[t][i] \in Nat
        /\ \A l \in 1 .. k : new[m + l] = items[t][l]
    BY <1>3, ConcatFacts
  <2>3. base \in Int /\ gone2 - due2 = base + k /\ gone - due = base
    <3> HIDE DEF gone, due, gone2, due2
    <3>1. QED
      BY <1>4, <2>1
  <2>4. /\ \A i, j \in 1 .. m : i < j => stored[t][i] < stored[t][j]
        /\ \A i \in 1 .. m : stored[t][i] <= base
        /\ \A l \in 1 .. k : items[t][l] = base + l
    <3> HIDE DEF gone, due
    <3>1. QED
      BY <1>2, <2>3
  <2> HIDE DEF m, k, base, new, gone2, due2
  <2>5. ASSUME NEW i \in 1 .. m + k
        PROVE  \/ i \in 1 .. m /\ new[i] \in Nat /\ new[i] <= base
               \/ i > m /\ new[i] = base + (i - m)
    <3>1. CASE i <= m
      <4>1. i \in 1 .. m
        BY <2>2, <3>1
      <4>2. QED
        BY <2>2, <2>4, <4>1
    <3>2. CASE i > m
      <4>1. i - m \in 1 .. k /\ m + (i - m) = i
        BY <2>2, <3>2
      <4>2. new[m + (i - m)] = base + (i - m)
        BY <2>2, <2>4, <4>1
      <4>3. QED
        BY <3>2, <4>1, <4>2
    <3>3. QED
      BY <2>2, <3>1, <3>2
  <2>6. ASSUME NEW i \in 1 .. m + k, NEW j \in 1 .. m + k, i < j
        PROVE  new[i] < new[j]
    <3> DEFINE x == new[i]   y == new[j]
    <3>1. CASE i \in 1 .. m /\ j \in 1 .. m
      BY <2>2, <2>4, <2>6, <3>1
    <3>2. CASE j > m
      <4>1. y = base + (j - m) /\ j \in Int /\ i \in Int
        BY <2>2, <2>5, <3>2
      <4>2. \/ x \in Nat /\ x <= base
            \/ i > m /\ x = base + (i - m)
        BY <2>5
      <4> HIDE DEF x, y
      <4>3. x < y
        <5>1. m \in Nat
          BY <2>2
        <5>2. QED
          BY <2>3, <2>6, <3>2, <4>1, <4>2, <5>1
      <4>4. QED
        BY <4>3 DEF x, y
    <3>3. QED
      BY <2>2, <2>6, <3>1, <3>2
  <2>7. ASSUME NEW i \in 1 .. m + k PROVE new[i] <= base + k
    <3> DEFINE x == new[i]
    <3>1. \/ x \in Nat /\ x <= base
          \/ i > m /\ x = base + (i - m)
      BY <2>5
    <3>2. m \in Nat /\ k \in Nat /\ i \in Int /\ i <= m + k
      BY <2>2
    <3> HIDE DEF x
    <3>3. x <= base + k
      BY <2>3, <3>1, <3>2
    <3>4. QED
      BY <3>3 DEF x
  <2>8. stored'[t] = new /\ Len(new) = m + k
    BY <2>1, <2>2 DEF new
  <2>9. QED
    BY <2>3, <2>6, <2>7, <2>8 DEF gone2, due2
<1>7. CASE Takes(t)
  <2>1. /\ stored'[t] = stored[t] /\ items[t] = <<>>
        /\ accepted'[t] = accepted[t] /\ writeQueue'[t] = PopBlock(q)
        /\ items'[t] = Head(q) /\ Head(q) # <<>>
    BY <1>7 DEF Takes
  <2>2. /\ QueueRows(PopBlock(q)) \in Nat
        /\ QueueRows(q) = Len(Head(q)) + QueueRows(PopBlock(q))
    BY <2>1, QueueCounts
  <2>3. Len(Head(q)) \in Nat
    BY QueueOfThread, QueueFacts DEF TypeOK
  <2>4. gone2 = gone + Len(Head(q)) /\ due = 0 /\ due2 \in {0, Len(Head(q))}
    <3>1. gone2 = accepted[t] - QueueRows(PopBlock(q))
      BY <2>1
    <3>2. gone2 = gone + Len(Head(q))
      BY SMTT(30), <1>3, <1>4, <2>2, <2>3, <3>1
    <3>3. due = 0 /\ due2 \in {0, Len(Head(q))}
      BY <2>1
    <3>4. QED
      BY <3>2, <3>3
  <2> HIDE DEF gone, due, gone2, due2, q
  <2>5. gone - due <= gone2 - due2
    BY <1>4, <2>3, <2>4
  <2>6. ASSUME NEW i \in 1 .. Len(stored[t]) PROVE stored[t][i] <= gone2 - due2
    <3>1. stored[t][i] \in Int /\ stored[t][i] <= gone - due
      BY <1>2, <1>3
    <3>2. gone2 - due2 \in Int /\ gone - due \in Int
      BY <1>4, <2>3, <2>4
    <3>3. QED
      BY <2>5, <3>1, <3>2
  <2>7. QED
    BY <1>2, <2>1, <2>6 DEF gone2, due2
<1>8. ASSUME stored'[t] = stored[t], gone2 \in Int, due2 \in Nat,
             gone <= gone2, due2 <= due
      PROVE  /\ \A i, j \in 1 .. Len(stored'[t]) :
                  i < j => stored'[t][i] < stored'[t][j]
             /\ \A i \in 1 .. Len(stored'[t]) : stored'[t][i] <= gone2 - due2
  <2> HIDE DEF gone, due, gone2, due2
  <2>1. ASSUME NEW i \in 1 .. Len(stored[t]) PROVE stored[t][i] <= gone2 - due2
    <3>1. stored[t][i] \in Int /\ stored[t][i] <= gone - due
      BY <1>2, <1>3
    <3>2. QED
      BY <1>4, <1>8, <3>1
  <2>2. QED
    BY <1>2, <1>8, <2>1
<1>9. CASE Accepts(t)
  <2>1. /\ stored'[t] = stored[t] /\ items'[t] = items[t]
        /\ accepted'[t] = accepted[t] + 1
        /\ QueueRows(writeQueue'[t]) = QueueRows(q) + 1
        /\ pc'[t] = "send" => pc[t] = "send"
    BY <1>9, QueueCounts DEF Accepts
  <2>2. gone2 = gone
    <3> DEFINE x == accepted[t]           y == QueueRows(q)
               x2 == accepted'[t]         y2 == QueueRows(writeQueue'[t])
    <3>1. x2 = x + 1 /\ y2 = y + 1 /\ x \in Int /\ y \in Int
      BY <1>3, <1>4, <2>1
    <3> HIDE DEF x, y, x2, y2
    <3>2. x2 - y2 = x - y
      BY <3>1
    <3>3. QED
      BY <3>2 DEF x, y, x2, y2
  <2>3. due2 <= due /\ due2 \in Nat
    BY <1>4, <2>1
  <2>4. QED
    BY <1>4, <1>8, <2>1, <2>2, <2>3
<1>10. CASE HandsBackQueue(t)
  <2>1. /\ stored'[t] = stored[t] /\ items'[t] = items[t]
        /\ accepted'[t] = accepted[t] /\ QueueRows(writeQueue'[t]) = 0
        /\ pc'[t] = "send" => pc[t] = "send"
    BY <1>10, QueueCounts DEF HandsBackQueue
  <2>2. gone2 = accepted[t] /\ gone <= gone2 /\ due2 <= due /\ due2 \in Nat
    BY <1>3, <1>4, <2>1
  <2>3. QED
    BY <1>3, <1>8, <2>1, <2>2
<1>11. CASE HandsBackFailed(t) \/ CountsSent(t) \/ CountsFailed(t) \/ Throws(t)
            \/ KeepsRows(t)
  <2>1. /\ stored'[t] = stored[t] /\ accepted'[t] = accepted[t]
        /\ writeQueue'[t] = q
        /\ \/ pc'[t] # "send"
           \/ items'[t] = items[t] /\ pc[t] = "send"
    BY <1>11 DEF HandsBackFailed, CountsSent, CountsFailed, Throws, KeepsRows
  <2>2. gone2 = gone /\ due2 <= due /\ due2 \in Nat
    BY <1>4, <2>1
  <2>3. QED
    BY <1>4, <1>8, <2>1, <2>2
<1>12. QED
  BY <1>5, <1>6, <1>7, <1>9, <1>10, <1>11 DEF RowStep

-----------------------------------------------------------------------------
(* Signals. *)

(* A thread that is woken for nothing is one a caller has yet to signal.    *)
RowsPending(t) ==
  \E c \in Callers : callPc[c] \in {"append", "signal"} /\ callIndex[c] = t
ExitPending(t) ==
  \E c \in Callers : callPc[c] = "exitSignal" /\ callIndex[c] = t

(* Queues of no rows, as run() sees them. *)
LEMMA EmptyBackFacts ==
  ASSUME TypeOK, BlockShape, NEW t \in Threads, Back(writeQueue[t]) = <<>>
  PROVE  QueueRows(writeQueue[t]) = 0
<1> DEFINE q == writeQueue[t]
           n == Len(q)
<1>1. q \in Queues /\ WellShaped(q)
  BY QueueOfThread DEF TypeOK, BlockShape
<1>2. /\ n \in Nat \ {0} /\ (n > 1 => Len(q[n]) > 0)
      /\ QueueRows(q) = BlockStart(n) + Len(q[n])
  BY <1>1, ShapeFacts
<1>3. Len(q[n]) = 0
  BY DEF Back
<1> HIDE DEF n
<1>4. n = 1
  BY <1>2, <1>3
<1>5. QED
  BY <1>2, <1>3, <1>4, BlockStartFacts

(* Whoever was about to signal a thread still is after the step of a call,  *)
(* or has signaled it.                                                      *)
LEMMA PendingKept ==
  ASSUME TypeOK, NEW t \in Threads,
         NEW c \in Callers, InsertStep(c) \/ CallBegin(c) \/ QueryStep(c)
  PROVE  /\ RowsPending(t) => RowsPending(t)' \/ signaled'[t]
         /\ ExitPending(t) => ExitPending(t)' \/ signaled'[t]
         /\ signaled[t] => signaled'[t]
         /\ exit'[t] => exit[t] \/ ExitPending(t)'
         /\ InsertThreadWrite(c) /\ callIndex[c] = t => RowsPending(t)'
<1>a. /\ callPc \in [Callers -> CallLabels] /\ callIndex \in [Callers -> Threads]
      /\ signaled \in [Threads -> BOOLEAN] /\ exit \in [Threads -> BOOLEAN]
  BY DEF TypeOK, CallerTypeOK, ControlTypeOK
<1> USE DEF RowsPending, ExitPending, SetSignal, RouteRow
<1>1. CASE Insert(c) \/ InsertUnwrittenData(c)
  BY <1>1, <1>a DEF Insert, InsertUnwrittenData, InsertThreadWrite
<1>2. CASE InsertThreadWrite(c)
  BY <1>2, <1>a DEF InsertThreadWrite
<1>3. CASE SignalNonempty(c)
  BY <1>3, <1>a DEF SignalNonempty, InsertThreadWrite
<1>4. CASE CallBegin(c)
  BY <1>4, <1>a DEF CallBegin, GetStatus, GetUnwrittenData,
                    WaitForThreadCompletion, InsertThreadWrite
<1>5. CASE StatusOfThread(c) \/ StatusReturn(c)
  BY <1>5, <1>a DEF StatusOfThread, StatusReturn, InsertThreadWrite
<1>6. CASE CopyUnwritten(c) \/ ClearUnwritten(c)
  BY <1>6, <1>a DEF CopyUnwritten, ClearUnwritten, InsertThreadWrite
<1>7. CASE SetExit(c)
  BY <1>7, <1>a DEF SetExit, InsertThreadWrite
<1>8. CASE SignalExit(c)
  BY <1>8, <1>a DEF SignalExit, InsertThreadWrite
<1>9. CASE JoinThread(c)
  BY <1>9, <1>a DEF JoinThread, InsertThreadWrite
<1>10. QED
  BY <1>1, <1>2, <1>3, <1>4, <1>5, <1>6, <1>7, <1>8, <1>9
     DEF InsertStep, QueryStep

LEMMA WakeupNext ==
  ASSUME TypeOK, BlockShape, NoLostWakeup, ExitIsSignaled, [Next]_vars
  PROVE  NoLostWakeup' /\ ExitIsSignaled'
<1> USE DEF TypeOK
<1>1. SUFFICES
        ASSUME NEW t \in Threads
        PROVE  /\ pc'[t] = "wait" /\ ~signaled'[t] /\ QueueRows(writeQueue'[t]) > 0
                    => RowsPending(t)'
               /\ pc'[t] \in {"first", "wait"} /\ ~signaled'[t] /\ exit'[t]
                    => ExitPending(t)'
  BY DEF NoLostWakeup, ExitIsSignaled, RowsPending, ExitPending
<1>2. /\ pc[t] = "wait" /\ ~signaled[t] /\ QueueRows(writeQueue[t]) > 0
           => RowsPending(t)
      /\ pc[t] \in {"first", "wait"} /\ ~signaled[t] /\ exit[t]
           => ExitPending(t)
  BY DEF NoLostWakeup, ExitIsSignaled, RowsPending, ExitPending
<1>a. /\ writeQueue \in [Threads -> Seq(Seq(Rows))]
      /\ pc \in [Threads -> RunLabels] /\ signaled \in [Threads -> BOOLEAN]
  BY DEF QueueTypeOK, ControlTypeOK
<1>3. ASSUME NEW c \in Callers, InsertStep(c) \/ CallBegin(c) \/ QueryStep(c)
      PROVE  /\ pc'[t] = "wait" /\ ~signaled'[t] /\ QueueRows(writeQueue'[t]) > 0
                  => RowsPending(t)'
             /\ pc'[t] \in {"first", "wait"} /\ ~signaled'[t] /\ exit'[t]
                  => ExitPending(t)'
  <2>1. pc' = pc
    BY <1>3, CallerFrame
  <2>2. \/ QueueRows(writeQueue'[t]) = 0
        \/ writeQueue'[t] = writeQueue[t]
        \/ InsertThreadWrite(c) /\ callIndex[c] = t
    <3>1. CASE InsertThreadWrite(c)
      <4>1. writeQueue' = [writeQueue EXCEPT ![callIndex[c]] =
                             AppendRow(@, accepted[callIndex[c]] + 1)]
        BY <3>1 DEF InsertThreadWrite
      <4>2. QED
        BY <1>a, <3>1, <4>1
    <3>2. CASE ClearUnwritten(c)
      <4>1. writeQueue' = [writeQueue EXCEPT ![callIndex[c]] = EmptyQueue]
        BY <3>2 DEF ClearUnwritten
      <4>2. QED
        BY <1>a, <4>1, EmptyQueueFacts
    <3>3. CASE ~InsertThreadWrite(c) /\ ~ClearUnwritten(c)
      <4>1. writeQueue' = writeQueue
        BY <1>3, <3>3
           DEF InsertStep, CallBegin, QueryStep, Insert, InsertUnwrittenData,
               SignalNonempty, GetStatus, StatusOfThread, StatusReturn,
               GetUnwrittenData, CopyUnwritten, WaitForThreadCompletion,
               SetExit, SignalExit, JoinThread
      <4>2. QED
        BY <4>1
    <3>4. QED
      BY <3>1, <3>2, <3>3
  <2>3. /\ RowsPending(t) => RowsPending(t)' \/ signaled'[t]
        /\ ExitPending(t) => ExitPending(t)' \/ signaled'[t]
        /\ signaled[t] => signaled'[t]
        /\ exit'[t] => exit[t] \/ ExitPending(t)'
        /\ InsertThreadWrite(c) /\ callIndex[c] = t => RowsPending(t)'
    BY <1>3, PendingKept
  <2>4. ~(0 > 0)
    OBVIOUS
  <2> HIDE DEF TypeOK
  <2>5. pc'[t] = "wait" /\ ~signaled'[t] /\ QueueRows(writeQueue'[t]) > 0
          => RowsPending(t)'
    BY <1>2, <2>1, <2>2, <2>3, <2>4
  <2>6. pc'[t] \in {"first", "wait"} /\ ~signaled'[t] /\ exit'[t]
          => ExitPending(t)'
    BY <1>2, <2>1, <2>3
  <2>7. QED
    BY <2>5, <2>6
<1>4. ASSUME NEW u \in Threads, RunStep(u) \/ WriteStep(u) \/ SpuriousWakeup(u)
      PROVE  /\ pc'[t] = "wait" /\ ~signaled'[t] /\ QueueRows(writeQueue'[t]) > 0
                  => RowsPending(t)'
             /\ pc'[t] \in {"first", "wait"} /\ ~signaled'[t] /\ exit'[t]
                  => ExitPending(t)'
  <2>1. UNCHANGED <<callPc, callIndex, exit>>
    BY <1>4, WriterFrame
  <2>2. /\ RowsPending(t)' <=> RowsPending(t)
        /\ ExitPending(t)' <=> ExitPending(t)
    BY <2>1 DEF RowsPending, ExitPending
  <2>3. CASE u # t
    <3>1. pc'[t] = pc[t]
      BY <1>4, <1>a, <2>3
         DEF RunStep, RunTop, RunFirst, Wakeup, SpuriousWakeup, AfterWakeup,
             BatchDone, BatchWakeup, LoopCheck, FinalCallbacks, WriteStep,
             PopItems, ServerCall, BlockWritten, CallbackThrows, BlockFailed,
             SetError, Goto, writerVars
    <3>2. signaled'[t] = signaled[t]
      BY <1>4, <1>a, <2>3
         DEF RunStep, RunTop, RunFirst, Wakeup, SpuriousWakeup, AfterWakeup,
             BatchDone, BatchWakeup, LoopCheck, FinalCallbacks, WriteStep,
             PopItems, ServerCall, BlockWritten, CallbackThrows, BlockFailed,
             SetError
    <3>3. writeQueue'[t] = writeQueue[t]
      BY <1>4, <1>a, <2>3
         DEF RunStep, RunTop, RunFirst, Wakeup, SpuriousWakeup, AfterWakeup,
             BatchDone, BatchWakeup, LoopCheck, FinalCallbacks, WriteStep,
             PopItems, ServerCall, BlockWritten, CallbackThrows, BlockFailed,
             SetError
    <3>4. QED
      BY <1>2, <2>1, <2>2, <3>1, <3>2, <3>3
  <2>4. CASE u = t /\ RunTop(t)
    <3>1. /\ pc'[t] # "wait"
          /\ pc'[t] = "first" => ~exit[t]
      BY <1>a, <2>4 DEF RunTop, Goto, IsExit
    <3>2. QED
      BY <2>1, <3>1
  <2>5. CASE u = t /\ RunFirst(t)
    <3>1. /\ pc[t] = "first" /\ pc'[t] \in {"wait", "woken"}
          /\ signaled' = signaled /\ writeQueue' = writeQueue
          /\ pc'[t] = "wait" => SeesEmptyBack(t)
      BY <1>a, <2>5 DEF RunFirst, Goto
    <3>2. SeesEmptyBack(t) => QueueRows(writeQueue[t]) = 0 \/ RowsPending(t)
      BY EmptyBackFacts DEF SeesEmptyBack, RowsPending
    <3>3. ~(0 > 0)
      OBVIOUS
    <3> HIDE DEF TypeOK
    <3>4. QED
      BY <1>2, <2>1, <2>2, <3>1, <3>2, <3>3
  <2>6. CASE u = t /\ BatchWakeup(t)
    <3>1. pc'[t] = "batch"
      BY <2>6 DEF BatchWakeup, writerVars
    <3>2. QED
      BY <3>1
  <2>7. CASE u = t /\ ~RunTop(t) /\ ~RunFirst(t) /\ ~BatchWakeup(t)
    <3>1. pc'[t] \notin {"first", "wait"}
      BY <1>4, <1>a, <2>7
         DEF RunStep, Wakeup, SpuriousWakeup, AfterWakeup, BatchDone,
             LoopCheck, FinalCallbacks, WriteStep, PopItems, ServerCall,
             BlockWritten, CallbackThrows, BlockFailed, SetError, Goto
    <3>2. QED
      BY <3>1
  <2>8. QED
    BY <2>3, <2>4, <2>5, <2>6, <2>7
<1>5. CASE UNCHANGED vars
  BY <1>2, <1>5 DEF vars, RowsPending, ExitPending
<1>6. QED
  BY <1>3, <1>4, <1>5 DEF Next

-----------------------------------------------------------------------------
(* The theorems.  WriterInv is inductive.                                   *)

LEMMA InvInit == Init => WriterInv
<1> SUFFICES ASSUME Init PROVE WriterInv
  OBVIOUS
<1>1. TypeOK /\ BlockShape /\ LockDiscipline
  BY TypeInit, ShapeInit, LocksInit
<1>2. /\ \A t \in Threads :
           /\ writeQueue[t] = EmptyQueue /\ accepted[t] = 0 /\ handed[t] = 0
           /\ sentRows[t] = 0 /\ failedQueue[t] = <<>> /\ items[t] = <<>>
           /\ stored[t] = <<>> /\ pc[t] = "top"
      /\ \A c \in Callers : callPc[c] = "idle"
  BY DEF Init
<1>3. Len(<<>>) = 0
  OBVIOUS
<1>4. CopyIsCurrent /\ RowAccounting
  BY <1>2, <1>3, EmptyQueueFacts DEF CopyIsCurrent, RowAccounting
<1>5. RowOrder /\ StoredInOrder /\ StoredRowsLeft
  BY <1>2, <1>3, EmptyQueueFacts
     DEF RowOrder, RowsGone, StoredInOrder, StoredRowsLeft
<1>6. NoLostWakeup /\ ExitIsSignaled
  BY <1>2 DEF NoLostWakeup, ExitIsSignaled
<1>7. QED
  BY <1>1, <1>4, <1>5, <1>6 DEF WriterInv

LEMMA InvNext == WriterInv /\ [Next]_vars => WriterInv'
<1> SUFFICES ASSUME WriterInv, [Next]_vars PROVE WriterInv'
  OBVIOUS
<1>1. TypeOK' /\ BlockShape' /\ LockDiscipline'
  BY TypeNext, ShapeNext, LocksNext DEF WriterInv
<1>2. CopyIsCurrent' /\ RowAccounting'
  BY CopyNext, AccountingNext DEF WriterInv
<1>3. RowOrder' /\ StoredInOrder' /\ StoredRowsLeft'
  BY OrderNext, StoredNext DEF WriterInv
<1>4. NoLostWakeup' /\ ExitIsSignaled'
  BY WakeupNext DEF WriterInv
<1>5. QED
  BY <1>1, <1>2, <1>3, <1>4 DEF WriterInv

THEOREM InvCorrect == Spec => []WriterInv
BY InvInit, InvNext, PTL DEF Spec

(* No row is lost between insert() and the server, and none is counted      *)
(* twice by sentRows, failedQueue_ and getUnwrittenData(), as long as       *)
(* insertUnwrittenData(), getUnwrittenData() and waitForThreadCompletion()  *)
(* are left to one caller and callbackFunc_ does not throw.                 *)
THEOREM AccountingCorrect == Spec => []RowAccounting
<1>1. WriterInv => RowAccounting
  BY DEF WriterInv
<1>2. QED
  BY <1>1, InvCorrect, PTL

(* A queue holds the last rows accepted, in the order insertThreadWrite()   *)
(* appended them, after the block writeAllData() has in flight.             *)
THEOREM OrderCorrect == Spec => []RowOrder
<1>1. WriterInv => RowOrder
  BY DEF WriterInv
<1>2. QED
  BY <1>1, InvCorrect, PTL

(* The server stores the rows of a thread in the order they were inserted,  *)
(* and no row twice, whatever fails.                                        *)
THEOREM StoredCorrect == Spec => []StoredInOrder
<1>1. WriterInv => StoredInOrder
  BY DEF WriterInv
<1>2. QED
  BY <1>1, InvCorrect, PTL

(* A writer thread never waits in nonemptySignal.wait() with rows in its    *)
(* queue or with exit set, unless a caller is about to signal it.           *)
THEOREM WakeupCorrect == Spec => []NoLostWakeup
<1>1. WriterInv => NoLostWakeup
  BY DEF WriterInv
<1>2. QED
  BY <1>1, InvCorrect, PTL

-----------------------------------------------------------------------------
(* The end of the writer, and the reports.  The parts of both invariants    *)
(* are shown to survive every step beside WriterInv.                        *)

(* Which steps touch the error and the end of a thread. *)

LEMMA ErrorFrame ==
  ASSUME [Next]_vars,
         \A c \in Callers : ~JoinThread(c), \A t \in Threads : ~SetError(t)
  PROVE  UNCHANGED <<hasError, errorInfo, exited>>
<1>1. ASSUME NEW c \in Callers, InsertStep(c) \/ CallBegin(c) \/ QueryStep(c)
      PROVE  UNCHANGED <<hasError, errorInfo, exited>>
  BY <1>1 DEF InsertStep, CallBegin, QueryStep, Insert, InsertUnwrittenData,
              InsertThreadWrite, SignalNonempty, GetStatus, StatusOfThread,
              StatusReturn, GetUnwrittenData, CopyUnwritten, ClearUnwritten,
              WaitForThreadCompletion, SetExit, SignalExit, errorVars
<1>2. ASSUME NEW t \in Threads, RunStep(t) \/ WriteStep(t) \/ SpuriousWakeup(t)
      PROVE  UNCHANGED <<hasError, errorInfo, exited>>
  BY <1>2 DEF RunStep, RunTop, RunFirst, Wakeup, SpuriousWakeup, AfterWakeup,
              BatchDone, BatchWakeup, LoopCheck, FinalCallbacks, WriteStep,
              PopItems, ServerCall, BlockWritten, CallbackThrows, BlockFailed,
              WriterUnchanged, errorVars
<1>3. QED
  BY <1>1, <1>2 DEF Next, vars

(* A step of one writer thread leaves the others where they are.            *)
LEMMA OtherThreads ==
  ASSUME TypeOK, NEW u \in Threads,
         RunStep(u) \/ WriteStep(u) \/ SpuriousWakeup(u),
         NEW t \in Threads, t # u
  PROVE  UNCHANGED <<pc[t], loop[t], items[t], stored[t], sentRows[t],
                     writeQueue[t], failedQueue[t], okRows[t], badRows[t]>>
<1>1. /\ pc \in [Threads -> RunLabels] /\ loop \in [Threads -> {"drain", "left"}]
      /\ items \in [Threads -> Seq(Rows)] /\ stored \in [Threads -> Seq(Rows)]
      /\ sentRows \in [Threads -> Nat] /\ failedQueue \in [Threads -> Seq(Rows)]
      /\ writeQueue \in [Threads -> Seq(Seq(Rows))]
      /\ okRows \in [Threads -> Seq(Rows)] /\ badRows \in [Threads -> Seq(Rows)]
  BY DEF TypeOK, QueueTypeOK, ControlTypeOK, HistoryTypeOK
<1>2. CASE RunStep(u) \/ SpuriousWakeup(u)
  <2>1. CASE RunTop(u) \/ RunFirst(u) \/ Wakeup(u) \/ SpuriousWakeup(u)
    BY <1>1, <2>1 DEF RunTop, RunFirst, Wakeup, SpuriousWakeup, Goto, writerVars, reportVars
  <2>2. CASE AfterWakeup(u) \/ BatchDone(u) \/ BatchWakeup(u)
    BY <1>1, <2>2 DEF AfterWakeup, BatchDone, BatchWakeup, Goto, writerVars, reportVars
  <2>3. CASE LoopCheck(u) \/ FinalCallbacks(u)
    BY <1>1, <2>3 DEF LoopCheck, FinalCallbacks, Goto, writerVars, reportVars
  <2>4. QED
    BY <1>2, <2>1, <2>2, <2>3 DEF RunStep
<1>3. CASE PopItems(u) \/ ServerCall(u)
  BY <1>1, <1>3 DEF PopItems, ServerCall, SetError, Goto, reportVars
<1>4. CASE BlockWritten(u)
  BY <1>1, <1>4 DEF BlockWritten, Goto, reportVars
<1>5. CASE CallbackThrows(u) \/ BlockFailed(u) \/ SetError(u)
  BY <1>1, <1>5 DEF CallbackThrows, BlockFailed, SetError, Goto, reportVars
<1>6. QED
  BY <1>2, <1>3, <1>4, <1>5 DEF WriteStep

(* run() does not go on after its last statement.                           *)
LEMMA DoneStays ==
  ASSUME TypeOK, [Next]_vars, NEW t \in Threads, pc[t] = "done"
  PROVE  pc'[t] = "done"
<1>1. ASSUME NEW c \in Callers, InsertStep(c) \/ CallBegin(c) \/ QueryStep(c)
      PROVE  pc' = pc
  BY <1>1, CallerFrame
<1>2. ASSUME NEW u \in Threads, RunStep(u) \/ WriteStep(u) \/ SpuriousWakeup(u)
      PROVE  pc'[t] = pc[t]
  <2>1. CASE u = t
    BY <1>2, <2>1 DEF RunStep, RunTop, RunFirst, Wakeup, SpuriousWakeup,
                 AfterWakeup, BatchDone, BatchWakeup, LoopCheck, FinalCallbacks,
                 WriteStep, PopItems, ServerCall, BlockWritten, CallbackThrows,
                 BlockFailed, SetError
  <2>2. CASE u # t
    BY <1>2, <2>2, OtherThreads
  <2>3. QED
    BY <2>1, <2>2
<1>3. QED
  BY <1>1, <1>2 DEF Next, vars

(* The join is the only step that leaves or enters it beside the signal.    *)
LEMMA ErrorLatchedNext ==
  ASSUME ErrorLatched, [Next]_vars
  PROVE  ErrorLatched'
<1>1. ASSUME NEW c \in Callers, JoinThread(c) PROVE ErrorLatched'
  BY <1>1 DEF JoinThread, ErrorLatched, errorVars
<1>2. ASSUME NEW t \in Threads, SetError(t) PROVE ErrorLatched'
  BY <1>2 DEF SetError, ErrorLatched, WriterUnchanged
<1>3. CASE /\ \A c \in Callers : ~JoinThread(c)
           /\ \A t \in Threads : ~SetError(t)
  BY <1>3, ErrorFrame DEF ErrorLatched
<1>4. QED
  BY <1>1, <1>2, <1>3

(* An error, once there, stays what it is.                                  *)
LEMMA ErrorStays ==
  ASSUME ErrorLatched, [Next]_vars
  PROVE  /\ hasError => hasError' /\ errorInfo' = errorInfo
         /\ exited => exited'
<1>1. ASSUME NEW c \in Callers, JoinThread(c)
      PROVE  (hasError => hasError' /\ errorInfo' = errorInfo) /\ (exited => exited')
  BY <1>1 DEF JoinThread, errorVars
<1>2. ASSUME NEW t \in Threads, SetError(t)
      PROVE  (hasError => hasError' /\ errorInfo' = errorInfo) /\ (exited => exited')
  BY <1>2 DEF SetError, WriterUnchanged
<1>3. CASE /\ \A c \in Callers : ~JoinThread(c)
           /\ \A t \in Threads : ~SetError(t)
  BY <1>3, ErrorFrame
<1>4. QED
  BY <1>1, <1>2, <1>3

-----------------------------------------------------------------------------
(* Who waits for the completion is alone. *)

LEMMA ExitLabelsLocked ==
  /\ ExitLabels \subseteq LockedLabels
  /\ ExitLabels = {"exit", "exitSignal", "join"}
  /\ \A l \in {"idle", "append", "signal", "status", "statusDone", "copy", "clear"} :
       l \notin ExitLabels
BY DEF ExitLabels, LockedLabels

(* While some caller waits for the completion no other inserts.             *)
LEMMA NoInsertBeside ==
  ASSUME CallLocks, CompletionExcludes, SingleOwner,
         NEW c \in Callers, callPc[c] \in ExitLabels,
         NEW d \in Callers, callPc[d] \in {"append", "signal"}
  PROVE  FALSE
<1>1. c \in Admins /\ insertRWLock = c
  BY ExitLabelsLocked DEF CompletionExcludes, CallLocks
<1>2. c = d
  BY <1>1 DEF CallLocks, SingleOwner
<1>3. QED
  BY <1>2, ExitLabelsLocked

LEMMA CompletionExcludesNext ==
  ASSUME TypeOK, CallLocks, ErrorLatched, CompletionExcludes, [Next]_vars
  PROVE  CompletionExcludes'
<1>1. SUFFICES ASSUME SingleOwner
               PROVE  /\ \A c \in Callers : callPc'[c] \in ExitLabels => c \in Admins
                      /\ \A t \in Threads : exit'[t] =>
                           exited' \/ \E c \in Callers : callPc'[c] \in ExitLabels
                      /\ exited' => \A c \in Callers : callPc'[c] \notin {"append", "signal"}
  BY DEF CompletionExcludes, SingleOwner
<1>a. /\ \A c \in Callers : callPc[c] \in ExitLabels => c \in Admins
      /\ \A t \in Threads : exit[t] =>
           exited \/ \E c \in Callers : callPc[c] \in ExitLabels
      /\ exited => \A c \in Callers : callPc[c] \notin {"append", "signal"}
  BY <1>1 DEF CompletionExcludes
<1>b. /\ callPc \in [Callers -> CallLabels]
      /\ callIndex \in [Callers -> Threads]
      /\ exit \in [Threads -> BOOLEAN]
  BY DEF TypeOK, CallerTypeOK, ControlTypeOK
<1> DEFINE Goal == /\ \A c \in Callers : callPc'[c] \in ExitLabels => c \in Admins
                   /\ \A t \in Threads : exit'[t] =>
                        exited' \/ \E c \in Callers : callPc'[c] \in ExitLabels
                   /\ exited' => \A c \in Callers : callPc'[c] \notin {"append", "signal"}
<1>2. ASSUME NEW c \in Callers, Insert(c) \/ InsertUnwrittenData(c) PROVE Goal
  <2>1. /\ ~hasError /\ callPc[c] = "idle" /\ callPc' = [callPc EXCEPT ![c] = "append"]
        /\ UNCHANGED <<exit, exited>>
    BY <1>2 DEF Insert, InsertUnwrittenData
  <2>2. ~exited
    BY <2>1 DEF ErrorLatched
  <2>3. QED
    BY <1>a, <1>b, <2>1, <2>2, ExitLabelsLocked
<1>3. ASSUME NEW c \in Callers, InsertThreadWrite(c) \/ SignalNonempty(c) PROVE Goal
  <2>1. /\ callPc[c] \in {"append", "signal"} /\ UNCHANGED <<exit, exited>>
        /\ \E l \in {"signal", "append", "idle"} : callPc' = [callPc EXCEPT ![c] = l]
    BY <1>3 DEF InsertThreadWrite, SignalNonempty
  <2>2. ~exited
    BY <1>a, <2>1
  <2>3. QED
    BY <1>a, <1>b, <2>1, <2>2, ExitLabelsLocked
<1>4. ASSUME NEW c \in Callers,
             \/ GetStatus(c) \/ StatusOfThread(c) \/ StatusReturn(c)
             \/ GetUnwrittenData(c) \/ CopyUnwritten(c) \/ ClearUnwritten(c)
      PROVE  Goal
  <2>1. /\ callPc[c] \in {"idle", "status", "statusDone", "copy", "clear"}
        /\ UNCHANGED <<exit, exited>>
        /\ \/ callPc' = callPc
           \/ \E l \in {"idle", "status", "statusDone", "copy", "clear"} :
                callPc' = [callPc EXCEPT ![c] = l]
    BY <1>4 DEF GetStatus, StatusOfThread, StatusReturn, GetUnwrittenData,
                CopyUnwritten, ClearUnwritten
  <2>2. QED
    BY <1>a, <1>b, <2>1, ExitLabelsLocked
<1>5. ASSUME NEW c \in Callers, WaitForThreadCompletion(c) PROVE Goal
  <2>1. /\ c \in Admins /\ callPc[c] = "idle"
        /\ callPc' = [callPc EXCEPT ![c] = "exit"] /\ UNCHANGED <<exit, exited>>
    BY <1>5 DEF WaitForThreadCompletion
  <2>2. QED
    BY <1>a, <1>b, <2>1, ExitLabelsLocked
<1>6. ASSUME NEW c \in Callers, SetExit(c) PROVE Goal
  <2>1. /\ callPc[c] = "exit" /\ callPc' = [callPc EXCEPT ![c] = "exitSignal"]
        /\ exited' = exited
    BY <1>6 DEF SetExit
  <2>2. callPc'[c] \in ExitLabels /\ callPc[c] \in ExitLabels
    BY <1>b, <2>1, ExitLabelsLocked
  <2>3. QED
    BY <1>a, <1>b, <2>1, <2>2, ExitLabelsLocked
<1>7. ASSUME NEW c \in Callers, SignalExit(c) PROVE Goal
  <2>1. /\ callPc[c] = "exitSignal" /\ UNCHANGED <<exit, exited>>
        /\ \E l \in {"join", "exit"} : callPc' = [callPc EXCEPT ![c] = l]
    BY <1>7 DEF SignalExit
  <2>2. callPc'[c] \in ExitLabels /\ callPc[c] \in ExitLabels
    BY <1>b, <2>1, ExitLabelsLocked
  <2>3. QED
    BY <1>a, <1>b, <2>1, <2>2, ExitLabelsLocked
<1>8. ASSUME NEW c \in Callers, JoinThread(c) PROVE Goal
  <2>1. callPc[c] = "join" /\ callPc[c] \in ExitLabels /\ exit' = exit
    BY <1>8, ExitLabelsLocked DEF JoinThread
  <2>2. \A d \in Callers : callPc[d] \notin {"append", "signal"}
    BY <2>1, <1>1, NoInsertBeside
  <2>3. CASE callIndex[c] = ThreadCount - 1
    <3>1. exited' /\ callPc' = [callPc EXCEPT ![c] = "idle"]
      BY <1>8, <2>3 DEF JoinThread
    <3>2. QED
      BY <1>a, <1>b, <2>1, <2>2, <3>1, ExitLabelsLocked
  <2>4. CASE callIndex[c] # ThreadCount - 1
    <3>1. exited' = exited /\ callPc' = callPc
      BY <1>8, <2>4 DEF JoinThread
    <3>2. QED
      BY <1>a, <2>1, <3>1
  <2>5. QED
    BY <2>3, <2>4
<1>9. ASSUME NEW t \in Threads, RunStep(t) \/ WriteStep(t) \/ SpuriousWakeup(t)
      PROVE  Goal
  BY <1>9, <1>a, WriterFrame
<1>10. CASE UNCHANGED vars
  BY <1>10, <1>a DEF vars
<1>11. QED
  BY <1>2, <1>3, <1>4, <1>5, <1>6, <1>7, <1>8, <1>9, <1>10
     DEF Next, InsertStep, CallBegin, QueryStep

-----------------------------------------------------------------------------
(* The join. *)

LEMMA JoinedHaveEndedNext ==
  ASSUME TypeOK, ErrorLatched, JoinedHaveEnded, [Next]_vars
  PROVE  JoinedHaveEnded'
<1>a. /\ callPc \in [Callers -> CallLabels]
      /\ callIndex \in [Callers -> Threads]
      /\ ThreadCount \in Nat /\ Threads = 0 .. ThreadCount - 1
  BY ThreadAssumption DEF TypeOK, CallerTypeOK, Threads
<1>b. \A t \in Threads : pc[t] = "done" => pc'[t] = "done"
  BY DoneStays
<1>c. /\ \A d \in Callers : callPc[d] = "join" =>
           \A t \in Threads : t < callIndex[d] => pc[t] = "done"
      /\ exited => \A t \in Threads : pc[t] = "done"
  BY DEF JoinedHaveEnded
<1>1. ASSUME NEW c \in Callers, JoinThread(c) PROVE JoinedHaveEnded'
  <2> DEFINE u == callIndex[c]
  <2>1. callPc[c] = "join" /\ pc[u] = "done" /\ u \in Threads
    BY <1>1, <1>a DEF JoinThread
  <2>2. \A t \in Threads : t <= u => pc'[t] = "done"
    BY <1>a, <1>b, <1>c, <2>1
  <2>3. CASE u = ThreadCount - 1
    <3>1. \A t \in Threads : pc'[t] = "done"
      BY <1>a, <2>2, <2>3
    <3>2. QED
      BY <3>1 DEF JoinedHaveEnded
  <2>4. CASE u # ThreadCount - 1
    <3>1. /\ callIndex' = [callIndex EXCEPT ![c] = u + 1]
          /\ UNCHANGED <<callPc, exited>>
      BY <1>1, <2>4 DEF JoinThread
    <3>2. \A d \in Callers : callPc'[d] = "join" =>
            \A t \in Threads : t < callIndex'[d] => pc'[t] = "done"
      BY <1>a, <1>b, <1>c, <2>2, <3>1
    <3>3. QED
      BY <1>b, <1>c, <3>1, <3>2 DEF JoinedHaveEnded
  <2>5. QED
    BY <2>3, <2>4
<1>2. ASSUME NEW c \in Callers, InsertStep(c) \/ CallBegin(c) \/ QueryStep(c),
             ~JoinThread(c)
      PROVE  JoinedHaveEnded'
  <2>1. exited' = exited
    BY <1>2 DEF InsertStep, CallBegin, QueryStep, Insert, InsertUnwrittenData,
              InsertThreadWrite, SignalNonempty, GetStatus, StatusOfThread,
              StatusReturn, GetUnwrittenData, CopyUnwritten, ClearUnwritten,
              WaitForThreadCompletion, SetExit, SignalExit
  <2>2. \A d \in Callers : callPc'[d] = "join" =>
          \/ callPc[d] = "join" /\ callIndex'[d] = callIndex[d]
          \/ callIndex'[d] = 0
    <3>1. CASE InsertStep(c)
      BY <1>a, <3>1 DEF InsertStep, Insert, InsertUnwrittenData,
                        InsertThreadWrite, SignalNonempty, RouteRow
    <3>2. CASE CallBegin(c)
      BY <1>a, <3>2 DEF CallBegin, GetStatus, GetUnwrittenData, WaitForThreadCompletion
    <3>3. CASE QueryStep(c)
      BY <1>2, <1>a, <3>3 DEF QueryStep, StatusOfThread, StatusReturn,
                        CopyUnwritten, ClearUnwritten, SetExit, SignalExit
    <3>4. QED
      BY <1>2, <3>1, <3>2, <3>3
  <2>3. QED
    BY <1>a, <1>b, <1>c, <2>1, <2>2 DEF JoinedHaveEnded
<1>3. ASSUME NEW t \in Threads, RunStep(t) \/ WriteStep(t) \/ SpuriousWakeup(t)
      PROVE  JoinedHaveEnded'
  BY <1>3, <1>b, <1>c, WriterFrame DEF JoinedHaveEnded
<1>4. CASE UNCHANGED vars
  BY <1>4, <1>c DEF vars, JoinedHaveEnded
<1>5. QED
  BY <1>1, <1>2, <1>3, <1>4 DEF Next

-----------------------------------------------------------------------------
(* The end of a thread. *)

(* An empty block is the only block of its queue.                           *)
LEMMA EmptyHeadFacts ==
  ASSUME TypeOK, BlockShape, NEW t \in Threads, Head(writeQueue[t]) = <<>>
  PROVE  QueueRows(writeQueue[t]) = 0
<1> DEFINE q == writeQueue[t]
           n == Len(q)
<1>1. q \in Queues /\ WellShaped(q)
  BY QueueOfThread DEF TypeOK, BlockShape
<1>2. /\ n \in Nat \ {0} /\ Len(q[1]) = 0
      /\ \A i \in 1 .. n - 1 : Len(q[i]) = PerBlock + 1
      /\ QueueRows(q) = BlockStart(n) + Len(q[n])
  BY <1>1, ShapeFacts, QueueFacts
<1>3. n = 1
  <2>1. ASSUME n # 1 PROVE FALSE
    <3>1. n \in Nat \ {0}
      BY <1>2
    <3>2. 1 \in 1 .. n - 1
      <4> HIDE DEF n
      <4>1. QED
        BY <2>1, <3>1
    <3>3. Len(q[1]) = PerBlock + 1
      BY <1>2, <3>2
    <3>4. QED
      BY <1>2, <3>3, Capacity
  <2>2. QED
    BY <2>1
<1>4. BlockStart(n) = 0 /\ Len(q[n]) = 0
  BY <1>2, <1>3, BlockStartFacts
<1>5. QED
  BY <1>2, <1>4

(* Only in these ways does a thread come to its end.                        *)
LEMMA EndSteps ==
  ASSUME TypeOK, NEW t \in Threads, NEW u \in Threads,
         RunStep(u) \/ WriteStep(u) \/ SpuriousWakeup(u)
  PROVE  /\ loop'[t] = "left" => loop[t] = "left" \/ IsExit(t)
         /\ pc'[t] \in {"final", "done"} =>
              \/ pc[t] \in {"final", "done"} /\ writeQueue'[t] = writeQueue[t]
              \/ pc[t] = "check" /\ loop[t] = "left" /\ hasError
              \/ /\ pc[t] = "pop" /\ loop[t] = "left"
                 /\ Head(writeQueue[t]) = <<>> /\ writeQueue'[t] = writeQueue[t]
<1>1. /\ pc \in [Threads -> RunLabels] /\ loop \in [Threads -> {"drain", "left"}]
  BY DEF TypeOK, ControlTypeOK
<1>2. CASE u # t
  BY <1>2, OtherThreads
<1>3. CASE u = t /\ (RunStep(u) \/ SpuriousWakeup(u))
  BY <1>1, <1>3 DEF RunStep, RunTop, RunFirst, Wakeup, SpuriousWakeup, AfterWakeup,
                BatchDone, BatchWakeup, LoopCheck, FinalCallbacks, Goto,
                StopsOnError, writerVars
<1>4. CASE u = t /\ WriteStep(u)
  BY <1>1, <1>4 DEF WriteStep, PopItems, ServerCall, BlockWritten,
                CallbackThrows, BlockFailed, SetError, Goto
<1>5. QED
  BY <1>2, <1>3, <1>4

(* A thread that has ended without an error gets no further row.            *)
LEMMA NoInsertAfterEnd ==
  ASSUME TypeOK, CallLocks, ErrorLatched, CompletionExcludes, EndsForExit,
         SingleOwner, NEW t \in Threads, pc[t] \in {"final", "done"},
         errorInfo # "server",
         NEW c \in Callers, callPc[c] = "append"
  PROVE  FALSE
<1>1. hasError \/ exit[t]
  BY DEF EndsForExit, IsExit
<1>2. hasError => exited
  BY DEF ErrorLatched, TypeOK, GlobalTypeOK
<1>3. ~exited
  BY DEF CompletionExcludes
<1>4. \E d \in Callers : callPc[d] \in ExitLabels
  BY <1>1, <1>2, <1>3 DEF CompletionExcludes
<1>5. QED
  BY <1>4, NoInsertBeside

LEMMA ExitStays ==
  ASSUME TypeOK, ErrorLatched, [Next]_vars, NEW t \in Threads, IsExit(t)
  PROVE  IsExit(t)'
<1>1. exit \in [Threads -> BOOLEAN] /\ callIndex \in [Callers -> Threads]
  BY DEF TypeOK, ControlTypeOK, CallerTypeOK
<1>2. hasError => hasError'
  BY ErrorStays
<1>3. exit[t] => exit'[t]
  <2>1. ASSUME NEW c \in Callers, InsertStep(c) \/ CallBegin(c) \/ QueryStep(c)
        PROVE  exit' = exit \/ SetExit(c)
    BY <2>1 DEF InsertStep, CallBegin, QueryStep, Insert, InsertUnwrittenData,
              InsertThreadWrite, SignalNonempty, GetStatus, StatusOfThread,
              StatusReturn, GetUnwrittenData, CopyUnwritten, ClearUnwritten,
              WaitForThreadCompletion, SignalExit, JoinThread
  <2>2. ASSUME NEW u \in Threads, RunStep(u) \/ WriteStep(u) \/ SpuriousWakeup(u)
        PROVE  exit' = exit
    BY <2>2, WriterFrame
  <2>3. exit' = exit \/ \E c \in Callers : SetExit(c)
    BY <2>1, <2>2 DEF Next, vars
  <2>4. QED
    BY <1>1, <2>3 DEF SetExit
<1>4. QED
  BY <1>2, <1>3 DEF IsExit

LEMMA EndsForExitNext ==
  ASSUME TypeOK, BlockShape, LockDiscipline, ErrorLatched, CompletionExcludes,
         JoinedHaveEnded, EndsForExit, [Next]_vars
  PROVE  EndsForExit'
<1>1. SUFFICES ASSUME NEW t \in Threads
      PROVE  /\ loop'[t] = "left" \/ pc'[t] \in {"final", "done"} => IsExit(t)'
             /\ SingleOwner /\ pc'[t] \in {"final", "done"} /\ errorInfo' # "server" =>
                  QueueRows(writeQueue'[t]) = 0
  BY DEF EndsForExit, SingleOwner
<1>a. /\ loop[t] = "left" \/ pc[t] \in {"final", "done"} => IsExit(t)
      /\ SingleOwner /\ pc[t] \in {"final", "done"} /\ errorInfo # "server" =>
           QueueRows(writeQueue[t]) = 0
  BY DEF EndsForExit
<1>b. IsExit(t) => IsExit(t)'
  BY ExitStays
<1>c. errorInfo' # "server" => errorInfo # "server"
  BY ErrorStays DEF ErrorLatched
<1>d. hasError /\ errorInfo # "server" => pc[t] = "done"
  BY DEF ErrorLatched, JoinedHaveEnded, TypeOK, GlobalTypeOK
<1>2. ASSUME NEW c \in Callers, InsertStep(c) \/ CallBegin(c) \/ QueryStep(c)
      PROVE  /\ loop'[t] = "left" \/ pc'[t] \in {"final", "done"} => IsExit(t)'
             /\ SingleOwner /\ pc'[t] \in {"final", "done"} /\ errorInfo' # "server" =>
                  QueueRows(writeQueue'[t]) = 0
  <2>1. UNCHANGED <<pc, loop>>
    BY <1>2, CallerFrame
  <2>2. ASSUME SingleOwner, pc'[t] \in {"final", "done"}, errorInfo' # "server"
        PROVE  QueueRows(writeQueue'[t]) = 0
    <3>1. pc[t] \in {"final", "done"} /\ errorInfo # "server"
      BY <1>c, <2>1, <2>2
    <3>2. ~InsertThreadWrite(c)
      BY <2>2, <3>1, NoInsertAfterEnd DEF InsertThreadWrite, LockDiscipline
    <3>3. writeQueue'[t] = writeQueue[t] \/ writeQueue'[t] = EmptyQueue
      BY <1>2, <3>2 DEF InsertStep, CallBegin, QueryStep, Insert, InsertUnwrittenData,
              SignalNonempty, GetStatus, StatusOfThread,
              StatusReturn, GetUnwrittenData, CopyUnwritten, ClearUnwritten,
              WaitForThreadCompletion, SetExit, SignalExit, JoinThread,
              TypeOK, QueueTypeOK, CallerTypeOK
    <3>4. QED
      BY <1>a, <2>2, <3>1, <3>3, EmptyQueueFacts
  <2>3. QED
    BY <1>a, <1>b, <2>1, <2>2
<1>3. ASSUME NEW u \in Threads, RunStep(u) \/ WriteStep(u) \/ SpuriousWakeup(u)
      PROVE  /\ loop'[t] = "left" \/ pc'[t] \in {"final", "done"} => IsExit(t)'
             /\ SingleOwner /\ pc'[t] \in {"final", "done"} /\ errorInfo' # "server" =>
                  QueueRows(writeQueue'[t]) = 0
  <2>1. /\ loop'[t] = "left" => loop[t] = "left" \/ IsExit(t)
        /\ pc'[t] \in {"final", "done"} =>
              \/ pc[t] \in {"final", "done"} /\ writeQueue'[t] = writeQueue[t]
              \/ pc[t] = "check" /\ loop[t] = "left" /\ hasError
              \/ /\ pc[t] = "pop" /\ loop[t] = "left"
                 /\ Head(writeQueue[t]) = <<>> /\ writeQueue'[t] = writeQueue[t]
    BY <1>3, EndSteps
  <2>2. Head(writeQueue[t]) = <<>> => QueueRows(writeQueue[t]) = 0
    BY EmptyHeadFacts
  <2>3. QED
    BY <1>a, <1>b, <1>c, <1>d, <2>1, <2>2
<1>4. CASE UNCHANGED vars
  BY <1>4, <1>a, <1>b DEF vars
<1>5. QED
  BY <1>2, <1>3, <1>4 DEF Next

-----------------------------------------------------------------------------
(* What a step does to one writer thread: its control, its rows and what it *)
(* has reported together.                                                   *)

Flight == {"send", "ok", "failed", "setError"}

TakesRow(t) ==
  /\ \E c \in Callers : InsertThreadWrite(c) /\ callIndex[c] = t
  /\ accepted'[t] = accepted[t] + 1
  /\ writeQueue'[t] = AppendRow(writeQueue[t], accepted[t] + 1)
  /\ UNCHANGED <<pc[t], items[t], stored[t], sentRows[t], failedQueue[t],
                 handed[t], okRows[t], badRows[t]>>

GivesFailed(t) ==
  /\ ~WithCallback /\ pc[t] \notin Flight
  /\ failedQueue'[t] = <<>>
  /\ handed'[t] = handed[t] + Len(failedQueue[t])
  /\ UNCHANGED <<pc[t], accepted[t], writeQueue[t], items[t], stored[t],
                 sentRows[t], okRows[t], badRows[t]>>

GivesQueue(t) ==
  /\ ~WithCallback /\ pc[t] \notin Flight
  /\ \E c \in Callers : /\ callPc[c] = "clear" /\ callIndex[c] = t
                        /\ handed'[t] = handed[t] + copied[c]
  /\ writeQueue'[t] = EmptyQueue
  /\ UNCHANGED <<pc[t], accepted[t], items[t], stored[t], sentRows[t],
                 failedQueue[t], okRows[t], badRows[t]>>

Pops(t) ==
  /\ pc[t] = "pop" /\ pc'[t] = "send"
  /\ Head(writeQueue[t]) # <<>>
  /\ items'[t] = Head(writeQueue[t])
  /\ writeQueue'[t] = PopBlock(writeQueue[t])
  /\ UNCHANGED <<accepted[t], stored[t], sentRows[t], failedQueue[t],
                 handed[t], okRows[t], badRows[t]>>

Calls(t) ==
  /\ pc[t] = "send"
  /\ \/ pc'[t] \in {"ok", "failed"} /\ stored'[t] = stored[t] \o items[t]
     \/ pc'[t] = "failed" /\ stored'[t] = stored[t]
  /\ UNCHANGED <<accepted[t], writeQueue[t], items[t], sentRows[t],
                 failedQueue[t], handed[t], okRows[t], badRows[t]>>

Writes(t) ==
  /\ pc[t] = "ok"
  /\ sentRows'[t] = sentRows[t] + Len(items[t])
  /\ okRows'[t] = IF WithCallback THEN okRows[t] \o items[t] ELSE okRows[t]
  /\ \/ pc'[t] = "check" /\ items'[t] = <<>>
     \/ WithCallback /\ pc'[t] = "failed" /\ items'[t] = items[t]
  /\ UNCHANGED <<accepted[t], writeQueue[t], stored[t], failedQueue[t],
                 handed[t], badRows[t]>>

Fails(t) ==
  /\ pc[t] = "failed" /\ pc'[t] = "setError"
  /\ failedQueue'[t] = failedQueue[t] \o items[t]
  /\ badRows'[t] = IF WithCallback THEN badRows[t] \o items[t] ELSE badRows[t]
  /\ items'[t] = <<>>
  /\ UNCHANGED <<accepted[t], writeQueue[t], stored[t], sentRows[t],
                 handed[t], okRows[t]>>

Finishes(t) ==
  /\ pc[t] = "final" /\ pc'[t] = "done"
  /\ badRows'[t] = IF WithCallback THEN badRows[t] \o RowsOf(writeQueue[t])
                                   ELSE badRows[t]
  /\ UNCHANGED <<accepted[t], writeQueue[t], items[t], stored[t], sentRows[t],
                 failedQueue[t], handed[t], okRows[t]>>

SetsError(t) ==
  /\ SetError(t) /\ pc[t] = "setError" /\ pc'[t] = "check"
  /\ UNCHANGED <<accepted[t], writeQueue[t], items[t], stored[t], sentRows[t],
                 failedQueue[t], handed[t], okRows[t], badRows[t]>>

Stays(t) ==
  /\ \/ pc'[t] = pc[t]
     \/ /\ pc[t] \notin Flight \cup {"final", "done"}
        /\ pc'[t] \notin Flight \cup {"done"}
  /\ UNCHANGED <<accepted[t], writeQueue[t], items[t], stored[t], sentRows[t],
                 failedQueue[t], handed[t], okRows[t], badRows[t]>>

ThreadStep(t) ==
  \/ TakesRow(t) \/ GivesFailed(t) \/ GivesQueue(t) \/ Pops(t) \/ Calls(t)
  \/ Writes(t) \/ Fails(t) \/ Finishes(t) \/ SetsError(t) \/ Stays(t)

(* getUnwrittenData() refuses to run with a callback.                       *)
CopyWithoutCallback ==
  \A c \in Callers : callPc[c] \in {"copy", "clear"} => ~WithCallback

LEMMA CopyWithoutCallbackNext ==
  ASSUME TypeOK, CopyWithoutCallback, [Next]_vars
  PROVE  CopyWithoutCallback'
<1>a. callPc \in [Callers -> CallLabels]
  BY DEF TypeOK, CallerTypeOK
<1>1. ASSUME NEW c \in Callers, InsertStep(c) PROVE CopyWithoutCallback'
  BY <1>1, <1>a DEF InsertStep, Insert, InsertUnwrittenData, InsertThreadWrite,
                    SignalNonempty, CopyWithoutCallback
<1>2. ASSUME NEW c \in Callers, CallBegin(c) PROVE CopyWithoutCallback'
  BY <1>2, <1>a DEF CallBegin, GetStatus, GetUnwrittenData,
                    WaitForThreadCompletion, CopyWithoutCallback
<1>3. ASSUME NEW c \in Callers, QueryStep(c) PROVE CopyWithoutCallback'
  <2>1. \/ callPc' = callPc
        \/ \E l \in {"statusDone", "idle", "exit", "exitSignal", "join"} :
             callPc' = [callPc EXCEPT ![c] = l]
        \/ /\ callPc[c] \in {"copy", "clear"}
           /\ \E l \in {"copy", "clear"} : callPc' = [callPc EXCEPT ![c] = l]
    BY <1>3 DEF QueryStep, StatusOfThread, StatusReturn, CopyUnwritten,
                ClearUnwritten, SetExit, SignalExit, JoinThread
  <2>2. QED
    BY <1>a, <2>1 DEF CopyWithoutCallback
<1>4. ASSUME NEW t \in Threads, RunStep(t) \/ WriteStep(t) \/ SpuriousWakeup(t)
      PROVE  CopyWithoutCallback'
  BY <1>4, WriterFrame DEF CopyWithoutCallback
<1>5. CASE UNCHANGED vars
  BY <1>5 DEF vars, CopyWithoutCallback
<1>6. QED
  BY <1>1, <1>2, <1>3, <1>4, <1>5 DEF Next

LEMMA ThreadStepFacts ==
  ASSUME TypeOK, LockDiscipline, CopyWithoutCallback, [Next]_vars, NEW t \in Threads
  PROVE  ThreadStep(t)
<1>a. /\ accepted \in [Threads -> Nat] /\ handed \in [Threads -> Nat]
      /\ writeQueue \in [Threads -> Seq(Seq(Rows))]
      /\ items \in [Threads -> Seq(Rows)] /\ stored \in [Threads -> Seq(Rows)]
      /\ sentRows \in [Threads -> Nat] /\ failedQueue \in [Threads -> Seq(Rows)]
      /\ okRows \in [Threads -> Seq(Rows)] /\ badRows \in [Threads -> Seq(Rows)]
      /\ pc \in [Threads -> RunLabels] /\ callIndex \in [Callers -> Threads]
  BY DEF TypeOK, CallerTypeOK, ControlTypeOK, QueueTypeOK, HistoryTypeOK
<1>b. /\ CopyLocks /\ FlightLocks /\ Callers \cap Threads = {}
      /\ Nobody \notin Threads
  BY ThreadAssumption DEF LockDiscipline
<1>1. ASSUME NEW c \in Callers, InsertStep(c) \/ CallBegin(c) \/ QueryStep(c)
      PROVE  ThreadStep(t)
  <2>a. UNCHANGED <<pc, items, stored, sentRows, okRows, badRows>>
    BY <1>1, CallerFrame
  <2>1. CASE InsertThreadWrite(c) /\ callIndex[c] = t
    <3>1. TakesRow(t)
      BY <1>a, <2>a, <2>1 DEF InsertThreadWrite, TakesRow
    <3>2. QED
      BY <3>1 DEF ThreadStep
  <2>2. CASE CopyUnwritten(c) /\ callIndex[c] = t
    <3>1. pc[t] \notin Flight /\ ~WithCallback
      BY <1>b, <2>2 DEF CopyUnwritten, MutexIsFree, FlightLocks, Flight,
                        CopyWithoutCallback
    <3>2. GivesFailed(t)
      BY <1>a, <2>a, <2>2, <3>1 DEF CopyUnwritten, FailedAfterCopy, GivesFailed
    <3>3. QED
      BY <3>2 DEF ThreadStep
  <2>3. CASE ClearUnwritten(c) /\ callIndex[c] = t
    <3>1. pc[t] \notin Flight /\ ~WithCallback
      BY <1>b, <2>3 DEF ClearUnwritten, CopyLocks, FlightLocks, Flight,
                        CopyWithoutCallback
    <3>2. GivesQueue(t)
      BY <1>a, <2>a, <2>3, <3>1 DEF ClearUnwritten, GivesQueue
    <3>3. QED
      BY <3>2 DEF ThreadStep
  <2>4. CASE /\ InsertThreadWrite(c) => callIndex[c] # t
             /\ CopyUnwritten(c) => callIndex[c] # t
             /\ ClearUnwritten(c) => callIndex[c] # t
    <3>1. UNCHANGED <<accepted[t], writeQueue[t], failedQueue[t], handed[t]>>
      <4>1. CASE InsertThreadWrite(c) \/ CopyUnwritten(c) \/ ClearUnwritten(c)
        BY <1>a, <2>4, <4>1 DEF InsertThreadWrite, CopyUnwritten, ClearUnwritten
      <4>2. CASE Insert(c) \/ InsertUnwrittenData(c) \/ SignalNonempty(c)
        BY <4>2 DEF Insert, InsertUnwrittenData, SignalNonempty
      <4>3. CASE CallBegin(c)
        BY <4>3 DEF CallBegin, GetStatus, GetUnwrittenData, WaitForThreadCompletion
      <4>4. CASE StatusOfThread(c) \/ StatusReturn(c)
        BY <4>4 DEF StatusOfThread, StatusReturn
      <4>5. CASE SetExit(c) \/ SignalExit(c) \/ JoinThread(c)
        BY <4>5 DEF SetExit, SignalExit, JoinThread
      <4>6. QED
        BY <1>1, <4>1, <4>2, <4>3, <4>4, <4>5 DEF InsertStep, QueryStep
    <3>2. Stays(t)
      BY <2>a, <3>1 DEF Stays
    <3>3. QED
      BY <3>2 DEF ThreadStep
  <2>5. QED
    BY <2>1, <2>2, <2>3, <2>4
<1>2. ASSUME NEW u \in Threads, RunStep(u) \/ WriteStep(u) \/ SpuriousWakeup(u)
      PROVE  ThreadStep(t)
  <2>a. UNCHANGED <<accepted, handed>>
    BY <1>2, WriterFrame
  <2>1. CASE u # t
    <3>1. Stays(t)
      BY <1>2, <2>a, <2>1, OtherThreads DEF Stays
    <3>2. QED
      BY <3>1 DEF ThreadStep
  <2>2. CASE u = t /\ FinalCallbacks(t)
    <3>1. Finishes(t)
      BY <1>a, <2>a, <2>2 DEF FinalCallbacks, RowsLeft, Finishes, Goto
    <3>2. QED
      BY <3>1 DEF ThreadStep
  <2>3. CASE u = t /\ ~FinalCallbacks(t) /\ (RunStep(t) \/ SpuriousWakeup(t))
    <3>1. UNCHANGED <<writeQueue, items, stored, sentRows, failedQueue,
                      okRows, badRows>>
      BY <2>3 DEF RunStep, RunTop, RunFirst, Wakeup, SpuriousWakeup, AfterWakeup,
                BatchDone, BatchWakeup, LoopCheck, writerVars, reportVars
    <3>2. /\ pc[t] \notin Flight \cup {"final", "done"}
          /\ pc'[t] \notin Flight \cup {"done"}
      BY <1>a, <2>3 DEF RunStep, RunTop, RunFirst, Wakeup, SpuriousWakeup,
                AfterWakeup, BatchDone, BatchWakeup, LoopCheck, writerVars, Goto, Flight
    <3>3. Stays(t)
      BY <2>a, <3>1, <3>2 DEF Stays
    <3>4. QED
      BY <3>3 DEF ThreadStep
  <2>4. CASE u = t /\ PopItems(t)
    <3>1. CASE Head(writeQueue[t]) = <<>>
      <4>1. Stays(t)
        BY <1>a, <2>a, <2>4, <3>1 DEF PopItems, Goto, Stays, Flight, reportVars
      <4>2. QED
        BY <4>1 DEF ThreadStep
    <3>2. CASE Head(writeQueue[t]) # <<>>
      <4>1. Pops(t)
        BY <1>a, <2>a, <2>4, <3>2 DEF PopItems, Goto, Pops, reportVars
      <4>2. QED
        BY <4>1 DEF ThreadStep
    <3>3. QED
      BY <3>1, <3>2
  <2>5. CASE u = t /\ ServerCall(t)
    <3>1. Calls(t)
      BY <1>a, <2>a, <2>5 DEF ServerCall, Goto, Calls, reportVars
    <3>2. QED
      BY <3>1 DEF ThreadStep
  <2>6. CASE u = t /\ (BlockWritten(t) \/ CallbackThrows(t))
    <3>1. Writes(t)
      BY <1>a, <2>a, <2>6 DEF BlockWritten, CallbackThrows, Goto, Writes
    <3>2. QED
      BY <3>1 DEF ThreadStep
  <2>7. CASE u = t /\ BlockFailed(t)
    <3>1. Fails(t)
      BY <1>a, <2>a, <2>7 DEF BlockFailed, Goto, Fails
    <3>2. QED
      BY <3>1 DEF ThreadStep
  <2>8. CASE u = t /\ SetError(t)
    <3>1. SetsError(t)
      BY <1>a, <2>a, <2>8 DEF SetError, Goto, SetsError, reportVars
    <3>2. QED
      BY <3>1 DEF ThreadStep
  <2>9. QED
    BY <1>2, <2>1, <2>2, <2>3, <2>4, <2>5, <2>6, <2>7, <2>8 DEF WriteStep
<1>3. CASE UNCHANGED vars
  <2>1. Stays(t)
    BY <1>3 DEF vars, Stays
  <2>2. QED
    BY <2>1 DEF ThreadStep
<1>4. QED
  BY <1>1, <1>2, <1>3 DEF Next

LEMMA CleanAccountingNext ==
  ASSUME TypeOK, BlockShape, LockDiscipline, CopyIsCurrent, CopyWithoutCallback,
         ErrorLatched, JoinedHaveEnded, CleanAccounting, [Next]_vars
  PROVE  CleanAccounting'
<1>1. SUFFICES ASSUME SingleOwner, NEW t \in Threads, NothingFailed(t)'
      PROVE  /\ failedQueue'[t] = <<>>
             /\ accepted'[t] = Len(stored'[t]) + handed'[t] + QueueRows(writeQueue'[t])
                       + (IF pc'[t] = "send" THEN Len(items'[t]) ELSE 0)
  BY DEF CleanAccounting, SingleOwner
<1> DEFINE a == accepted[t]        s == Len(stored[t])  h == handed[t]
           q == QueueRows(writeQueue[t])                i == Len(items[t])
<1>a. /\ items[t] \in Seq(Rows) /\ stored[t] \in Seq(Rows)
      /\ failedQueue[t] \in Seq(Rows) /\ a \in Nat /\ h \in Nat
  BY DEF TypeOK, QueueTypeOK, HistoryTypeOK
<1>b. s \in Nat /\ i \in Nat /\ Len(stored[t] \o items[t]) = s + i /\ Len(<<>>) = 0
  BY <1>a
<1>c. q \in Nat
  BY QueueCounts
<1>d. errorInfo' # "server" /\ pc'[t] \notin {"failed", "setError"}
  BY <1>1 DEF NothingFailed
<1>e. errorInfo # "server" /\ (hasError => pc[t] = "done")
  BY <1>d, ErrorStays DEF ErrorLatched, JoinedHaveEnded, TypeOK, GlobalTypeOK
<1>f. pc[t] \notin {"failed", "setError"} =>
        /\ failedQueue[t] = <<>>
        /\ a = s + h + q + (IF pc[t] = "send" THEN i ELSE 0)
  BY <1>1, <1>e DEF CleanAccounting, NothingFailed
<1> HIDE DEF a, s, h, q, i
<1>2. ThreadStep(t)
  BY ThreadStepFacts
<1>3. CASE TakesRow(t)
  <2>1. /\ accepted'[t] = a + 1 /\ QueueRows(writeQueue'[t]) = q + 1
        /\ Len(stored'[t]) = s /\ handed'[t] = h /\ Len(items'[t]) = i
        /\ UNCHANGED <<pc[t], failedQueue[t]>>
    BY <1>3, QueueCounts DEF TakesRow, a, s, h, q, i
  <2>2. QED
    BY <1>a, <1>b, <1>c, <1>d, <1>f, <2>1
<1>4. CASE GivesFailed(t)
  <2>1. /\ accepted'[t] = a /\ QueueRows(writeQueue'[t]) = q
        /\ Len(stored'[t]) = s /\ Len(items'[t]) = i
        /\ failedQueue'[t] = <<>> /\ pc'[t] = pc[t]
        /\ handed'[t] = h + Len(failedQueue[t])
    BY <1>4 DEF GivesFailed, a, s, h, q, i
  <2>2. handed'[t] = h
    BY <1>a, <1>b, <1>d, <1>f, <2>1
  <2>3. QED
    BY <1>b, <1>c, <1>d, <1>f, <2>1, <2>2
<1>5. CASE GivesQueue(t)
  <2>1. handed'[t] = h + q
    BY <1>1, <1>5 DEF GivesQueue, CopyIsCurrent, h, q
  <2>2. /\ accepted'[t] = a /\ QueueRows(writeQueue'[t]) = 0
        /\ Len(stored'[t]) = s /\ failedQueue'[t] = failedQueue[t]
        /\ pc'[t] = pc[t] /\ pc[t] # "send"
    BY <1>5, QueueCounts DEF GivesQueue, Flight, a, s
  <2>3. QED
    BY <1>a, <1>b, <1>c, <1>d, <1>f, <2>1, <2>2
<1>6. CASE Pops(t)
  <2> DEFINE b == Len(Head(writeQueue[t]))
             r == QueueRows(PopBlock(writeQueue[t]))
  <2>1. b \in Nat /\ r \in Nat /\ q = b + r
    BY <1>6, QueueCounts, QueueOfThread, QueueFacts DEF Pops, TypeOK, q
  <2>2. /\ accepted'[t] = a /\ QueueRows(writeQueue'[t]) = r
        /\ Len(stored'[t]) = s /\ handed'[t] = h /\ Len(items'[t]) = b
        /\ failedQueue'[t] = failedQueue[t] /\ pc[t] = "pop" /\ pc'[t] = "send"
    BY <1>6 DEF Pops, a, s, h
  <2> HIDE DEF b, r
  <2>3. QED
    BY <1>a, <1>b, <1>c, <1>f, <2>1, <2>2
<1>7. CASE Calls(t)
  <2>1. /\ accepted'[t] = a /\ QueueRows(writeQueue'[t]) = q
        /\ handed'[t] = h /\ failedQueue'[t] = failedQueue[t]
        /\ pc[t] = "send" /\ pc'[t] = "ok" /\ Len(stored'[t]) = s + i
    BY <1>7, <1>b, <1>d DEF Calls, a, h, q
  <2>2. QED
    BY <1>a, <1>b, <1>c, <1>f, <2>1
<1>8. CASE Writes(t)
  <2>1. /\ accepted'[t] = a /\ QueueRows(writeQueue'[t]) = q
        /\ handed'[t] = h /\ failedQueue'[t] = failedQueue[t]
        /\ pc[t] = "ok" /\ pc'[t] = "check" /\ Len(stored'[t]) = s
    BY <1>8, <1>d DEF Writes, a, h, q, s
  <2>2. QED
    BY <1>a, <1>b, <1>c, <1>f, <2>1
<1>9. CASE Fails(t)
  BY <1>9, <1>d DEF Fails
<1>10. CASE SetsError(t)
  BY <1>10, <1>d, <1>e DEF SetsError, SetError
<1>11. CASE Finishes(t)
  <2>1. /\ accepted'[t] = a /\ QueueRows(writeQueue'[t]) = q
        /\ handed'[t] = h /\ failedQueue'[t] = failedQueue[t]
        /\ pc[t] = "final" /\ pc'[t] = "done" /\ Len(stored'[t]) = s
    BY <1>11 DEF Finishes, a, h, q, s
  <2>2. QED
    BY <1>a, <1>b, <1>c, <1>f, <2>1
<1>12. CASE Stays(t)
  <2>1. /\ accepted'[t] = a /\ QueueRows(writeQueue'[t]) = q
        /\ handed'[t] = h /\ failedQueue'[t] = failedQueue[t]
        /\ Len(stored'[t]) = s /\ Len(items'[t]) = i
    BY <1>12 DEF Stays, a, h, q, s, i
  <2>2. /\ pc[t] \notin {"failed", "setError"}
        /\ pc[t] = "send" <=> pc'[t] = "send"
    BY <1>12, <1>d DEF Stays, Flight
  <2>3. QED
    BY <1>a, <1>b, <1>c, <1>f, <2>1, <2>2
<1>13. QED
  BY <1>2, <1>3, <1>4, <1>5, <1>6, <1>7, <1>8, <1>9, <1>10, <1>11, <1>12 DEF ThreadStep

-----------------------------------------------------------------------------
LEMMA CompletionInit == Init => CompletionInv /\ CopyWithoutCallback
<1> SUFFICES ASSUME Init PROVE CompletionInv /\ CopyWithoutCallback
  OBVIOUS
<1>1. ErrorLatched /\ CompletionExcludes /\ JoinedHaveEnded
  BY ExitLabelsLocked DEF Init, ErrorLatched, CompletionExcludes, JoinedHaveEnded
<1>2. EndsForExit /\ CopyWithoutCallback
  BY DEF Init, EndsForExit, CopyWithoutCallback
<1>3. CleanAccounting
  <2>1. QueueRows(EmptyQueue) = 0 /\ Len(<<>>) = 0
    BY EmptyQueueFacts
  <2>2. QED
    BY <2>1 DEF Init, CleanAccounting
<1>4. QED
  BY <1>1, <1>2, <1>3 DEF CompletionInv

LEMMA CompletionNext ==
  ASSUME WriterInv, CompletionInv, CopyWithoutCallback, [Next]_vars
  PROVE  CompletionInv' /\ CopyWithoutCallback'
<1>1. /\ TypeOK /\ BlockShape /\ LockDiscipline /\ CopyIsCurrent /\ CallLocks
      /\ ErrorLatched /\ CompletionExcludes /\ JoinedHaveEnded
      /\ EndsForExit /\ CleanAccounting
  BY DEF WriterInv, CompletionInv, LockDiscipline
<1>2. ErrorLatched' /\ CompletionExcludes' /\ JoinedHaveEnded'
  BY <1>1, ErrorLatchedNext, CompletionExcludesNext, JoinedHaveEndedNext
<1>3. EndsForExit' /\ CleanAccounting'
  BY <1>1, EndsForExitNext, CleanAccountingNext
<1>4. QED
  BY <1>1, <1>2, <1>3, CopyWithoutCallbackNext DEF CompletionInv

LEMMA CompletionImplies ==
  ASSUME WriterInv, CompletionInv PROVE CompletionMeansWritten
<1> SUFFICES ASSUME SingleOwner, errorInfo = "closed", NEW t \in Threads
             PROVE  accepted[t] = Len(stored[t]) + handed[t]
  BY DEF CompletionMeansWritten
<1>1. pc[t] = "done"
  BY DEF CompletionInv, ErrorLatched, JoinedHaveEnded
<1>2. QueueRows(writeQueue[t]) = 0
  BY <1>1 DEF CompletionInv, EndsForExit
<1>3. accepted[t] = Len(stored[t]) + handed[t] + QueueRows(writeQueue[t])
                       + (IF pc[t] = "send" THEN Len(items[t]) ELSE 0)
  BY <1>1 DEF CompletionInv, CleanAccounting, NothingFailed
<1>4. stored[t] \in Seq(Rows) /\ handed[t] \in Nat
  BY DEF WriterInv, TypeOK, HistoryTypeOK
<1>5. Len(stored[t]) \in Nat
  BY <1>4
<1>6. QED
  BY <1>1, <1>2, <1>3, <1>4, <1>5

(* The inductive invariant of waitForThreadCompletion(): how far it has      *)
(* come, and what the threads it has not joined yet still hold.             *)
THEOREM CompletionInvCorrect == Spec => [](CompletionInv /\ CopyWithoutCallback)
<1>1. Init => CompletionInv /\ CopyWithoutCallback
  BY CompletionInit
<1>2. WriterInv /\ (CompletionInv /\ CopyWithoutCallback) /\ [Next]_vars
        => (CompletionInv /\ CopyWithoutCallback)'
  BY CompletionNext
<1>3. QED
  BY <1>1, <1>2, InvCorrect, PTL DEF Spec

(* When waitForThreadCompletion() has closed the writer and no server call  *)
(* has failed, every row accepted was stored by the server or handed back,  *)
(* if the calls beside insert() are left to one caller.                     *)
THEOREM CompletionCorrect == Spec => []CompletionMeansWritten
<1>1. WriterInv /\ CompletionInv => CompletionMeansWritten
  BY CompletionImplies
<1>2. QED
  BY <1>1, InvCorrect, CompletionInvCorrect, PTL

-----------------------------------------------------------------------------
(* Reports.                                                                 *)

-----------------------------------------------------------------------------
(* Sequences of consecutive rows. *)

LEMMA ConsecutiveConcat ==
  ASSUME NEW r \in Seq(Nat), NEW s \in Seq(Nat), NEW before \in Int,
         Consecutive(r, before), Consecutive(s, before + Len(r))
  PROVE  r \o s \in Seq(Nat) /\ Consecutive(r \o s, before)
<1> DEFINE m == Len(r)
           n == Len(s)
           rs == r \o s
<1>1. /\ m \in Nat /\ n \in Nat /\ Len(rs) = m + n
      /\ \A i \in 1 .. m : rs[i] = r[i]
      /\ \A k \in 1 .. n : rs[m + k] = s[k]
  BY ConcatFacts
<1>2. /\ \A i \in 1 .. m : r[i] = before + i
      /\ \A k \in 1 .. n : s[k] = before + m + k
  BY DEF Consecutive
<1>3. rs \in Seq(Nat)
  OBVIOUS
<1> HIDE DEF m, n, rs
<1>4. ASSUME NEW j \in 1 .. m + n PROVE rs[j] = before + j
  <2>1. CASE j <= m
    <3>1. j \in 1 .. m
      BY <1>1, <2>1
    <3>2. QED
      BY <1>1, <1>2, <3>1
  <2>2. CASE j > m
    <3>1. j - m \in 1 .. n /\ m + (j - m) = j
      BY <1>1, <2>2
    <3>2. rs[j] = before + m + (j - m)
      BY <1>1, <1>2, <3>1
    <3>3. QED
      BY <1>1, <3>1, <3>2
  <2>3. QED
    BY <1>1, <2>1, <2>2
<1>5. QED
  BY <1>1, <1>3, <1>4 DEF Consecutive, rs

LEMMA ConsecutiveRange ==
  ASSUME NEW r \in Seq(Nat), NEW before \in Int, Consecutive(r, before)
  PROVE  /\ Range(r) = before + 1 .. before + Len(r)
         /\ before = 0 => Range(r) = 1 .. Len(r)
         /\ IsInjective(r)
<1> DEFINE n == Len(r)
<1>1. n \in Nat /\ DOMAIN r = 1 .. n /\ \A i \in 1 .. n : r[i] = before + i
  BY DEF Consecutive
<1> HIDE DEF n
<1>2. IsInjective(r)
  BY <1>1 DEF IsInjective
<1>3. ASSUME NEW x \in before + 1 .. before + n PROVE x \in Range(r)
  <2>1. x - before \in 1 .. n
    BY <1>1
  <2>2. r[x - before] = x
    BY <1>1, <2>1
  <2>3. QED
    BY <1>1, <2>1, <2>2 DEF Range
<1>4. ASSUME NEW x \in Range(r) PROVE x \in before + 1 .. before + n
  BY <1>1 DEF Range
<1>5. Range(r) = before + 1 .. before + n
  BY <1>3, <1>4
<1>6. before = 0 => before + 1 = 1 /\ before + n = n
  BY <1>1
<1>7. QED
  BY <1>2, <1>5, <1>6 DEF n

LEMMA ConcatRange ==
  ASSUME NEW r \in Seq(Nat), NEW s \in Seq(Nat)
  PROVE  Range(r \o s) = Range(r) \cup Range(s)
<1> DEFINE m == Len(r)
           n == Len(s)
           rs == r \o s
<1>1. /\ m \in Nat /\ n \in Nat /\ Len(rs) = m + n
      /\ \A i \in 1 .. m : rs[i] = r[i]
      /\ \A k \in 1 .. n : rs[m + k] = s[k]
  BY ConcatFacts
<1>2. DOMAIN r = 1 .. m /\ DOMAIN s = 1 .. n /\ DOMAIN rs = 1 .. m + n
  BY <1>1
<1> HIDE DEF m, n, rs
<1>3. ASSUME NEW j \in 1 .. m + n PROVE rs[j] \in Range(r) \cup Range(s)
  <2>1. CASE j <= m
    <3>1. j \in 1 .. m
      BY <1>1, <2>1
    <3>2. QED
      BY <1>1, <1>2, <3>1 DEF Range
  <2>2. CASE j > m
    <3>1. j - m \in 1 .. n /\ m + (j - m) = j
      BY <1>1, <2>2
    <3>2. rs[j] = s[j - m]
      BY <1>1, <3>1
    <3>3. QED
      BY <1>2, <3>1, <3>2 DEF Range
  <2>3. QED
    BY <1>1, <2>1, <2>2
<1>4. ASSUME NEW i \in 1 .. m PROVE r[i] \in Range(rs)
  <2>1. i \in 1 .. m + n /\ rs[i] = r[i]
    BY <1>1
  <2>2. QED
    BY <1>2, <2>1 DEF Range
<1>5. ASSUME NEW k \in 1 .. n PROVE s[k] \in Range(rs)
  <2>1. m + k \in 1 .. m + n /\ rs[m + k] = s[k]
    BY <1>1
  <2>2. QED
    BY <1>2, <2>1 DEF Range
<1>6. Range(rs) \subseteq Range(r) \cup Range(s)
  BY <1>2, <1>3 DEF Range
<1>7. Range(r) \subseteq Range(rs) /\ Range(s) \subseteq Range(rs)
  BY <1>2, <1>4, <1>5 DEF Range
<1>8. QED
  BY <1>6, <1>7 DEF rs

(* The queue flattened, and the block in front of it. *)
LEMMA QueueConsecutive ==
  ASSUME NEW q \in Queues, WellShaped(q), NEW before \in Int, InOrder(q, before)
  PROVE  Consecutive(RowsOf(q), before)
<1>1. ASSUME NEW m \in 1 .. QueueRows(q) PROVE RowsOf(q)[m] = before + m
  <2> DEFINE i == ((m - 1) \div (PerBlock + 1)) + 1
             j == ((m - 1) % (PerBlock + 1)) + 1
  <2>1. /\ i \in 1 .. Len(q) /\ j \in 1 .. Len(q[i])
        /\ m = BlockStart(i) + j /\ BlockStart(i) \in Int
    BY RowPlace
  <2>2. RowsOf(q)[m] = q[i][j]
    BY DEF RowsOf
  <2> HIDE DEF i, j
  <2>3. q[i][j] = before + BlockStart(i) + j
    BY <2>1 DEF InOrder
  <2>4. j \in Int
    BY <2>1
  <2>5. QED
    BY <2>1, <2>2, <2>3, <2>4
<1>2. QED
  BY <1>1, RowsOfFacts DEF Consecutive

LEMMA HeadSize ==
  ASSUME NEW q \in Queues, WellShaped(q)
  PROVE  Len(Head(q)) \in Nat /\ Len(Head(q)) <= PerBlock + 1
<1> DEFINE n == Len(q)
<1>1. /\ n \in Nat \ {0} /\ Head(q) = q[1] /\ Len(q[1]) \in Nat
      /\ \A i \in 1 .. n - 1 : Len(q[i]) = PerBlock + 1
      /\ Len(q[n]) <= PerBlock + 1
  BY QueueFacts, ShapeFacts
<1> HIDE DEF n
<1>2. CASE n = 1
  BY <1>1, <1>2
<1>3. CASE n # 1
  <2>1. 1 \in 1 .. n - 1
    BY <1>1, <1>3
  <2>2. QED
    BY <1>1, <2>1, Capacity
<1>4. QED
  BY <1>2, <1>3

-----------------------------------------------------------------------------
(* A thread that has seen an error runs to its end. *)

Stopping == {"top", "check", "final", "done"}

LEMMA StoppingStays ==
  ASSUME TypeOK, [Next]_vars, NEW t \in Threads, hasError, pc[t] \in Stopping
  PROVE  pc'[t] \in Stopping
<1>a. pc \in [Threads -> RunLabels]
  BY DEF TypeOK, ControlTypeOK
<1>1. ASSUME NEW c \in Callers, InsertStep(c) \/ CallBegin(c) \/ QueryStep(c)
      PROVE  pc' = pc
  BY <1>1, CallerFrame
<1>2. ASSUME NEW u \in Threads, RunStep(u) \/ WriteStep(u) \/ SpuriousWakeup(u)
      PROVE  pc'[t] \in Stopping
  <2>1. CASE u = t /\ (RunStep(t) \/ SpuriousWakeup(t))
    BY <1>a, <2>1 DEF RunStep, RunTop, RunFirst, Wakeup, SpuriousWakeup,
              AfterWakeup, BatchDone, BatchWakeup, LoopCheck, FinalCallbacks,
              Goto, IsExit, StopsOnError, Stopping
  <2>2. CASE u = t /\ WriteStep(t)
    BY <2>2 DEF WriteStep, PopItems, ServerCall, BlockWritten, CallbackThrows,
              BlockFailed, SetError, Stopping
  <2>3. CASE u # t
    BY <1>2, <2>3, OtherThreads
  <2>4. QED
    BY <1>2, <2>1, <2>2, <2>3
<1>3. QED
  BY <1>1, <1>2 DEF Next, vars

LEMMA FailsOnceNext ==
  ASSUME TypeOK, BlockShape, LockDiscipline, CopyWithoutCallback, ErrorLatched,
         FailsOnce, [Next]_vars
  PROVE  FailsOnce'
<1> DEFINE Once(label, block, failed, error, back) ==
             /\ label \in {"send", "ok", "failed"} <=> block # <<>>
             /\ Len(block) <= PerBlock + 1 /\ Len(failed) <= PerBlock + 1
             /\ failed # <<>> =>
                  /\ label \in {"setError", "top", "check", "final", "done"}
                  /\ label # "setError" => error
             /\ label = "setError" => failed # <<>>
             /\ back = 0
<1>1. SUFFICES ASSUME WithCallback, NEW t \in Threads
      PROVE  Once(pc'[t], items'[t], failedQueue'[t], hasError', handed'[t])
  BY DEF FailsOnce
<1>2. Once(pc[t], items[t], failedQueue[t], hasError, handed[t])
  BY <1>1 DEF FailsOnce
<1>3. /\ items[t] \in Seq(Rows) /\ failedQueue[t] \in Seq(Rows)
      /\ pc[t] \in RunLabels /\ hasError \in BOOLEAN
      /\ writeQueue[t] \in Queues /\ WellShaped(writeQueue[t])
  BY QueueOfThread DEF TypeOK, GlobalTypeOK, QueueTypeOK, ControlTypeOK, BlockShape
<1>4. hasError => hasError'
  BY ErrorStays
<1>5. ThreadStep(t)
  BY ThreadStepFacts
<1>6. Len(<<>>) = 0 /\ 0 <= PerBlock + 1
  BY Capacity
<1>7. CASE TakesRow(t)
  BY <1>2, <1>4, <1>7 DEF TakesRow
<1>8. CASE Pops(t)
  <2>1. Len(Head(writeQueue[t])) <= PerBlock + 1
    BY <1>3, HeadSize
  <2>2. failedQueue[t] = <<>>
    BY <1>2, <1>8 DEF Pops
  <2>3. QED
    BY <1>2, <1>6, <1>8, <2>1, <2>2 DEF Pops
<1>9. CASE Calls(t)
  BY <1>2, <1>6, <1>9 DEF Calls
<1>10. CASE Writes(t)
  BY <1>2, <1>6, <1>10 DEF Writes
<1>11. CASE Fails(t)
  <2>1. failedQueue[t] = <<>> /\ items[t] # <<>>
    BY <1>2, <1>11 DEF Fails
  <2>2. failedQueue'[t] = items[t]
    BY <1>3, <1>11, <2>1 DEF Fails
  <2>3. QED
    BY <1>2, <1>6, <1>11, <2>1, <2>2 DEF Fails
<1>12. CASE Finishes(t)
  BY <1>2, <1>4, <1>12 DEF Finishes
<1>13. CASE SetsError(t)
  <2>1. hasError'
    BY <1>13 DEF SetsError, SetError
  <2>2. QED
    BY <1>2, <1>13, <2>1 DEF SetsError
<1>14. CASE Stays(t)
  <2>1. UNCHANGED <<items[t], failedQueue[t], handed[t]>>
    BY <1>14 DEF Stays
  <2>2. CASE pc'[t] = pc[t]
    BY <1>2, <1>4, <2>1, <2>2
  <2>3. CASE pc[t] \notin Flight \cup {"final", "done"} /\ pc'[t] \notin Flight \cup {"done"}
    <3>1. failedQueue[t] # <<>> => pc'[t] \in Stopping /\ hasError
      BY <1>2, <2>3, StoppingStays DEF Flight, Stopping
    <3>2. QED
      BY <1>2, <1>4, <2>1, <2>3, <3>1 DEF Flight, Stopping
  <2>4. QED
    BY <1>14, <2>2, <2>3 DEF Stays
<1>15. QED
  BY <1>1, <1>5, <1>7, <1>8, <1>9, <1>10, <1>11, <1>12, <1>13, <1>14
     DEF ThreadStep, GivesFailed, GivesQueue

-----------------------------------------------------------------------------
(* The rows told to be written and the rows told to have failed.            *)

(* What ReportLedger says of one thread: its label, the rows gone from its  *)
(* queue, its block in flight, its failed rows, and the rows reported.      *)
Ledger(label, gone, block, failed, sent, ok, bad, server) ==
  /\ Len(ok) = sent
  /\ Consecutive(ok, 0)
  /\ Consecutive(failed, gone - Len(failed))
  /\ Consecutive(bad, gone - Len(failed))
  /\ Len(failed) <= Len(bad)
  /\ label # "done" => Len(bad) = Len(failed)
  /\ \/ Len(ok) = gone - Len(failed) - Len(block)
     \/ /\ Len(ok) = gone /\ Len(failed) + Len(block) <= Len(ok)
        /\ Len(failed) > 0 \/ label = "failed"
  /\ Range(ok) \subseteq Range(server)
  /\ label = "ok" => Range(block) \subseteq Range(server)

LEMMA ReportLedgerNext ==
  ASSUME TypeOK, BlockShape, LockDiscipline, CopyWithoutCallback, RowOrder,
         FailsOnce, ReportLedger, [Next]_vars
  PROVE  ReportLedger'
<1>1. SUFFICES ASSUME WithCallback, NEW t \in Threads
      PROVE  Ledger(pc'[t], accepted'[t] - QueueRows(writeQueue'[t]), items'[t],
                    failedQueue'[t], sentRows'[t], okRows'[t], badRows'[t], stored'[t])
  BY DEF ReportLedger, Ledger, RowsGone
<1> DEFINE q == writeQueue[t]
           gone == accepted[t] - QueueRows(q)
           block == items[t]
           failed == failedQueue[t]
           ok == okRows[t]
           bad == badRows[t]
<1>2. Ledger(pc[t], gone, block, failed, sentRows[t], ok, bad, stored[t])
  BY <1>1 DEF ReportLedger, Ledger, RowsGone
<1>3. /\ block \in Seq(Nat) /\ failed \in Seq(Nat) /\ ok \in Seq(Nat)
      /\ bad \in Seq(Nat) /\ stored[t] \in Seq(Nat) /\ sentRows[t] \in Nat
      /\ q \in Queues /\ WellShaped(q) /\ accepted[t] \in Nat
  BY QueueOfThread DEF TypeOK, QueueTypeOK, ControlTypeOK, HistoryTypeOK,
                       BlockShape, Rows
<1>4. QueueRows(q) \in Nat /\ gone \in Int
  BY <1>3, QueueCounts
<1>5. /\ pc[t] \in {"send", "ok", "failed"} <=> block # <<>>
      /\ failed # <<>> => pc[t] \in {"setError", "top", "check", "final", "done"}
  BY <1>1 DEF FailsOnce
<1>6. InOrder(q, gone) /\ Consecutive(block, gone - Len(block))
  BY DEF RowOrder, RowsGone, Consecutive
<1>7. /\ Len(<<>>) = 0 /\ <<>> \in Seq(Nat)
      /\ \A n \in Int : Consecutive(<<>>, n)
      /\ \A s \in Seq(Nat) : /\ Len(s) \in Nat /\ (Len(s) = 0 <=> s = <<>>)
                             /\ s \o <<>> = s /\ <<>> \o s = s
  BY DEF Consecutive
<1>8. ThreadStep(t)
  BY ThreadStepFacts
<1> HIDE DEF gone, block, failed, ok, bad
<1>9. CASE TakesRow(t)
  <2>1. accepted'[t] - QueueRows(writeQueue'[t]) = gone
    BY SMTT(30), <1>3, <1>4, <1>9, QueueCounts DEF TakesRow, gone
  <2>2. QED
    BY <1>2, <1>9, <2>1 DEF TakesRow, block, failed, ok, bad
<1>10. CASE Pops(t)
  <2> DEFINE first == Head(q)
             size == Len(first)
  <2>1. /\ failed = <<>> /\ block = <<>> /\ bad = <<>> /\ Len(ok) = gone
    <3>1. failed = <<>> /\ block = <<>>
      BY <1>5, <1>10 DEF Pops
    <3>2. Len(bad) = 0 /\ Len(ok) = gone
      BY <1>2, <1>4, <1>7, <1>10, <3>1 DEF Ledger, Pops
    <3>3. QED
      BY <1>3, <1>7, <3>1, <3>2
  <2>2. first \in Seq(Nat) /\ size \in Nat
    BY SMTT(30), <1>3, QueueFacts DEF Rows
  <2>3. accepted'[t] - QueueRows(writeQueue'[t]) = gone + size
    <3>1. /\ QueueRows(q) = size + QueueRows(PopBlock(q))
          /\ QueueRows(PopBlock(q)) \in Nat
      BY <1>10, QueueCounts DEF Pops
    <3>2. accepted'[t] = accepted[t] /\ writeQueue'[t] = PopBlock(q)
      BY <1>10 DEF Pops
    <3>3. gone = accepted[t] - QueueRows(q)
      BY DEF gone
    <3> HIDE DEF size, q
    <3>4. QED
      BY <1>3, <1>4, <2>2, <3>1, <3>2, <3>3
  <2>4. /\ items'[t] = first /\ pc'[t] = "send"
        /\ failedQueue'[t] = <<>> /\ badRows'[t] = <<>> /\ okRows'[t] = ok
        /\ sentRows'[t] = sentRows[t] /\ stored'[t] = stored[t]
    BY <1>10, <2>1 DEF Pops, ok, bad, failed
  <2>5. Len(ok) = gone + size - 0 - size /\ gone + size - 0 \in Int
    <3> HIDE DEF size
    <3>1. QED
      BY <1>4, <2>1, <2>2
  <2>6. Consecutive(<<>>, gone + size - Len(<<>>)) /\ Len(ok) = gone + size - Len(<<>>) - size
    BY <1>7, <2>5
  <2>7. Ledger("send", gone + size, first, <<>>, sentRows[t], ok, <<>>, stored[t])
    <3>1. Len(ok) = sentRows[t] /\ Consecutive(ok, 0) /\ Range(ok) \subseteq Range(stored[t])
      BY <1>2 DEF Ledger
    <3> HIDE DEF first
    <3>2. QED
      BY <1>4, <1>7, <2>2, <2>6, <3>1 DEF Ledger
  <2>8. QED
    BY <2>3, <2>4, <2>7
<1>11. CASE Calls(t)
  <2>1. failed = <<>> /\ pc[t] = "send"
    BY <1>5, <1>11 DEF Calls
  <2>2. Len(ok) = gone - Len(failed) - Len(block)
    BY <1>2, <1>7, <2>1 DEF Ledger
  <2>3. /\ Range(stored[t]) \subseteq Range(stored'[t])
        /\ pc'[t] = "ok" => Range(block) \subseteq Range(stored'[t])
    BY <1>3, <1>11, ConcatRange DEF Calls, block
  <2>4. /\ UNCHANGED <<accepted[t], writeQueue[t], items[t], sentRows[t],
                       failedQueue[t], okRows[t], badRows[t]>>
        /\ pc'[t] # "done"
    BY <1>11 DEF Calls
  <2>5. QED
    BY <1>2, <2>1, <2>2, <2>3, <2>4 DEF Ledger, gone, block, failed, ok, bad
<1>12. CASE Writes(t)
  <2>1. failed = <<>> /\ pc[t] = "ok"
    BY <1>5, <1>12 DEF Writes
  <2>2. Len(ok) = gone - Len(block) /\ Len(failed) = 0 /\ Len(bad) = 0
    BY <1>2, <1>3, <1>4, <1>7, <2>1 DEF Ledger
  <2>3. /\ okRows'[t] = ok \o block /\ Len(ok \o block) = Len(ok) + Len(block)
        /\ sentRows'[t] = sentRows[t] + Len(block)
        /\ UNCHANGED <<accepted[t], writeQueue[t], stored[t], failedQueue[t], badRows[t]>>
    BY <1>1, <1>3, <1>12, ConcatFacts DEF Writes, ok, block
  <2>4. /\ Len(okRows'[t]) = gone /\ Len(okRows'[t]) = sentRows'[t]
        /\ Len(block) <= gone /\ gone - Len(failed) = gone
    <3>1. Len(ok) \in Nat /\ Len(block) \in Nat /\ Len(ok) = sentRows[t]
      BY <1>2, <1>3, <1>7 DEF Ledger
    <3>2. QED
      BY <1>4, <2>2, <2>3, <3>1
  <2>5. Consecutive(okRows'[t], 0)
    <3>1. Consecutive(ok, 0) /\ Consecutive(block, 0 + Len(ok))
      BY <1>2, <1>3, <1>6, <1>7, <2>2 DEF Ledger
    <3>2. QED
      BY SMTT(30), <1>3, <2>3, <3>1, ConsecutiveConcat
  <2>6. Range(okRows'[t]) \subseteq Range(stored'[t])
    BY <1>2, <1>3, <2>1, <2>3, ConcatRange DEF Ledger
  <2>7. /\ Consecutive(failed, gone - Len(failed)) /\ Consecutive(bad, gone - Len(failed))
        /\ Len(failed) <= Len(bad)
    BY <1>2 DEF Ledger
  <2>8. \/ pc'[t] = "check" /\ items'[t] = <<>>
        \/ pc'[t] = "failed" /\ items'[t] = block
    BY <1>12 DEF Writes, block
  <2>9. gone = gone - Len(failed) - 0 /\ Len(failed) + Len(block) <= gone
    BY <1>3, <1>4, <1>7, <2>2, <2>4
  <2>10. QED
    BY <1>7, <2>2, <2>3, <2>4, <2>5, <2>6, <2>7, <2>8, <2>9
       DEF Ledger, gone, failed, bad
<1>13. CASE Fails(t)
  <2>1. failed = <<>> /\ block # <<>> /\ pc[t] = "failed"
    BY <1>5, <1>13 DEF Fails
  <2>2. bad = <<>> /\ Len(failed) = 0
    BY <1>2, <1>3, <1>7, <2>1 DEF Ledger
  <2>3. /\ failedQueue'[t] = block /\ badRows'[t] = block /\ items'[t] = <<>>
        /\ pc'[t] = "setError"
        /\ UNCHANGED <<accepted[t], writeQueue[t], stored[t], sentRows[t], okRows[t]>>
    BY <1>1, <1>3, <1>7, <1>13, <2>1, <2>2 DEF Fails, failed, bad, block
  <2>4. Len(block) > 0 /\ Len(block) \in Nat
    BY <1>3, <1>7, <2>1
  <2>5. \/ Len(ok) = gone - Len(block) - 0
        \/ Len(ok) = gone /\ Len(block) + 0 <= Len(ok)
    BY <1>2, <1>4, <2>2, <2>4 DEF Ledger
  <2>6. QED
    BY <1>2, <1>6, <1>7, <2>3, <2>4, <2>5 DEF Ledger, gone, ok
<1>14. CASE Finishes(t)
  <2> DEFINE rest == RowsOf(q)
  <2>1. /\ badRows'[t] = bad \o rest /\ pc'[t] = "done" /\ pc[t] = "final"
        /\ UNCHANGED <<accepted[t], writeQueue[t], items[t], stored[t], sentRows[t],
                       failedQueue[t], okRows[t]>>
    BY <1>1, <1>14 DEF Finishes, bad
  <2>2. rest \in Seq(Nat) /\ Consecutive(rest, gone)
    BY <1>3, <1>4, <1>6, RowsOfFacts, QueueConsecutive DEF Rows
  <2>3. Len(bad) = Len(failed) /\ Consecutive(bad, gone - Len(failed))
    BY <1>2, <2>1 DEF Ledger
  <2>4. gone - Len(failed) \in Int /\ gone - Len(failed) + Len(bad) = gone
    BY <1>3, <1>4, <1>7, <2>3
  <2> HIDE DEF rest
  <2>5. Consecutive(badRows'[t], gone - Len(failed)) /\ Len(failed) <= Len(badRows'[t])
    <3>1. Consecutive(bad \o rest, gone - Len(failed))
      BY <1>3, <2>2, <2>3, <2>4, ConsecutiveConcat
    <3>2. Len(bad \o rest) = Len(bad) + Len(rest) /\ Len(rest) \in Nat /\ Len(bad) \in Nat
      BY <1>3, <2>2, ConcatFacts
    <3>3. QED
      BY <2>1, <2>3, <3>1, <3>2
  <2>6. QED
    BY <1>2, <2>1, <2>5 DEF Ledger, gone, block, failed, ok
<1>15. CASE SetsError(t)
  BY <1>2, <1>15 DEF SetsError, Ledger, gone, block, failed, ok, bad
<1>16. CASE Stays(t)
  <2>1. UNCHANGED <<accepted[t], writeQueue[t], items[t], stored[t], sentRows[t],
                    failedQueue[t], okRows[t], badRows[t]>>
    BY <1>16 DEF Stays
  <2>2. /\ pc[t] = "failed" => pc'[t] = "failed"
        /\ pc'[t] = "ok" => pc[t] = "ok"
        /\ pc'[t] # "done" => pc[t] # "done"
    <3>1. CASE pc'[t] = pc[t]
      BY <3>1
    <3>2. CASE pc[t] \notin Flight \cup {"final", "done"} /\ pc'[t] \notin Flight \cup {"done"}
      BY <3>2 DEF Flight
    <3>3. QED
      BY <1>16, <3>1, <3>2 DEF Stays
  <2>3. QED
    BY <1>2, <2>1, <2>2 DEF Ledger, gone, block, failed, ok, bad
<1>17. QED
  BY <1>1, <1>8, <1>9, <1>10, <1>11, <1>12, <1>13, <1>14, <1>15, <1>16
     DEF ThreadStep, GivesFailed, GivesQueue

-----------------------------------------------------------------------------
(* The insert() that comes too late. *)

LEMMA InsertsOneRowNext ==
  ASSUME TypeOK, InsertsOneRow, [Next]_vars
  PROVE  InsertsOneRow'
<1> DEFINE OneRow(labels, todo) ==
             \A c \in Callers : /\ labels[c] = "append" => todo[c] = 1
                                /\ labels[c] = "signal" => todo[c] = 0
<1>1. SUFFICES ASSUME BulkCallers = {} PROVE OneRow(callPc', callTodo')
  BY DEF InsertsOneRow
<1>2. OneRow(callPc, callTodo)
  BY <1>1 DEF InsertsOneRow
<1>3. callPc \in [Callers -> CallLabels] /\ callTodo \in [Callers -> Nat]
  BY DEF TypeOK, CallerTypeOK
<1>4. ASSUME NEW c \in Callers, InsertStep(c) PROVE OneRow(callPc', callTodo')
  <2>1. CASE Insert(c)
    BY <1>2, <1>3, <2>1 DEF Insert
  <2>2. CASE InsertThreadWrite(c)
    <3>1. callTodo[c] - 1 = 0
      BY <1>2, <2>2 DEF InsertThreadWrite
    <3>2. QED
      BY <1>2, <1>3, <2>2, <3>1 DEF InsertThreadWrite
  <2>3. CASE SignalNonempty(c)
    <3>1. ~(callTodo[c] > 0)
      BY <1>2, <2>3 DEF SignalNonempty
    <3>2. QED
      BY <1>2, <1>3, <2>3, <3>1 DEF SignalNonempty
  <2>4. QED
    BY <1>1, <1>4, <2>1, <2>2, <2>3 DEF InsertStep, InsertUnwrittenData
<1>5. ASSUME NEW c \in Callers, CallBegin(c) \/ QueryStep(c)
      PROVE  OneRow(callPc', callTodo')
  <2>1. /\ callTodo' = callTodo
        /\ \/ callPc' = callPc
           \/ \E l \in CallLabels \ {"append", "signal"} : callPc' = [callPc EXCEPT ![c] = l]
    BY <1>5 DEF CallBegin, QueryStep, GetStatus, GetUnwrittenData,
                WaitForThreadCompletion, StatusOfThread, StatusReturn, CopyUnwritten,
                ClearUnwritten, SetExit, SignalExit, JoinThread, CallLabels
  <2>2. QED
    BY <1>2, <1>3, <2>1
<1>6. ASSUME NEW t \in Threads, RunStep(t) \/ WriteStep(t) \/ SpuriousWakeup(t)
      PROVE  OneRow(callPc', callTodo')
  BY <1>2, <1>6, WriterFrame
<1>7. CASE UNCHANGED vars
  BY <1>2, <1>7 DEF vars
<1>8. QED
  BY <1>4, <1>5, <1>6, <1>7 DEF Next

(* Once an error is there no call begins to append.                         *)
LEMMA NoNewInsert ==
  ASSUME TypeOK, InsertsOneRow, BulkCallers = {}, hasError, [Next]_vars,
         NEW d \in Callers, callPc[d] # "append"
  PROVE  callPc'[d] # "append"
<1>1. callPc \in [Callers -> CallLabels]
  BY DEF TypeOK, CallerTypeOK
<1>2. ASSUME NEW c \in Callers, InsertStep(c) PROVE callPc'[d] # "append"
  <2>1. callPc[c] = "signal" => callTodo[c] = 0
    BY DEF InsertsOneRow
  <2>2. QED
    BY <1>1, <1>2, <2>1 DEF InsertStep, Insert, InsertUnwrittenData,
                            InsertThreadWrite, SignalNonempty
<1>3. ASSUME NEW c \in Callers, CallBegin(c) \/ QueryStep(c) PROVE callPc'[d] # "append"
  BY <1>1, <1>3 DEF CallBegin, QueryStep, GetStatus, GetUnwrittenData,
                WaitForThreadCompletion, StatusOfThread, StatusReturn, CopyUnwritten,
                ClearUnwritten, SetExit, SignalExit, JoinThread
<1>4. ASSUME NEW t \in Threads, RunStep(t) \/ WriteStep(t) \/ SpuriousWakeup(t)
      PROVE  callPc'[d] # "append"
  BY <1>4, WriterFrame
<1>5. CASE UNCHANGED vars
  BY <1>5 DEF vars
<1>6. QED
  BY <1>2, <1>3, <1>4, <1>5 DEF Next

LEMMA LateRowNext ==
  ASSUME TypeOK, BlockShape, LockDiscipline, CopyWithoutCallback, ErrorLatched,
         CompletionExcludes, EndsForExit, ReportLedger, InsertsOneRow, LateRow,
         [Next]_vars
  PROVE  LateRow'
<1> DEFINE Late(count, told, info, labels) ==
             \/ count = told
             \/ count = told + 1 /\ info = "server" /\ \A c \in Callers : labels[c] # "append"
           Told(t) == RowsGone(t) - Len(failedQueue[t]) + Len(badRows[t])
<1>1. SUFFICES ASSUME WithCallback, BulkCallers = {}, NEW t \in Threads, pc'[t] = "done"
      PROVE  Late(accepted'[t], Told(t)', errorInfo', callPc')
  BY DEF LateRow, LastTold
<1> DEFINE a == accepted[t]
           r == QueueRows(writeQueue[t])
           f == Len(failedQueue[t])
           b == Len(badRows[t])
<1>2. a \in Nat /\ r \in Nat /\ f \in Nat /\ b \in Nat
  <2>1. a \in Nat /\ failedQueue[t] \in Seq(Nat) /\ badRows[t] \in Seq(Nat)
    BY DEF TypeOK, QueueTypeOK, HistoryTypeOK, Rows
  <2>2. QED
    BY <2>1, QueueCounts
<1>3. Told(t) = a - r - f + b
  BY DEF RowsGone
<1>4. pc[t] = "done" => Late(a, a - r - f + b, errorInfo, callPc)
  BY <1>1, <1>3 DEF LateRow, LastTold
<1>5. ThreadStep(t)
  BY ThreadStepFacts
<1>6. CASE Finishes(t)
  <2> DEFINE rest == RowsOf(writeQueue[t])
  <2>1. b = f
    BY <1>1, <1>6 DEF Finishes, ReportLedger
  <2>2. /\ badRows'[t] = badRows[t] \o rest
        /\ UNCHANGED <<accepted[t], writeQueue[t], failedQueue[t]>>
    BY <1>1, <1>6 DEF Finishes
  <2>3. rest \in Seq(Nat) /\ badRows[t] \in Seq(Nat) /\ Len(rest) = r
    BY QueueOfThread, RowsOfFacts DEF TypeOK, BlockShape, HistoryTypeOK, Rows
  <2>4. Len(badRows'[t]) = b + r
    BY <2>2, <2>3, ConcatFacts
  <2>5. Told(t)' = a - r - f + (b + r)
    BY <2>2, <2>4 DEF RowsGone
  <2> HIDE DEF a, r, f, b
  <2>6. a - r - f + (b + r) = a
    BY <1>2, <2>1
  <2>7. QED
    BY <2>2, <2>5, <2>6 DEF a
<1>7. CASE TakesRow(t)
  <2>1. PICK c \in Callers : InsertThreadWrite(c)
    BY <1>7 DEF TakesRow
  <2>2. callPc[c] = "append" /\ pc[t] = "done"
    BY <1>1, <1>7, <2>1 DEF TakesRow, InsertThreadWrite
  <2>3. errorInfo = "server"
    BY <1>1, <2>2, NoInsertAfterEnd DEF LockDiscipline, SingleOwner
  <2>4. errorInfo' = "server"
    BY <2>3, ErrorStays DEF ErrorLatched
  <2>5. ASSUME NEW d \in Callers PROVE callPc'[d] # "append"
    <3>1. callPc' = [callPc EXCEPT ![c] = "signal"] /\ callPc \in [Callers -> CallLabels]
      BY <2>1 DEF InsertThreadWrite, TypeOK, CallerTypeOK
    <3>2. callPc[d] = "append" => d = c
      BY <1>1, <2>2 DEF LockDiscipline, CallLocks
    <3>3. QED
      BY <3>1, <3>2
  <2>6. a = a - r - f + b
    BY <1>4, <2>2
  <2>7. /\ accepted'[t] = a + 1 /\ QueueRows(writeQueue'[t]) = r + 1
        /\ UNCHANGED <<failedQueue[t], badRows[t]>>
    BY <1>7, QueueCounts DEF TakesRow
  <2>8. Told(t)' = (a + 1) - (r + 1) - f + b
    BY <2>7 DEF RowsGone
  <2> HIDE DEF a, r, f, b
  <2>9. (a + 1) - (r + 1) - f + b = a
    BY <1>2, <2>6
  <2>10. QED
    BY <2>4, <2>5, <2>7, <2>8, <2>9
<1>8. CASE Stays(t)
  <2>1. pc[t] = "done"
    BY <1>1, <1>8 DEF Stays
  <2>2. Told(t)' = a - r - f + b /\ accepted'[t] = a
    BY <1>8 DEF Stays, RowsGone
  <2>3. errorInfo = "server" => errorInfo' = "server" /\ hasError
    BY ErrorStays DEF ErrorLatched
  <2>4. errorInfo = "server" /\ (\A c \in Callers : callPc[c] # "append")
          => \A c \in Callers : callPc'[c] # "append"
    BY <1>1, <2>3, NoNewInsert
  <2> HIDE DEF a, r, f, b
  <2>5. QED
    BY <1>4, <2>1, <2>2, <2>3, <2>4
<1>9. QED
  BY <1>1, <1>5, <1>6, <1>7, <1>8
     DEF ThreadStep, GivesFailed, GivesQueue, Pops, Calls, Writes, Fails, SetsError

-----------------------------------------------------------------------------
LEMMA ReportInit == Init => ReportInv
<1> SUFFICES ASSUME Init PROVE ReportInv
  OBVIOUS
<1>1. Len(<<>>) = 0 /\ Range(<<>>) = {} /\ 0 <= PerBlock + 1
  BY Capacity DEF Range
<1>2. QueueRows(EmptyQueue) = 0
  BY EmptyQueueFacts
<1>3. FailsOnce
  BY <1>1 DEF Init, FailsOnce
<1>4. ReportLedger
  BY <1>1, <1>2 DEF Init, ReportLedger, Consecutive, RowsGone
<1>5. InsertsOneRow /\ LateRow
  BY DEF Init, InsertsOneRow, LateRow
<1>6. QED
  BY <1>3, <1>4, <1>5 DEF ReportInv

LEMMA ReportNext ==
  ASSUME WriterInv, CompletionInv, CopyWithoutCallback, ReportInv, [Next]_vars
  PROVE  ReportInv'
<1>1. /\ TypeOK /\ BlockShape /\ LockDiscipline /\ RowOrder
      /\ ErrorLatched /\ CompletionExcludes /\ EndsForExit
      /\ FailsOnce /\ ReportLedger /\ InsertsOneRow /\ LateRow
  BY DEF WriterInv, CompletionInv, ReportInv
<1>2. FailsOnce' /\ ReportLedger'
  BY <1>1, FailsOnceNext, ReportLedgerNext
<1>3. InsertsOneRow' /\ LateRow'
  BY <1>1, InsertsOneRowNext, LateRowNext
<1>4. QED
  BY <1>2, <1>3 DEF ReportInv

(* The inductive invariant of the reports: what the callback was told, and   *)
(* which rows of a thread nobody has told it of yet.                        *)
THEOREM ReportInvCorrect == Spec => []ReportInv
<1>1. WriterInv /\ (CompletionInv /\ CopyWithoutCallback) /\ ReportInv /\ [Next]_vars
        => ReportInv'
  BY ReportNext
<1>2. QED
  BY <1>1, ReportInit, InvCorrect, CompletionInvCorrect, PTL DEF Spec

-----------------------------------------------------------------------------
(* The rows of a thread that count twice: none, or the last ones gone from  *)
(* its queue.                                                               *)

LEMMA TwiceFacts ==
  ASSUME TypeOK, BlockShape, RowOrder, FailsOnce, ReportLedger, WithCallback,
         NEW t \in Threads
  PROVE  LET gone == RowsGone(t)
             failed == Len(failedQueue[t])
             block == Len(items[t])
             twice == failed + block
         IN /\ gone \in Int /\ failed \in Nat /\ block \in Nat
            /\ twice <= PerBlock + 1
            /\ \/ Len(okRows[t]) = gone - twice /\ CountedTwice(t) = {}
               \/ /\ Len(okRows[t]) = gone /\ twice > 0 /\ twice <= gone
                  /\ CountedTwice(t) = gone - twice + 1 .. gone
<1> DEFINE gone == RowsGone(t)
           failed == Len(failedQueue[t])
           block == Len(items[t])
           twice == failed + block
           written == Len(okRows[t])
<1>1. /\ failedQueue[t] \in Seq(Nat) /\ items[t] \in Seq(Nat) /\ okRows[t] \in Seq(Nat)
      /\ accepted[t] \in Nat
  BY DEF TypeOK, QueueTypeOK, HistoryTypeOK, Rows
<1>2. gone \in Int /\ failed \in Nat /\ block \in Nat /\ written \in Nat
  BY <1>1, QueueCounts DEF RowsGone
<1>3. /\ Consecutive(okRows[t], 0)
      /\ Consecutive(failedQueue[t], gone - failed)
      /\ Consecutive(items[t], gone - block)
  BY DEF ReportLedger, RowOrder, Consecutive
<1>4. /\ Range(okRows[t]) = 1 .. written
      /\ Range(failedQueue[t]) = gone - failed + 1 .. gone
      /\ Range(items[t]) = gone - block + 1 .. gone
  <2>1. gone - failed \in Int /\ gone - block \in Int
        /\ gone - failed + failed = gone /\ gone - block + block = gone
    <3> HIDE DEF gone, failed, block
    <3>1. QED
      BY <1>2
  <2>2. Range(okRows[t]) = 1 .. written
    BY <1>1, <1>3, ConsecutiveRange
  <2>3. Range(failedQueue[t]) = gone - failed + 1 .. gone - failed + failed
    BY <1>1, <1>3, <2>1, ConsecutiveRange
  <2>4. Range(items[t]) = gone - block + 1 .. gone - block + block
    BY <1>1, <1>3, <2>1, ConsecutiveRange
  <2> HIDE DEF gone, failed, block, written
  <2>5. QED
    BY <1>2, <2>1, <2>2, <2>3, <2>4
<1>5. Range(okRows[t]) \subseteq Range(stored[t])
  BY DEF ReportLedger
<1>6. /\ \/ written = gone - failed - block
         \/ /\ written = gone /\ failed + block <= written
            /\ failed > 0 \/ pc[t] = "failed"
      /\ pc[t] \in {"send", "ok", "failed"} <=> items[t] # <<>>
      /\ failedQueue[t] # <<>> => pc[t] \notin {"send", "ok", "failed"}
      /\ failed <= PerBlock + 1 /\ block <= PerBlock + 1
  BY DEF ReportLedger, FailsOnce
<1>7. (failed = 0 <=> failedQueue[t] = <<>>) /\ (block = 0 <=> items[t] = <<>>)
  BY <1>1
<1>8. CountedTwice(t) = (1 .. written) \cap ((gone - failed + 1 .. gone) \cup (gone - block + 1 .. gone))
  BY <1>4, <1>5 DEF CountedTwice
<1> HIDE DEF gone, failed, block, written
<1>9. failed = 0 \/ block = 0
  BY <1>6, <1>7
<1>10. twice <= PerBlock + 1
  BY <1>2, <1>6, <1>9, Capacity
<1>11. CASE written = gone - failed - block
  <2>1. written = gone - twice
    BY <1>2, <1>11
  <2>2. CountedTwice(t) = {}
    BY <1>2, <1>8, <1>11
  <2>3. QED
    BY <1>2, <1>10, <2>1, <2>2 DEF gone, failed, block, written
<1>12. CASE written # gone - failed - block
  <2>1. written = gone /\ twice <= gone
    BY <1>6, <1>12
  <2>2. twice > 0
    BY <1>2, <1>6, <1>7, <1>12
  <2>3. CountedTwice(t) = gone - twice + 1 .. gone
    BY <1>2, <1>8, <1>9, <2>1
  <2>4. QED
    BY <1>2, <1>10, <2>1, <2>2, <2>3 DEF gone, failed, block, written
<1>13. QED
  BY <1>11, <1>12

LEMMA DoubleCountImplies ==
  ASSUME WriterInv, ReportInv PROVE DoubleCountIsOneBlock
<1> SUFFICES ASSUME WithCallback, NEW t \in Threads
    PROVE  /\ sentRows[t] + Len(failedQueue[t]) + Len(items[t]) + QueueRows(writeQueue[t])
                = accepted[t] + Cardinality(CountedTwice(t))
           /\ Cardinality(CountedTwice(t)) <= PerBlock + 1
  BY DEF DoubleCountIsOneBlock
<1> DEFINE gone == RowsGone(t)
           failed == Len(failedQueue[t])
           block == Len(items[t])
           twice == failed + block
           queued == QueueRows(writeQueue[t])
           number == Cardinality(CountedTwice(t))
<1>1. TypeOK /\ BlockShape /\ RowOrder /\ FailsOnce /\ ReportLedger
  BY DEF WriterInv, ReportInv
<1>2. /\ gone \in Int /\ failed \in Nat /\ block \in Nat /\ twice <= PerBlock + 1
      /\ \/ Len(okRows[t]) = gone - twice /\ CountedTwice(t) = {}
         \/ /\ Len(okRows[t]) = gone /\ twice > 0 /\ twice <= gone
            /\ CountedTwice(t) = gone - twice + 1 .. gone
  BY <1>1, TwiceFacts
<1>3. /\ sentRows[t] = Len(okRows[t]) /\ queued \in Nat /\ accepted[t] \in Nat
      /\ gone = accepted[t] - queued
  BY <1>1, QueueCounts DEF ReportLedger, TypeOK, HistoryTypeOK, RowsGone
<1> HIDE DEF gone, failed, block, queued
<1>4. \/ Len(okRows[t]) = gone - twice /\ number = 0
      \/ Len(okRows[t]) = gone /\ number = twice
  <2>1. Cardinality({}) = 0
    BY FS_EmptySet
  <2>2. Cardinality(gone - twice + 1 .. gone)
          = IF gone - twice + 1 > gone THEN 0 ELSE gone - (gone - twice + 1) + 1
    <3>1. gone - twice + 1 \in Int
      BY <1>2
    <3>2. QED
      BY <1>2, <3>1, FS_Interval
  <2>3. twice > 0 => Cardinality(gone - twice + 1 .. gone) = twice
    BY <1>2, <2>2
  <2>4. QED
    BY <1>2, <2>1, <2>3
<1> HIDE DEF number
<1>5. number <= PerBlock + 1
  BY <1>2, <1>4, Capacity
<1>6. sentRows[t] + failed + block + queued = accepted[t] + number
  BY SMTT(30), <1>2, <1>3, <1>4
<1>7. QED
  BY <1>5, <1>6 DEF failed, block, queued, number

(* When callbackFunc_ throws on a success, the rows that count as written   *)
(* and as failed are those of one block of the thread at most.              *)
THEOREM DoubleCountCorrect == Spec => []DoubleCountIsOneBlock
<1>1. WriterInv /\ ReportInv => DoubleCountIsOneBlock
  BY DoubleCountImplies
<1>2. QED
  BY <1>1, InvCorrect, ReportInvCorrect, PTL

-----------------------------------------------------------------------------
LEMMA ReportedImplies ==
  ASSUME WriterInv, ReportInv PROVE ReportedOnce
<1> DEFINE told(t) == okRows[t] \o badRows[t]
<1> SUFFICES ASSUME WithCallback, NEW t \in Threads
    PROVE  /\ CountedTwice(t) = {} => IsInjective(told(t))
           /\ pc[t] = "done" /\ BulkCallers = {} =>
                LET missing == accepted[t] - Cardinality(Range(told(t)))
                IN missing = 0 \/ (missing = 1 /\ errorInfo = "server")
  BY DEF ReportedOnce
<1> DEFINE gone == RowsGone(t)
           failed == Len(failedQueue[t])
           block == Len(items[t])
           ok == okRows[t]
           bad == badRows[t]
<1>1. TypeOK /\ BlockShape /\ RowOrder /\ FailsOnce /\ ReportLedger /\ LateRow
  BY DEF WriterInv, ReportInv
<1>2. /\ gone \in Int /\ failed \in Nat /\ block \in Nat
      /\ \/ Len(ok) = gone - (failed + block) /\ CountedTwice(t) = {}
         \/ /\ Len(ok) = gone /\ failed + block > 0 /\ failed + block <= gone
            /\ CountedTwice(t) = gone - (failed + block) + 1 .. gone
  BY <1>1, TwiceFacts
<1>3. ok \in Seq(Nat) /\ bad \in Seq(Nat) /\ accepted[t] \in Nat
  BY <1>1 DEF TypeOK, HistoryTypeOK, Rows
<1>4. /\ Consecutive(ok, 0) /\ Consecutive(bad, gone - failed)
      /\ failed <= Len(bad)
      /\ pc[t] # "done" => Len(bad) = failed
  BY <1>1 DEF ReportLedger
<1>5. /\ failed = 0 \/ block = 0
      /\ pc[t] = "done" => block = 0
      /\ block # 0 => pc[t] # "done"
  <2>1. /\ pc[t] \in {"send", "ok", "failed"} <=> items[t] # <<>>
        /\ failedQueue[t] # <<>> => pc[t] \notin {"send", "ok", "failed"}
    BY <1>1 DEF FailsOnce
  <2>2. failedQueue[t] = <<>> => failed = 0
    OBVIOUS
  <2>3. items[t] = <<>> => block = 0
    OBVIOUS
  <2> HIDE DEF failed, block
  <2>4. QED
    BY <2>1, <2>2, <2>3
<1>6. Len(ok) \in Nat /\ Len(bad) \in Nat
  BY <1>3
<1> HIDE DEF gone, failed, block, ok, bad
<1> DEFINE Told == /\ CountedTwice(t) = {} => IsInjective(ok \o bad)
                   /\ pc[t] = "done" => Range(ok \o bad) = 1 .. gone - failed + Len(bad)
<1>7. ASSUME Len(ok) = gone - (failed + block), CountedTwice(t) = {}
      PROVE  Told
  <2>1. Consecutive(ok \o bad, 0)
    <3>1. CASE Len(bad) = 0
      <4>1. Consecutive(bad, 0 + Len(ok))
        BY <3>1 DEF Consecutive
      <4>2. QED
        BY <1>3, <1>4, <4>1, ConsecutiveConcat
    <3>2. CASE Len(bad) # 0
      <4>1. block = 0
        BY <1>2, <1>4, <1>5, <3>2
      <4>2. 0 + Len(ok) = gone - failed
        BY <1>2, <1>6, <1>7, <4>1
      <4>3. QED
        BY <1>3, <1>4, <4>2, ConsecutiveConcat
    <3>3. QED
      BY <3>1, <3>2
  <2>2. IsInjective(ok \o bad) /\ Range(ok \o bad) = 1 .. Len(ok) + Len(bad)
    <3>1. ok \o bad \in Seq(Nat) /\ Len(ok \o bad) = Len(ok) + Len(bad)
      BY <1>3, ConcatFacts
    <3>2. IsInjective(ok \o bad) /\ Range(ok \o bad) = 1 .. Len(ok \o bad)
      <4> DEFINE both == ok \o bad
      <4>1. both \in Seq(Nat) /\ Consecutive(both, 0)
        BY <2>1, <3>1
      <4> HIDE DEF both
      <4>2. IsInjective(both) /\ Range(both) = 1 .. Len(both)
        BY <4>1, ConsecutiveRange
      <4>3. QED
        BY <4>2 DEF both
    <3>3. QED
      BY <3>1, <3>2
  <2>3. ASSUME pc[t] = "done"
        PROVE  Range(ok \o bad) = 1 .. gone - failed + Len(bad)
    <3>1. Len(ok) + Len(bad) = gone - failed + Len(bad)
      BY <1>2, <1>5, <1>6, <1>7, <2>3
    <3>2. QED
      BY <2>2, <3>1
  <2>4. QED
    BY <2>2, <2>3
<1>8. ASSUME Len(ok) = gone, failed + block > 0, failed + block <= gone,
             CountedTwice(t) = gone - (failed + block) + 1 .. gone
      PROVE  Told
  <2>1. gone \in CountedTwice(t)
    BY <1>2, <1>8
  <2>2. ASSUME pc[t] = "done"
        PROVE  Range(ok \o bad) = 1 .. gone - failed + Len(bad)
    <3>1. Range(ok) = 1 .. gone
      BY <1>8, <1>3, <1>4, ConsecutiveRange
    <3>2. Range(bad) = gone - failed + 1 .. gone - failed + Len(bad)
      <4>1. gone - failed \in Int
        BY <1>2
      <4>2. QED
        BY <1>3, <1>4, <4>1, ConsecutiveRange
    <3>3. failed <= gone
      BY <1>2, <1>8
    <3>4. Range(ok \o bad) = Range(ok) \cup Range(bad)
      BY <1>3, ConcatRange
    <3>5. (1 .. gone) \cup (gone - failed + 1 .. gone - failed + Len(bad))
            = 1 .. gone - failed + Len(bad)
      <4> DEFINE size == Len(bad)
                 last == gone - failed + size
      <4>1. size \in Nat /\ failed <= size
        BY <1>4, <1>6
      <4> HIDE DEF size
      <4>2. gone <= last /\ last \in Int /\ gone - failed >= 0
        BY <1>2, <3>3, <4>1
      <4> HIDE DEF last
      <4>3. \A x : x \in (1 .. gone) \cup (gone - failed + 1 .. last) <=> x \in 1 .. last
        BY <1>2, <4>2
      <4>4. QED
        BY <4>3 DEF last, size
    <3>6. QED
      BY <1>2, <1>8, <3>1, <3>2, <3>4, <3>5
  <2>3. QED
    BY <2>1, <2>2
<1>9. Told
  BY <1>2, <1>7, <1>8
<1>10. ASSUME pc[t] = "done", BulkCallers = {}
       PROVE  LET missing == accepted[t] - Cardinality(Range(ok \o bad))
              IN missing = 0 \/ (missing = 1 /\ errorInfo = "server")
  <2> DEFINE last == gone - failed + Len(bad)
  <2>1. last \in Int /\ last >= 0
    BY <1>2, <1>4, <1>5, <1>6, <1>10
  <2> HIDE DEF last
  <2>2. Cardinality(1 .. last) = IF 1 > last THEN 0 ELSE last - 1 + 1
    BY <2>1, FS_Interval
  <2>3. Cardinality(1 .. last) = last
    BY <2>1, <2>2
  <2>4. Range(ok \o bad) = 1 .. last
    BY <1>9, <1>10 DEF last
  <2>5. \/ accepted[t] = last
        \/ accepted[t] = last + 1 /\ errorInfo = "server"
    BY <1>1, <1>10 DEF LateRow, LastTold, last, gone, failed, bad
  <2>6. QED
    BY <1>3, <2>1, <2>3, <2>4, <2>5
<1>11. QED
  BY <1>9, <1>10 DEF ok, bad

(* callbackFunc_ is told of no row twice unless it throws, and of every row *)
(* of a thread that has ended; one insert() that had passed its test before *)
(* another step failed may have added a row after that.                     *)
THEOREM ReportedCorrect == Spec => []ReportedOnce
<1>1. WriterInv /\ ReportInv => ReportedOnce
  BY ReportedImplies
<1>2. QED
  BY <1>1, InvCorrect, ReportInvCorrect, PTL

-----------------------------------------------------------------------------
(* Sums over the threads: whatever order a fold takes them in, the sum over *)
(* a set is the sum over the set without one thread, and that thread's.     *)

(* A sum over every subset of S, which does not depend on the order.        *)
IsSum(g, f, S) ==
  /\ g \in [SUBSET S -> Int]
  /\ g[{}] = 0
  /\ \A s \in SUBSET S : \A x \in s : g[s] = f[x] + g[s \ {x}]

LEMMA LeastSet ==
  ASSUME NEW S, IsFiniteSet(S), NEW B \in SUBSET (SUBSET S), B # {}
  PROVE  \E b \in B : \A x \in b : b \ {x} \notin B
<1>1. B \subseteq FiniteSubsetsOf(S)
  <2>1. ASSUME NEW b \in B PROVE b \in FiniteSubsetsOf(S)
    <3>1. b \subseteq S /\ IsFiniteSet(b)
      BY FS_Subset
    <3>2. QED
      BY <3>1 DEF FiniteSubsetsOf
  <2>2. QED
    BY <2>1
<1>2. PICK b \in B : \A u \in B : ~ (<<u, b>> \in StrictSubsetOrdering(S))
  BY <1>1, FS_StrictSubsetOrderingWellFounded, WFMin
<1>3. ASSUME NEW x \in b PROVE b \ {x} \notin B
  <2>1. /\ b \ {x} \in SUBSET S /\ b \in SUBSET S
        /\ b \ {x} \subseteq b /\ b \ {x} # b
    BY <1>3
  <2>2. <<b \ {x}, b>> \in StrictSubsetOrdering(S)
    BY <2>1 DEF StrictSubsetOrdering
  <2>3. QED
    BY <1>2, <2>2
<1>4. QED
  BY <1>3

LEMMA SumExists ==
  ASSUME NEW S, IsFiniteSet(S), NEW f \in [S -> Int]
  PROVE  \E g : IsSum(g, f, S)
<1> DEFINE B == {T \in SUBSET S : ~ \E g : IsSum(g, f, T)}
<1>1. SUFFICES ASSUME B # {} PROVE FALSE
  <2>1. S \notin B
    BY <1>1
  <2>2. QED
    BY <2>1
<1>2. PICK T \in B : \A x \in T : T \ {x} \notin B
  <2> HIDE DEF B
  <2>1. B \in SUBSET (SUBSET S)
    BY DEF B
  <2>2. QED
    BY <1>1, <2>1, LeastSet
<1>3. T \in SUBSET S /\ ~ \E g : IsSum(g, f, T)
  OBVIOUS
<1>4. CASE T = {}
  <2>1. IsSum([s \in SUBSET T |-> 0], f, T)
    BY <1>4 DEF IsSum
  <2>2. QED
    BY <1>3, <2>1
<1>5. CASE T # {}
  <2>1. PICK y \in T : TRUE
    BY <1>5
  <2>2. PICK h : IsSum(h, f, T \ {y})
    <3>1. T \ {y} \in SUBSET S
      BY <1>3
    <3>2. QED
      BY <1>2, <2>1, <3>1
  <2> DEFINE U == T \ {y}
             g == [s \in SUBSET T |-> IF y \in s THEN f[y] + h[s \ {y}] ELSE h[s]]
  <2>3. f[y] \in Int /\ \A x \in T : f[x] \in Int
    BY <1>3
  <2>4. \A s \in SUBSET T : s \ {y} \in SUBSET U /\ (y \notin s => s \in SUBSET U)
    OBVIOUS
  <2>5. /\ \A s \in SUBSET U : h[s] \in Int
        /\ h[{}] = 0
        /\ \A s \in SUBSET U : \A x \in s : h[s] = f[x] + h[s \ {x}]
    BY <2>2 DEF IsSum
  <2> HIDE DEF U
  <2>6. g \in [SUBSET T -> Int]
    <3>1. ASSUME NEW s \in SUBSET T PROVE (IF y \in s THEN f[y] + h[s \ {y}] ELSE h[s]) \in Int
      <4>1. h[s \ {y}] \in Int
        BY <2>4, <2>5
      <4>2. y \notin s => h[s] \in Int
        BY <2>4, <2>5
      <4>3. QED
        BY <2>3, <4>1, <4>2
    <3>2. QED
      BY <3>1
  <2>7. \A s \in SUBSET T : g[s] = IF y \in s THEN f[y] + h[s \ {y}] ELSE h[s]
    OBVIOUS
  <2> HIDE DEF g
  <2>8. g[{}] = 0
    BY <2>5, <2>7
  <2>9. ASSUME NEW s \in SUBSET T, NEW x \in s PROVE g[s] = f[x] + g[s \ {x}]
    <3>1. s \ {x} \in SUBSET T /\ x \in T
      BY <2>9
    <3>2. CASE x = y
      <4>1. g[s] = f[y] + h[s \ {y}]
        BY <2>7, <2>9, <3>2
      <4>2. g[s \ {y}] = h[s \ {y}]
        BY <2>7, <3>1, <3>2
      <4>3. QED
        BY <3>2, <4>1, <4>2
    <3>3. CASE x # y /\ y \notin s
      <4>1. g[s] = h[s] /\ g[s \ {x}] = h[s \ {x}]
        BY <2>7, <3>1, <3>3
      <4>2. s \in SUBSET U
        BY <2>4, <3>3
      <4>3. QED
        BY <2>5, <2>9, <4>1, <4>2
    <3>4. CASE x # y /\ y \in s
      <4>1. PICK r : r = s \ {y}
        OBVIOUS
      <4>2. g[s] = f[y] + h[r]
        BY <2>7, <3>4, <4>1
      <4>3. g[s \ {x}] = f[y] + h[(s \ {x}) \ {y}]
        BY <2>7, <3>1, <3>4
      <4>4. (s \ {x}) \ {y} = r \ {x}
        BY <4>1
      <4>5. r \in SUBSET U /\ x \in r
        BY <2>4, <2>9, <3>4, <4>1
      <4>6. h[r] = f[x] + h[r \ {x}]
        BY <2>5, <4>5
      <4>7. r \ {x} \in SUBSET U
        BY <4>5
      <4>8. h[r \ {x}] \in Int /\ f[x] \in Int
        BY <2>3, <2>5, <3>1, <4>7
      <4>9. g[s \ {x}] = f[y] + h[r \ {x}]
        BY <4>3, <4>4
      <4>10. QED
        BY <2>3, <4>2, <4>6, <4>8, <4>9
    <3>5. QED
      BY <3>2, <3>3, <3>4
  <2>10. IsSum(g, f, T)
    BY <2>6, <2>8, <2>9 DEF IsSum
  <2>11. QED
    BY <1>3, <2>10
<1>6. QED
  BY <1>4, <1>5

(* The fold that sums f over T picks the indices in some order.             *)
LEMMA FoldIsSum ==
  ASSUME NEW S, IsFiniteSet(S), NEW f \in [S -> Int], NEW g, IsSum(g, f, S),
         NEW T \in SUBSET S
  PROVE  SumFunctionOnSet(f, T) = g[T]
<1> DEFINE pick(s) == CHOOSE x \in s : TRUE
           Folds(h) == h = [s \in SUBSET T |->
                              IF s = {} THEN 0 ELSE f[pick(s)] + h[s \ {pick(s)}]]
           fold == CHOOSE h : Folds(h)
<1>1. SumFunctionOnSet(f, T) = fold[T]
  BY DEF SumFunctionOnSet, FoldFunctionOnSet, MapThenFoldSet
<1>2. \A s \in SUBSET T : s # {} => pick(s) \in s
  OBVIOUS
<1>3. /\ g[{}] = 0
      /\ \A s \in SUBSET T : \A x \in s : g[s] = f[x] + g[s \ {x}]
  BY DEF IsSum
<1>4. Folds([s \in SUBSET T |-> g[s]])
  <2> HIDE DEF pick
  <2>1. ASSUME NEW s \in SUBSET T
        PROVE  g[s] = IF s = {} THEN 0
                      ELSE f[pick(s)] + [u \in SUBSET T |-> g[u]][s \ {pick(s)}]
    <3>1. s \ {pick(s)} \in SUBSET T
      OBVIOUS
    <3>2. s # {} => g[s] = f[pick(s)] + g[s \ {pick(s)}]
      BY <1>2, <1>3
    <3>3. QED
      BY <1>3, <3>1, <3>2
  <2>2. QED
    BY <2>1
<1>5. Folds(fold)
  <2> HIDE DEF Folds
  <2>1. QED
    BY <1>4
<1> HIDE DEF fold
<1>6. \A s \in SUBSET T : fold[s] = IF s = {} THEN 0 ELSE f[pick(s)] + fold[s \ {pick(s)}]
  BY <1>5
<1> HIDE DEF pick
<1> DEFINE B == {s \in SUBSET T : fold[s] # g[s]}
<1>7. B = {}
  <2>1. SUFFICES ASSUME B # {} PROVE FALSE
    OBVIOUS
  <2>2. B \in SUBSET (SUBSET S)
    OBVIOUS
  <2>3. PICK b \in B : \A x \in b : b \ {x} \notin B
    <3> HIDE DEF B
    <3>1. QED
      BY <2>1, <2>2, LeastSet
  <2>4. b \in SUBSET T /\ fold[b] # g[b]
    OBVIOUS
  <2>5. b # {}
    BY <1>3, <1>6, <2>4
  <2>6. pick(b) \in b /\ b \ {pick(b)} \in SUBSET T
    BY <1>2, <2>4, <2>5
  <2>7. fold[b \ {pick(b)}] = g[b \ {pick(b)}]
    BY <2>3, <2>6
  <2>8. QED
    BY <1>3, <1>6, <2>4, <2>5, <2>6, <2>7
<1>8. QED
  BY <1>1, <1>7

LEMMA SumOfNone ==
  ASSUME NEW S, IsFiniteSet(S), NEW f \in [S -> Int]
  PROVE  SumFunctionOnSet(f, {}) = 0
<1>1. PICK g : IsSum(g, f, S)
  BY SumExists
<1>2. SumFunctionOnSet(f, {}) = g[{}]
  <2>1. {} \in SUBSET S
    OBVIOUS
  <2>2. QED
    BY <1>1, <2>1, FoldIsSum
<1>3. QED
  BY <1>1, <1>2 DEF IsSum

LEMMA SumStep ==
  ASSUME NEW S, IsFiniteSet(S), NEW f \in [S -> Int], NEW T \in SUBSET S, NEW x \in T
  PROVE  SumFunctionOnSet(f, T) = f[x] + SumFunctionOnSet(f, T \ {x})
<1>1. PICK g : IsSum(g, f, S)
  BY SumExists
<1>2. T \ {x} \in SUBSET S
  OBVIOUS
<1>3. SumFunctionOnSet(f, T) = g[T] /\ SumFunctionOnSet(f, T \ {x}) = g[T \ {x}]
  BY <1>1, <1>2, FoldIsSum
<1>4. QED
  BY <1>1, <1>3 DEF IsSum

(* What getStatus() adds up, one thread after the other.                    *)
LEMMA SumBeforeFacts ==
  ASSUME NEW f \in [Threads -> Nat]
  PROVE  /\ SumBefore(f, 0) = 0
         /\ \A k \in Threads : SumBefore(f, k + 1) = f[k] + SumBefore(f, k)
         /\ \A k \in 0 .. ThreadCount : SumBefore(f, k) \in Int
         /\ SumBefore(f, ThreadCount) = SumFunction(f)
<1>1. ThreadCount \in Nat /\ IsFiniteSet(Threads) /\ f \in [Threads -> Int]
  <2>1. ThreadCount \in Nat /\ ThreadCount - 1 \in Int
    BY ThreadAssumption
  <2>2. IsFiniteSet(0 .. ThreadCount - 1)
    BY <2>1, FS_Interval
  <2>3. QED
    BY <2>1, <2>2 DEF Threads
<1>2. \A k \in Threads : /\ k \in Nat /\ k < ThreadCount
                         /\ 0 .. k \in SUBSET Threads /\ k \in 0 .. k
                         /\ (0 .. k) \ {k} = 0 .. k - 1
  <2>1. ASSUME NEW k \in Threads PROVE k \in Nat /\ k < ThreadCount
    BY <1>1 DEF Threads
  <2>2. ASSUME NEW k \in Threads PROVE 0 .. k \in SUBSET Threads
    BY <1>1, <2>1 DEF Threads
  <2>3. ASSUME NEW k \in Threads PROVE k \in 0 .. k /\ (0 .. k) \ {k} = 0 .. k - 1
    BY <2>1
  <2>4. QED
    BY <2>1, <2>2, <2>3
<1>3. 0 .. 0 - 1 = {}
  OBVIOUS
<1>4. SumBefore(f, 0) = 0
  BY <1>1, <1>3, SumOfNone DEF SumBefore
<1>5. ASSUME NEW k \in Threads PROVE SumBefore(f, k + 1) = f[k] + SumBefore(f, k)
  <2>1. PICK T \in SUBSET Threads : T = 0 .. k
    BY <1>2
  <2>2. k \in T /\ T \ {k} = 0 .. k - 1
    BY <1>2, <2>1
  <2>3. SumFunctionOnSet(f, T) = f[k] + SumFunctionOnSet(f, T \ {k})
    BY <1>1, <2>2, SumStep
  <2>4. PICK j : j = k + 1
    OBVIOUS
  <2>5. SumBefore(f, j) = SumFunctionOnSet(f, T)
    <3>1. 0 .. j - 1 = T
      BY <1>2, <2>1, <2>4
    <3>2. QED
      BY <3>1 DEF SumBefore
  <2>6. SumBefore(f, k) = SumFunctionOnSet(f, T \ {k})
    BY <2>2 DEF SumBefore
  <2>7. QED
    BY <2>3, <2>4, <2>5, <2>6
<1>6. ASSUME NEW k \in 0 .. ThreadCount PROVE SumBefore(f, k) \in Int
  <2>1. PICK g : IsSum(g, f, Threads)
    BY <1>1, SumExists
  <2>2. 0 .. k - 1 \in SUBSET Threads
    BY <1>1 DEF Threads
  <2>3. SumBefore(f, k) = g[0 .. k - 1]
    BY <1>1, <2>1, <2>2, FoldIsSum DEF SumBefore
  <2>4. QED
    BY <2>1, <2>2, <2>3 DEF IsSum
<1>7. SumBefore(f, ThreadCount) = SumFunction(f)
  <2>1. DOMAIN f = 0 .. ThreadCount - 1
    BY DEF Threads
  <2>2. QED
    BY <2>1 DEF SumFunction, SumBefore
<1>8. QED
  BY <1>4, <1>5, <1>6, <1>7

-----------------------------------------------------------------------------
(* getStatus() adds up the threads one after the other.                     *)

(* The row that unsentRows falls short by for every block after the first.  *)
LEMMA CountedFacts ==
  ASSUME NEW q \in Queues
  PROVE  CountedRows(q) + Len(q) - 1 = QueueRows(q)
<1>1. Len(q) \in Nat \ {0} /\ Len(Back(q)) \in Nat
  BY QueueFacts
<1>2. PICK n : n = Len(q) - 1
  OBVIOUS
<1>3. n \in Nat
  BY <1>1, <1>2
<1>4. n * (PerBlock + 1) = n * PerBlock + n /\ n * PerBlock \in Nat
  BY <1>3, Capacity, NatProduct
<1>5. CountedRows(q) = n * PerBlock + Len(Back(q))
  BY <1>2 DEF CountedRows
<1>6. QueueRows(q) = n * (PerBlock + 1) + Len(Back(q))
  BY <1>2 DEF QueueRows, BlockStart
<1>7. PICK p \in Nat : p = n * PerBlock
  BY <1>4
<1>8. QED
  BY <1>1, <1>2, <1>3, <1>4, <1>5, <1>6, <1>7

(* Under mutex_ no row of the thread is in flight: those accepted and not   *)
(* handed back are sent, failed or queued.                                  *)
LEMMA ThreadAdds ==
  ASSUME WriterInv, ReportInv, BulkCallers = {}, NEW t \in Threads,
         mutex[t] = Nobody, WithCallback => CountedTwice(t) = {}
  PROVE  accepted[t] - handed[t]
           = sentRows[t] + Len(failedQueue[t]) + QueueRows(writeQueue[t])
<1>1. TypeOK /\ BlockShape /\ LockDiscipline /\ RowAccounting /\ FailsOnce
  BY DEF WriterInv, ReportInv
<1>2. SingleOwner
  BY DEF SingleOwner
<1>3. items[t] = <<>>
  <2>1. mutex[t] # t
    BY ThreadsFacts
  <2>2. QED
    BY <1>1, <2>1 DEF LockDiscipline, FlightLocks
<1>4. /\ accepted[t] \in Nat /\ handed[t] \in Nat /\ sentRows[t] \in Nat
      /\ Len(failedQueue[t]) \in Nat /\ Len(items[t]) = 0
      /\ QueueRows(writeQueue[t]) \in Nat
  <2>1. accepted[t] \in Nat /\ handed[t] \in Nat
    BY <1>1 DEF TypeOK, HistoryTypeOK
  <2>2. sentRows[t] \in Nat
    BY <1>1 DEF TypeOK, ControlTypeOK
  <2>3. failedQueue[t] \in Seq(Rows)
    BY <1>1 DEF TypeOK, QueueTypeOK
  <2>4. QueueRows(writeQueue[t]) \in Nat
    BY <1>1, QueueCounts
  <2>5. QED
    BY <1>3, <2>1, <2>2, <2>3, <2>4
<1>5. CASE WithCallback
  <2>1. handed[t] = 0
    BY <1>1, <1>5 DEF FailsOnce
  <2>2. sentRows[t] + Len(failedQueue[t]) + Len(items[t]) + QueueRows(writeQueue[t])
          = accepted[t] + Cardinality(CountedTwice(t))
    BY <1>2, <1>5, DoubleCountImplies DEF DoubleCountIsOneBlock
  <2>3. Cardinality(CountedTwice(t)) = 0
    BY <1>5, FS_EmptySet
  <2>4. QED
    BY <1>4, <2>1, <2>2, <2>3
<1>6. CASE ~WithCallback
  <2>1. accepted[t] = sentRows[t] + Len(failedQueue[t]) + Len(items[t])
                      + handed[t] + QueueRows(writeQueue[t])
    BY <1>1, <1>2, <1>6 DEF RowAccounting
  <2>2. QED
    BY <1>4, <2>1
<1>7. QED
  BY <1>5, <1>6

(* A row that counts twice goes on doing so.                                *)
LEMMA TwiceStays ==
  ASSUME WriterInv, ReportInv, CopyWithoutCallback, [Next]_vars, WithCallback,
         NEW t \in Threads
  PROVE  CountedTwice(t) \subseteq CountedTwice(t)'
<1>1. TypeOK /\ BlockShape /\ LockDiscipline /\ RowOrder /\ FailsOnce /\ ReportLedger
  BY DEF WriterInv, ReportInv
<1>2. ThreadStep(t)
  BY <1>1, ThreadStepFacts
<1>3. /\ okRows[t] \in Seq(Nat) /\ stored[t] \in Seq(Nat)
      /\ failedQueue[t] \in Seq(Nat) /\ items[t] \in Seq(Nat)
  BY <1>1 DEF TypeOK, QueueTypeOK, HistoryTypeOK, Rows
<1>4. Range(<<>>) = {}
  BY DEF Range
<1> DEFINE counts == Range(failedQueue[t]) \cup Range(items[t])
           counts1 == Range(failedQueue'[t]) \cup Range(items'[t])
<1>5. SUFFICES ASSUME CountedTwice(t) # {}
      PROVE  /\ Range(okRows[t]) \subseteq Range(okRows'[t])
             /\ Range(stored[t]) \subseteq Range(stored'[t])
             /\ counts \subseteq counts1
  BY DEF CountedTwice
<1>6. CASE Writes(t)
  <2>1. /\ pc[t] = "ok" /\ failedQueue[t] = <<>>
    BY <1>1, <1>6 DEF Writes, FailsOnce
  <2>2. Len(okRows[t]) = RowsGone(t) - Len(failedQueue[t]) - Len(items[t])
    <3>1. ~(Len(failedQueue[t]) > 0) /\ pc[t] # "failed"
      BY <2>1
    <3>2. \/ Len(okRows[t]) = RowsGone(t) - Len(failedQueue[t]) - Len(items[t])
          \/ Len(failedQueue[t]) > 0 \/ pc[t] = "failed"
      BY <1>1 DEF ReportLedger
    <3>3. QED
      BY <3>1, <3>2
  <2>3. CountedTwice(t) = {}
    <3> DEFINE gone == RowsGone(t)
               failed == Len(failedQueue[t])
               block == Len(items[t])
    <3>1. /\ gone \in Int /\ failed \in Nat /\ block \in Nat
          /\ \/ CountedTwice(t) = {}
             \/ Len(okRows[t]) = gone /\ failed + block > 0
      BY <1>1, TwiceFacts
    <3>2. Len(okRows[t]) = gone - failed - block
      BY <2>2
    <3> HIDE DEF gone, failed, block
    <3>3. QED
      BY <3>1, <3>2
  <2>4. QED
    BY <1>5, <2>3
<1>7. CASE Pops(t)
  <2>1. items[t] = <<>>
    BY <1>1, <1>7 DEF Pops, FailsOnce
  <2>2. QED
    BY <1>4, <1>7, <2>1 DEF Pops
<1>8. CASE Calls(t)
  BY <1>3, <1>8, ConcatRange DEF Calls
<1>9. CASE Fails(t)
  <2>1. counts1 = counts
    BY <1>3, <1>4, <1>9, ConcatRange DEF Fails
  <2>2. QED
    BY <1>9, <2>1 DEF Fails
<1>10. CASE \/ TakesRow(t) \/ GivesFailed(t) \/ GivesQueue(t) \/ Finishes(t)
            \/ SetsError(t) \/ Stays(t)
  BY <1>10 DEF TakesRow, GivesFailed, GivesQueue, Finishes, SetsError, Stays
<1>11. QED
  BY <1>2, <1>6, <1>7, <1>8, <1>9, <1>10 DEF ThreadStep

(* While getStatus() holds insertRWLock_ no row is accepted or handed back. *)
LEMMA StatusExcludes ==
  ASSUME CallLocks, BulkCallers = {}, [Next]_vars,
         NEW d \in Callers, callPc[d] \in {"status", "statusDone"}
  PROVE  UNCHANGED <<accepted, handed>>
<1>1. insertRWLock = d
  BY LabelFacts DEF CallLocks
<1>2. ASSUME NEW c \in Callers, callPc[c] \in {"append", "copy", "clear"} PROVE FALSE
  BY <1>1, <1>2, LabelFacts DEF CallLocks
<1>3. ASSUME NEW c \in Callers, InsertStep(c) \/ CallBegin(c) \/ QueryStep(c)
      PROVE  UNCHANGED <<accepted, handed>>
  <2>1. ~InsertThreadWrite(c) /\ ~CopyUnwritten(c) /\ ~ClearUnwritten(c)
    BY <1>2 DEF InsertThreadWrite, CopyUnwritten, ClearUnwritten
  <2>2. QED
    BY <1>3, <2>1 DEF InsertStep, CallBegin, QueryStep, Insert, InsertUnwrittenData,
       SignalNonempty, GetStatus, StatusOfThread, StatusReturn, GetUnwrittenData,
       WaitForThreadCompletion, SetExit, SignalExit, JoinThread
<1>4. ASSUME NEW t \in Threads, RunStep(t) \/ WriteStep(t) \/ SpuriousWakeup(t)
      PROVE  UNCHANGED <<accepted, handed>>
  BY <1>4, WriterFrame
<1>5. QED
  BY <1>3, <1>4 DEF Next, vars

(* A step of a caller that is not one of getStatus(), or its return.        *)
OtherCall(d) ==
  /\ callPc'[d] \notin {"status", "statusDone"}
  /\ callPc'[d] = "idle" => callIndex'[d] = 0
  /\ \/ callPc[d] = "statusDone" /\ report'[d] = EmptyReport
     \/ callPc[d] \notin {"status", "statusDone"} /\ report'[d] = report[d]

LEMMA StatusSteps ==
  ASSUME TypeOK, StatusStart, [Next]_vars, NEW d \in Callers
  PROVE  \/ GetStatus(d) \/ StatusOfThread(d) \/ OtherCall(d)
         \/ UNCHANGED <<callPc[d], callIndex[d], report[d]>>
<1>a. /\ callPc \in [Callers -> CallLabels] /\ callIndex \in [Callers -> Threads]
      /\ report \in [Callers -> [sent : Nat, unsent : Nat, failed : Nat, blocks : Nat]]
  BY DEF TypeOK, CallerTypeOK
<1>1. ASSUME NEW c \in Callers, c # d, InsertStep(c) \/ CallBegin(c) \/ QueryStep(c)
      PROVE  UNCHANGED <<callPc[d], callIndex[d], report[d]>>
  <2>1. CASE InsertStep(c)
    BY <1>a, <1>1, <2>1 DEF InsertStep, Insert, InsertUnwrittenData,
       InsertThreadWrite, SignalNonempty, RouteRow
  <2>2. CASE CallBegin(c)
    BY <1>a, <1>1, <2>2 DEF CallBegin, GetStatus, GetUnwrittenData, WaitForThreadCompletion
  <2>3. CASE StatusOfThread(c) \/ StatusReturn(c)
    BY <1>a, <1>1, <2>3 DEF StatusOfThread, StatusReturn
  <2>4. CASE CopyUnwritten(c) \/ ClearUnwritten(c)
    BY <1>a, <1>1, <2>4 DEF CopyUnwritten, ClearUnwritten
  <2>5. CASE SetExit(c) \/ SignalExit(c) \/ JoinThread(c)
    BY <1>a, <1>1, <2>5 DEF SetExit, SignalExit, JoinThread
  <2>6. QED
    BY <1>1, <2>1, <2>2, <2>3, <2>4, <2>5 DEF QueryStep
<1>2. ASSUME InsertStep(d) PROVE OtherCall(d)
  <2>1. CASE Insert(d) \/ InsertUnwrittenData(d)
    BY <1>a, <2>1 DEF Insert, InsertUnwrittenData, OtherCall
  <2>2. CASE InsertThreadWrite(d) \/ SignalNonempty(d)
    BY <1>a, <2>2 DEF InsertThreadWrite, SignalNonempty, OtherCall
  <2>3. QED
    BY <1>2, <2>1, <2>2 DEF InsertStep
<1>3. ASSUME CallBegin(d) PROVE GetStatus(d) \/ OtherCall(d)
  BY <1>a, <1>3 DEF CallBegin, GetUnwrittenData, WaitForThreadCompletion, OtherCall
<1>4. ASSUME QueryStep(d) PROVE StatusOfThread(d) \/ OtherCall(d)
  <2>1. CASE StatusReturn(d)
    <3>1. callIndex[d] = 0
      BY <2>1 DEF StatusReturn, StatusStart
    <3>2. QED
      BY <1>a, <2>1, <3>1 DEF StatusReturn, OtherCall
  <2>2. CASE CopyUnwritten(d) \/ ClearUnwritten(d)
    BY <1>a, <2>2 DEF CopyUnwritten, ClearUnwritten, OtherCall
  <2>3. CASE SetExit(d) \/ SignalExit(d) \/ JoinThread(d)
    BY <1>a, <2>3 DEF SetExit, SignalExit, JoinThread, OtherCall
  <2>4. QED
    BY <1>4, <2>1, <2>2, <2>3 DEF QueryStep
<1>5. ASSUME NEW t \in Threads, RunStep(t) \/ WriteStep(t) \/ SpuriousWakeup(t)
      PROVE  UNCHANGED <<callPc[d], callIndex[d], report[d]>>
  BY <1>5, WriterFrame
<1>6. QED
  BY <1>1, <1>2, <1>3, <1>4, <1>5 DEF Next, vars

LEMMA StatusStartNext ==
  ASSUME TypeOK, StatusStart, [Next]_vars
  PROVE  StatusStart'
<1>1. SUFFICES ASSUME NEW d \in Callers
      PROVE  /\ callPc'[d] \in {"idle", "statusDone"} => callIndex'[d] = 0
             /\ callPc'[d] \notin {"status", "statusDone"} => report'[d] = EmptyReport
  BY DEF StatusStart
<1>a. callPc \in [Callers -> CallLabels] /\ callIndex \in [Callers -> Threads]
  BY DEF TypeOK, CallerTypeOK
<1>2. CASE GetStatus(d)
  BY <1>a, <1>2 DEF GetStatus
<1>3. CASE StatusOfThread(d)
  BY <1>a, <1>3 DEF StatusOfThread
<1>4. CASE OtherCall(d)
  BY <1>4 DEF OtherCall, StatusStart
<1>5. CASE UNCHANGED <<callPc[d], callIndex[d], report[d]>>
  BY <1>5 DEF StatusStart
<1>6. QED
  BY <1>2, <1>3, <1>4, <1>5, StatusSteps

(* The sum of what one report says about the rows of the threads visited.   *)
RowsSaid(r, visited) == r.sent + r.unsent + r.failed + (r.blocks - visited)

LEMMA StatusSoFarNext ==
  ASSUME WriterInv, WriterInv', ReportInv, CopyWithoutCallback, StatusInv, [Next]_vars
  PROVE  StatusSoFar'
<1>1. SUFFICES ASSUME BulkCallers = {}, WithCallback => NoneTwice', NEW d \in Callers,
                      callPc'[d] \in {"status", "statusDone"}
      PROVE  LET visited == IF callPc'[d] = "status" THEN callIndex'[d] ELSE ThreadCount
             IN RowsSaid(report'[d], visited)
                  = SumBefore(accepted', visited) - SumBefore(handed', visited)
  BY DEF StatusSoFar, RowsSaid, SumBefore
<1>2. WithCallback => NoneTwice
  BY <1>1, TwiceStays DEF NoneTwice
<1>3. TypeOK /\ CallLocks /\ StatusStart /\ StatusSoFar
  BY DEF WriterInv, LockDiscipline, StatusInv
<1>4. /\ callPc \in [Callers -> CallLabels] /\ callIndex \in [Callers -> Threads]
      /\ report \in [Callers -> [sent : Nat, unsent : Nat, failed : Nat, blocks : Nat]]
      /\ accepted \in [Threads -> Nat] /\ handed \in [Threads -> Nat]
      /\ accepted' \in [Threads -> Nat] /\ handed' \in [Threads -> Nat]
  BY <1>3 DEF WriterInv, TypeOK, CallerTypeOK, HistoryTypeOK
<1>5. CASE GetStatus(d)
  <2>1. /\ callPc'[d] = "status" /\ callIndex'[d] = 0 /\ report'[d] = EmptyReport
    BY <1>3, <1>4, <1>5 DEF GetStatus, StatusStart
  <2>2. RowsSaid(EmptyReport, 0) = 0
    BY DEF RowsSaid, EmptyReport
  <2>3. SumBefore(accepted', 0) = 0 /\ SumBefore(handed', 0) = 0
    BY <1>4, SumBeforeFacts
  <2>4. QED
    BY <2>1, <2>2, <2>3
<1>6. CASE UNCHANGED <<callPc[d], callIndex[d], report[d]>>
  <2>1. accepted' = accepted /\ handed' = handed
    BY <1>1, <1>3, <1>6, StatusExcludes
  <2>2. QED
    BY <1>1, <1>2, <1>3, <1>6, <2>1 DEF StatusSoFar, RowsSaid
<1>7. CASE StatusOfThread(d)
  <2> DEFINE t == callIndex[d]
             q == writeQueue[t]
             r == report[d]
  <2>1. t \in Threads /\ t \in Nat /\ callPc[d] = "status" /\ mutex[t] = Nobody
    BY <1>4, <1>7, ThreadsFacts DEF StatusOfThread, MutexIsFree
  <2>2. accepted' = accepted /\ handed' = handed
    BY <1>7 DEF StatusOfThread
  <2>3. report'[d] = [sent   |-> r.sent + sentRows[t],
                      unsent |-> r.unsent + CountedRows(q),
                      failed |-> r.failed + Len(failedQueue[t]),
                      blocks |-> r.blocks + Len(q)]
    BY <1>4, <1>7 DEF StatusOfThread
  <2>4. (IF callPc'[d] = "status" THEN callIndex'[d] ELSE ThreadCount) = t + 1
    <3>1. ThreadCount \in Nat
      BY ThreadAssumption
    <3>2. QED
      BY <1>4, <1>7, <2>1, <3>1 DEF StatusOfThread
  <2>5. RowsSaid(r, t) = SumBefore(accepted, t) - SumBefore(handed, t)
    BY <1>1, <1>2, <1>3, <2>1 DEF StatusSoFar, RowsSaid
  <2>6. accepted[t] - handed[t] = sentRows[t] + Len(failedQueue[t]) + QueueRows(q)
    BY <1>1, <1>2, <2>1, ThreadAdds DEF NoneTwice
  <2>7. q \in Queues /\ CountedRows(q) + Len(q) - 1 = QueueRows(q)
    BY <1>3, <2>1, QueueOfThread, CountedFacts DEF TypeOK
  <2>8. /\ r \in [sent : Nat, unsent : Nat, failed : Nat, blocks : Nat]
        /\ sentRows[t] \in Nat /\ Len(failedQueue[t]) \in Nat
        /\ CountedRows(q) \in Nat /\ Len(q) \in Nat /\ QueueRows(q) \in Nat
        /\ accepted[t] \in Nat /\ handed[t] \in Nat
    <3>1. r \in [sent : Nat, unsent : Nat, failed : Nat, blocks : Nat]
      BY <1>4
    <3>2. sentRows[t] \in Nat /\ failedQueue[t] \in Seq(Rows)
      BY <1>3, <2>1 DEF TypeOK, ControlTypeOK, QueueTypeOK
    <3>3. accepted[t] \in Nat /\ handed[t] \in Nat
      BY <1>4, <2>1
    <3>4. CountedRows(q) \in Nat /\ Len(q) \in Nat /\ QueueRows(q) \in Nat
      BY <2>7, QueueFacts
    <3> HIDE DEF q, r, t
    <3>5. QED
      BY <3>1, <3>2, <3>3, <3>4
  <2>9. /\ SumBefore(accepted, t + 1) = accepted[t] + SumBefore(accepted, t)
        /\ SumBefore(handed, t + 1) = handed[t] + SumBefore(handed, t)
    BY <1>4, <2>1, SumBeforeFacts
  <2>10. SumBefore(accepted, t) \in Int /\ SumBefore(handed, t) \in Int
    <3>1. t \in 0 .. ThreadCount
      BY <2>1, ThreadAssumption DEF Threads
    <3>2. QED
      BY <1>4, <3>1, SumBeforeFacts
  <2> HIDE DEF t, q, r
  <2>11. RowsSaid(r, t) \in Int
    BY <2>1, <2>8 DEF RowsSaid
  <2>12. RowsSaid(report'[d], t + 1) = RowsSaid(r, t) + (accepted[t] - handed[t])
    <3>1. PICK u \in Nat, v \in Nat, w \in Nat, x \in Nat :
            /\ u = sentRows[t] /\ v = CountedRows(q)
            /\ w = Len(failedQueue[t]) /\ x = Len(q)
      BY <2>8
    <3>2. PICK s : s = report'[d]
      OBVIOUS
    <3>3. /\ s.sent = r.sent + u /\ s.unsent = r.unsent + v
          /\ s.failed = r.failed + w /\ s.blocks = r.blocks + x
      BY <2>3, <3>1, <3>2
    <3>4. PICK k : k = t + 1
      OBVIOUS
    <3>5. PICK z : z = accepted[t] - handed[t]
      OBVIOUS
    <3>6. z \in Int /\ z = u + w + (v + x - 1)
      BY <2>6, <2>7, <2>8, <3>1, <3>5
    <3>7. RowsSaid(s, k) = RowsSaid(r, t) + z
      <4>1. PICK n \in Nat : n = t
        BY <2>1
      <4>2. PICK p \in [sent : Nat, unsent : Nat, failed : Nat, blocks : Nat] : p = r
        BY <2>8
      <4>3. /\ s.sent = p.sent + u /\ s.unsent = p.unsent + v
            /\ s.failed = p.failed + w /\ s.blocks = p.blocks + x /\ k = n + 1
        BY <3>3, <3>4, <4>1, <4>2
      <4>4. RowsSaid(s, k) = RowsSaid(p, n) + z
        BY <3>6, <4>3 DEF RowsSaid
      <4>5. QED
        BY <4>1, <4>2, <4>4
    <3>8. QED
      BY <3>2, <3>4, <3>5, <3>7
  <2>13. RowsSaid(report'[d], t + 1)
           = SumBefore(accepted, t + 1) - SumBefore(handed, t + 1)
    BY <2>5, <2>8, <2>9, <2>10, <2>11, <2>12
  <2>14. QED
    BY <2>2, <2>4, <2>13
<1>8. CASE OtherCall(d)
  BY <1>1, <1>8 DEF OtherCall
<1>9. QED
  BY <1>3, <1>5, <1>6, <1>7, <1>8, StatusSteps

LEMMA StatusInit == Init => StatusInv
BY DEF Init, StatusInv, StatusStart, StatusSoFar

LEMMA StatusNext ==
  ASSUME WriterInv, ReportInv, CopyWithoutCallback, StatusInv, [Next]_vars
  PROVE  StatusInv'
<1>1. TypeOK /\ StatusStart /\ WriterInv'
  BY InvNext DEF WriterInv, StatusInv
<1>2. StatusStart' /\ StatusSoFar'
  BY <1>1, StatusStartNext, StatusSoFarNext
<1>3. QED
  BY <1>2 DEF StatusInv

(* The inductive invariant of getStatus(): what it has added up so far is   *)
(* what the threads it has visited had accepted and not handed back.        *)
THEOREM StatusInvCorrect == Spec => []StatusInv
<1>1. WriterInv /\ ReportInv /\ (CompletionInv /\ CopyWithoutCallback) /\ StatusInv
        /\ [Next]_vars => StatusInv'
  BY StatusNext
<1>2. QED
  BY <1>1, StatusInit, InvCorrect, ReportInvCorrect, CompletionInvCorrect, PTL DEF Spec

LEMMA StatusImplies == ASSUME WriterInv, StatusInv PROVE StatusAddsUp
<1>1. SUFFICES ASSUME NEW c \in Callers, callPc[c] = "statusDone",
                      BulkCallers = {}, NoneTwice
      PROVE  RowsSaid(report[c], ThreadCount) = SumFunction(accepted) - SumFunction(handed)
  BY DEF StatusAddsUp, RowsSaid
<1>2. RowsSaid(report[c], ThreadCount)
        = SumBefore(accepted, ThreadCount) - SumBefore(handed, ThreadCount)
  BY <1>1 DEF StatusInv, StatusSoFar, RowsSaid
<1>3. accepted \in [Threads -> Nat] /\ handed \in [Threads -> Nat]
  BY DEF WriterInv, TypeOK, HistoryTypeOK
<1>4. QED
  BY <1>2, <1>3, SumBeforeFacts

(* The numbers getStatus() returns add up to the rows accepted and not      *)
(* handed back, whatever the writer threads did while it visited them.      *)
THEOREM StatusCorrect == Spec => []StatusAddsUp
<1>1. WriterInv /\ StatusInv => StatusAddsUp
  BY StatusImplies
<1>2. QED
  BY <1>1, InvCorrect, StatusInvCorrect, PTL
=============================================================================
