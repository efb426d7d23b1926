-------------------------- MODULE BasicTableProofs --------------------------
(***************************************************************************)
(* Proofs about BasicTable, for any names and any number of columns and    *)
(* rows: types, that the rows stay together whatever column refuses, that  *)
(* names find their columns, and that a column with a null of which it was *)
(* told has the null flag.                                                 *)
(***************************************************************************)
EXTENDS BasicTable, SequenceTheorems, FiniteSetTheorems, TLAPS

-----------------------------------------------------------------------------
(* The parts of the invariant. *)

Cells == [row : Nat, null : Nulls]
Columns == [tuple : BOOLEAN, data : Seq(Cells), capacity : Nat, flag : BOOLEAN]

ColumnTypes ==
  /\ cols \in Seq(Columns) /\ cols # <<>>
  /\ colNames \in Seq(Names) /\ Len(colNames) = Len(cols)

MapTypes == IsFiniteSet(DOMAIN colMap) /\ colMap \in [DOMAIN colMap -> Nat]

OtherTypes ==
  /\ size \in Nat /\ capacity \in Nat /\ compresses \in Nat
  /\ made \in Nat /\ outside \in Nat /\ changes \in Nat
  /\ {readOnly, twice, torn, mixed} \subseteq BOOLEAN

(* A column may be one row ahead, while the row is being written to the     *)
(* columns themselves.                                                      *)
AsLong(c) ==
  \/ Len(c.data) = size
  \/ outside # 0 /\ Len(c.data) = size + 1 /\ c.data[size + 1].row = outside

SameRows(c, d) == \A k \in Positions : c.data[k].row = d.data[k].row

RowsInv ==
  ~torn /\ ~mixed => \A i \in DOMAIN cols : AsLong(cols[i]) /\ SameRows(cols[i], cols[1])

(* Names are told apart, and the map has each with its column.              *)
NamesInv == ~twice => ~Repeats(colNames) /\ MapFindsColumns

TypeInv == ColumnTypes /\ MapTypes /\ OtherTypes
TableInv == TypeInv /\ RowsInv /\ NamesInv /\ NullFlagSound

-----------------------------------------------------------------------------
(* Least numbers. *)

LEMMA LeastNatural ==
  ASSUME NEW S \in SUBSET Nat, S # {}
  PROVE  \E m \in S : \A x \in S : m <= x
<1> DEFINE T == {0 .. x : x \in S}
<1>1. T \subseteq FiniteSubsetsOf(Nat) /\ T # {}
  <2>1. ASSUME NEW x \in S PROVE 0 .. x \in FiniteSubsetsOf(Nat)
    <3>1. x \in Nat /\ 0 .. x \in SUBSET Nat
      OBVIOUS
    <3>2. QED
      BY <3>1, FS_Interval DEF FiniteSubsetsOf
  <2>2. PICK x \in S : TRUE
    OBVIOUS
  <2>3. 0 .. x \in T
    OBVIOUS
  <2>4. QED
    BY <2>1, <2>3
<1>2. PICK t \in T : \A u \in T : ~ (<<u, t>> \in StrictSubsetOrdering(Nat))
  <2> HIDE DEF T
  <2>1. QED
    BY <1>1, FS_StrictSubsetOrderingWellFounded, WFMin
<1>3. PICK m \in S : t = 0 .. m
  OBVIOUS
<1>4. ASSUME NEW x \in S, x < m PROVE FALSE
  <2>1. (0 .. x) \subseteq (0 .. m) /\ m \in 0 .. m /\ m \notin 0 .. x
    BY <1>4
  <2>2. (0 .. x) \in SUBSET Nat /\ (0 .. m) \in SUBSET Nat
    OBVIOUS
  <2>3. <<0 .. x, t>> \in StrictSubsetOrdering(Nat)
    BY <2>1, <2>2, <1>3 DEF StrictSubsetOrdering
  <2>4. QED
    BY <1>2, <2>3
<1>5. \A x \in S : m <= x
  BY <1>4
<1>6. QED
  BY <1>5

LEMMA LowsIsLeast ==
  ASSUME NEW S \in SUBSET Nat, S # {}
  PROVE  Lows(S) \in S /\ \A x \in S : Lows(S) <= x
BY LeastNatural DEF Lows

LEMMA LowsOfOne == ASSUME NEW n \in Nat PROVE Lows({n}) = n
BY LowsIsLeast

LEMMA TopsOfTwo == ASSUME NEW m \in Nat, NEW n \in Nat PROVE Tops({m, n}) \in {m, n}
<1>1. \E t \in {m, n} : \A x \in {m, n} : x <= t
  <2>1. CASE m <= n
    BY <2>1
  <2>2. CASE n <= m
    BY <2>2
  <2>3. QED
    BY <2>1, <2>2
<1>2. QED
  BY <1>1 DEF Tops

(* The first tuple is one, or stands behind the last column.                *)
LEMMA FirstTupleFacts ==
  ASSUME ColumnTypes
  PROVE  /\ FirstTuple \in 1 .. Len(cols) + 1
         /\ \A i \in DOMAIN cols : i < FirstTuple => ~cols[i].tuple
<1> DEFINE S == {i \in DOMAIN cols : cols[i].tuple} \cup {Len(cols) + 1}
<1>1. S \subseteq 1 .. Len(cols) + 1 /\ S \in SUBSET Nat /\ S # {}
  BY DEF ColumnTypes
<1>2. FirstTuple \in S /\ \A x \in S : FirstTuple <= x
  <2> HIDE DEF S
  <2>1. Lows(S) \in S /\ \A x \in S : Lows(S) <= x
    BY <1>1, LowsIsLeast
  <2>2. QED
    BY <2>1 DEF FirstTuple, S
<1>3. ASSUME NEW i \in DOMAIN cols, i < FirstTuple PROVE ~cols[i].tuple
  BY <1>1, <1>2, <1>3
<1>4. QED
  BY <1>1, <1>2, <1>3

-----------------------------------------------------------------------------
(* What the operators do to a column. *)

LEMMA Concatenated ==
  ASSUME NEW S, NEW s \in Seq(S), NEW t \in Seq(S)
  PROVE  /\ s \o t \in Seq(S) /\ Len(s \o t) = Len(s) + Len(t)
         /\ \A k \in 1 .. Len(s) : (s \o t)[k] = s[k]
         /\ \A k \in 1 .. Len(t) : (s \o t)[Len(s) + k] = t[k]
OBVIOUS

(* A column of which the flag can be relied on, but for raw nulls.          *)
HasTold(data) == \E k \in DOMAIN data : data[k].null = "told"
Sound(c) == c.flag \/ ~HasTold(c.data)

LEMMA ColumnFields ==
  ASSUME NEW c \in Columns
  PROVE  /\ c.tuple \in BOOLEAN /\ c.data \in Seq(Cells) /\ c.capacity \in Nat /\ c.flag \in BOOLEAN
         /\ Len(c.data) \in Nat /\ DOMAIN c.data = 1 .. Len(c.data)
         /\ \A k \in 1 .. Len(c.data) : c.data[k] \in Cells
BY DEF Columns

(* A column without nulls stays so when its cells are among those of it.    *)
LEMMA NoNullAdded ==
  ASSUME NEW c \in Columns, NEW d \in Seq(Cells), ~HasTold(c.data),
         \A k \in 1 .. Len(d) : d[k].null = "told" => \E j \in 1 .. Len(c.data) : c.data[j].null = "told"
  PROVE  ~HasTold(d)
<1>1. DOMAIN d = 1 .. Len(d) /\ DOMAIN c.data = 1 .. Len(c.data)
  BY ColumnFields
<1>2. QED
  BY <1>1 DEF HasTold

LEMMA TwelveTenths == \A m \in Nat : (m * 12) \div 10 \in Nat
OBVIOUS

(* It has grown, or is as it was.                                           *)
LEMMA GrownColumn ==
  ASSUME NEW c \in Columns, NEW n \in Nat
  PROVE  /\ Grown(c, n) \in Columns
         /\ Grown(c, n).data = c.data /\ Grown(c, n).flag = c.flag /\ Grown(c, n).tuple = c.tuple
<1>1. (n * 12) \div 10 \in Nat /\ Len(c.data) \in Nat
  BY TwelveTenths, ColumnFields
<1>2. Tops({(n * 12) \div 10, Len(c.data)}) \in Nat
  BY <1>1, TopsOfTwo
<1>3. PICK cap \in Nat : cap = Tops({(n * 12) \div 10, Len(c.data)})
  BY <1>2
<1>4. PICK a : a = Grown(c, n)
  OBVIOUS
<1>5. a = c \/ a = [c EXCEPT !.capacity = cap]
  BY <1>3, <1>4 DEF Grown
<1>6. a \in Columns /\ a.data = c.data /\ a.flag = c.flag /\ a.tuple = c.tuple
  BY <1>5 DEF Columns
<1>7. QED
  BY <1>4, <1>6

LEMMA NullsFacts ==
  /\ "none" \in Nulls /\ "told" \in Nulls /\ "raw" \in Nulls /\ "none" # "told" /\ "raw" # "told"
BY DEF Nulls

LEMMA NewCellsFacts ==
  ASSUME made \in Nat, NEW n \in Nat, NEW null \in Nulls
  PROVE  /\ NewCells(n, null) \in Seq(Cells) /\ Len(NewCells(n, null)) = n
         /\ \A k \in 1 .. n : NewCells(n, null)[k] = [row |-> made + k, null |-> null]
BY DEF NewCells, Cell, Cells

(* The cells a column has taken: how many they are depends on its kind.     *)
Taken(c, n) == IF c.tuple THEN 1 ELSE n

LEMMA AppendedColumn ==
  ASSUME made \in Nat, NEW c \in Columns, NEW n \in Nat, NEW null \in Nulls
  PROVE  /\ Appended(c, n, null) \in Columns
         /\ Appended(c, n, null).tuple = c.tuple
         /\ Len(Appended(c, n, null).data) = Len(c.data) + Taken(c, n)
         /\ \A k \in 1 .. Len(c.data) : Appended(c, n, null).data[k] = c.data[k]
         /\ \A k \in 1 .. Taken(c, n) :
              Appended(c, n, null).data[Len(c.data) + k].row = made + k
         /\ Sound(c) => Sound(Appended(c, n, null))
<1> DEFINE a == Appended(c, n, null)
           new == NewCells(n, null)
<1>1. c.data \in Seq(Cells) /\ Len(c.data) \in Nat /\ c.tuple \in BOOLEAN /\ c.flag \in BOOLEAN
      /\ c.capacity \in Nat /\ DOMAIN c.data = 1 .. Len(c.data)
  BY ColumnFields
<1>2. CASE c.tuple
  <2>1. a = [c EXCEPT !.data = Append(c.data, [row |-> made + 1, null |-> "none"])]
    BY <1>2 DEF Appended, Cell
  <2>2. [row |-> made + 1, null |-> "none"] \in Cells
    BY NullsFacts DEF Cells
  <2> HIDE DEF a
  <2>9. Append(c.data, [row |-> made + 1, null |-> "none"]) \in Seq(Cells)
    BY <1>1, <2>2
  <2>3. a \in Columns /\ a.tuple = c.tuple /\ a.flag = c.flag
        /\ a.data = Append(c.data, [row |-> made + 1, null |-> "none"])
    <3>1. PICK d \in Seq(Cells) : d = Append(c.data, [row |-> made + 1, null |-> "none"])
      BY <2>9
    <3>2. a = [c EXCEPT !.data = d]
      BY <2>1, <3>1
    <3>3. a \in Columns /\ a.tuple = c.tuple /\ a.flag = c.flag /\ a.data = d
      BY <3>2 DEF Columns
    <3>4. QED
      BY <3>1, <3>3
  <2>4. /\ Len(a.data) = Len(c.data) + 1
        /\ \A k \in 1 .. Len(c.data) : a.data[k] = c.data[k]
        /\ a.data[Len(c.data) + 1] = [row |-> made + 1, null |-> "none"]
    <3>1. PICK e \in Cells : e = [row |-> made + 1, null |-> "none"]
      BY <2>2
    <3>2. PICK d \in Seq(Cells) : d = c.data
      BY <1>1
    <3>3. a.data = Append(d, e)
      BY <2>3, <3>1, <3>2
    <3>4. /\ Len(Append(d, e)) = Len(d) + 1 /\ Append(d, e)[Len(d) + 1] = e
          /\ \A k \in 1 .. Len(d) : Append(d, e)[k] = d[k]
      OBVIOUS
    <3>5. /\ Len(a.data) = Len(d) + 1 /\ a.data[Len(d) + 1] = e
          /\ \A k \in 1 .. Len(d) : a.data[k] = d[k]
      BY <3>3, <3>4
    <3>6. QED
      BY <3>1, <3>2, <3>5
  <2>5. ~HasTold(c.data) => ~HasTold(a.data)
    <3>1. SUFFICES ASSUME ~HasTold(c.data), NEW k \in DOMAIN a.data PROVE a.data[k].null # "told"
      BY DEF HasTold
    <3>2. k \in 1 .. Len(c.data) + 1
      BY <2>3, <2>4, ColumnFields
    <3>3. CASE k \in 1 .. Len(c.data)
      BY <1>1, <2>4, <3>1, <3>3 DEF HasTold
    <3>4. CASE k = Len(c.data) + 1
      BY <2>4, <3>4
    <3>5. QED
      BY <1>1, <3>2, <3>3, <3>4
  <2>6. QED
    BY <1>2, <2>3, <2>4, <2>5 DEF Taken, Sound, a
<1>3. CASE ~c.tuple
  <2>1. new \in Seq(Cells) /\ Len(new) = n
        /\ \A k \in 1 .. n : new[k] = [row |-> made + k, null |-> null]
    BY NewCellsFacts
  <2>2. ((Len(c.data) + n) * 12) \div 10 \in Nat
    <3> DEFINE m == Len(c.data) + n
    <3>1. m \in Nat
      BY <1>1
    <3> HIDE DEF m
    <3>2. (m * 12) \div 10 \in Nat
      BY <3>1, TwelveTenths
    <3>3. QED
      BY <3>2 DEF m
  <2> HIDE DEF new
  <2>3. PICK cap \in Nat : a = [c EXCEPT !.data = c.data \o new, !.capacity = cap,
                                         !.flag = c.flag \/ (null = "told" /\ n > 0)]
    <3>1. a = [c EXCEPT !.data = c.data \o new,
                        !.capacity = IF Len(c.data) + n > c.capacity
                                       THEN ((Len(c.data) + n) * 12) \div 10 ELSE c.capacity,
                        !.flag = c.flag \/ (null = "told" /\ n > 0)]
      BY <1>3 DEF Appended, new
    <3>2. QED
      BY <1>1, <2>2, <3>1
  <2> DEFINE flag == c.flag \/ (null = "told" /\ n > 0)
  <2>8. flag \in BOOLEAN /\ c.data \o new \in Seq(Cells)
    BY <1>1, <2>1
  <2> HIDE DEF a
  <2>4. a \in Columns /\ a.tuple = c.tuple /\ a.flag = flag /\ a.data = c.data \o new
    <3>1. PICK d \in Seq(Cells) : d = c.data \o new
      BY <2>8
    <3>2. a = [c EXCEPT !.data = d, !.capacity = cap, !.flag = flag]
      BY <2>3, <3>1
    <3> HIDE DEF flag
    <3>3. a \in Columns /\ a.tuple = c.tuple /\ a.flag = flag /\ a.data = d
      BY <2>8, <3>2 DEF Columns
    <3>4. QED
      BY <3>1, <3>3
  <2>5. /\ Len(a.data) = Len(c.data) + n
        /\ \A k \in 1 .. Len(c.data) : a.data[k] = c.data[k]
        /\ \A k \in 1 .. n : a.data[Len(c.data) + k] = [row |-> made + k, null |-> null]
    <3>1. /\ Len(c.data \o new) = Len(c.data) + n
          /\ \A k \in 1 .. Len(c.data) : (c.data \o new)[k] = c.data[k]
          /\ \A k \in 1 .. n : (c.data \o new)[Len(c.data) + k] = new[k]
      <4>1. PICK d \in Seq(Cells) : d = new
        BY <2>1
      <4>2. /\ Len(c.data \o d) = Len(c.data) + Len(d)
            /\ \A k \in 1 .. Len(c.data) : (c.data \o d)[k] = c.data[k]
            /\ \A k \in 1 .. Len(d) : (c.data \o d)[Len(c.data) + k] = d[k]
        BY <1>1, Concatenated
      <4>3. QED
        BY <2>1, <4>1, <4>2
    <3>2. QED
      BY <2>1, <2>4, <3>1
  <2>6. ~HasTold(c.data) /\ ~(null = "told" /\ n > 0) => ~HasTold(a.data)
    <3>1. SUFFICES ASSUME ~HasTold(c.data), ~(null = "told" /\ n > 0), NEW k \in DOMAIN a.data
                   PROVE  a.data[k].null # "told"
      BY DEF HasTold
    <3>2. k \in 1 .. Len(c.data) + n
      BY <2>4, <2>5, ColumnFields
    <3>3. CASE k \in 1 .. Len(c.data)
      BY <1>1, <2>5, <3>1, <3>3 DEF HasTold
    <3>4. CASE k \notin 1 .. Len(c.data)
      <4>1. k - Len(c.data) \in 1 .. n /\ k = Len(c.data) + (k - Len(c.data))
        BY <1>1, <3>2, <3>4
      <4>2. n > 0 /\ null # "told"
        BY <3>1, <4>1
      <4>3. a.data[Len(c.data) + (k - Len(c.data))] =
              [row |-> made + (k - Len(c.data)), null |-> null]
        BY <2>5, <4>1
      <4>4. QED
        BY <4>1, <4>2, <4>3
    <3>5. QED
      BY <3>3, <3>4
  <2>7. Sound(c) => Sound(a)
    BY <1>1, <2>4, <2>6 DEF Sound
  <2>10. \A k \in 1 .. n : a.data[Len(c.data) + k].row = made + k
    <3>1. \A k \in 1 .. n : [row |-> made + k, null |-> null].row = made + k
      OBVIOUS
    <3>2. QED
      BY <2>5, <3>1
  <2>11. QED
    BY <1>3, <2>4, <2>5, <2>7, <2>10 DEF Taken, a
<1>4. QED
  BY <1>2, <1>3

LEMMA ShortenedColumn ==
  ASSUME NEW c \in Columns, NEW n \in Nat
  PROVE  /\ Shortened(c, n) \in Columns /\ Shortened(c, n).tuple = c.tuple
         /\ Len(Shortened(c, n).data) <= Len(c.data)
         /\ n <= Len(c.data) => Len(Shortened(c, n).data) = Len(c.data) - n
         /\ \A k \in 1 .. Len(Shortened(c, n).data) : Shortened(c, n).data[k] = c.data[k]
         /\ Sound(c) => Sound(Shortened(c, n))
<1> DEFINE gone == IF n <= Len(c.data) THEN n ELSE IF c.tuple THEN Len(c.data) ELSE 0
           s == Shortened(c, n)
<1>1. c.data \in Seq(Cells) /\ Len(c.data) \in Nat
  BY DEF Columns
<1>2. s = [c EXCEPT !.data = SubSeq(c.data, 1, Len(c.data) - gone)] /\ gone \in 0 .. Len(c.data)
      /\ (n <= Len(c.data) => gone = n)
  BY <1>1 DEF Shortened
<1> HIDE DEF gone, s
<1>7. SubSeq(c.data, 1, Len(c.data) - gone) \in Seq(Cells)
  BY <1>1, <1>2
<1>3. s \in Columns /\ s.tuple = c.tuple /\ s.flag = c.flag
      /\ s.data = SubSeq(c.data, 1, Len(c.data) - gone)
  <2>1. PICK d \in Seq(Cells) : d = SubSeq(c.data, 1, Len(c.data) - gone)
    BY <1>7
  <2>2. s = [c EXCEPT !.data = d]
    BY <1>2, <2>1
  <2>3. s \in Columns /\ s.tuple = c.tuple /\ s.flag = c.flag /\ s.data = d
    BY <2>2 DEF Columns
  <2>4. QED
    BY <2>1, <2>3
<1>4. /\ Len(s.data) = Len(c.data) - gone
      /\ \A k \in 1 .. Len(s.data) : s.data[k] = c.data[k]
  BY <1>1, <1>2, <1>3
<1>5. ~HasTold(c.data) => ~HasTold(s.data)
  <2>1. DOMAIN s.data = 1 .. Len(s.data) /\ DOMAIN c.data = 1 .. Len(c.data)
        /\ Len(s.data) <= Len(c.data) /\ Len(s.data) \in Nat
    BY <1>1, <1>2, <1>3, <1>4, ColumnFields
  <2>2. QED
    BY <1>1, <1>4, <2>1 DEF HasTold
<1>6. QED
  BY <1>1, <1>2, <1>3, <1>4, <1>5 DEF Sound, s

LEMMA OnlyAtColumn ==
  ASSUME NEW c \in Columns, NEW m \in Nat, NEW f \in [1 .. m -> 1 .. Len(c.data)]
  PROVE  /\ OnlyAt(c, f) \in Columns /\ Len(OnlyAt(c, f).data) = m
         /\ \A k \in 1 .. m : OnlyAt(c, f).data[k] = c.data[f[k]]
         /\ Sound(c) => Sound(OnlyAt(c, f))
<1> DEFINE o == OnlyAt(c, f)
           flag == c.flag /\ HasNull(At(c.data, f))
<1>1. c.data \in Seq(Cells) /\ Len(c.data) \in Nat /\ c.flag \in BOOLEAN
      /\ \A k \in 1 .. Len(c.data) : c.data[k] \in Cells
  BY DEF Columns
<1>2. At(c.data, f) \in [1 .. m -> Cells] /\ \A k \in 1 .. m : At(c.data, f)[k] = c.data[f[k]]
  BY <1>1 DEF At
<1>3. At(c.data, f) \in Seq(Cells) /\ Len(At(c.data, f)) = m
  BY <1>2
<1>4. HasNull(At(c.data, f)) \in BOOLEAN
  BY DEF HasNull
<1>5. o = [c EXCEPT !.data = At(c.data, f), !.flag = flag]
  BY DEF OnlyAt
<1> HIDE DEF o
<1>9. flag \in BOOLEAN
  BY <1>1, <1>4
<1>6. o \in Columns /\ o.data = At(c.data, f) /\ o.flag = (c.flag /\ HasNull(o.data))
  <2>1. PICK d \in Seq(Cells) : d = At(c.data, f)
    BY <1>3
  <2>2. o = [c EXCEPT !.data = d, !.flag = flag]
    BY <1>5, <2>1
  <2>3. flag = (c.flag /\ HasNull(d))
    BY <2>1
  <2> HIDE DEF flag
  <2>4. o \in Columns /\ o.data = d /\ o.flag = flag
    BY <1>9, <2>2 DEF Columns
  <2>5. QED
    BY <2>1, <2>3, <2>4
<1>7. ~HasTold(c.data) => ~HasTold(o.data)
  <2>1. PICK d \in Seq(Cells) : d = o.data /\ Len(d) = m
    BY <1>3, <1>6
  <2>2. \A k \in 1 .. m : d[k] = c.data[f[k]] /\ f[k] \in 1 .. Len(c.data)
    BY <1>2, <1>6, <2>1
  <2>3. \A k \in 1 .. Len(d) : d[k].null = "told" => \E j \in 1 .. Len(c.data) : c.data[j].null = "told"
    BY <2>1, <2>2
  <2>4. ~HasTold(c.data) => ~HasTold(d)
    BY <2>3, NoNullAdded
  <2>5. QED
    BY <2>1, <2>4
<1>10. HasTold(o.data) => HasNull(o.data)
  BY NullsFacts DEF HasTold, HasNull
<1>8. QED
  BY <1>2, <1>3, <1>6, <1>7, <1>10 DEF Sound, o

LEMMA ClearedColumn ==
  ASSUME NEW c \in Columns
  PROVE  Cleared(c) \in Columns /\ Len(Cleared(c).data) = 0 /\ Sound(Cleared(c))
<1>1. <<>> \in Seq(Cells) /\ FALSE \in BOOLEAN
  OBVIOUS
<1>2. Cleared(c) \in Columns /\ Cleared(c).data = <<>>
  <2>1. PICK d \in Seq(Cells), flag \in BOOLEAN : d = <<>> /\ flag = FALSE
    BY <1>1
  <2>2. PICK a : a = Cleared(c)
    OBVIOUS
  <2>3. a = [c EXCEPT !.data = d, !.flag = flag]
    BY <2>1, <2>2 DEF Cleared
  <2>4. a \in Columns /\ a.data = d /\ a.flag = flag
    BY <2>3 DEF Columns
  <2>5. QED
    BY <2>1, <2>2, <2>4
<1>3. QED
  BY <1>2 DEF Sound, HasTold

LEMMA OverwrittenColumn ==
  ASSUME NEW c \in Columns, NEW P, NEW null \in Nulls
  PROVE  /\ Overwritten(c, P, null) \in Columns
         /\ Len(Overwritten(c, P, null).data) = Len(c.data)
         /\ \A k \in 1 .. Len(c.data) : Overwritten(c, P, null).data[k].row = c.data[k].row
         /\ Sound(c) => Sound(Overwritten(c, P, null))
<1> DEFINE data == [k \in DOMAIN c.data |-> IF k \in P THEN Cell(c.data[k].row, null) ELSE c.data[k]]
           o == Overwritten(c, P, null)
<1>1. c.data \in Seq(Cells) /\ Len(c.data) \in Nat /\ c.flag \in BOOLEAN
      /\ DOMAIN c.data = 1 .. Len(c.data)
      /\ \A k \in 1 .. Len(c.data) : c.data[k] \in Cells
  BY DEF Columns
<1>2. data \in [1 .. Len(c.data) -> Cells]
  BY <1>1 DEF Cell, Cells
<1>3. data \in Seq(Cells) /\ Len(data) = Len(c.data)
  BY <1>1, <1>2
<1>4. \A k \in 1 .. Len(c.data) : data[k].row = c.data[k].row
  BY <1>1 DEF Cell
<1>5. \A k \in 1 .. Len(c.data) : data[k].null = "told" => c.data[k].null = "told" \/ (null = "told" /\ k \in P)
  BY <1>1 DEF Cell
<1>6. o = [c EXCEPT !.data = data, !.flag = c.flag \/ (null = "told" /\ P # {})]
  BY DEF Overwritten
<1> HIDE DEF o, data
<1> DEFINE flag == c.flag \/ (null = "told" /\ P # {})
<1>10. flag \in BOOLEAN
  BY <1>1
<1>7. o \in Columns /\ o.data = data /\ o.flag = (c.flag \/ (null = "told" /\ P # {}))
  <2>1. PICK d \in Seq(Cells) : d = data
    BY <1>3
  <2>2. o = [c EXCEPT !.data = d, !.flag = flag]
    BY <1>6, <2>1
  <2> HIDE DEF flag
  <2>3. o \in Columns /\ o.data = d /\ o.flag = flag
    BY <1>10, <2>2 DEF Columns
  <2>4. QED
    BY <2>1, <2>3 DEF flag
<1>8. Sound(c) => Sound(o)
  <2>1. DOMAIN data = 1 .. Len(c.data)
    BY <1>2
  <2>2. QED
    BY <1>1, <1>5, <1>7, <2>1 DEF Sound, HasTold
<1>9. QED
  BY <1>3, <1>4, <1>7, <1>8 DEF o

-----------------------------------------------------------------------------
(* The steps that leave names and map alone. *)

LEMMA MappedSeq ==
  ASSUME NEW S, NEW s \in Seq(S), NEW T, NEW f \in [DOMAIN s -> T]
  PROVE  f \in Seq(T) /\ Len(f) = Len(s) /\ DOMAIN f = DOMAIN s
OBVIOUS

LEMMA ColsFacts ==
  ASSUME ColumnTypes
  PROVE  /\ Len(cols) \in Nat \ {0} /\ DOMAIN cols = 1 .. Len(cols) /\ 1 \in DOMAIN cols
         /\ DOMAIN colNames = DOMAIN cols
         /\ \A i \in DOMAIN cols : cols[i] \in Columns /\ colNames[i] \in Names
BY EmptySeq DEF ColumnTypes

LEMMA NewCols ==
  ASSUME ColumnTypes, cols' \in [DOMAIN cols -> Columns], UNCHANGED colNames
  PROVE  ColumnTypes' /\ DOMAIN cols' = DOMAIN cols
<1>1. cols' \in Seq(Columns) /\ Len(cols') = Len(cols) /\ DOMAIN cols' = DOMAIN cols
  BY MappedSeq DEF ColumnTypes
<1>2. cols' # <<>>
  BY <1>1, ColsFacts
<1>3. QED
  BY <1>1, <1>2 DEF ColumnTypes

LEMMA SameNames ==
  ASSUME TableInv, UNCHANGED <<colNames, colMap, twice>>
  PROVE  MapTypes' /\ NamesInv'
BY DEF TableInv, TypeInv, MapTypes, NamesInv, MapFindsColumns, Repeats

LEMMA SoundFlags ==
  NullFlagSound <=> \A i \in DOMAIN cols : Sound(cols[i])
BY DEF NullFlagSound, Sound, HasTold

(* On a whole table all columns have the same rows.                         *)
LEMMA WholeRows ==
  ASSUME TableInv, Whole
  PROVE  /\ outside = 0 /\ \A i \in DOMAIN cols : Len(cols[i].data) = size
         /\ ~torn /\ ~mixed => \A i \in DOMAIN cols : SameRows(cols[i], cols[1])
BY DEF TableInv, Whole, RowsInv

LEMMA GrownCols ==
  ASSUME TypeInv, NEW n \in Nat
  PROVE  /\ ColsGrown(n) \in [DOMAIN cols -> Columns]
         /\ \A i \in DOMAIN cols :
              /\ ColsGrown(n)[i].data = cols[i].data
              /\ ColsGrown(n)[i].tuple = cols[i].tuple
              /\ ColsGrown(n)[i].flag = cols[i].flag
<1>1. size + n \in Nat
  BY DEF TypeInv, OtherTypes
<1>2. ASSUME NEW i \in DOMAIN cols
      PROVE  /\ ColsGrown(n)[i] \in Columns
             /\ ColsGrown(n)[i].data = cols[i].data
             /\ ColsGrown(n)[i].tuple = cols[i].tuple
             /\ ColsGrown(n)[i].flag = cols[i].flag
  <2>1. cols[i] \in Columns
    BY ColsFacts DEF TypeInv
  <2>2. ColsGrown(n)[i] = cols[i] \/ ColsGrown(n)[i] = Grown(cols[i], size + n)
    BY DEF ColsGrown
  <2>3. PICK c \in Columns, m \in Nat : c = cols[i] /\ m = size + n
    BY <1>1, <2>1
  <2>4. ColsGrown(n)[i] = c \/ ColsGrown(n)[i] = Grown(c, m)
    BY <2>2, <2>3
  <2>5. QED
    BY <2>3, <2>4, GrownColumn
<1>3. DOMAIN ColsGrown(n) = DOMAIN cols
  BY DEF ColsGrown
<1>4. ColsGrown(n) = [i \in DOMAIN cols |-> ColsGrown(n)[i]]
  BY DEF ColsGrown
<1>5. QED
  BY <1>2, <1>3, <1>4

(* The new capacity is that of some column, or the largest there is.        *)
LEMMA GrownCapacity ==
  ASSUME TypeInv, NEW n \in Nat
  PROVE  Lows({ColsGrown(n)[i].capacity : i \in DOMAIN cols} \cup {IndexMax}) \in Nat
<1> DEFINE S == {ColsGrown(n)[i].capacity : i \in DOMAIN cols} \cup {IndexMax}
<1>1. \A i \in DOMAIN cols : ColsGrown(n)[i].capacity \in Nat
  BY GrownCols, ColumnFields
<1>2. S \in SUBSET Nat /\ S # {}
  BY <1>1 DEF IndexMax
<1> HIDE DEF S
<1>3. Lows(S) \in Nat
  BY <1>2, LowsIsLeast
<1>4. QED
  BY <1>3 DEF S

LEMMA AppendCannotGrowKeeps ==
  ASSUME TableInv, NEW n \in Nat, AppendCannotGrow(n), UNCHANGED changes
  PROVE  TableInv'
<1>1. /\ cols' = ColsGrown(n) /\ UNCHANGED <<colNames, colMap, twice, changes>>
      /\ UNCHANGED <<size, capacity, compresses, readOnly, made, outside, torn, mixed>>
  BY DEF AppendCannotGrow, history
<1>2. ColumnTypes' /\ DOMAIN cols' = DOMAIN cols
  BY <1>1, GrownCols, NewCols DEF TableInv, TypeInv
<1>3. OtherTypes'
  BY <1>1 DEF TableInv, TypeInv, OtherTypes
<1>4. MapTypes' /\ NamesInv'
  BY <1>1, SameNames
<1>5. \A i \in DOMAIN cols : cols'[i].data = cols[i].data /\ cols'[i].flag = cols[i].flag
  BY <1>1, GrownCols DEF TableInv
<1>6. RowsInv'
  <2>1. 1 \in DOMAIN cols
    BY ColsFacts DEF TableInv, TypeInv
  <2>2. QED
    BY <1>1, <1>2, <1>5, <2>1 DEF TableInv, RowsInv, AsLong, SameRows, Positions
<1>7. NullFlagSound'
  BY <1>1, <1>2, <1>5 DEF TableInv, NullFlagSound
<1>8. QED
  BY <1>2, <1>3, <1>4, <1>6, <1>7 DEF TableInv, TypeInv

(* Every column takes n rows, when none of them is a tuple that takes one.  *)
LEMMA AppendRowsKeeps ==
  ASSUME TableInv, NEW n \in Nat, NEW z \in Nat, NEW null \in Nulls,
         AppendRows(n, z, null), UNCHANGED changes
  PROVE  TableInv'
<1> DEFINE g == ColsGrown(n)
<1>1. /\ Whole /\ cols' = [i \in DOMAIN cols |-> Appended(g[i], n, IF i = z THEN null ELSE "none")]
      /\ capacity' \in {Lows({g[i].capacity : i \in DOMAIN cols} \cup {IndexMax}), capacity}
      /\ size' = size + n /\ made' = made + n
      /\ mixed' = (mixed \/ (n # 1 /\ FirstTuple <= Len(cols)))
      /\ UNCHANGED <<colNames, colMap, twice, compresses, readOnly, outside, torn, changes>>
  BY DEF AppendRows
<1>11. ~mixed' => ~mixed /\ (n = 1 \/ ~(FirstTuple <= Len(cols)))
  BY DEF AppendRows
<1>2. /\ g \in [DOMAIN cols -> Columns] /\ made \in Nat /\ size \in Nat
      /\ \A i \in DOMAIN cols : g[i].data = cols[i].data /\ g[i].tuple = cols[i].tuple
                                /\ g[i].flag = cols[i].flag
  BY GrownCols DEF TableInv, TypeInv, OtherTypes
<1>3. capacity' \in Nat
  BY <1>1, GrownCapacity DEF TableInv, TypeInv, OtherTypes
<1> HIDE DEF g
<1>4. ASSUME NEW i \in DOMAIN cols
      PROVE  /\ cols'[i] \in Columns
             /\ Len(cols'[i].data) = Len(cols[i].data) + Taken(cols[i], n)
             /\ \A k \in 1 .. Len(cols[i].data) : cols'[i].data[k] = cols[i].data[k]
             /\ \A k \in 1 .. Taken(cols[i], n) : cols'[i].data[Len(cols[i].data) + k].row = made + k
             /\ Sound(cols[i]) => Sound(cols'[i])
  <2>1. PICK c \in Columns : c = g[i]
    BY <1>2
  <2>2. PICK own \in Nulls : own = IF i = z THEN null ELSE "none"
    BY NullsFacts
  <2>3. cols'[i] = Appended(c, n, own)
    BY <1>1, <2>1, <2>2
  <2>4. c.data = cols[i].data /\ c.tuple = cols[i].tuple /\ c.flag = cols[i].flag
    BY <1>2, <2>1
  <2>5. Taken(c, n) = Taken(cols[i], n) /\ (Sound(c) <=> Sound(cols[i]))
    BY <2>4 DEF Taken, Sound
  <2>6. PICK a : a = Appended(c, n, own)
    OBVIOUS
  <2>7. /\ a \in Columns /\ (Sound(c) => Sound(a))
        /\ Len(a.data) = Len(c.data) + Taken(c, n)
        /\ \A k \in 1 .. Len(c.data) : a.data[k] = c.data[k]
        /\ \A k \in 1 .. Taken(c, n) : a.data[Len(c.data) + k].row = made + k
    <3>1. made \in Nat
      BY <1>2
    <3>2. QED
      BY <2>6, <3>1, AppendedColumn
  <2>8. QED
    BY <2>3, <2>4, <2>5, <2>6, <2>7
<1>5. ColumnTypes' /\ DOMAIN cols' = DOMAIN cols
  <2>1. cols' \in [DOMAIN cols -> Columns]
    BY <1>1, <1>4
  <2>2. QED
    BY <1>1, <2>1, NewCols DEF TableInv, TypeInv
<1>6. OtherTypes'
  BY <1>1, <1>2, <1>3 DEF TableInv, TypeInv, OtherTypes
<1>7. MapTypes' /\ NamesInv'
  BY <1>1, SameNames
<1>8. RowsInv'
  <2>1. SUFFICES ASSUME ~torn', ~mixed', NEW i \in DOMAIN cols
                 PROVE  Len(cols'[i].data) = size + n
                        /\ \A k \in 1 .. size + n : cols'[i].data[k].row = cols'[1].data[k].row
    BY <1>1, <1>5 DEF RowsInv, AsLong, SameRows, Positions
  <2>2. ASSUME NEW j \in DOMAIN cols PROVE Len(cols[j].data) = size /\ Taken(cols[j], n) = n
    <3>1. j \in 1 .. Len(cols) /\ Len(cols) \in Nat /\ FirstTuple \in Nat
      BY FirstTupleFacts, ColsFacts DEF TableInv, TypeInv
    <3>2. n = 1 \/ j < FirstTuple
      BY <1>11, <2>1, <3>1
    <3>3. n = 1 \/ ~cols[j].tuple
      BY <3>2, FirstTupleFacts DEF TableInv, TypeInv
    <3>4. QED
      BY <1>1, <3>3, WholeRows DEF Taken
  <2>3. SameRows(cols[i], cols[1]) /\ 1 \in DOMAIN cols
    BY <1>1, <2>1, WholeRows, ColsFacts DEF TableInv, TypeInv
  <2>4. ASSUME NEW k \in 1 .. size + n PROVE cols'[i].data[k].row = cols'[1].data[k].row
    <3>1. CASE k \in 1 .. size
      <4>1. ASSUME NEW j \in DOMAIN cols PROVE cols'[j].data[k] = cols[j].data[k]
        <5>1. k \in 1 .. Len(cols[j].data)
          BY <2>2, <3>1
        <5>2. QED
          BY <1>4, <5>1
      <4>2. QED
        BY <2>3, <3>1, <4>1 DEF SameRows, Positions
    <3>2. CASE k \notin 1 .. size
      <4>1. k - size \in 1 .. n /\ size + (k - size) = k
        BY <1>2, <3>2
      <4>2. ASSUME NEW j \in DOMAIN cols PROVE cols'[j].data[k].row = made + (k - size)
        <5>1. k - size \in 1 .. Taken(cols[j], n) /\ Len(cols[j].data) = size
          BY <2>2, <4>1
        <5>2. cols'[j].data[Len(cols[j].data) + (k - size)].row = made + (k - size)
          BY <1>4, <5>1
        <5>3. QED
          BY <4>1, <5>1, <5>2
      <4>3. QED
        BY <2>3, <4>2
    <3>3. QED
      BY <3>1, <3>2
  <2>5. QED
    BY <1>4, <2>2, <2>4
<1>9. NullFlagSound'
  <2>1. \A i \in DOMAIN cols : Sound(cols'[i])
    BY <1>1, <1>4, SoundFlags DEF TableInv
  <2>2. QED
    BY <1>5, <2>1 DEF NullFlagSound, Sound, HasTold
<1>10. QED
  BY <1>5, <1>6, <1>7, <1>8, <1>9 DEF TableInv, TypeInv

(* The columns before the one that refuses drop just what they took.        *)
LEMMA AppendRefusedKeeps ==
  ASSUME TableInv, NEW n \in Nat, NEW b \in DOMAIN cols, AppendRefused(n, b), UNCHANGED changes
  PROVE  TableInv'
<1> DEFINE g == ColsGrown(n)
<1>1. /\ Whole
      /\ cols' = [i \in DOMAIN cols |->
                    IF i < b THEN Shortened(Appended(g[i], n, "none"), n) ELSE g[i]]
      /\ capacity' \in {Lows({g[i].capacity : i \in DOMAIN cols} \cup {IndexMax}), capacity}
      /\ mixed' = (mixed \/ (n # 1 /\ FirstTuple < b))
      /\ UNCHANGED <<colNames, colMap, twice, size, made, compresses, readOnly, outside, torn,
                     changes>>
  BY DEF AppendRefused
<1>11. ~mixed' => ~mixed /\ (n = 1 \/ ~(FirstTuple < b))
  BY DEF AppendRefused
<1>2. /\ g \in [DOMAIN cols -> Columns] /\ made \in Nat /\ size \in Nat
      /\ \A i \in DOMAIN cols : g[i].data = cols[i].data /\ g[i].tuple = cols[i].tuple
                                /\ g[i].flag = cols[i].flag
  BY GrownCols DEF TableInv, TypeInv, OtherTypes
<1>3. capacity' \in Nat
  BY <1>1, GrownCapacity DEF TableInv, TypeInv, OtherTypes
<1> HIDE DEF g
<1>4. ASSUME NEW i \in DOMAIN cols
      PROVE  /\ cols'[i] \in Columns
             /\ Sound(cols[i]) => Sound(cols'[i])
             /\ i >= b \/ Taken(cols[i], n) = n =>
                  /\ Len(cols'[i].data) = Len(cols[i].data)
                  /\ \A k \in 1 .. Len(cols[i].data) : cols'[i].data[k] = cols[i].data[k]
  <2>1. PICK c \in Columns : c = g[i]
    BY <1>2
  <2>2. /\ c.data = cols[i].data /\ c.tuple = cols[i].tuple /\ c.flag = cols[i].flag
        /\ Taken(c, n) = Taken(cols[i], n) /\ (Sound(c) <=> Sound(cols[i]))
    BY <1>2, <2>1 DEF Taken, Sound
  <2>3. CASE i >= b
    <3>1. i \in Nat /\ b \in Nat /\ ~(i < b)
      BY <2>3, ColsFacts DEF TableInv, TypeInv
    <3>2. cols'[i] = c
      BY <1>1, <2>1, <3>1
    <3>3. QED
      BY <2>2, <3>2
  <2>4. CASE i < b
    <3>0. PICK null \in Nulls : null = "none"
      BY NullsFacts
    <3>1. PICK a : a = Appended(c, n, null)
      OBVIOUS
    <3>2. /\ a \in Columns /\ (Sound(c) => Sound(a))
          /\ Len(a.data) = Len(c.data) + Taken(c, n)
          /\ \A k \in 1 .. Len(c.data) : a.data[k] = c.data[k]
      BY <1>2, <3>1, AppendedColumn
    <3>3. cols'[i] = Shortened(a, n)
      BY <1>1, <2>1, <2>4, <3>1, <3>0
    <3>4. cols'[i] \in Columns /\ (Sound(a) => Sound(cols'[i]))
      BY <3>2, <3>3, ShortenedColumn
    <3>5. ASSUME Taken(c, n) = n
          PROVE  /\ Len(cols'[i].data) = Len(c.data)
                 /\ \A k \in 1 .. Len(c.data) : cols'[i].data[k] = c.data[k]
      <4>1. n <= Len(a.data) /\ Len(c.data) \in Nat /\ Len(a.data) - n = Len(c.data)
        BY <3>2, <3>5, ColumnFields
      <4>2. QED
        BY <3>2, <3>3, <4>1, ShortenedColumn
    <3>6. i \in Nat /\ b \in Nat /\ ~(i >= b)
      BY <2>4, ColsFacts DEF TableInv, TypeInv
    <3>7. QED
      BY <2>2, <3>2, <3>4, <3>5, <3>6
  <2>5. QED
    BY <2>3, <2>4, ColsFacts DEF TableInv, TypeInv
<1>5. ColumnTypes' /\ DOMAIN cols' = DOMAIN cols
  <2>1. cols' \in [DOMAIN cols -> Columns]
    BY <1>1, <1>4
  <2>2. QED
    BY <1>1, <2>1, NewCols DEF TableInv, TypeInv
<1>6. OtherTypes'
  BY <1>1, <1>2, <1>3 DEF TableInv, TypeInv, OtherTypes
<1>7. MapTypes' /\ NamesInv'
  BY <1>1, SameNames
<1>8. RowsInv'
  <2>1. SUFFICES ASSUME ~torn', ~mixed', NEW i \in DOMAIN cols
                 PROVE  Len(cols'[i].data) = size /\ SameRows(cols'[i], cols'[1])
    BY <1>1, <1>5 DEF RowsInv, AsLong, SameRows, Positions
  <2>2. ASSUME NEW j \in DOMAIN cols
        PROVE  /\ Len(cols[j].data) = size /\ Len(cols'[j].data) = size
               /\ \A k \in 1 .. size : cols'[j].data[k] = cols[j].data[k]
    <3>1. j \in Nat /\ b \in Nat /\ FirstTuple \in Nat
      BY FirstTupleFacts, ColsFacts DEF TableInv, TypeInv
    <3>6. j >= b \/ n = 1 \/ j < FirstTuple
      BY <1>11, <2>1, <3>1
    <3>2. j >= b \/ n = 1 \/ ~cols[j].tuple
      BY <3>6, FirstTupleFacts DEF TableInv, TypeInv
    <3>3. j >= b \/ Taken(cols[j], n) = n
      BY <3>2 DEF Taken
    <3>4. Len(cols[j].data) = size
      BY <1>1, WholeRows
    <3>5. QED
      BY <1>4, <3>3, <3>4
  <2>3. SameRows(cols[i], cols[1]) /\ 1 \in DOMAIN cols
    BY <1>1, <2>1, WholeRows, ColsFacts DEF TableInv, TypeInv
  <2>4. QED
    BY <2>2, <2>3 DEF SameRows, Positions
<1>9. NullFlagSound'
  <2>1. \A i \in DOMAIN cols : Sound(cols'[i])
    BY <1>1, <1>4, SoundFlags DEF TableInv
  <2>2. QED
    BY <1>5, <2>1 DEF NullFlagSound, Sound, HasTold
<1>10. QED
  BY <1>5, <1>6, <1>7, <1>8, <1>9 DEF TableInv, TypeInv

(* Rows are removed from all columns, from none, or from those before the   *)
(* first tuple, and then the table is torn.                                 *)
LEMMA RemoveKeeps ==
  ASSUME TableInv, NEW m \in Nat, NEW f \in [1 .. m -> Positions], Remove(f), UNCHANGED changes
  PROVE  TableInv'
<1>1. /\ Whole
      /\ cols' = [i \in DOMAIN cols |-> IF i < FirstTuple THEN OnlyAt(cols[i], f) ELSE cols[i]]
      /\ size' = IF FirstTuple > Len(cols) THEN Len(cols'[1].data) ELSE size
      /\ UNCHANGED <<colNames, colMap, twice, capacity, compresses, readOnly, made, outside, mixed,
                     changes>>
  BY DEF Remove
<1>2. torn' \in BOOLEAN /\ (~torn' => ~torn /\ FirstTuple \notin 2 .. Len(cols))
  BY DEF Remove, TableInv, TypeInv, OtherTypes
<1>3. /\ size \in Nat /\ outside = 0 /\ 1 \in DOMAIN cols /\ Len(cols) \in Nat
      /\ FirstTuple \in Nat /\ 1 <= FirstTuple
      /\ \A i \in DOMAIN cols : cols[i] \in Columns /\ Len(cols[i].data) = size
                                /\ i \in 1 .. Len(cols)
  BY <1>1, WholeRows, ColsFacts, FirstTupleFacts DEF TableInv, TypeInv, OtherTypes
<1>4. ASSUME NEW i \in DOMAIN cols
      PROVE  /\ OnlyAt(cols[i], f) \in Columns /\ Len(OnlyAt(cols[i], f).data) = m
             /\ \A k \in 1 .. m : OnlyAt(cols[i], f).data[k] = cols[i].data[f[k]]
             /\ Sound(cols[i]) => Sound(OnlyAt(cols[i], f))
  <2>1. f \in [1 .. m -> 1 .. Len(cols[i].data)]
    BY <1>3 DEF Positions
  <2>2. QED
    BY <1>3, <2>1, OnlyAtColumn
<1>5. \A i \in DOMAIN cols : cols'[i] \in Columns /\ (Sound(cols[i]) => Sound(cols'[i]))
  BY <1>1, <1>3, <1>4
<1>6. ColumnTypes' /\ DOMAIN cols' = DOMAIN cols
  <2>1. cols' \in [DOMAIN cols -> Columns]
    BY <1>1, <1>5
  <2>2. QED
    BY <1>1, <2>1, NewCols DEF TableInv, TypeInv
<1>7. OtherTypes'
  <2>1. size' \in Nat
    BY <1>1, <1>3, <1>5, ColumnFields
  <2>2. QED
    BY <1>1, <1>2, <2>1 DEF TableInv, TypeInv, OtherTypes
<1>8. MapTypes' /\ NamesInv'
  BY <1>1, SameNames
<1>9. RowsInv'
  <2>1. SUFFICES ASSUME ~torn', ~mixed', NEW i \in DOMAIN cols
                 PROVE  Len(cols'[i].data) = size'
                        /\ \A k \in 1 .. size' : cols'[i].data[k].row = cols'[1].data[k].row
    BY <1>6 DEF RowsInv, AsLong, SameRows, Positions
  <2>2. SameRows(cols[i], cols[1])
    BY <1>1, <1>2, <2>1, WholeRows
  <2>3. CASE FirstTuple > Len(cols)
    <3>1. \A j \in DOMAIN cols : cols'[j] = OnlyAt(cols[j], f)
      BY <1>1, <1>3, <2>3
    <3>2. size' = m /\ Len(cols'[i].data) = m
      BY <1>1, <1>3, <1>4, <2>3, <3>1
    <3>3. ASSUME NEW k \in 1 .. m PROVE cols'[i].data[k].row = cols'[1].data[k].row
      <4>1. f[k] \in Positions
        OBVIOUS
      <4>2. cols'[i].data[k] = cols[i].data[f[k]] /\ cols'[1].data[k] = cols[1].data[f[k]]
        BY <1>3, <1>4, <3>1
      <4>3. QED
        BY <2>2, <4>1, <4>2 DEF SameRows
    <3>4. QED
      BY <3>2, <3>3
  <2>4. CASE FirstTuple = 1
    <3>1. \A j \in DOMAIN cols : cols'[j] = cols[j]
      BY <1>1, <1>3, <2>4
    <3>2. size' = size
      BY <1>1, <1>3, <2>4
    <3>3. QED
      BY <1>3, <2>2, <3>1, <3>2 DEF SameRows, Positions
  <2>5. QED
    BY <1>2, <1>3, <2>1, <2>3, <2>4
<1>10. NullFlagSound'
  <2>1. \A i \in DOMAIN cols : Sound(cols'[i])
    BY <1>1, <1>5, SoundFlags DEF TableInv
  <2>2. QED
    BY <1>6, <2>1 DEF NullFlagSound, Sound, HasTold
<1>11. QED
  BY <1>6, <1>7, <1>8, <1>9, <1>10 DEF TableInv, TypeInv

LEMMA SetRowKeeps ==
  ASSUME TableInv, NEW p, NEW z, SetRow(p, z), UNCHANGED changes
  PROVE  TableInv'
<1>1. /\ cols' = [i \in DOMAIN cols |-> Overwritten(cols[i], {p}, IF i = z THEN "told" ELSE "none")]
      /\ UNCHANGED <<colNames, colMap, twice, changes>>
      /\ UNCHANGED <<size, capacity, compresses, readOnly, made, outside, torn, mixed>>
      /\ Whole
  BY DEF SetRow, history
<1>2. 1 \in DOMAIN cols /\ \A i \in DOMAIN cols : cols[i] \in Columns /\ Len(cols[i].data) = size
  BY <1>1, WholeRows, ColsFacts DEF TableInv, TypeInv
<1>3. ASSUME NEW i \in DOMAIN cols
      PROVE  /\ cols'[i] \in Columns /\ Len(cols'[i].data) = size
             /\ \A k \in 1 .. size : cols'[i].data[k].row = cols[i].data[k].row
             /\ Sound(cols[i]) => Sound(cols'[i])
  <2>1. PICK null \in Nulls : null = IF i = z THEN "told" ELSE "none"
    BY NullsFacts
  <2>2. cols'[i] = Overwritten(cols[i], {p}, null)
    BY <1>1, <2>1
  <2>3. QED
    BY <1>2, <2>2, OverwrittenColumn
<1>4. ColumnTypes' /\ DOMAIN cols' = DOMAIN cols
  <2>1. cols' \in [DOMAIN cols -> Columns]
    BY <1>1, <1>3
  <2>2. QED
    BY <1>1, <2>1, NewCols DEF TableInv, TypeInv
<1>5. OtherTypes'
  BY <1>1 DEF TableInv, TypeInv, OtherTypes
<1>6. MapTypes' /\ NamesInv'
  BY <1>1, SameNames
<1>7. RowsInv'
  <2>1. SUFFICES ASSUME ~torn, ~mixed, NEW i \in DOMAIN cols
                 PROVE  SameRows(cols'[i], cols'[1])
    BY <1>1, <1>3, <1>4 DEF RowsInv, AsLong, SameRows, Positions
  <2>2. SameRows(cols[i], cols[1])
    BY <1>1, <2>1, WholeRows
  <2>3. QED
    BY <1>2, <1>3, <2>2 DEF SameRows, Positions
<1>8. NullFlagSound'
  <2>1. \A i \in DOMAIN cols : Sound(cols'[i])
    BY <1>1, <1>3, SoundFlags DEF TableInv
  <2>2. QED
    BY <1>4, <2>1 DEF NullFlagSound, Sound, HasTold
<1>9. QED
  BY <1>4, <1>5, <1>6, <1>7, <1>8 DEF TableInv, TypeInv

LEMMA NullOfCell ==
  ASSUME NEW c \in Cells, NEW null \in Nulls
  PROVE  /\ [c EXCEPT !.null = null] \in Cells
         /\ [c EXCEPT !.null = null].row = c.row /\ [c EXCEPT !.null = null].null = null
BY DEF Cells

LEMMA NewCell ==
  ASSUME NEW r \in Nat, NEW null \in Nulls
  PROVE  Cell(r, null) \in Cells /\ Cell(r, null).row = r /\ Cell(r, null).null = null
BY DEF Cell, Cells

(* One cell has other contents, of which the flag is not told.              *)
LEMMA CellKeeps ==
  ASSUME TableInv, NEW i \in DOMAIN cols, NEW p \in Positions, NEW null \in Nulls, null # "told",
         Whole, cols' = [cols EXCEPT ![i].data[p].null = null],
         UNCHANGED <<colNames, colMap, size, capacity, compresses, readOnly, history, changes>>
  PROVE  TableInv'
<1>1. /\ cols' = [cols EXCEPT ![i].data[p].null = null]
      /\ UNCHANGED <<colNames, colMap, twice, changes>>
      /\ UNCHANGED <<size, capacity, compresses, readOnly, made, outside, torn, mixed>>
      /\ Whole
  BY DEF history
<1>2. 1 \in DOMAIN cols /\ \A j \in DOMAIN cols : cols[j] \in Columns /\ Len(cols[j].data) = size
  BY <1>1, WholeRows, ColsFacts DEF TableInv, TypeInv
<1>3. ASSUME NEW j \in DOMAIN cols
      PROVE  /\ cols'[j] \in Columns /\ Len(cols'[j].data) = size
             /\ \A k \in 1 .. size : cols'[j].data[k].row = cols[j].data[k].row
             /\ Sound(cols[j]) => Sound(cols'[j])
  <2>1. CASE j # i
    BY <1>1, <1>2, <2>1
  <2>2. CASE j = i
    <3>3. PICK c \in Columns : c = cols[i]
      BY <1>2
    <3>7. c.data \in Seq(Cells) /\ Len(c.data) = size /\ DOMAIN c.data = 1 .. size
          /\ p \in 1 .. size /\ c.data[p] \in Cells
      BY <1>2, <3>3, ColumnFields DEF Positions
    <3>8. PICK e \in Cells : e = [c.data[p] EXCEPT !.null = null] /\ e.row = c.data[p].row
                               /\ e.null = null
      BY <3>7, NullOfCell
    <3>1. PICK d : d = [c.data EXCEPT ![p] = e]
      OBVIOUS
    <3>2. d \in Seq(Cells) /\ Len(d) = size /\ \A k \in 1 .. size : d[k].row = c.data[k].row
      BY <3>1, <3>7, <3>8
    <3>9. \A k \in 1 .. size : d[k].null = "told" => c.data[k].null = "told"
      BY <3>1, <3>7, <3>8
    <3>4. cols'[i] = [c EXCEPT !.data = d]
      BY <1>1, <3>1, <3>3, <3>8
    <3>5. cols'[i] \in Columns /\ cols'[i].data = d /\ cols'[i].flag = c.flag
      BY <3>2, <3>4 DEF Columns
    <3>10. Sound(c) => Sound(cols'[i])
      <4>1. DOMAIN d = 1 .. size
        BY <3>1, <3>7
      <4>2. ~HasTold(c.data) => ~HasTold(d)
        BY <3>7, <3>9, <4>1 DEF HasTold
      <4>3. QED
        BY <3>5, <4>2 DEF Sound
    <3>6. QED
      BY <2>2, <3>2, <3>3, <3>5, <3>10
  <2>3. QED
    BY <2>1, <2>2
<1>4. ColumnTypes' /\ DOMAIN cols' = DOMAIN cols
  <2>1. cols' \in [DOMAIN cols -> Columns]
    BY <1>1, <1>3
  <2>2. QED
    BY <1>1, <2>1, NewCols DEF TableInv, TypeInv
<1>5. OtherTypes'
  BY <1>1 DEF TableInv, TypeInv, OtherTypes
<1>6. MapTypes' /\ NamesInv'
  BY <1>1, SameNames
<1>7. RowsInv'
  <2>1. SUFFICES ASSUME ~torn, ~mixed, NEW j \in DOMAIN cols
                 PROVE  SameRows(cols'[j], cols'[1])
    BY <1>1, <1>3, <1>4 DEF RowsInv, AsLong, SameRows, Positions
  <2>2. SameRows(cols[j], cols[1])
    BY <1>1, <2>1, WholeRows
  <2>3. QED
    BY <1>2, <1>3, <2>2 DEF SameRows, Positions
<1>8. NullFlagSound'
  <2>1. \A j \in DOMAIN cols : Sound(cols'[j])
    BY <1>3, SoundFlags DEF TableInv
  <2>2. QED
    BY <1>4, <2>1 DEF NullFlagSound, Sound, HasTold
<1>9. QED
  BY <1>4, <1>5, <1>6, <1>7, <1>8 DEF TableInv, TypeInv

LEMMA SetNullKeeps ==
  ASSUME TableInv, NEW i \in DOMAIN cols, NEW p \in Positions, SetNull(i, p), UNCHANGED changes
  PROVE  TableInv'
<1>1. PICK null \in Nulls : null = "raw" /\ null # "told"
  BY NullsFacts
<1>2. /\ Whole /\ cols' = [cols EXCEPT ![i].data[p].null = null]
      /\ UNCHANGED <<colNames, colMap, size, capacity, compresses, readOnly, history, changes>>
  BY <1>1 DEF SetNull
<1>3. QED
  BY <1>1, <1>2, CellKeeps

LEMMA RewriteColumnKeeps ==
  ASSUME TableInv, NEW i \in DOMAIN cols, NEW p \in Positions, NEW null \in {"none", "raw"},
         RewriteColumn(i, p, null), UNCHANGED changes
  PROVE  TableInv'
<1>1. /\ Whole /\ cols' = [cols EXCEPT ![i].data[p].null = null]
      /\ UNCHANGED <<colNames, colMap, size, capacity, compresses, readOnly, history, changes>>
  BY DEF RewriteColumn
<1>2. null \in Nulls /\ null # "told"
  BY NullsFacts
<1>3. QED
  BY <1>1, <1>2, CellKeeps

LEMMA ClearKeeps ==
  ASSUME TableInv, Clear, UNCHANGED changes
  PROVE  TableInv'
<1>1. /\ cols' = [i \in DOMAIN cols |-> Cleared(cols[i])]
      /\ size' = 0 /\ outside' = 0 /\ torn' = FALSE /\ mixed' = FALSE
      /\ UNCHANGED <<colNames, colMap, twice, capacity, compresses, readOnly, made, changes>>
  BY DEF Clear
<1>2. \A i \in DOMAIN cols : cols'[i] \in Columns /\ Len(cols'[i].data) = 0 /\ Sound(cols'[i])
  BY <1>1, ClearedColumn, ColsFacts DEF TableInv, TypeInv
<1>3. ColumnTypes' /\ DOMAIN cols' = DOMAIN cols
  <2>1. cols' \in [DOMAIN cols -> Columns]
    BY <1>1, <1>2
  <2>2. QED
    BY <1>1, <2>1, NewCols DEF TableInv, TypeInv
<1>4. OtherTypes'
  BY <1>1 DEF TableInv, TypeInv, OtherTypes
<1>5. MapTypes' /\ NamesInv'
  BY <1>1, SameNames
<1>6. RowsInv' /\ NullFlagSound'
  BY <1>1, <1>2, <1>3 DEF RowsInv, AsLong, SameRows, Positions, NullFlagSound, Sound, HasTold
<1>7. QED
  BY <1>3, <1>4, <1>5, <1>6 DEF TableInv, TypeInv

LEMMA MoreRows ==
  ASSUME UNCHANGED <<torn, mixed, size>>, DOMAIN cols' = DOMAIN cols,
         ~torn /\ ~mixed =>
           \A j \in DOMAIN cols :
             /\ \/ Len(cols'[j].data) = size
                \/ /\ outside' # 0 /\ Len(cols'[j].data) = size + 1
                   /\ cols'[j].data[size + 1].row = outside'
             /\ SameRows(cols'[j], cols'[1])
  PROVE  RowsInv'
BY DEF RowsInv, AsLong, SameRows, Positions

(* The columns take the row that is written to them one after the other ... *)
LEMMA WriteColumnKeeps ==
  ASSUME TableInv, NEW i \in DOMAIN cols, NEW null \in Nulls, WriteColumn(i, null), UNCHANGED changes
  PROVE  TableInv'
<1>1. /\ Len(cols[i].data) = size
      /\ outside' = IF outside = 0 THEN made + 1 ELSE outside
      /\ made' = Tops({made, outside'})
      /\ cols' = [cols EXCEPT ![i].data = Append(@, Cell(outside', null)),
                              ![i].capacity = Tops({@, Len(cols[i].data) + 1}),
                              ![i].flag = @ \/ null = "told"]
      /\ UNCHANGED <<colNames, colMap, twice, changes>>
      /\ UNCHANGED <<size, capacity, compresses, readOnly, torn, mixed>>
  BY DEF WriteColumn
<1>2. outside' \in Nat /\ outside' # 0 /\ made' \in Nat /\ size \in Nat
      /\ (outside # 0 => outside' = outside)
  <2>1. made \in Nat /\ outside \in Nat /\ size \in Nat
    BY DEF TableInv, TypeInv, OtherTypes
  <2>2. outside' \in Nat /\ outside' # 0 /\ (outside # 0 => outside' = outside)
    BY <1>1, <2>1
  <2>3. PICK o \in Nat : o = outside'
    BY <2>2
  <2>4. made' \in Nat
    BY <1>1, <2>1, <2>3, TopsOfTwo
  <2>5. QED
    BY <2>1, <2>2, <2>4
<1>3. PICK c \in Columns : c = cols[i]
  BY ColsFacts DEF TableInv, TypeInv
<1>4. PICK d \in Seq(Cells) : d = Append(c.data, Cell(outside', null))
  <2>1. PICK o \in Nat : o = outside'
    BY <1>2
  <2>2. PICK e \in Cells : e = Cell(o, null)
    BY NewCell
  <2>3. c.data \in Seq(Cells) /\ Append(c.data, e) \in Seq(Cells)
    BY ColumnFields
  <2>4. QED
    BY <2>1, <2>2, <2>3
<1>5. PICK cap \in Nat : cap = Tops({c.capacity, Len(c.data) + 1})
  <2>1. c.capacity \in Nat /\ Len(c.data) + 1 \in Nat
    BY ColumnFields
  <2>2. PICK len \in Nat : len = Len(c.data) + 1
    BY <2>1
  <2>3. Tops({c.capacity, len}) \in Nat
    BY <2>1, TopsOfTwo
  <2>4. QED
    BY <2>2, <2>3
<1>17. PICK flag \in BOOLEAN : flag = (c.flag \/ null = "told")
  OBVIOUS
<1>6. cols' = [cols EXCEPT ![i] = [c EXCEPT !.data = d, !.capacity = cap, !.flag = flag]]
  BY <1>1, <1>3, <1>4, <1>5, <1>17
<1>7. PICK a : a = [c EXCEPT !.data = d, !.capacity = cap, !.flag = flag]
  OBVIOUS
<1>8. a \in Columns /\ a.data = d /\ a.flag = flag
  BY <1>7 DEF Columns
<1>9. /\ cols'[i] = a /\ \A j \in DOMAIN cols : j # i => cols'[j] = cols[j]
      /\ cols' \in [DOMAIN cols -> Columns]
  BY <1>6, <1>7, <1>8, ColsFacts DEF TableInv, TypeInv, ColumnTypes
<1>10. /\ Len(d) = size + 1 /\ d[size + 1].row = outside' /\ d[size + 1].null = null
       /\ \A k \in 1 .. size : d[k] = c.data[k]
  <2>1. PICK o \in Nat : o = outside'
    BY <1>2
  <2>2. PICK e \in Cells : e = Cell(o, null) /\ e.row = o /\ e.null = null
    BY NewCell
  <2>3. d = Append(c.data, e) /\ c.data \in Seq(Cells) /\ Len(c.data) = size
    BY <1>1, <1>3, <1>4, <2>1, <2>2, ColumnFields
  <2>4. Len(d) = size + 1 /\ d[size + 1] = e /\ \A k \in 1 .. size : d[k] = c.data[k]
    BY <1>2, <2>3
  <2>5. QED
    BY <2>1, <2>2, <2>4
<1>11. ColumnTypes' /\ DOMAIN cols' = DOMAIN cols
  BY <1>1, <1>9, NewCols DEF TableInv, TypeInv
<1>12. OtherTypes'
  BY <1>1, <1>2 DEF TableInv, TypeInv, OtherTypes
<1>13. MapTypes' /\ NamesInv'
  BY <1>1, SameNames
<1>14. RowsInv'
  <2>1. SUFFICES ASSUME ~torn, ~mixed, NEW j \in DOMAIN cols
                 PROVE  /\ \/ Len(cols'[j].data) = size
                            \/ /\ outside' # 0 /\ Len(cols'[j].data) = size + 1
                               /\ cols'[j].data[size + 1].row = outside'
                         /\ SameRows(cols'[j], cols'[1])
    BY <1>1, <1>11, MoreRows
  <2>2. AsLong(cols[j]) /\ SameRows(cols[j], cols[1]) /\ 1 \in DOMAIN cols
    BY <2>1, ColsFacts DEF TableInv, TypeInv, RowsInv
  <2>3. \/ Len(cols'[j].data) = size
        \/ /\ outside' # 0 /\ Len(cols'[j].data) = size + 1
           /\ cols'[j].data[size + 1].row = outside'
    <3>1. CASE j = i
      BY <1>1, <1>2, <1>8, <1>9, <1>10, <3>1 DEF AsLong
    <3>2. CASE j # i
      BY <1>1, <1>2, <1>9, <2>2, <3>2 DEF AsLong
    <3>3. QED
      BY <3>1, <3>2
  <2>4. \A h \in DOMAIN cols : \A k \in 1 .. size : cols'[h].data[k].row = cols[h].data[k].row
    BY <1>3, <1>8, <1>9, <1>10
  <2>5. SameRows(cols'[j], cols'[1])
    BY <2>2, <2>4 DEF SameRows, Positions
  <2>6. QED
    BY <2>3, <2>5
<1>15. NullFlagSound'
  <2>1. ~HasTold(c.data) /\ null # "told" => ~HasTold(d)
    <3>1. DOMAIN d = 1 .. size + 1 /\ DOMAIN c.data = 1 .. size
      BY <1>1, <1>3, <1>10, ColumnFields
    <3>2. QED
      BY <1>2, <1>10, <3>1 DEF HasTold
  <2>2. Sound(c) => Sound(a)
    BY <1>8, <1>17, <2>1 DEF Sound
  <2>3. \A j \in DOMAIN cols : Sound(cols'[j])
    BY <1>1, <1>3, <1>9, <2>2, SoundFlags DEF TableInv
  <2>4. QED
    BY <1>11, <2>3 DEF NullFlagSound, Sound, HasTold
<1>16. QED
  BY <1>11, <1>12, <1>13, <1>14, <1>15 DEF TableInv, TypeInv

(* ... and when they are as long as each other they all have it.            *)
LEMMA UpdateSizeKeeps ==
  ASSUME TableInv, UpdateSize, UNCHANGED changes
  PROVE  TableInv'
<1>1. /\ \A i \in DOMAIN cols : Len(cols[i].data) = Len(cols[1].data)
      /\ size' = Len(cols[1].data) /\ outside' = 0
      /\ UNCHANGED <<cols, colNames, colMap, twice, changes>>
      /\ UNCHANGED <<capacity, compresses, readOnly, made, torn, mixed>>
  BY DEF UpdateSize
<1>2. size \in Nat /\ size' \in Nat /\ 1 \in DOMAIN cols
  BY <1>1, ColsFacts, ColumnFields DEF TableInv, TypeInv, OtherTypes
<1>3. TypeInv' /\ NamesInv' /\ NullFlagSound'
  <2>1. ColumnTypes'
    BY <1>1 DEF TableInv, TypeInv, ColumnTypes
  <2>2. OtherTypes'
    BY <1>1, <1>2 DEF TableInv, TypeInv, OtherTypes
  <2>3. MapTypes' /\ NamesInv'
    BY <1>1, SameNames
  <2>4. NullFlagSound'
    BY <1>1 DEF TableInv, NullFlagSound
  <2>5. QED
    BY <2>1, <2>2, <2>3, <2>4 DEF TypeInv
<1>4. RowsInv'
  <2>1. SUFFICES ASSUME ~torn, ~mixed, NEW i \in DOMAIN cols
                 PROVE  \A k \in 1 .. size' : cols[i].data[k].row = cols[1].data[k].row
    BY <1>1 DEF RowsInv, AsLong, SameRows, Positions
  <2>2. /\ AsLong(cols[i]) /\ AsLong(cols[1])
        /\ \A k \in 1 .. size : cols[i].data[k].row = cols[1].data[k].row
    BY <1>2, <2>1 DEF TableInv, RowsInv, SameRows, Positions
  <2>3. CASE size' = size
    BY <2>2, <2>3
  <2>4. CASE size' # size
    <3>1. /\ size' = size + 1 /\ cols[1].data[size + 1].row = outside
          /\ cols[i].data[size + 1].row = outside
      BY <1>1, <1>2, <2>2, <2>4 DEF AsLong
    <3>2. QED
      BY <1>2, <2>2, <3>1
  <2>5. QED
    BY <2>3, <2>4
<1>5. QED
  BY <1>3, <1>4 DEF TableInv

-----------------------------------------------------------------------------
(* The steps that concern names and columns. *)

(* The cells of distinct places are as many as the places.                  *)
LEMMA DistinctNames ==
  ASSUME NEW S, NEW seq \in Seq(S), NEW n \in 0 .. Len(seq)
  PROVE  /\ IsFiniteSet({seq[h] : h \in 1 .. n})
         /\ ~Repeats(seq) => Cardinality({seq[h] : h \in 1 .. n}) = n
<1> DEFINE T == {seq[h] : h \in 1 .. n}
           f == [h \in 1 .. n |-> seq[h]]
<1>1. n \in Nat /\ \A h \in 1 .. n : h \in DOMAIN seq
  OBVIOUS
<1>2. f \in Surjection(1 .. n, T)
  BY DEF Surjection
<1>3. IsFiniteSet(1 .. n) /\ Cardinality(1 .. n) = n
  BY <1>1, FS_Interval
<1>4. ASSUME ~Repeats(seq) PROVE f \in Injection(1 .. n, T)
  BY <1>1, <1>4 DEF Repeats, Injection, IsInjective
<1> HIDE DEF f, T
<1>5. IsFiniteSet(T) /\ (~Repeats(seq) => Cardinality(T) = n)
  BY <1>2, <1>3, <1>4, FS_Surjection
<1>6. QED
  BY <1>5 DEF T

(* Where no name is given twice, each is first where it is.                 *)
LEMMA FirstOfFacts ==
  ASSUME NEW S, NEW seq \in Seq(S), NEW j \in DOMAIN seq
  PROVE  /\ FirstOf(seq, seq[j]) \in DOMAIN seq
         /\ ~Repeats(seq) => FirstOf(seq, seq[j]) = j
<1> DEFINE T == {i \in DOMAIN seq : seq[i] = seq[j]}
<1>1. T \in SUBSET Nat /\ T # {} /\ T \subseteq DOMAIN seq
  OBVIOUS
<1>2. ~Repeats(seq) => T = {j}
  BY DEF Repeats
<1>3. j \in Nat
  OBVIOUS
<1>4. FirstOf(seq, seq[j]) = Lows(T)
  BY DEF FirstOf
<1> HIDE DEF T
<1>5. QED
  BY <1>1, <1>2, <1>3, <1>4, LowsIsLeast, LowsOfOne

LEMMA NewColumn ==
  ASSUME NEW data \in Seq(Cells), NEW flag \in BOOLEAN,
         NEW c \in {FastColumn(data, flag), TupleColumn(data, flag)}
  PROVE  c \in Columns /\ c.data = data /\ c.flag = flag
<1>1. PICK len \in Nat : len = Len(data)
  OBVIOUS
<1>2. c \in {[tuple |-> FALSE, data |-> data, capacity |-> len, flag |-> flag],
             [tuple |-> TRUE, data |-> data, capacity |-> 0, flag |-> flag]}
  BY <1>1 DEF FastColumn, TupleColumn
<1>3. CASE c = [tuple |-> FALSE, data |-> data, capacity |-> len, flag |-> flag]
  BY <1>3 DEF Columns
<1>4. CASE c = [tuple |-> TRUE, data |-> data, capacity |-> 0, flag |-> flag]
  BY <1>4 DEF Columns
<1>5. QED
  BY <1>2, <1>3, <1>4

(* A column that is made for a whole table has the rows of its first one.   *)
LEMMA FreshCells ==
  ASSUME TableInv, Whole, NEW null \in Nulls
  PROVE  LET data == [k \in Positions |-> Cell(cols[1].data[k].row, null)]
         IN  /\ data \in Seq(Cells) /\ Len(data) = size
             /\ \A k \in 1 .. size : data[k].row = cols[1].data[k].row
             /\ HasTold(data) => null = "told" /\ size > 0
<1> DEFINE data == [k \in Positions |-> Cell(cols[1].data[k].row, null)]
<1>1. PICK c \in Columns : c = cols[1]
  BY ColsFacts DEF TableInv, TypeInv
<1>2. Len(c.data) = size /\ size \in Nat
  BY <1>1, WholeRows, ColsFacts DEF TableInv, TypeInv, OtherTypes
<1>3. ASSUME NEW k \in 1 .. size
      PROVE  data[k] \in Cells /\ data[k].row = c.data[k].row /\ data[k].null = null
  <2>1. c.data[k] \in Cells
    BY <1>2, ColumnFields
  <2>2. PICK r \in Nat : r = c.data[k].row
    BY <2>1 DEF Cells
  <2>3. data[k] = Cell(r, null)
    BY <1>1, <2>2 DEF Positions
  <2>4. QED
    BY <2>2, <2>3, NewCell
<1>4. data \in [1 .. size -> Cells]
  BY <1>3 DEF Positions
<1> HIDE DEF data
<1>5. data \in Seq(Cells) /\ Len(data) = size /\ DOMAIN data = 1 .. size
  BY <1>2, <1>4
<1>6. HasTold(data) => null = "told" /\ size > 0
  BY <1>2, <1>3, <1>5 DEF HasTold
<1>7. QED
  BY <1>1, <1>3, <1>5, <1>6 DEF data

(* The columns there are keep their rows, and those that are added to a     *)
(* whole table have the same.                                               *)
LEMMA AddedColumns ==
  ASSUME TableInv, Whole, NEW old \in [DOMAIN cols -> Columns],
         NEW n \in Nat, NEW more \in [1 .. n -> Columns], NEW names \in Seq(Names), Len(names) = n,
         cols' = old \o more, colNames' = colNames \o names,
         UNCHANGED <<size, outside, torn, mixed>>,
         \A i \in DOMAIN cols :
           /\ Len(old[i].data) = size
           /\ \A k \in 1 .. size : old[i].data[k].row = cols[i].data[k].row
           /\ Sound(cols[i]) => Sound(old[i]),
         \A j \in 1 .. n :
           /\ Len(more[j].data) = size
           /\ \A k \in 1 .. size : more[j].data[k].row = cols[1].data[k].row
           /\ Sound(more[j])
  PROVE  ColumnTypes' /\ RowsInv' /\ NullFlagSound'
<1>1. /\ Len(cols) \in Nat /\ DOMAIN cols = 1 .. Len(cols) /\ 1 \in DOMAIN cols
      /\ old \in Seq(Columns) /\ Len(old) = Len(cols)
      /\ more \in Seq(Columns) /\ Len(more) = n
      /\ size \in Nat
  <2>1. /\ Len(cols) \in Nat /\ DOMAIN cols = 1 .. Len(cols) /\ 1 \in DOMAIN cols
        /\ cols \in Seq(Columns) /\ size \in Nat
    BY ColsFacts DEF TableInv, TypeInv, ColumnTypes, OtherTypes
  <2>2. old \in Seq(Columns) /\ Len(old) = Len(cols)
    BY <2>1, MappedSeq
  <2>3. more \in Seq(Columns) /\ Len(more) = n
    OBVIOUS
  <2>4. QED
    BY <2>1, <2>2, <2>3
<1>2. /\ cols' \in Seq(Columns) /\ Len(cols') = Len(cols) + n
      /\ \A i \in 1 .. Len(cols) : cols'[i] = old[i]
      /\ \A j \in 1 .. n : cols'[Len(cols) + j] = more[j]
  <2>1. /\ old \o more \in Seq(Columns) /\ Len(old \o more) = Len(old) + Len(more)
        /\ \A i \in 1 .. Len(old) : (old \o more)[i] = old[i]
        /\ \A j \in 1 .. Len(more) : (old \o more)[Len(old) + j] = more[j]
    <3>1. PICK a \in Seq(Columns), b \in Seq(Columns) : a = old /\ b = more
      BY <1>1
    <3>2. /\ a \o b \in Seq(Columns) /\ Len(a \o b) = Len(a) + Len(b)
          /\ \A i \in 1 .. Len(a) : (a \o b)[i] = a[i]
          /\ \A j \in 1 .. Len(b) : (a \o b)[Len(a) + j] = b[j]
      BY Concatenated
    <3>3. QED
      BY <3>1, <3>2
  <2>2. QED
    BY <1>1, <2>1
<1>3. colNames' \in Seq(Names) /\ Len(colNames') = Len(cols) + n
  <2>1. colNames \in Seq(Names) /\ Len(colNames) = Len(cols)
    BY DEF TableInv, TypeInv, ColumnTypes
  <2>2. colNames \o names \in Seq(Names) /\ Len(colNames \o names) = Len(colNames) + Len(names)
    BY <2>1, Concatenated
  <2>3. QED
    BY <2>1, <2>2
<1>4. ColumnTypes'
  <2>1. cols' # <<>>
    BY <1>1, <1>2, EmptySeq
  <2>2. QED
    BY <1>2, <1>3, <2>1 DEF ColumnTypes
<1>5. ASSUME NEW i \in DOMAIN cols'
      PROVE  i \in DOMAIN cols \/ \E j \in 1 .. n : cols'[i] = more[j]
  <2>1. i \in 1 .. Len(cols) + n
    BY <1>2
  <2>2. CASE i > Len(cols)
    <3>1. i - Len(cols) \in 1 .. n /\ i = Len(cols) + (i - Len(cols))
      BY <1>1, <2>1, <2>2
    <3>2. QED
      BY <1>2, <3>1
  <2>3. QED
    BY <1>1, <2>1, <2>2
<1>6. RowsInv'
  <2>1. SUFFICES ASSUME ~torn, ~mixed, NEW i \in DOMAIN cols'
                 PROVE  /\ Len(cols'[i].data) = size
                        /\ \A k \in 1 .. size : cols'[i].data[k].row = cols'[1].data[k].row
    BY DEF RowsInv, AsLong, SameRows, Positions
  <2>2. \A k \in 1 .. size : cols'[1].data[k].row = cols[1].data[k].row
    BY <1>1, <1>2
  <2>3. CASE i \in DOMAIN cols
    <3>1. SameRows(cols[i], cols[1])
      BY <2>1, <2>3, WholeRows
    <3>2. QED
      BY <1>1, <1>2, <2>2, <2>3, <3>1 DEF SameRows, Positions
  <2>4. CASE \E j \in 1 .. n : cols'[i] = more[j]
    BY <2>2, <2>4
  <2>5. QED
    BY <1>5, <2>3, <2>4
<1>7. NullFlagSound'
  <2>1. ASSUME NEW i \in DOMAIN cols' PROVE Sound(cols'[i])
    <3>1. CASE i \in DOMAIN cols
      BY <1>1, <1>2, <2>1, <3>1, SoundFlags DEF TableInv
    <3>2. CASE \E j \in 1 .. n : cols'[i] = more[j]
      BY <3>2
    <3>3. QED
      BY <1>5, <3>1, <3>2
  <2>2. QED
    BY <2>1 DEF NullFlagSound, Sound, HasTold
<1>8. QED
  BY <1>4, <1>6, <1>7

(* Names are added behind those there are, and the map has their places.    *)
LEMMA AddedNames ==
  ASSUME TableInv, NEW names \in Seq(Names),
         colNames' = colNames \o names, twice' = (twice \/ Repeats(colNames')),
         DOMAIN colMap' = DOMAIN colMap \cup {names[j] : j \in DOMAIN names},
         \A n \in DOMAIN colMap : colMap'[n] = colMap[n],
         ~twice' => \A j \in DOMAIN names :
                      names[j] \notin DOMAIN colMap => colMap'[names[j]] = Len(cols) + j
  PROVE  NamesInv'
<1>1. SUFFICES ASSUME ~twice' PROVE ~Repeats(colNames') /\ MapFindsColumns'
  BY DEF NamesInv
<1>2. ~twice /\ ~Repeats(colNames')
  BY <1>1
<1>3. /\ DOMAIN colMap = {colNames[i] : i \in DOMAIN colNames}
      /\ \A i \in DOMAIN colNames : colMap[colNames[i]] = i
  BY <1>2 DEF TableInv, NamesInv, MapFindsColumns
<1>4. /\ Len(cols) \in Nat /\ DOMAIN colNames = 1 .. Len(cols) /\ DOMAIN names = 1 .. Len(names)
      /\ Len(names) \in Nat
      /\ DOMAIN colNames' = 1 .. Len(cols) + Len(names)
      /\ \A i \in 1 .. Len(cols) : colNames'[i] = colNames[i]
      /\ \A j \in 1 .. Len(names) : colNames'[Len(cols) + j] = names[j]
  <2>1. /\ colNames \in Seq(Names) /\ Len(colNames) = Len(cols) /\ Len(cols) \in Nat
        /\ DOMAIN colNames = 1 .. Len(cols)
    BY ColsFacts DEF TableInv, TypeInv, ColumnTypes
  <2>2. /\ colNames' \in Seq(Names) /\ Len(colNames') = Len(colNames) + Len(names)
        /\ \A i \in 1 .. Len(colNames) : colNames'[i] = colNames[i]
        /\ \A j \in 1 .. Len(names) : colNames'[Len(colNames) + j] = names[j]
    <3>1. PICK a \in Seq(Names) : a = colNames
      BY <2>1
    <3>2. /\ a \o names \in Seq(Names) /\ Len(a \o names) = Len(a) + Len(names)
          /\ \A i \in 1 .. Len(a) : (a \o names)[i] = a[i]
          /\ \A j \in 1 .. Len(names) : (a \o names)[Len(a) + j] = names[j]
      BY Concatenated
    <3>3. colNames' = a \o names
      BY <3>1
    <3>4. QED
      BY <3>1, <3>2, <3>3
  <2>3. DOMAIN names = 1 .. Len(names) /\ Len(names) \in Nat
        /\ DOMAIN colNames' = 1 .. Len(colNames')
    BY <2>2
  <2>4. QED
    BY <2>1, <2>2, <2>3
<1>5. ASSUME NEW i \in DOMAIN colNames'
      PROVE  i \in DOMAIN colNames
             \/ \E j \in DOMAIN names : i = Len(cols) + j /\ colNames'[i] = names[j]
  <2>1. CASE i > Len(cols)
    <3>1. i - Len(cols) \in 1 .. Len(names) /\ i = Len(cols) + (i - Len(cols))
      BY <1>4, <2>1
    <3>2. QED
      BY <1>4, <3>1
  <2>2. QED
    BY <1>4, <2>1
<1>6. \A j \in DOMAIN names : names[j] \notin DOMAIN colMap
  <2>1. ASSUME NEW j \in DOMAIN names, NEW i \in DOMAIN colNames, names[j] = colNames[i] PROVE FALSE
    <3>1. Len(cols) + j \in DOMAIN colNames' /\ i \in DOMAIN colNames' /\ Len(cols) + j # i
      BY <1>4
    <3>2. colNames'[Len(cols) + j] = colNames'[i]
      BY <1>4, <2>1
    <3>3. QED
      BY <1>2, <3>1, <3>2 DEF Repeats
  <2>2. QED
    BY <1>3, <2>1
<1>7. \A i \in DOMAIN colNames' : colMap'[colNames'[i]] = i
  <2>1. ASSUME NEW i \in DOMAIN colNames' PROVE colMap'[colNames'[i]] = i
    <3>1. CASE i \in DOMAIN colNames
      <4>1. colNames'[i] = colNames[i] /\ colMap[colNames[i]] = i /\ colNames[i] \in DOMAIN colMap
        BY <1>3, <1>4, <3>1
      <4>2. colMap'[colNames[i]] = colMap[colNames[i]]
        BY <4>1
      <4>3. QED
        BY <4>1, <4>2
    <3>2. CASE \E j \in DOMAIN names : i = Len(cols) + j /\ colNames'[i] = names[j]
      BY <1>1, <1>6, <3>2
    <3>3. QED
      BY <1>5, <3>1, <3>2
  <2>2. QED
    BY <2>1
<1>8. DOMAIN colMap' = {colNames'[i] : i \in DOMAIN colNames'}
  <2>1. \A i \in DOMAIN colNames : i \in DOMAIN colNames' /\ colNames'[i] = colNames[i]
    BY <1>4
  <2>2. \A j \in DOMAIN names : \E i \in DOMAIN colNames' : colNames'[i] = names[j]
    <3>1. \A j \in DOMAIN names : Len(cols) + j \in DOMAIN colNames'
      BY <1>4
    <3>2. QED
      BY <1>4, <3>1
  <2>3. PICK D : D = DOMAIN colMap'
    OBVIOUS
  <2>4. D = {colNames[i] : i \in DOMAIN colNames} \cup {names[j] : j \in DOMAIN names}
    BY <1>3, <2>3
  <2>5. \A n \in D : n \in {colNames'[i] : i \in DOMAIN colNames'}
    <3>1. SUFFICES ASSUME NEW n \in D PROVE \E i \in DOMAIN colNames' : n = colNames'[i]
      OBVIOUS
    <3>2. CASE \E i \in DOMAIN colNames : n = colNames[i]
      BY <2>1, <3>2
    <3>3. CASE \E j \in DOMAIN names : n = names[j]
      BY <2>2, <3>3
    <3>4. QED
      BY <2>4, <3>2, <3>3
  <2>6. \A i \in DOMAIN colNames' : colNames'[i] \in D
    BY <1>4, <1>5, <2>4
  <2>7. QED
    BY <2>3, <2>5, <2>6
<1>9. QED
  BY <1>2, <1>7, <1>8 DEF MapFindsColumns

LEMMA AddedMapTypes ==
  ASSUME MapTypes, NEW names \in Seq(Names),
         DOMAIN colMap' = DOMAIN colMap \cup {names[j] : j \in DOMAIN names},
         colMap' = [n \in DOMAIN colMap' |-> colMap'[n]],
         \A n \in DOMAIN colMap : colMap'[n] = colMap[n],
         \A j \in DOMAIN names : names[j] \notin DOMAIN colMap => colMap'[names[j]] \in Nat
  PROVE  MapTypes'
<1>1. IsFiniteSet({names[j] : j \in DOMAIN names})
  <2>1. PICK n \in 0 .. Len(names) : DOMAIN names = 1 .. n
    OBVIOUS
  <2>2. IsFiniteSet({names[j] : j \in 1 .. n})
    BY DistinctNames
  <2>3. QED
    BY <2>1, <2>2
<1>2. IsFiniteSet(DOMAIN colMap')
  <2>1. IsFiniteSet(DOMAIN colMap)
    BY DEF MapTypes
  <2>2. PICK T : T = {names[j] : j \in DOMAIN names}
    OBVIOUS
  <2>3. IsFiniteSet(DOMAIN colMap \cup T)
    BY <1>1, <2>1, <2>2, FS_Union
  <2>4. QED
    BY <2>2, <2>3
<1>3. \A n \in DOMAIN colMap' : colMap'[n] \in Nat
  BY DEF MapTypes
<1>4. QED
  BY <1>2, <1>3 DEF MapTypes

LEMMA UpdateKeeps ==
  ASSUME TableInv, NEW N \in Nat, NEW names \in [1 .. N -> Names], NEW P, NEW null \in Nulls,
         NEW new \in Seq(Names), changes' \in Nat, Update(names, P, null, new)
  PROVE  TableInv'
<1> DEFINE Old == {colMap[names[i]] : i \in {j \in DOMAIN names : names[j] \in DOMAIN colMap}}
           data == [k \in Positions |-> Cell(cols[1].data[k].row, null)]
           fresh == FastColumn(data, null = "told" /\ size > 0)
           old == [i \in DOMAIN cols |-> IF i \in Old THEN Overwritten(cols[i], P, null) ELSE cols[i]]
           more == [j \in DOMAIN new |-> fresh]
<1>1. /\ Whole /\ cols' = old \o more /\ colNames' = colNames \o new
      /\ colMap' = [n \in DOMAIN colMap \cup {new[j] : j \in DOMAIN new} |->
                      IF n \in DOMAIN colMap THEN colMap[n] ELSE NewPlace(new, n)]
      /\ twice' = (twice \/ Repeats(colNames'))
      /\ UNCHANGED <<size, capacity, compresses, readOnly, made, outside, torn, mixed>>
  BY DEF Update
<1>2. PICK n \in Nat : n = Len(new) /\ DOMAIN new = 1 .. n
  OBVIOUS
<1>3. /\ \A i \in DOMAIN cols : cols[i] \in Columns /\ Len(cols[i].data) = size
      /\ size \in Nat /\ DOMAIN cols = 1 .. Len(cols) /\ Len(cols) \in Nat
  BY <1>1, ColsFacts, WholeRows DEF TableInv, TypeInv, OtherTypes
<1>4. /\ data \in Seq(Cells) /\ Len(data) = size
      /\ \A k \in 1 .. size : data[k].row = cols[1].data[k].row
      /\ HasTold(data) => null = "told" /\ size > 0
  BY <1>1, FreshCells
<1> HIDE DEF data
<1>5. /\ fresh \in Columns /\ Len(fresh.data) = size /\ Sound(fresh)
      /\ \A k \in 1 .. size : fresh.data[k].row = cols[1].data[k].row
  <2>1. PICK flag \in BOOLEAN : flag = (null = "told" /\ size > 0)
    OBVIOUS
  <2>2. PICK c : c = FastColumn(data, flag)
    OBVIOUS
  <2>3. c \in Columns /\ c.data = data /\ c.flag = flag
    BY <1>4, <2>2, NewColumn
  <2>4. c = fresh
    BY <2>1, <2>2
  <2>5. Sound(c)
    BY <1>4, <2>1, <2>3 DEF Sound
  <2>6. QED
    BY <1>4, <2>3, <2>4, <2>5
<1> HIDE DEF Old
<1>6. ASSUME NEW i \in DOMAIN cols
      PROVE  /\ old[i] \in Columns /\ Len(old[i].data) = size
             /\ \A k \in 1 .. size : old[i].data[k].row = cols[i].data[k].row
             /\ Sound(cols[i]) => Sound(old[i])
  <2>1. CASE i \in Old
    <3>1. old[i] = Overwritten(cols[i], P, null)
      BY <2>1
    <3>2. QED
      BY <1>3, <3>1, OverwrittenColumn
  <2>2. CASE i \notin Old
    BY <1>3, <2>2
  <2>3. QED
    BY <2>1, <2>2
<1>7. old \in [DOMAIN cols -> Columns]
  BY <1>6
<1>8. more \in [1 .. n -> Columns] /\ \A j \in 1 .. n : more[j] = fresh
  BY <1>2, <1>5
<1>9. ColumnTypes' /\ RowsInv' /\ NullFlagSound'
  <2> HIDE DEF old, more, fresh
  <2>1. PICK o \in [DOMAIN cols -> Columns], q \in [1 .. n -> Columns] : o = old /\ q = more
    BY <1>7, <1>8
  <2>2. cols' = o \o q /\ colNames' = colNames \o new /\ Len(new) = n /\ Whole
        /\ UNCHANGED <<size, outside, torn, mixed>>
    BY <1>1, <1>2, <2>1
  <2>3. \A i \in DOMAIN cols :
          /\ Len(o[i].data) = size
          /\ \A k \in 1 .. size : o[i].data[k].row = cols[i].data[k].row
          /\ Sound(cols[i]) => Sound(o[i])
    BY <1>6, <2>1
  <2>4. \A j \in 1 .. n :
          /\ Len(q[j].data) = size
          /\ \A k \in 1 .. size : q[j].data[k].row = cols[1].data[k].row
          /\ Sound(q[j])
    BY <1>5, <1>8, <2>1
  <2>5. QED
    BY <2>2, <2>3, <2>4, AddedColumns
<1>10. /\ DOMAIN colMap' = DOMAIN colMap \cup {new[j] : j \in DOMAIN new}
       /\ \A name \in DOMAIN colMap : colMap'[name] = colMap[name]
       /\ \A j \in DOMAIN new : new[j] \notin DOMAIN colMap => colMap'[new[j]] = NewPlace(new, new[j])
       /\ colMap' = [name \in DOMAIN colMap' |-> colMap'[name]]
  BY <1>1
<1>11. ASSUME NEW j \in DOMAIN new
       PROVE  /\ NewPlace(new, new[j]) \in Nat
              /\ ~twice' => NewPlace(new, new[j]) = Len(cols) + j
  <2>1. PICK h \in Nat : h = FirstOf(new, new[j]) /\ h \in 1 .. n
    BY <1>2, FirstOfFacts
  <2>2. h - 1 \in 0 .. Len(new) /\ NamesBefore(new, h) = {new[g] : g \in 1 .. h - 1}
    BY <1>2, <2>1 DEF NamesBefore
  <2>3. IsFiniteSet(NamesBefore(new, h)) /\ IsFiniteSet(DOMAIN colMap)
    <3>1. PICK m \in 0 .. Len(new) : m = h - 1
      BY <2>2
    <3>2. IsFiniteSet({new[g] : g \in 1 .. m})
      BY DistinctNames
    <3>3. QED
      BY <2>2, <3>1, <3>2 DEF TableInv, TypeInv, MapTypes
  <2>4. PICK B : B = DOMAIN colMap \cup NamesBefore(new, h)
    OBVIOUS
  <2>5. IsFiniteSet(B) /\ Cardinality(B) \in Nat
    BY <2>3, <2>4, FS_Union, FS_CardinalityType
  <2>6. NewPlace(new, new[j]) = Cardinality(B) + 1
    BY <2>1, <2>4 DEF NewPlace
  <2>7. ASSUME ~twice' PROVE Cardinality(B) = Len(cols) + j - 1
    <3>1. ~twice /\ ~Repeats(colNames')
      BY <1>1, <2>7
    <3>2. DOMAIN colMap = {colNames[i] : i \in 1 .. Len(cols)}
      BY <1>3, <3>1, ColsFacts DEF TableInv, TypeInv, NamesInv, MapFindsColumns
    <3>3. PICK s \in Seq(Names) :
            /\ s = colNames' /\ Len(s) = Len(cols) + n
            /\ \A i \in 1 .. Len(cols) : s[i] = colNames[i]
            /\ \A i \in 1 .. n : s[Len(cols) + i] = new[i]
      <4>1. PICK a \in Seq(Names) : a = colNames /\ Len(a) = Len(cols)
        BY DEF TableInv, TypeInv, ColumnTypes
      <4>2. /\ a \o new \in Seq(Names) /\ Len(a \o new) = Len(a) + Len(new)
            /\ \A i \in 1 .. Len(a) : (a \o new)[i] = a[i]
            /\ \A i \in 1 .. Len(new) : (a \o new)[Len(a) + i] = new[i]
        BY Concatenated
      <4>3. colNames' = a \o new
        BY <1>1, <4>1
      <4>4. PICK s \in Seq(Names) : s = a \o new
        BY <4>2
      <4>5. Len(s) = Len(cols) + n /\ s = colNames'
        BY <1>2, <4>1, <4>2, <4>3, <4>4
      <4>6. \A i \in 1 .. Len(cols) : s[i] = colNames[i]
        BY <4>1, <4>2, <4>4
      <4>7. \A i \in 1 .. n : s[Len(cols) + i] = new[i]
        BY <1>2, <4>1, <4>2, <4>4
      <4>8. QED
        BY <4>5, <4>6, <4>7
    <3>4. ~Repeats(s) /\ ~Repeats(new)
      <4>1. ASSUME NEW p \in 1 .. n, NEW q \in 1 .. n, p # q PROVE new[p] # new[q]
        <5>1. Len(cols) + p \in DOMAIN s /\ Len(cols) + q \in DOMAIN s /\ Len(cols) + p # Len(cols) + q
          BY <1>3, <3>3, <4>1
        <5>2. s[Len(cols) + p] # s[Len(cols) + q]
          BY <3>1, <3>3, <5>1 DEF Repeats
        <5>3. QED
          BY <3>3, <5>2
      <4>2. ~Repeats(new)
        BY <1>2, <4>1 DEF Repeats
      <4>3. QED
        BY <3>1, <3>3, <4>2
    <3>5. h = j
      BY <2>1, <3>4, FirstOfFacts
    <3>6. PICK m \in 0 .. Len(s) : m = Len(cols) + j - 1
      BY <1>2, <1>3, <3>3
    <3>7. B = {s[i] : i \in 1 .. m}
      <4>1. ASSUME NEW i \in 1 .. m PROVE s[i] \in B
        <5>1. CASE i <= Len(cols)
          <6>1. i \in 1 .. Len(cols)
            BY <1>3, <5>1
          <6>2. s[i] = colNames[i] /\ colNames[i] \in DOMAIN colMap
            BY <3>2, <3>3, <6>1
          <6>3. QED
            BY <2>4, <6>2
        <5>2. CASE i > Len(cols)
          <6>1. PICK g \in 1 .. n : g \in 1 .. h - 1 /\ i = Len(cols) + g
            <7>1. i - Len(cols) \in 1 .. h - 1 /\ i - Len(cols) \in 1 .. n
                  /\ i = Len(cols) + (i - Len(cols))
              BY <1>2, <1>3, <3>5, <3>6, <5>2
            <7>2. QED
              BY <7>1
          <6>2. s[i] = new[g]
            BY <3>3, <6>1
          <6>3. new[g] \in NamesBefore(new, h)
            BY <2>2, <6>1
          <6>4. QED
            BY <2>4, <6>2, <6>3
        <5>3. QED
          BY <1>3, <5>1, <5>2
      <4>2. ASSUME NEW i \in 1 .. Len(cols) PROVE i \in 1 .. m /\ s[i] = colNames[i]
        BY <1>2, <1>3, <3>3, <3>6
      <4>3. ASSUME NEW g \in 1 .. h - 1 PROVE Len(cols) + g \in 1 .. m /\ s[Len(cols) + g] = new[g]
        <5>1. Len(cols) + g \in 1 .. m /\ g \in 1 .. n
          BY <1>2, <1>3, <3>5, <3>6
        <5>2. QED
          BY <3>3, <5>1
      <4>4. ASSUME NEW b \in B PROVE \E i \in 1 .. m : b = s[i]
        <5>1. CASE b \in DOMAIN colMap
          BY <3>2, <4>2, <5>1
        <5>2. CASE b \in NamesBefore(new, h)
          BY <2>2, <4>3, <5>2
        <5>3. QED
          BY <2>4, <5>1, <5>2
      <4>5. QED
        BY <4>1, <4>4
    <3>8. Cardinality({s[i] : i \in 1 .. m}) = m
      BY <3>4, DistinctNames
    <3>9. QED
      BY <3>6, <3>7, <3>8
  <2>8. j \in Nat /\ Len(cols) \in Nat
    BY <1>2, <1>3
  <2>9. PICK card \in Nat : card = Cardinality(B)
    BY <2>5
  <2>10. NewPlace(new, new[j]) = card + 1 /\ (~twice' => card = Len(cols) + j - 1)
    BY <2>6, <2>7, <2>9
  <2>11. ASSUME ~twice' PROVE NewPlace(new, new[j]) = Len(cols) + j
    <3>1. card = Len(cols) + j - 1 /\ NewPlace(new, new[j]) = card + 1
      BY <2>10, <2>11
    <3>2. QED
      BY <2>8, <3>1
  <2>12. NewPlace(new, new[j]) \in Nat
    BY <2>9, <2>10
  <2>13. QED
    BY <2>11, <2>12
<1>12. MapTypes'
  <2>1. \A j \in DOMAIN new : new[j] \notin DOMAIN colMap => colMap'[new[j]] \in Nat
    BY <1>10, <1>11
  <2>2. MapTypes
    BY DEF TableInv, TypeInv
  <2>3. QED
    BY <1>10, <2>1, <2>2, AddedMapTypes
<1>13. NamesInv'
  <2>1. ~twice' => \A j \in DOMAIN new :
                     new[j] \notin DOMAIN colMap => colMap'[new[j]] = Len(cols) + j
    BY <1>10, <1>11
  <2>2. QED
    BY <1>1, <1>10, <2>1, AddedNames
<1>14. OtherTypes'
  <2>1. twice' \in BOOLEAN
    BY <1>1 DEF TableInv, TypeInv, OtherTypes, Repeats
  <2>2. QED
    BY <1>1, <2>1 DEF TableInv, TypeInv, OtherTypes
<1>15. QED
  BY <1>9, <1>12, <1>13, <1>14 DEF TableInv, TypeInv

LEMMA JoinKeeps ==
  ASSUME TableInv, NEW n \in Nat, NEW names \in [1 .. n -> Names], NEW tuple \in BOOLEAN,
         changes' \in Nat, Join(names, tuple)
  PROVE  TableInv'
<1> DEFINE data == [k \in Positions |-> Cell(cols[1].data[k].row, "none")]
           fresh == IF tuple THEN TupleColumn(data, FALSE) ELSE FastColumn(data, FALSE)
           more == [j \in DOMAIN names |-> fresh]
<1>1. /\ Whole /\ cols' = cols \o more /\ colNames' = colNames \o names
      /\ colMap' = [x \in DOMAIN colMap \cup {names[i] : i \in DOMAIN names} |->
                      IF x \in DOMAIN colMap THEN colMap[x] ELSE Len(cols) + FirstOf(names, x)]
      /\ twice' = (twice \/ Repeats(colNames'))
      /\ UNCHANGED <<size, capacity, compresses, readOnly, made, outside, torn, mixed>>
  BY DEF Join
<1>2. names \in Seq(Names) /\ Len(names) = n /\ DOMAIN names = 1 .. n
  OBVIOUS
<1>3. /\ \A i \in DOMAIN cols : cols[i] \in Columns /\ Len(cols[i].data) = size
      /\ size \in Nat /\ DOMAIN cols = 1 .. Len(cols) /\ Len(cols) \in Nat
      /\ cols \in [DOMAIN cols -> Columns]
  BY <1>1, ColsFacts, WholeRows DEF TableInv, TypeInv, OtherTypes, ColumnTypes
<1>4. /\ data \in Seq(Cells) /\ Len(data) = size
      /\ \A k \in 1 .. size : data[k].row = cols[1].data[k].row
      /\ ~HasTold(data)
  <2>1. PICK null \in Nulls : null = "none" /\ null # "told"
    BY NullsFacts
  <2>2. data = [k \in Positions |-> Cell(cols[1].data[k].row, null)]
    BY <2>1
  <2> HIDE DEF data
  <2>3. QED
    BY <1>1, <2>1, <2>2, FreshCells
<1> HIDE DEF data
<1>5. /\ fresh \in Columns /\ Len(fresh.data) = size /\ Sound(fresh)
      /\ \A k \in 1 .. size : fresh.data[k].row = cols[1].data[k].row
  <2>1. PICK c : c = fresh
    OBVIOUS
  <2>2. c \in {FastColumn(data, FALSE), TupleColumn(data, FALSE)}
    BY <2>1
  <2>3. c \in Columns /\ c.data = data
    BY <1>4, <2>2, NewColumn
  <2>4. QED
    BY <1>4, <2>1, <2>3 DEF Sound
<1>6. ColumnTypes' /\ RowsInv' /\ NullFlagSound'
  <2>7. more \in [1 .. n -> Columns] /\ \A j \in 1 .. n : more[j] = fresh
    <3> HIDE DEF fresh
    <3>1. QED
      BY <1>2, <1>5
  <2>1. PICK o \in [DOMAIN cols -> Columns], q \in [1 .. n -> Columns] :
          o = cols /\ q = more /\ \A j \in 1 .. n : q[j] = fresh
    <3> HIDE DEF more, fresh
    <3>1. QED
      BY <1>3, <2>7
  <2>2. cols' = o \o q /\ Whole /\ UNCHANGED <<size, outside, torn, mixed>>
    BY <1>1, <2>1
  <2>3. \A i \in DOMAIN cols :
          /\ Len(o[i].data) = size
          /\ \A k \in 1 .. size : o[i].data[k].row = cols[i].data[k].row
          /\ Sound(cols[i]) => Sound(o[i])
    BY <1>3, <2>1
  <2> HIDE DEF fresh, more
  <2>4. \A j \in 1 .. n :
          /\ Len(q[j].data) = size
          /\ \A k \in 1 .. size : q[j].data[k].row = cols[1].data[k].row
          /\ Sound(q[j])
    BY <1>5, <2>1
  <2>5. PICK b \in Seq(Names) : b = names
    BY <1>2
  <2>6. colNames' = colNames \o b /\ Len(b) = n
    BY <1>1, <1>2, <2>5
  <2>8. QED
    BY <2>2, <2>3, <2>4, <2>6, AddedColumns
<1>7. /\ DOMAIN colMap' = DOMAIN colMap \cup {names[j] : j \in DOMAIN names}
      /\ \A x \in DOMAIN colMap : colMap'[x] = colMap[x]
      /\ \A j \in DOMAIN names :
           names[j] \notin DOMAIN colMap => colMap'[names[j]] = Len(cols) + FirstOf(names, names[j])
      /\ colMap' = [x \in DOMAIN colMap' |-> colMap'[x]]
  BY <1>1
<1>8. ASSUME NEW j \in DOMAIN names
      PROVE  /\ Len(cols) + FirstOf(names, names[j]) \in Nat
             /\ ~twice' => FirstOf(names, names[j]) = j
  <2>1. FirstOf(names, names[j]) \in 1 .. n
    BY <1>2, FirstOfFacts
  <2>2. ASSUME ~twice' PROVE ~Repeats(names)
    <3>1. ~Repeats(colNames')
      BY <1>1, <2>2
    <3>2. PICK a \in Seq(Names) : a = colNames /\ Len(a) = Len(cols)
      BY DEF TableInv, TypeInv, ColumnTypes
    <3>3. /\ a \o names \in Seq(Names) /\ Len(a \o names) = Len(a) + Len(names)
          /\ \A i \in 1 .. Len(names) : (a \o names)[Len(a) + i] = names[i]
      <4>1. PICK b \in Seq(Names) : b = names
        BY <1>2
      <4>2. /\ a \o b \in Seq(Names) /\ Len(a \o b) = Len(a) + Len(b)
            /\ \A i \in 1 .. Len(b) : (a \o b)[Len(a) + i] = b[i]
        BY Concatenated
      <4>3. QED
        BY <4>1, <4>2
    <3>4. PICK s \in Seq(Names) : s = a \o names
      BY <3>3
    <3>5. s = colNames' /\ DOMAIN s = 1 .. Len(cols) + n
      BY <1>1, <1>2, <3>2, <3>3, <3>4
    <3>6. \A i \in 1 .. n : s[Len(cols) + i] = names[i] /\ Len(cols) + i \in DOMAIN s
      BY <1>2, <1>3, <3>2, <3>3, <3>4, <3>5
    <3>7. ASSUME NEW p \in 1 .. n, NEW q \in 1 .. n, p # q PROVE names[p] # names[q]
      <4>1. Len(cols) + p # Len(cols) + q
        BY <1>3, <3>7
      <4>2. s[Len(cols) + p] # s[Len(cols) + q]
        BY <3>1, <3>5, <3>6, <4>1 DEF Repeats
      <4>3. QED
        BY <3>6, <4>2
    <3>8. QED
      BY <1>2, <3>7 DEF Repeats
  <2>3. QED
    BY <1>2, <1>3, <2>1, <2>2, FirstOfFacts
<1>9. MapTypes'
  BY <1>2, <1>7, <1>8, AddedMapTypes DEF TableInv, TypeInv
<1>10. NamesInv'
  BY <1>1, <1>2, <1>7, <1>8, AddedNames
<1>11. OtherTypes'
  <2>1. twice' \in BOOLEAN
    BY <1>1 DEF TableInv, TypeInv, OtherTypes, Repeats
  <2>2. QED
    BY <1>1, <2>1 DEF TableInv, TypeInv, OtherTypes
<1>12. QED
  BY <1>6, <1>9, <1>10, <1>11 DEF TableInv, TypeInv

(* The map that drop() and the constructor make.                            *)
LEMMA MapOfFacts ==
  ASSUME NEW names \in Seq(Names)
  PROVE  /\ IsFiniteSet(DOMAIN MapOf(names)) /\ MapOf(names) \in [DOMAIN MapOf(names) -> Nat]
         /\ DOMAIN MapOf(names) = {names[i] : i \in DOMAIN names}
         /\ ~Repeats(names) => \A i \in DOMAIN names : MapOf(names)[names[i]] = i
<1>1. DOMAIN MapOf(names) = {names[i] : i \in DOMAIN names}
  BY DEF MapOf
<1>2. IsFiniteSet({names[i] : i \in DOMAIN names})
  <2>1. PICK n \in 0 .. Len(names) : DOMAIN names = 1 .. n
    OBVIOUS
  <2>2. IsFiniteSet({names[i] : i \in 1 .. n})
    BY DistinctNames
  <2>3. QED
    BY <2>1, <2>2
<1>3. ASSUME NEW i \in DOMAIN names
      PROVE  MapOf(names)[names[i]] \in Nat /\ (~Repeats(names) => MapOf(names)[names[i]] = i)
  <2>1. MapOf(names)[names[i]] = FirstOf(names, names[i])
    BY DEF MapOf, FirstOf
  <2>2. QED
    BY <2>1, FirstOfFacts
<1>4. MapOf(names) = [n \in DOMAIN MapOf(names) |-> MapOf(names)[n]]
  BY DEF MapOf
<1>5. QED
  BY <1>1, <1>2, <1>3, <1>4

LEMMA DropKeeps ==
  ASSUME TableInv, NEW m \in Nat, NEW f \in [1 .. m -> DOMAIN cols], changes' \in Nat, Drop(f)
  PROVE  TableInv'
<1>1. /\ f # <<>> /\ cols' = At(cols, f) /\ colNames' = At(colNames, f) /\ colMap' = MapOf(colNames')
      /\ compresses' = IF compresses = 0 THEN 0 ELSE Len(f)
      /\ twice' = Repeats(colNames')
      /\ UNCHANGED <<size, capacity, readOnly, made, outside, torn, mixed>>
  BY DEF Drop
<1>2. /\ \A i \in DOMAIN cols : cols[i] \in Columns /\ colNames[i] \in Names
      /\ f \in Seq(DOMAIN cols) /\ Len(f) = m /\ DOMAIN f = 1 .. m
  BY ColsFacts DEF TableInv, TypeInv
<1>3. m # 0
  BY <1>1, <1>2, EmptySeq
<1>4. /\ DOMAIN cols' = 1 .. m /\ 1 \in 1 .. m
      /\ \A k \in 1 .. m : cols'[k] = cols[f[k]] /\ f[k] \in DOMAIN cols
      /\ cols' \in [1 .. m -> Columns]
  BY <1>1, <1>2, <1>3 DEF At
<1>5. colNames' \in [1 .. m -> Names]
  BY <1>1, <1>2 DEF At
<1>6. ColumnTypes' /\ colNames' \in Seq(Names)
  <2>1. cols' \in Seq(Columns) /\ Len(cols') = m
    BY <1>4
  <2>2. colNames' \in Seq(Names) /\ Len(colNames') = m
    BY <1>5
  <2>3. cols' # <<>>
    BY <1>3, <2>1, EmptySeq
  <2>4. QED
    BY <2>1, <2>2, <2>3 DEF ColumnTypes
<1>7. MapTypes' /\ NamesInv'
  <2>1. PICK names \in Seq(Names) : names = colNames'
    BY <1>6
  <2>2. colMap' = MapOf(names) /\ (~twice' => ~Repeats(names))
    BY <1>1, <2>1
  <2>3. MapTypes'
    BY <2>2, MapOfFacts DEF MapTypes
  <2>4. ASSUME ~twice'
        PROVE  /\ DOMAIN colMap' = {names[i] : i \in DOMAIN names}
               /\ \A i \in DOMAIN names : colMap'[names[i]] = i
    BY <2>2, <2>4, MapOfFacts
  <2>5. NamesInv'
    BY <2>1, <2>2, <2>4 DEF NamesInv, MapFindsColumns
  <2>6. QED
    BY <2>3, <2>5
<1>8. OtherTypes'
  <2>1. compresses' \in Nat /\ twice' \in BOOLEAN
    BY <1>1, <1>2 DEF Repeats
  <2>2. QED
    BY <1>1, <2>1 DEF TableInv, TypeInv, OtherTypes
<1>9. RowsInv'
  <2>1. SUFFICES ASSUME ~torn, ~mixed, NEW k \in 1 .. m
                 PROVE  AsLong(cols[f[k]]) /\ SameRows(cols[f[k]], cols[f[1]])
    BY <1>1, <1>4 DEF RowsInv, AsLong, SameRows, Positions
  <2>2. AsLong(cols[f[k]]) /\ SameRows(cols[f[k]], cols[1]) /\ SameRows(cols[f[1]], cols[1])
    BY <1>4, <2>1 DEF TableInv, RowsInv
  <2>3. QED
    BY <2>2 DEF SameRows
<1>10. NullFlagSound'
  <2>1. \A k \in 1 .. m : Sound(cols'[k])
    BY <1>1, <1>4, SoundFlags DEF TableInv
  <2>2. QED
    BY <1>4, <2>1 DEF NullFlagSound, Sound, HasTold
<1>11. QED
  BY <1>6, <1>7, <1>8, <1>9, <1>10 DEF TableInv, TypeInv

LEMMA SetColumnNameKeeps ==
  ASSUME TableInv, NEW i \in DOMAIN cols, NEW name \in Names, changes' \in Nat,
         SetColumnName(i, name)
  PROVE  TableInv'
<1>1. /\ colNames' = [colNames EXCEPT ![i] = name] /\ colMap' = Renamed(i, name)
      /\ twice' = (twice \/ Repeats(colNames'))
      /\ UNCHANGED <<cols, size, capacity, compresses, readOnly, made, outside, torn, mixed>>
  BY DEF SetColumnName
<1>2. /\ DOMAIN colNames = DOMAIN cols /\ i \in Nat
      /\ colNames \in Seq(Names) /\ Len(colNames) = Len(cols)
  BY ColsFacts DEF TableInv, TypeInv, ColumnTypes
<1>3. /\ colNames' \in Seq(Names) /\ Len(colNames') = Len(colNames)
      /\ DOMAIN colNames' = DOMAIN colNames /\ colNames'[i] = name
      /\ \A j \in DOMAIN colNames : j # i => colNames'[j] = colNames[j]
  BY <1>1, <1>2
<1>4. ColumnTypes' /\ RowsInv' /\ NullFlagSound'
  BY <1>1, <1>2, <1>3 DEF TableInv, TypeInv, ColumnTypes, RowsInv, AsLong, SameRows, Positions,
                          NullFlagSound
<1>5. /\ DOMAIN colMap' = (DOMAIN colMap \ {colNames[i]}) \cup {name}
      /\ colMap'[name] = i
      /\ \A n \in DOMAIN colMap \ {colNames[i]} : n # name => colMap'[n] = colMap[n]
      /\ colMap' = [n \in DOMAIN colMap' |-> colMap'[n]]
  BY <1>1 DEF Renamed
<1>6. MapTypes'
  <2>1. IsFiniteSet(DOMAIN colMap')
    <3>1. IsFiniteSet(DOMAIN colMap \ {colNames[i]})
      BY FS_RemoveElement DEF TableInv, TypeInv, MapTypes
    <3>2. IsFiniteSet((DOMAIN colMap \ {colNames[i]}) \cup {name})
      BY <3>1, FS_AddElement
    <3>3. QED
      BY <1>5, <3>2
  <2>2. \A n \in DOMAIN colMap' : colMap'[n] \in Nat
    BY <1>2, <1>5 DEF TableInv, TypeInv, MapTypes
  <2>3. QED
    BY <1>5, <2>1, <2>2 DEF MapTypes
<1>7. NamesInv'
  <2>1. SUFFICES ASSUME ~twice' PROVE ~Repeats(colNames') /\ MapFindsColumns'
    BY DEF NamesInv
  <2>2. ~twice /\ ~Repeats(colNames')
    BY <1>1, <2>1
  <2>3. /\ DOMAIN colMap = {colNames[j] : j \in DOMAIN colNames} /\ ~Repeats(colNames)
        /\ \A j \in DOMAIN colNames : colMap[colNames[j]] = j
    BY <2>2 DEF TableInv, NamesInv, MapFindsColumns
  <2>4. \A j \in DOMAIN colNames : j # i => colNames[j] # colNames[i] /\ colNames'[j] # name
    BY <1>2, <1>3, <2>2, <2>3 DEF Repeats
  <2>5. \A j \in DOMAIN colNames' : colMap'[colNames'[j]] = j
    BY <1>3, <1>5, <2>3, <2>4
  <2>6. DOMAIN colMap' = {colNames'[j] : j \in DOMAIN colNames'}
    <3>1. PICK D : D = DOMAIN colMap'
      OBVIOUS
    <3>2. \A j \in DOMAIN colNames' : colNames'[j] \in D
      BY <1>3, <1>5, <2>3, <2>4, <3>1
    <3>3. ASSUME NEW n \in D PROVE \E j \in DOMAIN colNames' : n = colNames'[j]
      <4>1. CASE n = name
        BY <1>2, <1>3, <4>1
      <4>2. CASE n # name
        <5>1. PICK j \in DOMAIN colNames : n = colNames[j] /\ j # i
          BY <1>5, <2>3, <3>1, <4>2
        <5>2. QED
          BY <1>3, <5>1
      <4>3. QED
        BY <4>1, <4>2
    <3>4. QED
      BY <3>1, <3>2, <3>3
  <2>7. QED
    BY <2>2, <2>5, <2>6 DEF MapFindsColumns
<1>8. OtherTypes'
  <2>1. twice' \in BOOLEAN
    BY <1>1 DEF TableInv, TypeInv, OtherTypes, Repeats
  <2>2. QED
    BY <1>1, <2>1 DEF TableInv, TypeInv, OtherTypes
<1>9. QED
  BY <1>4, <1>6, <1>7, <1>8 DEF TableInv, TypeInv

(* Flags and methods concern neither rows nor names.                        *)
LEMMA FlagsKeep ==
  ASSUME TableInv, changes' \in Nat, NEW n \in Nat, NEW val \in BOOLEAN,
         SetColumnCompressMethods(n) \/ SetReadOnly(val)
  PROVE  TableInv'
<1>1. /\ UNCHANGED <<cols, colNames, colMap, twice>>
      /\ UNCHANGED <<size, capacity, made, outside, torn, mixed>>
      /\ compresses' \in {n, compresses} /\ readOnly' \in {val, readOnly}
  BY DEF SetColumnCompressMethods, SetReadOnly, history
<1>2. ColumnTypes' /\ RowsInv' /\ NullFlagSound'
  BY <1>1 DEF TableInv, TypeInv, ColumnTypes, RowsInv, AsLong, SameRows, Positions, NullFlagSound
<1>3. MapTypes' /\ NamesInv'
  BY <1>1, SameNames
<1>4. OtherTypes'
  BY <1>1 DEF TableInv, TypeInv, OtherTypes
<1>5. QED
  BY <1>2, <1>3, <1>4 DEF TableInv, TypeInv

-----------------------------------------------------------------------------
(* Theorems *)

(* The kept positions are a list of members, however many there are.        *)
LEMMA InOrderFacts ==
  ASSUME NEW n \in Nat, NEW S \in SUBSET (1 .. n), NEW f \in InOrder(S)
  PROVE  \E m \in Nat : f \in [1 .. m -> S]
<1>1. IsFiniteSet(1 .. n)
  BY FS_Interval
<1>2. Cardinality(S) \in Nat
  BY <1>1, FS_Subset, FS_CardinalityType
<1>3. QED
  BY <1>2 DEF InOrder

LEMMA NameListsFacts ==
  ASSUME NEW names \in NameLists(2)
  PROVE  \E n \in Nat \ {0} : names \in [1 .. n -> Names]
<1>1. \E T \in {[1 .. k -> Names] : k \in 1 .. 2} : names \in T
  BY DEF NameLists
<1>2. PICK k \in 1 .. 2 : names \in [1 .. k -> Names]
  BY <1>1
<1>3. k \in Nat \ {0}
  OBVIOUS
<1>4. QED
  BY <1>2, <1>3

LEMMA TableInit == Init => TableInv
<1>1. SUFFICES ASSUME Init PROVE TableInv
  OBVIOUS
<1>2. PICK N \in Nat \ {0} : colNames \in [1 .. N -> Names]
  BY <1>1, NameListsFacts DEF Init
<1>3. colNames \in Seq(Names) /\ Len(colNames) = N /\ DOMAIN colNames = 1 .. N
  BY <1>2
<1>4. PICK n \in {0, 1}, null \in Nulls, tuple \in BOOLEAN :
        /\ made = n /\ size = n
        /\ cols = [i \in DOMAIN colNames |->
                     LET data == [k \in 1 .. n |-> Cell(k, null)]
                     IN  IF tuple /\ i = 2 THEN TupleColumn(data, null = "told")
                                           ELSE FastColumn(data, null = "told" /\ n > 0)]
  BY <1>1 DEF Init
<1>5. /\ colMap = MapOf(colNames) /\ compresses = 0 /\ outside = 0 /\ changes = 0
      /\ capacity = Lows({cols[i].capacity : i \in DOMAIN cols})
      /\ twice = Repeats(colNames)
      /\ readOnly = FALSE /\ torn = FALSE /\ mixed = FALSE
  BY <1>1 DEF Init
<1>6. DOMAIN cols = 1 .. N /\ 1 \in 1 .. N
  BY <1>3, <1>4
<1>7. ASSUME NEW i \in 1 .. N
      PROVE  /\ cols[i] \in Columns /\ Len(cols[i].data) = n /\ Sound(cols[i])
             /\ \A k \in 1 .. n : cols[i].data[k].row = k
  <2>1. PICK data : data = [k \in 1 .. n |-> Cell(k, null)]
    OBVIOUS
  <2>2. PICK c : c = cols[i]
    OBVIOUS
  <2>3. PICK flag \in BOOLEAN, some \in BOOLEAN :
          flag = (null = "told") /\ some = (null = "told" /\ n > 0)
    OBVIOUS
  <2>4. c = TupleColumn(data, flag) \/ c = FastColumn(data, some)
    BY <1>3, <1>4, <2>1, <2>2, <2>3
  <2>5. ASSUME NEW k \in 1 .. n
        PROVE  data[k] \in Cells /\ data[k].row = k /\ data[k].null = null
    BY <2>1, NewCell
  <2>6. data \in [1 .. n -> Cells]
    BY <2>1, <2>5
  <2>7. data \in Seq(Cells) /\ Len(data) = n /\ DOMAIN data = 1 .. n
    BY <2>6
  <2>8. HasTold(data) => flag /\ some
    <3>1. SUFFICES ASSUME NEW k \in 1 .. n, data[k].null = "told" PROVE flag /\ some
      BY <2>7 DEF HasTold
    <3>2. null = "told" /\ n > 0
      BY <2>5, <3>1
    <3>3. QED
      BY <2>3, <3>2
  <2>9. c \in Columns /\ c.data = data /\ (c.flag = flag \/ c.flag = some)
    <3>1. CASE c = TupleColumn(data, flag)
      BY <2>7, <3>1, NewColumn
    <3>2. CASE c = FastColumn(data, some)
      BY <2>7, <3>2, NewColumn
    <3>3. QED
      BY <2>4, <3>1, <3>2
  <2>10. QED
    BY <2>2, <2>5, <2>7, <2>8, <2>9 DEF Sound
<1>8. ColumnTypes
  <2>1. cols \in [1 .. N -> Columns]
    BY <1>3, <1>4, <1>7
  <2>2. cols \in Seq(Columns) /\ Len(cols) = N
    BY <2>1
  <2>3. cols # <<>>
    BY <2>2, EmptySeq
  <2>4. QED
    BY <1>3, <2>2, <2>3 DEF ColumnTypes
<1>9. MapTypes /\ NamesInv
  BY <1>3, <1>5, MapOfFacts DEF MapTypes, NamesInv, MapFindsColumns
<1>10. OtherTypes
  <2>1. capacity \in Nat
    <3> DEFINE S == {cols[i].capacity : i \in DOMAIN cols}
    <3>1. S \in SUBSET Nat /\ S # {}
      BY <1>6, <1>7, ColumnFields
    <3> HIDE DEF S
    <3>2. Lows(S) \in Nat
      BY <3>1, LowsIsLeast
    <3>3. QED
      BY <1>5, <3>2 DEF S
  <2>2. twice \in BOOLEAN /\ made \in Nat /\ size \in Nat
    BY <1>4, <1>5 DEF Repeats
  <2>3. QED
    BY <1>5, <2>1, <2>2 DEF OtherTypes
<1>11. RowsInv
  BY <1>4, <1>6, <1>7 DEF RowsInv, AsLong, SameRows, Positions
<1>12. NullFlagSound
  BY <1>6, <1>7, SoundFlags
<1>13. QED
  BY <1>8, <1>9, <1>10, <1>11, <1>12 DEF TableInv, TypeInv

(* One step for every operation on the rows ...                             *)
LEMMA RowsNextKeeps ==
  ASSUME TableInv, RowsNext, UNCHANGED changes
  PROVE  TableInv'
<1>1. size \in Nat /\ Len(cols) \in Nat /\ DOMAIN cols = 1 .. Len(cols) /\ Len(cols) \in DOMAIN cols
  BY ColsFacts DEF TableInv, TypeInv, OtherTypes
<1>2. CASE \E n \in 0 .. 2 : \/ AppendCannotGrow(n)
                             \/ \E null \in Nulls : AppendRows(n, 1, null)
                             \/ \E i \in DOMAIN cols : AppendRefused(n, i)
  <2>1. PICK n \in Nat : \/ AppendCannotGrow(n)
                         \/ \E null \in Nulls : AppendRows(n, 1, null)
                         \/ \E i \in DOMAIN cols : AppendRefused(n, i)
    BY <1>2
  <2>2. QED
    BY <2>1, AppendCannotGrowKeeps, AppendRowsKeeps, AppendRefusedKeeps
<1>3. CASE \E P \in (SUBSET Positions) \ {{}} : \E f \in InOrder(Positions \ P) : Remove(f)
  <2>1. PICK P \in SUBSET Positions : \E f \in InOrder(Positions \ P) : Remove(f)
    BY <1>3
  <2>5. PICK f \in InOrder(Positions \ P) : Remove(f)
    BY <2>1
  <2>2. PICK m \in Nat : f \in [1 .. m -> Positions \ P]
    BY <1>1, InOrderFacts DEF Positions
  <2>3. f \in [1 .. m -> Positions]
    BY <2>2
  <2>4. QED
    BY <2>3, <2>5, RemoveKeeps
<1>4. CASE \E p \in Positions, i \in DOMAIN cols : SetRow(p, i)
  BY <1>4, SetRowKeeps
<1>5. CASE \E i \in DOMAIN cols : WriteColumn(i, "none")
  BY <1>5, WriteColumnKeeps, NullsFacts
<1>6. CASE Clear \/ UpdateSize
  BY <1>6, ClearKeeps, UpdateSizeKeeps
<1>7. CASE \/ \E null \in Nulls : WriteColumn(Len(cols), null)
           \/ size > 0 /\ SetNull(Len(cols), size)
           \/ size > 0 /\ \E null \in {"none", "raw"} : RewriteColumn(Len(cols), size, null)
  <2>1. PICK i \in DOMAIN cols : i = Len(cols)
    BY <1>1
  <2>2. CASE \E null \in Nulls : WriteColumn(i, null)
    BY <2>2, WriteColumnKeeps
  <2>3. CASE size > 0 /\ (SetNull(i, size) \/ \E null \in {"none", "raw"} : RewriteColumn(i, size, null))
    <3>1. PICK p \in Positions : p = size
      BY <1>1, <2>3 DEF Positions
    <3>2. SetNull(i, p) \/ \E null \in {"none", "raw"} : RewriteColumn(i, p, null)
      BY <2>3, <3>1
    <3>3. QED
      BY <3>2, SetNullKeeps, RewriteColumnKeeps
  <2>4. QED
    BY <1>7, <2>1, <2>2, <2>3
<1>8. QED
  BY <1>2, <1>3, <1>4, <1>5, <1>6, <1>7 DEF RowsNext

(* ... and on the columns.                                                  *)
LEMMA ColumnsNextKeeps ==
  ASSUME TableInv, ColumnsNext, changes' \in Nat
  PROVE  TableInv'
<1>1. /\ Len(cols) \in Nat /\ DOMAIN cols = 1 .. Len(cols) /\ Len(colNames) = Len(cols)
  BY ColsFacts DEF TableInv, TypeInv, ColumnTypes
<1>2. CASE \E i \in DOMAIN cols, name \in Names : SetColumnName(i, name)
  BY <1>2, SetColumnNameKeeps
<1>3. CASE \E names \in NameLists(2), null \in {"none", "told"} :
             \E P \in {Positions} \cup {{p} : p \in Positions}, f \in InOrder(Missing(names)) :
               Update(names, P, null, At(names, f))
  <2>1. PICK names \in NameLists(2), null \in {"none", "told"} :
          \E P : \E f \in InOrder(Missing(names)) : Update(names, P, null, At(names, f))
    BY <1>3
  <2>9. PICK P : \E f \in InOrder(Missing(names)) : Update(names, P, null, At(names, f))
    BY <2>1
  <2>10. PICK f \in InOrder(Missing(names)) : Update(names, P, null, At(names, f))
    BY <2>9
  <2>2. PICK n \in Nat : names \in [1 .. n -> Names]
    BY NameListsFacts
  <2>3. Missing(names) \in SUBSET (1 .. n)
    BY <2>2 DEF Missing
  <2>4. PICK m \in Nat : f \in [1 .. m -> 1 .. n]
    <3>1. PICK m \in Nat : f \in [1 .. m -> Missing(names)]
      BY <2>3, InOrderFacts
    <3>2. QED
      BY <2>3, <3>1
  <2>5. At(names, f) \in [1 .. m -> Names]
    BY <2>2, <2>4 DEF At
  <2>6. PICK new \in Seq(Names) : new = At(names, f)
    BY <2>5
  <2>7. Update(names, P, null, new)
    BY <2>6, <2>10
  <2>11. null \in Nulls
    BY NullsFacts
  <2>8. QED
    BY <2>2, <2>7, <2>11, UpdateKeeps
<1>4. CASE \E D \in SUBSET DOMAIN cols \ {{}} : \E f \in InOrder(DOMAIN cols \ D) : Drop(f)
  <2>1. PICK D \in SUBSET DOMAIN cols : \E f \in InOrder(DOMAIN cols \ D) : Drop(f)
    BY <1>4
  <2>5. PICK f \in InOrder(DOMAIN cols \ D) : Drop(f)
    BY <2>1
  <2>2. PICK m \in Nat : f \in [1 .. m -> DOMAIN cols \ D]
    BY <1>1, InOrderFacts
  <2>3. f \in [1 .. m -> DOMAIN cols]
    BY <2>2
  <2>4. QED
    BY <2>3, <2>5, DropKeeps
<1>5. CASE \E names \in NameLists(2), tuple \in BOOLEAN : Join(names, tuple)
  <2>1. PICK names \in NameLists(2), tuple \in BOOLEAN : Join(names, tuple)
    BY <1>5
  <2>2. PICK n \in Nat : names \in [1 .. n -> Names]
    BY NameListsFacts
  <2>3. QED
    BY <2>1, <2>2, JoinKeeps
<1>6. CASE \/ \E n \in {0, Len(colNames)} : SetColumnCompressMethods(n)
           \/ \E val \in BOOLEAN : SetReadOnly(val)
  <2>1. PICK n \in Nat, val \in BOOLEAN : SetColumnCompressMethods(n) \/ SetReadOnly(val)
    BY <1>1, <1>6
  <2>2. QED
    BY <2>1, FlagsKeep
<1>7. QED
  BY <1>2, <1>3, <1>4, <1>5, <1>6 DEF ColumnsNext

LEMMA TableStep == TableInv /\ [Next]_vars => TableInv'
<1>1. SUFFICES ASSUME TableInv, [Next]_vars PROVE TableInv'
  OBVIOUS
<1>2. CASE RowsNext /\ UNCHANGED changes
  BY <1>1, <1>2, RowsNextKeeps
<1>3. CASE ColumnsNext /\ changes' = changes + 1
  <2>1. changes' \in Nat
    BY <1>1, <1>3 DEF TableInv, TypeInv, OtherTypes
  <2>2. QED
    BY <1>1, <1>3, <2>1, ColumnsNextKeeps
<1>4. CASE UNCHANGED vars
  <2>1. /\ UNCHANGED <<cols, colNames, colMap, twice, changes>>
        /\ UNCHANGED <<size, capacity, compresses, readOnly, made, outside, torn, mixed>>
    BY <1>4 DEF vars, tableVars, history
  <2>2. ColumnTypes' /\ RowsInv' /\ NullFlagSound'
    BY <1>1, <2>1 DEF TableInv, TypeInv, ColumnTypes, RowsInv, AsLong, SameRows, Positions,
                      NullFlagSound
  <2>3. MapTypes' /\ NamesInv'
    BY <1>1, <2>1, SameNames
  <2>4. OtherTypes'
    BY <1>1, <2>1 DEF TableInv, TypeInv, OtherTypes
  <2>5. QED
    BY <2>2, <2>3, <2>4 DEF TableInv, TypeInv
<1>5. QED
  BY <1>1, <1>2, <1>3, <1>4 DEF Next

(* Types, which rows each column has, the places of the names in the map    *)
(* and the flags of told nulls: what is refused or comes in from outside,   *)
(* each operation leaves the next one a table it can work on.               *)
THEOREM TableInvCorrect == Spec => []TableInv
<1>1. Init => TableInv
  BY TableInit
<1>2. TableInv /\ [Next]_vars => TableInv'
  BY TableStep
<1>3. QED
  BY <1>1, <1>2, PTL DEF Spec

(* Whichever column refuses what: the columns have the same rows in the     *)
(* same order, as far as the table goes.                                    *)
THEOREM RowsTogetherCorrect == Spec => []RowsTogether
<1>1. TableInv => RowsTogether
  <2>1. SUFFICES ASSUME TableInv, ~torn, ~mixed, NEW i \in DOMAIN cols
                 PROVE  /\ Len(cols[i].data) >= size
                        /\ outside = 0 => Len(cols[i].data) = size
                        /\ \A k \in Positions : cols[i].data[k].row = cols[1].data[k].row
    BY DEF RowsTogether
  <2>2. AsLong(cols[i]) /\ SameRows(cols[i], cols[1]) /\ size \in Nat
    BY <2>1 DEF TableInv, TypeInv, OtherTypes, RowsInv
  <2>3. QED
    BY <2>2 DEF AsLong, SameRows
<1>2. QED
  BY <1>1, TableInvCorrect, PTL

(* Where no two columns have had one name, the map has the names of the     *)
(* columns and no other, each with the column that has it.                  *)
THEOREM NamesCorrect == Spec => []MapFindsColumns
<1>1. TableInv => MapFindsColumns
  BY DEF TableInv, NamesInv, MapFindsColumns
<1>2. QED
  BY <1>1, TableInvCorrect, PTL

(* Where a column has a null of which it was told, it has the null flag.    *)
THEOREM FlagsCorrect == Spec => []NullFlagSound
<1>1. TableInv => NullFlagSound
  BY DEF TableInv
<1>2. QED
  BY <1>1, TableInvCorrect, PTL
=============================================================================
