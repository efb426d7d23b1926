---------------------------- MODULE DeltaOfDelta ----------------------------
(***************************************************************************)
(* The compression of a column of whole numbers by its second differences  *)
(* (CompressDeltaofDelta, DeltaCompressor and DeltaDecompressor in         *)
(* src/src/Compress.cpp): the first value and the first difference are     *)
(* written in full, any other value as the change of the difference, in as *)
(* few bits as one of five codes takes, and a null as a code of its own.   *)
(*                                                                         *)
(* Bits are numbers, a buffer is a sequence of them: the shifting of bits  *)
(* across the words is left out, but not that words are filled up.         *)
(***************************************************************************)
EXTENDS Integers, Sequences

CONSTANTS
  Word,       \* bits of a long long: 64
  Widths,     \* bits of the types of the columns: 16, 32, 64
  Numbers,    \* Numbers[w]: the values of a type that are looked at
  Codes,      \* <<7, 9, 16, 32, 64>>
  BlockRows,  \* maxDecompressedSize_ / unitLength
  Limit,      \* words of a buffer: maxCompressedSize_ / sizeof(long long)
  MaxLength   \* longest column

VARIABLES width, data

deltaVars == <<width, data>>

Null(w) == -(2 ^ (w - 1))      \* SHRT_MIN, INT_MIN, LLONG_MIN

DeltaAssumption ==
  /\ {Word, BlockRows, Limit, MaxLength} \subseteq Nat \ {0}
  /\ \A w \in Widths : w \in 1 .. Word /\ \A v \in Numbers[w] : Null(w) <= v /\ v < -Null(w)
  /\ Len(Codes) = 5 /\ Codes[5] = Word
  /\ \A j \in 1 .. 4 : Codes[j] < Codes[j + 1]

(* A vector of one of the types, value by value                             *)
Init == width \in Widths /\ data = <<>>

Add(v) ==
  /\ Len(data) < MaxLength
  /\ data' = Append(data, v)
  /\ UNCHANGED width

Next == \E v \in Numbers[width] : Add(v)

-----------------------------------------------------------------------------
(* Numbers and bits *)

(* The value of a signed number that has some bits.                         *)
Wrap(x, bits) == ((x + 2 ^ (bits - 1)) % 2 ^ bits) - 2 ^ (bits - 1)

EncodeZigZag(n) == IF n >= 0 THEN 2 * n ELSE -2 * n - 1

DecodeZigZag(u) == IF u % 2 = 0 THEN u \div 2 ELSE -(u \div 2) - 1

(* writeBits(): the last bits of a number.                                  *)
Bits(x, n) == [i \in 1 .. n |-> (x \div 2 ^ (n - i)) % 2]

Ones(n) == [i \in 1 .. n |-> 1]

(* readBits(): the number in n bits after the p-th.                         *)
Number(bits, p, n) ==
  LET of[i \in 0 .. n] == IF i = 0 THEN 0 ELSE 2 * of[i - 1] + bits[p + i]
  IN  of[n]

-----------------------------------------------------------------------------
(* DeltaCompressor::writeData(), for the values of a block.  values are     *)
(* those that are not null.                                                 *)

NotNull(block) == SelectSeq(block, LAMBDA v : v # Null(width))

Delta(values, k) == Wrap(values[k] - values[k - 1], Word)

Change(values, k) == Wrap(Delta(values, k) - Delta(values, k - 1), Word)

(* "Delta out of range": the difference of a and b has the wrong sign.      *)
Overflows(a, b, difference) ==
  \/ a < 0 /\ b > 0 /\ difference >= 0
  \/ a > 0 /\ b < 0 /\ difference <= 0

OutOfRange(values) ==
  \/ \E k \in 2 .. Len(values) : Overflows(values[k], values[k - 1], Delta(values, k))
  \/ \E k \in 3 .. Len(values) :
       Overflows(Delta(values, k), Delta(values, k - 1), Change(values, k))

(* Which numbers a code has the bits for.  Mutant: one too many.            *)
FitsOrOneMore(coded, bits) == coded <= 2 ^ bits

Fits(coded, bits) == coded < 2 ^ bits

(* compressData(): as many ones as the number of the code, a zero, and the  *)
(* change less one.                                                         *)
CodeOfChange(change) ==
  IF change = 0 THEN <<0>>
  ELSE LET coded == EncodeZigZag(change) - 1
           j == CHOOSE i \in 1 .. 5 :
                  /\ Fits(coded, Codes[i]) \/ i = 5
                  /\ \A h \in 1 .. i - 1 : ~Fits(coded, Codes[h])
       IN  Ones(j) \o <<0>> \o Bits(coded, Codes[j])

(* writeHeaderData(), writeFirstDelta(): in the bits of the type.           *)
CodeOf(values, k) ==
  CASE k = 1 -> <<1>> \o Bits(EncodeZigZag(values[1]), width)
    [] k = 2 -> <<1>> \o Bits(EncodeZigZag(Delta(values, 2)), width)
    [] OTHER -> CodeOfChange(Change(values, k))

(* A null is a bit before the first difference, six bits after it.          *)
NullCode(before) == IF before < 2 THEN <<0>> ELSE Ones(6)

(* close(): the longest code with what is no change, and a bit.             *)
EndMark == Ones(5) \o <<0>> \o Ones(Word) \o <<0>>

Written(block) ==
  LET values == NotNull(block)
      before[i \in 0 .. Len(block)] ==
        IF i = 0 THEN 0 ELSE before[i - 1] + (IF block[i] = Null(width) THEN 0 ELSE 1)
      codes[i \in 0 .. Len(block)] ==
        IF i = 0 THEN <<>>
        ELSE codes[i - 1] \o
               IF block[i] = Null(width) THEN NullCode(before[i]) ELSE CodeOf(values, before[i])
      bits == codes[Len(block)] \o EndMark
  IN  bits \o [i \in 1 .. Word - (Len(bits) % Word) |-> 0]

-----------------------------------------------------------------------------
(* DeltaDecompressor::readData()                                            *)

(* The end, after a bit that is 1: what is left of the longest code, and    *)
(* ones.  The bits of the first value and of the first difference are       *)
(* looked at for it, too.                                                   *)
IsEnd(bits, p) == Number(bits, p, 5) = 30 /\ \A i \in 6 .. 5 + Word : bits[p + i] = 1

OnesAt(bits, p) == CHOOSE n \in 0 .. 6 :
  /\ \A i \in 1 .. n : bits[p + i] = 1
  /\ n = 6 \/ bits[p + n + 1] = 0

ReadData(bits) ==
  LET read[stage \in 0 .. 2, p \in Nat, got \in Seq(Int), previous \in Int, delta \in Int] ==
        IF stage < 2
        THEN IF bits[p + 1] = 0
             THEN read[stage, p + 1, Append(got, Null(width)), previous, delta]
             ELSE IF IsEnd(bits, p + 1) THEN got
             ELSE LET n == DecodeZigZag(Number(bits, p + 1, width))
                      value == Wrap(previous + n, Word)
                  IN  read[stage + 1, p + 1 + width, Append(got, Wrap(value, width)), value, n]
        ELSE LET j == OnesAt(bits, p)
                 coded == Number(bits, p + j + 1, Codes[j])
                 changed == IF j = 0 THEN delta
                            ELSE Wrap(delta + DecodeZigZag(coded + 1), Word)
                 value == Wrap(previous + changed, Word)
             IN  IF j = 6 THEN read[2, p + 6, Append(got, Null(width)), previous, delta]
                 ELSE IF j = 0 THEN read[2, p + 1, Append(got, Wrap(value, width)), value, delta]
                 ELSE IF coded = 2 ^ Word - 1 THEN got
                 ELSE read[2, p + j + 1 + Codes[j], Append(got, Wrap(value, width)), value, changed]
  IN  read[0, 0, <<>>, 0, 0]

-----------------------------------------------------------------------------
(* The blocks of a column: encodeContent() and decode()                     *)

LesserOf(a, b) == IF a < b THEN a ELSE b

BlocksOf(column) ==
  [k \in 1 .. (Len(column) + BlockRows - 1) \div BlockRows |->
     SubSeq(column, (k - 1) * BlockRows + 1, LesserOf(k * BlockRows, Len(column)))]

(* encodeContent() throws, and nothing of the column is sent.               *)
Refused(column) ==
  \E k \in DOMAIN BlocksOf(column) :
    LET block == BlocksOf(column)[k]
    IN  OutOfRange(NotNull(block)) \/ Len(Written(block)) > Limit * Word

Decoded(blocks, rows) ==
  LET decode[k \in Nat, got \in Seq(Int)] ==
        IF k > Len(blocks) \/ Len(got) >= rows THEN got
        ELSE LET more == ReadData(blocks[k])
             IN  IF more = <<>> THEN got ELSE decode[k + 1, got \o more]
  IN  decode[1, <<>>]

-----------------------------------------------------------------------------
(* Properties *)

(* The first difference of a block needs one bit more than its type has:    *)
(* the bit is lost, and every value from the second on is another one.      *)
FirstDifferenceCut(block) ==
  LET values == NotNull(block)
  IN  Len(values) >= 2 /\ Delta(values, 2) # Wrap(Delta(values, 2), width)

(* The bits of the first value or difference and what follows, nulls as a   *)
(* rule, look like the end: the block ends there.                           *)
LooksLikeEnd(block) ==
  \E i \in DOMAIN block :
    LET k == Len(NotNull(SubSeq(block, 1, i)))
    IN  /\ block[i] # Null(width)
        /\ k <= 2
        /\ IsEnd(Written(block), i + (k - 1) * width)

(* A column that is not refused arrives as it was, over all blocks, but for *)
(* two things, and with either of them it does not: the difference of the   *)
(* first two values of a block that does not fit the type, and a value that *)
(* looks like the end.                                                      *)
ArrivesAsValues ==
  ~Refused(data) =>
    LET blocks == BlocksOf(data)
        spoilt == \E k \in DOMAIN blocks : FirstDifferenceCut(blocks[k]) \/ LooksLikeEnd(blocks[k])
    IN  Decoded([k \in DOMAIN blocks |-> Written(blocks[k])], Len(data)) = data <=> ~spoilt
=============================================================================
