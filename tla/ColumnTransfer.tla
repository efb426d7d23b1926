--------------------------- MODULE ColumnTransfer ---------------------------
(***************************************************************************)
(* The columns of strings of a table on their way from one side of a       *)
(* connection to the other (src/src/ConstantMarshall.cpp, Compress.cpp,    *)
(* SysIO.cpp).  A column is cut into pieces that fit a buffer, or into     *)
(* blocks that are compressed; the pieces are gathered in the buffer of    *)
(* the DataOutputStream; the socket delivers any number of bytes at a      *)
(* time; the DataInputStream keeps what has come and is not yet read in a  *)
(* buffer that it moves and enlarges; and a compressed column is read by a *)
(* thread of its own, which puts the blocks into a queue from which the    *)
(* column is read as from another DataInputStream.                         *)
(*                                                                         *)
(* A character is a number, as is the end of a string; a number sent, like *)
(* that of the rows, takes one place of the stream whatever its width.     *)
(* Blocks are not made smaller.                                            *)
(***************************************************************************)
EXTENDS Integers, Sequences

CONSTANTS
  Tables,           \* what may be sent: sequences of columns [compressed, strings]
  MarshallSize,     \* MARSHALL_BUFFER_SIZE
  MaxDecompressed,  \* MAX_DECOMPRESSED_SIZE
  FlushThreshold,   \* flushThreshold_ of the DataOutputStream
  BufferSize,       \* bufSize of the DataInputStream
  Spare,            \* what must be free or used up at the front: 1024
  QueueSize         \* capacity of the DataQueue: 1024

End == 0            \* '\0'
Return == 2         \* '\r'
PlainFlag == 0
CompressFlag == 1   \* DT_COMPRESS

HeaderSize == 2     \* CompressionFactory::Header: byteSize and elementCount

(* What the constants must be.  A compressed string that fills two blocks  *)
(* is begun again for ever.                                                 *)
TransferAssumption ==
  /\ {MarshallSize - 2, MaxDecompressed, FlushThreshold, BufferSize, Spare, QueueSize} \subseteq Nat \ {0}
  /\ \A table \in Tables : \A k \in DOMAIN table :
       \A i \in DOMAIN table[k].strings :
         LET string == table[k].strings[i]
         IN  /\ \A j \in DOMAIN string : string[j] # End
             /\ table[k].compressed => Len(string) < 2 * MaxDecompressed

VARIABLES
  table,
  (* sender *)
  pieces,      \* buffers not yet given to the DataOutputStream
  unsent,      \* its buf_
  (* the connection *)
  wire,        \* what is under way
  broken,
  (* in_, the DataInputStream of the socket *)
  held,        \* buf_ from cursor_ on, size_ bytes
  cursor, capacity,
  (* the reading thread *)
  at,          \* flag | header | rows | strings | join | done | failed
  rows,        \* rows_
  column,      \* the strings of the column read so far
  received,    \* colObjs_
  (* the decoding thread and the queue between them *)
  decoder,     \* none | meta | size | bytes | push | done | failed
  left,        \* byteSize - fileCursor
  blockSize,
  part,        \* compressedBuf
  queue,       \* dataQueue_
  block,       \* what is left of the DataBlock that is read
  text,        \* value, of a string that is in more than one block
  (* history *)
  garbage      \* a header was used that had not come

sender == <<table, pieces, unsent>>
input == <<held, cursor, capacity>>
decoding == <<decoder, left, blockSize, part>>
inputQueue == <<block, text>>
reading == <<at, rows, column, received>>
vars == <<sender, wire, broken, input, reading, decoding, queue, inputQueue, garbage>>

-----------------------------------------------------------------------------
(* Cutting a column into pieces *)

(* StringVector::serialize() into a buffer with some room, from a string    *)
(* and an offset in it on: the cells, how many strings were completed and   *)
(* how much of the next one was taken.                                      *)
Serialized(strings, room, from, off) ==
  LET n == Len(strings)
      piece[i \in 0 .. n, r \in 0 .. room, o \in Nat] ==
        IF r = 0 \/ i = n THEN [cells |-> <<>>, count |-> 0, partial |-> 0]
        ELSE LET rest == SubSeq(strings[i + 1] \o <<End>>, o + 1, Len(strings[i + 1]) + 1)
             IN  IF Len(rest) > r
                 THEN [cells |-> SubSeq(rest, 1, r), count |-> 0, partial |-> o + r]
                 ELSE LET more == piece[i + 1, r - Len(rest), 0]
                      IN  [more EXCEPT !.cells = rest \o @, !.count = @ + 1]
  IN  piece[from, room, off]

(* VectorMarshall::writeMetaValues(): the first piece comes after the flag  *)
(* and the rows, the others have the buffer to themselves.                  *)
Offset(p) == p.partial

PlainPieces(strings) ==
  LET n == Len(strings)
      others[from \in 0 .. n, off \in Nat] ==
        IF from = n THEN <<>>
        ELSE LET p == Serialized(strings, MarshallSize, from, off)
             IN  <<p.cells>> \o others[from + p.count, Offset(p)]
      first == Serialized(strings, MarshallSize - 2, 0, 0)
  IN  << <<PlainFlag, n>> \o first.cells >> \o others[first.count, Offset(first)]

(* CompressLZ4::encodeContent(): a block ends with the last string that     *)
(* fits.  A string that does not fit by itself is begun again after what    *)
(* did fit, which is lost.                                                  *)
(* Mutant: the beginning of the next string stays in the block.             *)
WithBeginning(p) == IF p.count > 0 THEN p.cells ELSE <<>>

WholeStrings(p) == SubSeq(p.cells, 1, Len(p.cells) - p.partial)

Blocks(strings) ==
  LET n == Len(strings)
      blocks[from \in 0 .. n] ==
        IF from = n THEN <<>>
        ELSE LET p == Serialized(strings, MaxDecompressed, from, 0)
                 again == Serialized(strings, MaxDecompressed, from, p.partial)
             IN  IF WholeStrings(p) # <<>>
                 THEN <<WholeStrings(p)>> \o blocks[from + p.count]
                 ELSE <<again.cells>> \o blocks[from + again.count]
  IN  blocks[0]

CompressedPieces(strings) ==
  LET blocks == Blocks(strings)
      framed == [k \in DOMAIN blocks |-> <<Len(blocks[k])>> \o blocks[k]]
      size[k \in 0 .. Len(framed)] == IF k = 0 THEN 0 ELSE size[k - 1] + Len(framed[k])
  IN  << <<CompressFlag>>, <<HeaderSize + size[Len(framed)], Len(strings)>> >> \o framed

(* VectorMarshall::start() of every column, by TableMarshall::start()       *)
PiecesOf(t) ==
  LET of[k \in 0 .. Len(t)] ==
        IF k = 0 THEN <<>>
        ELSE of[k - 1] \o IF t[k].compressed THEN CompressedPieces(t[k].strings)
                                             ELSE PlainPieces(t[k].strings)
  IN  of[Len(t)]

Init ==
  /\ table \in Tables
  /\ pieces = PiecesOf(table)
  /\ unsent = <<>>
  /\ wire = <<>> /\ broken = FALSE
  /\ held = <<>> /\ cursor = 0 /\ capacity = BufferSize
  /\ at = "flag" /\ rows = 0 /\ column = <<>> /\ received = <<>>
  /\ decoder = "none" /\ left = 0 /\ blockSize = 0 /\ part = <<>>
  /\ queue = <<>> /\ block = <<>> /\ text = <<>>
  /\ garbage = FALSE

-----------------------------------------------------------------------------
(* Sending *)

(* BufferWriter::start() with DataOutputStream::write(): what does not      *)
(* reach the threshold is kept, what does goes out behind what was kept.    *)
Write ==
  LET all == unsent \o Head(pieces)
  IN  /\ pieces # <<>> /\ ~broken
      /\ pieces' = Tail(pieces)
      /\ unsent' = IF Len(all) < FlushThreshold THEN all ELSE <<>>
      /\ wire' = IF Len(all) < FlushThreshold THEN wire ELSE wire \o all
      /\ UNCHANGED <<table, broken, input, reading, decoding, queue, inputQueue, garbage>>

(* DataOutputStream::resume() for flush()                                   *)
Flush ==
  /\ pieces = <<>> /\ unsent # <<>> /\ ~broken
  /\ wire' = wire \o unsent
  /\ unsent' = <<>>
  /\ UNCHANGED <<table, pieces, broken, input, reading, decoding, queue, inputQueue, garbage>>

(* The connection breaks: nothing more is sent, and of what is under way    *)
(* only a part arrives.                                                     *)
Break ==
  /\ ~broken
  /\ broken' = TRUE
  /\ \E n \in 0 .. Len(wire) : wire' = SubSeq(wire, 1, n)
  /\ UNCHANGED <<sender, input, reading, decoding, queue, inputQueue, garbage>>

-----------------------------------------------------------------------------
(* The DataInputStream of the socket *)

Drop(seq, n) == SubSeq(seq, n + 1, Len(seq))

(* Socket::read(): as much as there is, room permitting, or less.           *)
Arrive(n) == wire' = Drop(wire, n)

Lost == broken /\ wire = <<>>

(* prepareBytes(length): the buffer is enlarged or its contents moved to    *)
(* the front when the bytes would not fit.                                  *)
PrepareBytes(length) ==
  LET enlarged == IF capacity < length THEN length ELSE capacity
      start == IF enlarged - cursor < length \/ capacity < length THEN 0 ELSE cursor
      room == enlarged - start - Len(held)
  IN  /\ Len(held) < length
      /\ \E n \in 1 .. Len(wire) :
           /\ n <= room
           /\ Arrive(n)
           /\ held' = held \o SubSeq(wire, 1, n)
      /\ capacity' = enlarged
      /\ cursor' = start

HasEnd(seq) == \E k \in DOMAIN seq : seq[k] = End

EndOf(seq) == CHOOSE k \in DOMAIN seq : seq[k] = End /\ \A j \in 1 .. k - 1 : seq[j] # End

(* prepareBytesEndWith('\0'): once more with what has come since.           *)
PrepareString ==
  LET size == Len(held)
      spare == capacity - size - cursor >= Spare
      enlarged == IF spare \/ cursor >= Spare THEN capacity ELSE 2 * capacity
      start == IF spare THEN cursor ELSE 0
  IN  /\ ~HasEnd(held)
      /\ \E n \in 1 .. Len(wire) :
           /\ n <= enlarged - start - size
           /\ Arrive(n)
           /\ held' = held \o SubSeq(wire, 1, n)
      /\ capacity' = enlarged
      /\ cursor' = start

(* readBytes(): the first bytes of what is held.                            *)
Consume(n) ==
  /\ Len(held) >= n
  /\ held' = Drop(held, n)
  /\ cursor' = cursor + n
  /\ UNCHANGED <<capacity, wire>>

(* readString() drops the '\r' that a string ends with, as readLine() does. *)
WithoutReturn(s) ==
  IF s # <<>> /\ s[Len(s)] = Return THEN SubSeq(s, 1, Len(s) - 1) ELSE s

-----------------------------------------------------------------------------
(* The DataInputStream of the queue *)

(* prepareData(): the next block once the last one is read.                 *)
PrepareData ==
  /\ block = <<>> /\ queue # <<>>
  /\ block' = Head(queue)
  /\ queue' = Tail(queue)
  /\ UNCHANGED text

(* readInt()                                                                *)
ReadQueued(n) ==
  /\ block # <<>>
  /\ Head(block) = n
  /\ block' = Tail(block)
  /\ UNCHANGED <<text, queue>>

(* readString(), a block at a time                                          *)
ReadQueuedString ==
  /\ block # <<>>
  /\ IF HasEnd(block)
     THEN /\ column' = Append(column, text \o SubSeq(block, 1, EndOf(block) - 1))
          /\ block' = Drop(block, EndOf(block))
          /\ text' = <<>>
     ELSE /\ text' = text \o block
          /\ block' = <<>>
          /\ UNCHANGED column
  /\ UNCHANGED queue

-----------------------------------------------------------------------------
(* Reading: TableUnmarshall::start() with VectorUnmarshall::start() *)

FromQueue == decoder # "none"

NextColumn(strings) ==
  /\ received' = Append(received, strings)
  /\ column' = <<>>
  /\ at' = IF Len(received) + 1 = Len(table) THEN "done" ELSE "flag"

ReadFlag ==
  /\ at = "flag"
  /\ \/ PrepareBytes(1) /\ UNCHANGED at
     \/ Consume(1) /\ at' = IF held[1] = CompressFlag THEN "header" ELSE "rows"
  /\ decoder' = "none"
  /\ UNCHANGED <<sender, broken, rows, column, received, left, blockSize, part,
                 queue, inputQueue, garbage>>

(* The header of a compressed column, and a thread to read the column.      *)
(* Whether the header has come is not looked at: without it the thread is   *)
(* given whatever is in its place.                                          *)
StartDecoder(byteSize, count) ==
  /\ decoder' = "meta"
  /\ left' = byteSize - HeaderSize
  /\ rows' = count
  /\ part' = <<>> /\ queue' = <<>> /\ block' = <<>> /\ text' = <<>>
  /\ at' = "rows"
  /\ UNCHANGED blockSize

ReadHeader ==
  /\ at = "header"
  /\ \/ /\ PrepareBytes(HeaderSize)
        /\ UNCHANGED <<reading, decoding, queue, inputQueue, garbage>>
     \/ /\ Consume(HeaderSize)
        /\ StartDecoder(held[1], held[2])
        /\ UNCHANGED <<column, received, garbage>>
     \/ /\ Lost /\ Len(held) < HeaderSize
        /\ \E count \in {-1, 0, 1}, size \in {0, 1} :
             \/ StartDecoder(HeaderSize + size, count)
             \/ /\ decoder' = "failed" /\ at' = "rows"
                /\ part' = <<>> /\ queue' = <<>> /\ block' = <<>> /\ text' = <<>>
                /\ UNCHANGED <<left, blockSize, rows>>
        /\ garbage' = TRUE
        /\ UNCHANGED <<wire, input, column, received>>
  /\ UNCHANGED <<sender, broken>>

(* rows_; a column without rows is complete, and its thread not waited for. *)
Rows(n) ==
  /\ rows' = n
  /\ IF n < 0 THEN at' = "failed" /\ UNCHANGED <<column, received>>
     ELSE IF n = 0 THEN NextColumn(<<>>)
     ELSE at' = "strings" /\ UNCHANGED <<column, received>>

ReadRows ==
  /\ at = "rows" /\ ~FromQueue
  /\ \/ PrepareBytes(1) /\ UNCHANGED reading
     \/ Consume(1) /\ Rows(held[1])
  /\ UNCHANGED <<sender, broken, decoding, queue, inputQueue, garbage>>

ReadQueuedRows ==
  /\ at = "rows" /\ FromQueue
  /\ \/ PrepareData /\ UNCHANGED reading
     \/ block # <<>> /\ ReadQueued(Head(block)) /\ Rows(Head(block))
  /\ UNCHANGED <<sender, wire, broken, input, decoding, garbage>>

(* StringVector::deserialize() from the socket                              *)
ReadString ==
  /\ at = "strings" /\ ~FromQueue
  /\ \/ PrepareString /\ UNCHANGED reading
     \/ /\ HasEnd(held)
        /\ Consume(EndOf(held))
        /\ LET strings == Append(column, WithoutReturn(SubSeq(held, 1, EndOf(held) - 1)))
           IN  IF Len(strings) = rows THEN NextColumn(strings)
               ELSE column' = strings /\ UNCHANGED <<at, received>>
        /\ UNCHANGED rows
  /\ UNCHANGED <<sender, broken, decoding, queue, inputQueue, garbage>>

(* StringVector::deserialize() from the queue                               *)
ReadStringOfQueue ==
  /\ at = "strings" /\ FromQueue
  /\ \/ PrepareData /\ UNCHANGED <<at, column>>
     \/ ReadQueuedString /\ at' = IF Len(column') = rows THEN "join" ELSE at
  /\ UNCHANGED <<sender, wire, broken, input, rows, received, decoding, garbage>>

(* decodeThread->join()                                                     *)
Join ==
  /\ at = "join"
  /\ decoder \in {"done", "failed"}
  /\ NextColumn(column)
  /\ UNCHANGED <<sender, wire, broken, input, rows, decoding, queue, inputQueue, garbage>>

(* The socket fails a read of this thread.                                  *)
ReadFails ==
  /\ Lost
  /\ \/ at = "flag" /\ held = <<>>
     \/ at = "rows" /\ ~FromQueue /\ held = <<>>
     \/ at = "strings" /\ ~FromQueue /\ ~HasEnd(held)
  /\ at' = "failed"
  /\ UNCHANGED <<sender, wire, broken, input, rows, column, received, decoding, queue,
                 inputQueue, garbage>>

-----------------------------------------------------------------------------
(* The decoding thread: CompressLZ4::decode() *)

Room == Len(queue) < QueueSize

(* Mutant: one byte too many.                                               *)
MoreThanNone(n) == n >= 0

MoreBlocks(n) == n > 0

Continue(n) == IF MoreBlocks(n) THEN "size" ELSE "done"

(* writeVectorMetaValue()                                                   *)
DecodeMeta ==
  /\ decoder = "meta" /\ Room
  /\ queue' = Append(queue, <<rows>>)
  /\ decoder' = Continue(left)
  /\ UNCHANGED <<sender, wire, broken, input, reading, left, blockSize, part, inputQueue, garbage>>

DecodeSize ==
  /\ decoder = "size"
  /\ \/ PrepareBytes(1) /\ UNCHANGED decoding
     \/ /\ Consume(1)
        /\ blockSize' = held[1]
        /\ decoder' = IF held[1] \in 1 .. left - 1 THEN "bytes" ELSE "failed"
        /\ left' = left - 1
        /\ part' = <<>>
  /\ UNCHANGED <<sender, broken, reading, queue, inputQueue, garbage>>

(* readBytes(buf, length, actualLength): first what is held, then from the  *)
(* socket no more than is missing.                                          *)
DecodeBytes ==
  /\ decoder = "bytes"
  /\ LET missing == blockSize - Len(part)
         taken == IF Len(held) < missing THEN Len(held) ELSE missing
     IN  IF missing = 0
         THEN /\ decoder' = "push" /\ left' = left - blockSize
              /\ UNCHANGED <<part, wire, input>>
         ELSE /\ IF taken > 0
                 THEN part' = part \o SubSeq(held, 1, taken) /\ Consume(taken)
                 ELSE /\ \E n \in 1 .. Len(wire) :
                           n <= missing /\ Arrive(n) /\ part' = part \o SubSeq(wire, 1, n)
                      /\ UNCHANGED input
              /\ UNCHANGED <<decoder, left>>
  /\ UNCHANGED <<sender, broken, reading, blockSize, queue, inputQueue, garbage>>

DecodePush ==
  /\ decoder = "push" /\ Room
  /\ queue' = Append(queue, part)
  /\ decoder' = Continue(left)
  /\ UNCHANGED <<sender, wire, broken, input, reading, left, blockSize, part, inputQueue, garbage>>

(* A read fails: the thread ends, and the queue does not say so.            *)
DecodeFails ==
  /\ Lost
  /\ \/ decoder = "size" /\ held = <<>>
     \/ decoder = "bytes" /\ held = <<>> /\ Len(part) < blockSize
  /\ decoder' = "failed"
  /\ UNCHANGED <<sender, wire, broken, input, reading, left, blockSize, part, queue,
                 inputQueue, garbage>>

-----------------------------------------------------------------------------
Sending == Write \/ Flush

Reading ==
  \/ ReadFlag \/ ReadHeader \/ ReadRows \/ ReadQueuedRows
  \/ ReadString \/ ReadStringOfQueue \/ Join \/ ReadFails

Decoding == DecodeMeta \/ DecodeSize \/ DecodeBytes \/ DecodePush \/ DecodeFails

Next == Sending \/ Break \/ Reading \/ Decoding

Fairness == WF_vars(Sending) /\ WF_vars(Reading) /\ WF_vars(Decoding)

Spec == Init /\ [][Next]_vars /\ Fairness

-----------------------------------------------------------------------------
(* Properties *)

Fits(c) == c.compressed => \A i \in DOMAIN c.strings : Len(c.strings[i]) < MaxDecompressed

Arrived(c) ==
  IF c.compressed THEN c.strings ELSE [i \in DOMAIN c.strings |-> WithoutReturn(c.strings[i])]

(* The columns come as they were sent, however the pieces, the segments and *)
(* the blocks fall and wherever the connection breaks: nothing is lost,     *)
(* repeated or taken from the next column by either thread.  The code keeps *)
(* this but for a '\r' at the end of an uncompressed string, a compressed   *)
(* string that does not fit a block, and a header that did not come.        *)
ColumnsAsSent ==
  ~garbage /\ (\A k \in DOMAIN table : Fits(table[k])) =>
    /\ Len(received) <= Len(table)
    /\ \A k \in DOMAIN received : received[k] = Arrived(table[k])

(* The decoding thread has ended and the reading one waits for its blocks.  *)
Deserted ==
  /\ decoder \in {"done", "failed"}
  /\ at \in {"rows", "strings"}
  /\ block = <<>> /\ queue = <<>>

(* Reading ends, with the columns or with an error, and if the connection   *)
(* holds then with all columns.  The one exception the code makes: when     *)
(* the decoding thread ends for an error, nobody tells the reading one,     *)
(* which waits for the next block for ever (prepareData() in SysIO.cpp).    *)
ReadingEnds ==
  /\ <>(at \in {"done", "failed"} \/ Deserted)
  /\ <>[](broken \/ at = "done")
=============================================================================
