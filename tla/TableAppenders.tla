---------------------------- MODULE TableAppenders ----------------------------
(***************************************************************************)
(* What becomes of the column of partitions of a table that is given to a  *)
(* PartitionedTableAppender, an AutoFitTableAppender or AutoFitTableUpsert *)
(* (src/src/DolphinDB.cpp), or row by row to a MultithreadedTableWriter:   *)
(* it is cast to the type of the column of the server's table, the keys of *)
(* its rows are asked of a Domain (src/src/DomainImp.cpp), and by the key  *)
(* a row goes to one of the threads.  README_CN.md:736: the server does    *)
(* not let two writers write to one partition at a time, and each thread   *)
(* must write to other partitions than the rest.  How the parts are sent is modelled in ConnectionPool and   *)
(* MultithreadedTableWriter.                                               *)
(***************************************************************************)
EXTENDS TemporalCasts, FiniteSets, Sequences, SequencesExt

CONSTANTS
  Columns,      \* the columns that are given: records of a type and the cells
  Threads,      \* threadCount_, or a writer's threads, of which one alone asks for no keys
  PartitionTypes, \* types of partitions
  Buckets,      \* buckets_ of a HashDomain
  ValueBuckets, \* buckets of a ValueDomain, 1048576 in the code
  Ranges,       \* for a type the bounds of a RangeDomain, rising
  Lists         \* for a type the lists of a ListDomain

(* Numbers are not cast: those of another width than the column's are left  *)
(* out.                                                                     *)
Types == Temporal \cup {"INT", "LONG"}

AppenderAssumption ==
  /\ \A column \in Columns : column.type \in Types /\ column.cells # <<>>
  /\ Threads \in Nat \ {0, 1}
  /\ {Buckets, ValueBuckets} \subseteq Nat \ {0}
  /\ PartitionTypes \subseteq Types
  /\ DOMAIN Ranges \subseteq Types /\ DOMAIN Lists \subseteq Types
  /\ \A type \in DOMAIN Ranges : \A i, j \in DOMAIN Ranges[type] : i < j => Ranges[type][i] < Ranges[type][j]

Domains ==
  {d \in [kind : {"HASH", "VALUE", "RANGE", "LIST"}, type : PartitionTypes] :
     /\ d.kind = "RANGE" => d.type \in DOMAIN Ranges
     /\ d.kind = "LIST" => d.type \in DOMAIN Lists}

VARIABLES
  table,       \* the column in the table of the caller
  columnType,  \* columnTypes_ of the appender
  domain,      \* domain_
  wide,        \* whether the compiler has seconds of hours computed in more than an int
  given,       \* what table was when it was given
  outcome,     \* "none", "refused", or sent: "parted", "fitted" or "inserted"
  sent,        \* the column as it is sent
  chunks       \* for each thread the numbers of the rows it sends

vars == <<table, columnType, domain, wide, given, outcome, sent, chunks>>

Rows == DOMAIN table.cells
NoChunks == [t \in 0 .. Threads - 1 |-> <<>>]

(* The server tells the types of its columns and its partitions; a          *)
(* partition has a type that its column can be cast to.                     *)
Init ==
  /\ table \in Columns
  /\ columnType \in Types
  /\ domain \in Domains
  /\ Castable(columnType, domain.type)
  /\ wide \in BOOLEAN
  /\ given = table
  /\ outcome = "none"
  /\ sent = table
  /\ chunks = NoChunks

-----------------------------------------------------------------------------
(* The domains *)

HashKey(type, buckets, n) ==
  IF n = Null(type) THEN -1
  ELSE (IF n >= 0 THEN n ELSE n + 2^Bits(type)) % buckets

(* asof(): the last of the bounds that is not above, by halves; places are  *)
(* counted from 0.  Mutant: a bound itself belongs to what is before it.    *)
AsOfBelow(bounds, target) ==
  LET find[low \in 0 .. Len(bounds), high \in -1 .. Len(bounds) - 1] ==
        IF low > high THEN high
        ELSE LET mid == (low + high) \div 2
             IN  IF bounds[mid + 1] < target THEN find[mid + 1, high] ELSE find[low, mid - 1]
  IN  find[0, Len(bounds) - 1]

AsOf(bounds, target) ==
  LET find[low \in 0 .. Len(bounds), high \in -1 .. Len(bounds) - 1] ==
        IF low > high THEN high
        ELSE LET mid == (low + high) \div 2
             IN  IF bounds[mid + 1] <= target THEN find[mid + 1, high] ELSE find[low, mid - 1]
  IN  find[0, Len(bounds) - 1]

(* The null of an int is asked for as a long, whose null has no bit that an *)
(* int keeps: it is looked up as 0.                                         *)
RangeKey(type, n) ==
  LET target == IF n = Null(type) THEN Held(type, Null("LONG")) ELSE n
      place == AsOf(Ranges[type], target)
  IN  IF place >= Len(Ranges[type]) - 1 THEN -1 ELSE place

(* A value of two lists is in the last.                                     *)
ListKey(type, n) ==
  LET lists == {i \in DOMAIN Lists[type] : n \in Lists[type][i]}
  IN  IF lists = {} THEN -1 ELSE (CHOOSE i \in lists : \A j \in lists : j <= i) - 1

(* getPartitionKeys(), which does not take a domain of values for LONG.     *)
HasKeys == domain.kind = "VALUE" => domain.type # "LONG"

PartitionKey(type, n) ==
  LET value == VectorCast(type, domain.type, wide, n)
  IN  CASE domain.kind = "HASH" -> HashKey(domain.type, Buckets, value)
        [] domain.kind = "VALUE" -> HashKey(domain.type, ValueBuckets, value)
        [] domain.kind = "RANGE" -> RangeKey(domain.type, value)
        [] domain.kind = "LIST" -> ListKey(domain.type, value)

-----------------------------------------------------------------------------
(* The appenders *)

Fitted ==
  [type |-> columnType,
   cells |-> [i \in Rows |-> VectorCast(table.type, columnType, wide, table.cells[i])]]

SendIn(column, threadOf(_)) ==
  /\ sent' = column
  /\ chunks' = [t \in DOMAIN chunks |-> SelectSeq([i \in Rows |-> i], LAMBDA i : threadOf(i) = t)]

Refuse == outcome' = "refused" /\ UNCHANGED <<sent, chunks>>

(* PartitionedTableAppender::append(): the column that was cast stays in    *)
(* the table of the caller, if it is refused too.                           *)
AppendPartitioned ==
  /\ outcome = "none"
  /\ UNCHANGED <<columnType, domain, wide, given>>
  /\ IF ~Castable(table.type, columnType) THEN Refuse /\ UNCHANGED table
     ELSE LET KeyOf(i) == PartitionKey(columnType, Fitted.cells[i])
          IN  /\ table' = Fitted
              /\ IF HasKeys /\ \A i \in Rows : KeyOf(i) >= 0
                   THEN outcome' = "parted" /\ SendIn(Fitted, LAMBDA i : KeyOf(i) % Threads)
                   ELSE Refuse

(* AutoFitTableAppender::append() and AutoFitTableUpsert::upsert()          *)
AutoFit ==
  /\ outcome = "none"
  /\ IF Castable(table.type, columnType)
       THEN outcome' = "fitted" /\ SendIn(Fitted, LAMBDA i : 0)
       ELSE Refuse
  /\ UNCHANGED <<table, columnType, domain, wide, given>>

(* MultithreadedTableWriter::insert() of rows whose cells are of the types  *)
(* of the columns: what has no key goes to the first thread.                *)
Insert ==
  /\ outcome = "none"
  /\ table.type = columnType
  /\ LET KeyOf(i) == PartitionKey(columnType, table.cells[i])
     IN  IF HasKeys
           THEN outcome' = "inserted"
                /\ SendIn(table, LAMBDA i : IF KeyOf(i) < 0 THEN 0 ELSE KeyOf(i) % Threads)
           ELSE Refuse
  /\ UNCHANGED <<table, columnType, domain, wide, given>>

Next == AppendPartitioned \/ AutoFit \/ Insert

Spec == Init /\ [][Next]_vars

-----------------------------------------------------------------------------
(* Properties *)

(* Whether a cast of n is the one it should be.                             *)
Right(from, to, vector, n, m) ==
  \/ n = Null(from) /\ m = Null(to)
  \/ n # Null(from) /\ m = Exact(from, to, n)
  \/ Inexact(from, to, vector, n)

(* The month of a day has begun on it, and the next has not.                *)
CalendarHolds(day) == FirstDay(MonthOf(day)) <= day /\ day < FirstDay(MonthOf(day) + 1)

(* The partition of the server that a cell of its column is in: its bucket, *)
(* its value, or the part of a range or the list; nothing, if there is none. *)
PartitionOf(n) ==
  LET value == Exact(columnType, domain.type, n)
  IN  CASE n = Null(columnType) -> {}
        [] n # Null(columnType) /\ domain.kind = "HASH" -> {HashKey(domain.type, Buckets, value)}
        [] n # Null(columnType) /\ domain.kind = "VALUE" -> {value}
        [] n # Null(columnType) /\ domain.kind = "RANGE" ->
             LET bounds == Ranges[domain.type]
             IN  {i \in 1 .. Len(bounds) - 1 : bounds[i] <= value /\ value < bounds[i + 1]}
        [] n # Null(columnType) /\ domain.kind = "LIST" ->
             {i \in DOMAIN Lists[domain.type] : value \in Lists[domain.type][i]}

Misplaced(n) == Inexact(columnType, domain.type, TRUE, n)

(* A null that a range has a place for, where an int is 0.                  *)
NullIsFound(n) ==
  /\ n = Null(columnType)
  /\ domain.kind = "RANGE" /\ domain.type \notin Longs
  /\ LET bounds == Ranges[domain.type] IN bounds[1] <= 0 /\ 0 < bounds[Len(bounds)]

(* What is sent is what was given, in the type of the server's column, and  *)
(* every row once and in its order; rows of one partition are sent by one   *)
(* thread; and where a table is sent in parts it is refused if one of its   *)
(* rows has no partition, and otherwise only for its type.  The code does   *)
(* not keep this for the casts that Inexact lists, and lets a null pass as  *)
(* NullIsFound says.                                                        *)
RowsReachPartitions ==
  /\ outcome \in {"parted", "fitted", "inserted"} =>
       /\ \A i \in Rows :
            /\ Right(given.type, columnType, TRUE, given.cells[i], sent.cells[i])
            /\ Right(given.type, columnType, FALSE, given.cells[i],
                     ScalarCast(given.type, columnType, wide, given.cells[i]))
            /\ given.type = "DATE" /\ given.cells[i] # Null("DATE") => CalendarHolds(given.cells[i])
            /\ Cardinality({t \in DOMAIN chunks : i \in Range(chunks[t])}) = 1
       /\ \A t \in DOMAIN chunks : \A j, k \in DOMAIN chunks[t] : j < k => chunks[t][j] < chunks[t][k]
       /\ outcome # "fitted" => \A t \in DOMAIN chunks, u \in DOMAIN chunks :
            t # u => \A i \in Range(chunks[t]), j \in Range(chunks[u]) :
                       \/ PartitionOf(sent.cells[i]) \cap PartitionOf(sent.cells[j]) = {}
                       \/ Misplaced(sent.cells[i]) \/ Misplaced(sent.cells[j])
  /\ outcome = "parted" =>
       \A i \in Rows : LET n == sent.cells[i]
                       IN  PartitionOf(n) # {} \/ Misplaced(n) \/ NullIsFound(n)
  /\ outcome = "refused" =>
       \/ ~Castable(given.type, columnType)
       \/ domain.kind = "VALUE" /\ domain.type = "LONG"
       \/ \E i \in Rows : LET n == VectorCast(given.type, columnType, wide, given.cells[i])
                          IN  PartitionOf(n) = {} \/ Misplaced(n)
=============================================================================
